--------------------------- MODULE WorkspaceLeases ---------------------------
(***************************************************************************)
(* What the workspace pool promises its callers (the documentation at the  *)
(* head of crates/runtime/src/workspace.rs): a lease is granted for the    *)
(* whole set of requests or not at all, every granted segment was idle or  *)
(* is new, has the requested key and is large enough, no segment is ever   *)
(* in two leases, and only idle segments are evicted.                      *)
(***************************************************************************)
EXTENDS Naturals

CONSTANTS Lease, NoLease

VARIABLES
  idle,     \* segments kept for reuse: [id, key, capacity]
  leased,   \* [requests, segments] of each live lease, else NoLease
  issued    \* identifiers handed out so far

vars == <<idle, leased, issued>>

Init ==
  /\ idle = {}
  /\ leased = [l \in Lease |-> NoLease]
  /\ issued = 0

Serves(s, r) == s.key = r.key /\ s.capacity >= r.bytes

New(s) == s.id >= issued /\ s.id < issued'

\* Lease l is granted, one segment for each request.
Grant(l) ==
  LET requests == leased'[l].requests
      segments == leased'[l].segments
  IN  /\ leased[l] = NoLease /\ leased'[l] # NoLease
      /\ leased' = [leased EXCEPT ![l] = leased'[l]]
      /\ DOMAIN segments = DOMAIN requests
      /\ \A i \in DOMAIN requests : Serves(segments[i], requests[i])
      /\ \A i \in DOMAIN requests : segments[i] \in idle \/ New(segments[i])
      /\ \A i, j \in DOMAIN requests : segments[i].id = segments[j].id => i = j
      /\ idle' = idle \ {segments[i] : i \in DOMAIN requests}
      /\ issued' >= issued

Return(l) ==
  /\ leased[l] # NoLease
  /\ leased' = [leased EXCEPT ![l] = NoLease]
  /\ idle' = idle \cup {leased[l].segments[i] : i \in DOMAIN leased[l].segments}
  /\ UNCHANGED issued

Evict ==
  /\ idle' \subseteq idle
  /\ UNCHANGED <<leased, issued>>

Next == (\E l \in Lease : Grant(l) \/ Return(l)) \/ Evict

Spec == Init /\ [][Next]_vars
=============================================================================
