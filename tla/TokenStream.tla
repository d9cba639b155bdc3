----------------------------- MODULE TokenStream -----------------------------
(***************************************************************************)
(* What a generation session promises its client (AutoRegressive.ts,       *)
(* Runtime.ts InferenceRuntime): a round publishes one page per selected   *)
(* sequence, nothing further is generated until the client holds those     *)
(* pages, and every token of a sequence reaches it once and in order.  A   *)
(* token is its position in its sequence, so a stream is two counters.     *)
(***************************************************************************)
EXTENDS Naturals

CONSTANT Ids

VARIABLES
  open,       \* sequences the session generates for
  emitted,    \* tokens published for a sequence
  delivered,  \* tokens the client has received
  closed

vars == <<open, emitted, delivered, closed>>

Init ==
  /\ open = {}
  /\ emitted = [id \in Ids |-> 0]
  /\ delivered = [id \in Ids |-> 0]
  /\ closed = FALSE

\* Admission opens fresh sequences with their first token; a round extends
\* open ones.  Nothing is published over undelivered pages.
Publish(S) ==
  /\ ~ closed /\ S # {}
  /\ emitted = delivered
  /\ \A id \in S \ open : emitted[id] = 0
  /\ open' = open \cup S
  /\ emitted' \in [Ids -> Nat]
  /\ \A id \in Ids :
       IF id \in S THEN emitted'[id] > emitted[id]
                   ELSE emitted'[id] = emitted[id]
  /\ UNCHANGED <<delivered, closed>>

Deliver ==
  /\ ~ closed
  /\ emitted # delivered
  /\ delivered' = emitted
  /\ UNCHANGED <<open, emitted, closed>>

Finish(id) ==
  /\ id \in open
  /\ emitted = delivered
  /\ open' = open \ {id}
  /\ UNCHANGED <<emitted, delivered, closed>>

Close ==
  /\ ~ closed
  /\ closed' = TRUE
  /\ open' = {}
  /\ UNCHANGED <<emitted, delivered>>

Next ==
  \/ \E S \in SUBSET Ids : Publish(S)
  \/ Deliver
  \/ \E id \in Ids : Finish(id)
  \/ Close

Spec == Init /\ [][Next]_vars
=============================================================================
