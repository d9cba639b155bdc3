------------------------- MODULE MCGenerationSession -------------------------
(***************************************************************************)
(* Small instances of GenerationSession for TLC.                           *)
(***************************************************************************)
EXTENDS GenerationSession, TLC

CONSTANTS c1, c2, c3, p, q, x, y

TwoCalls == {c1, c2}
ThreeCalls == {c1, c2, c3}
OnePrompt == {p}
TwoPrompts == {p, q}
OneLane == {x}
TwoLanes == {x, y}

\* Calls, prompts and lanes are interchangeable.
FullSymmetry ==
  Permutations(Calls) \cup Permutations(Prompt) \cup Permutations(Lanes)
=============================================================================
