-------------------------- MODULE MCDecisionEngine --------------------------
(***************************************************************************)
(* Small instances of DecisionEngine for TLC.                              *)
(***************************************************************************)
EXTENDS DecisionEngine

CONSTANTS q1, q2, q3, a, b, c

ThreeQuestions == {q1, q2, q3}
ThreeKeys == {a, b, c}
=============================================================================
