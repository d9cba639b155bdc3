--------------------------- MODULE MCWorkspacePool ---------------------------
(***************************************************************************)
(* Small instances of WorkspacePool for TLC.                               *)
(***************************************************************************)
EXTENDS WorkspacePool

CONSTANTS l1, l2, k1, k2

TwoLeases == {l1, l2}
TwoKeys == {k1, k2}
TwoSizes == {1, 2}
Limits == {0, 2}
=============================================================================
