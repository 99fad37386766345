------------------------- MODULE MC_Connections ----------------------------
(* Small bounds for checking Connections with TLC.                         *)
EXTENDS Connections, TLC

\* Two pids: 1 equals a handle value, 5 equals none.
MC_Pids == {1, 5}

MC_SnapLens == {0, 1, 2}

\* The process maps only: the module maps run the same code.
MC_ProcessKind == {"process"}
MC_BothKinds == {"process", "module"}

ConnSymmetry == Permutations(Conns)

=============================================================================
