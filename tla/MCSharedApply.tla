--------------------------- MODULE MCSharedApply ----------------------------
(***************************************************************************)
(* SharedApply for TLC: two operations, the first over two files with a    *)
(* common parent, the second over the first of them.  The files are absent *)
(* at first, or the first one holds what the second operation installs.    *)
(***************************************************************************)
EXTENDS SharedApply

CONSTANTS p1, p2, f1, f2, d, u, n1, n2

MCOps == {p1, p2}
MCFiles == {f1, f2}
MCDirs == {d}
MCDir == [f \in MCFiles |-> d]
MCUserContents == {u}
MCFirstContents == [f \in MCFiles |-> IF f = f1 THEN {n2} ELSE {}]
MCContents == {u, n1, n2}
MCNew == [o \in MCOps |-> IF o = p1 THEN n1 ELSE n2]
MCTargets == [o \in MCOps |-> IF o = p1 THEN <<f1, f2>> ELSE <<f1>>]
=============================================================================
