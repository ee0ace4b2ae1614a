---------------------------- MODULE MCRenameGui -----------------------------
(***************************************************************************)
(* RenameGui for TLC: two entries; x is another program's file, which may  *)
(* already be at the second destination.                                   *)
(***************************************************************************)
EXTENDS RenameGui

CONSTANTS s1, s2, d1, d2, o1, o2, x

MCPaths == {s1, s2, d1, d2}
MCSrc == <<s1, s2>>
MCDst == <<d1, d2>>
MCObjects == {o1, o2, x}
MCObj == <<o1, o2>>
MCCaseTwins == [p \in MCPaths |-> {}]
MCPermitted == {1, 2}

\* The destinations are free, or another program's file is at the second.
MCInit ==
    /\ Init
    /\ fs[d1] = None
    /\ fs[d2] \in {x, None}

MCSpec == MCInit /\ [][Next]_vars /\ Fairness
=============================================================================
