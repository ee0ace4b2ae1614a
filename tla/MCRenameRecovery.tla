-------------------------- MODULE MCRenameRecovery --------------------------
(***************************************************************************)
(* RenameRecovery for TLC: two entries, the first a case-only rename (s1   *)
(* and d1 differ only by case).  Each entry's object is a foreign object   *)
(* to the other entry, so two objects are enough.  Crashes, failed writes, *)
(* external changes and calls are not bounded.                             *)
(***************************************************************************)
EXTENDS RenameRecovery

CONSTANTS s1, s2, d1, d2, o1, o2

MCPaths == {s1, s2, d1, d2}
MCSrc == <<s1, s2>>
MCDst == <<d1, d2>>
MCObjects == {o1, o2}
MCObj == <<o1, o2>>
MCCaseTwins == [p \in MCPaths |-> CASE p = d1 -> {s1} [] p = s1 -> {d1} [] OTHER -> {}]
MCPermitted == {1, 2}
=============================================================================
