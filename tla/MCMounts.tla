------------------------------ MODULE MCMounts ------------------------------
(***************************************************************************)
(* Mounts for TLC: two archives with one base name, the second of which    *)
(* shows an empty directory when it is mounted.  The library starts with   *)
(* one of them or with both, so that the name clash can come or go.        *)
(***************************************************************************)
EXTENDS Mounts

CONSTANTS a1, a2, game

MCArchives == {a1, a2}
MCBase == [a \in MCArchives |-> game]
MCEmpty == {a2}
MCInit == Init /\ library \in {{a1}, MCArchives}
MCSpec == MCInit /\ [][Next]_vars
Symmetry == Permutations(Procs)
=============================================================================
