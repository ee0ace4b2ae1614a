---------------------------- MODULE MCCheatCache ----------------------------
(***************************************************************************)
(* The cheat cache on a small instance.  Nothing in the model tells two    *)
(* processes or two digests apart, and no property is a liveness property. *)
(***************************************************************************)
EXTENDS CheatCache, TLC

Symmetry == Permutations(Procs) \cup Permutations(Shas)

=============================================================================
