---------------------------- MODULE MCOwnedMoves ----------------------------
(* Two files and two directories: one platform each for an organisation,    *)
(* the quarantine root and one bucket for a quarantine.                     *)
EXTENDS OwnedMoves

CONSTANTS e1, e2, d1, d2

MCEntries == <<e1, e2>>
MCPlanned == <<d1, d2>>
MCPlatform == (e1 :> d1) @@ (e2 :> d2)
=============================================================================
