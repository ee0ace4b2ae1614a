----------------------------- MODULE MCWatcher -----------------------------
(* The watcher over two directories and one archive that moves between them. *)
EXTENDS Watcher
=============================================================================
