----------------------------- MODULE MCBlockWatch -----------------------------
(* The watcher alone, with the blocks of MCClient. *)
EXTENDS BlockWatch
=============================================================================
