----------------------------- MODULE MCWorkQueue -----------------------------
(* Instance of WorkQueue for TLC: constants are model values in the .cfg.  *)
EXTENDS WorkQueue
=============================================================================
