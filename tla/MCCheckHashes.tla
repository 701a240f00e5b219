--------------------------- MODULE MCCheckHashes ---------------------------
(* Five tasks: one in SSTATE_DIR, some on a mirror, some nowhere, of which *)
(* one may run.                                                           *)
EXTENDS CheckHashes
CONSTANTS t1, t2, t3, t4, t5, w1, w2, w3
=============================================================================
