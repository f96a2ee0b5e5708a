------------------------------ MODULE MCCompress ------------------------------
(* An instance of Compress for TLC: a layer and a client that names gzip or   *)
(* "*", with a q-value of 0 among others.                                     *)
EXTENDS Compress
=============================================================================
