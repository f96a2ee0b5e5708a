----------------------------- MODULE MCDieselPool -----------------------------
(* Two tasks, one connection and one blocking thread, as in MCShared.         *)
EXTENDS DieselPool
=============================================================================
