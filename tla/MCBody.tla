------------------------------- MODULE MCBody -------------------------------
(* Instances of Body for TLC. *)
EXTENDS Body, TLC
CONSTANTS inner, outer
TwoLoggers == {inner, outer}
OneLogger == {inner}
SmallChunks == {1, 2}
=============================================================================
