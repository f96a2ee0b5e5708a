----------------------------- MODULE MCPipeline -----------------------------
(* Instances of Pipeline for TLC. *)
EXTENDS Pipeline, TLC
NestedLoggers == {2, 4}
TwoCodes == {200, 500}
=============================================================================
