----------------------------- MODULE MCRoutePath -----------------------------
(* Matching on the paths of MCPaths.                                          *)
EXTENDS Matching, MCPaths
=============================================================================
