--------------------------- MODULE MCPyHttpServer ---------------------------
(***************************************************************************)
(* PyHttpServer for TLC: a limit of two bytes, bodies of none, two, three.  *)
(***************************************************************************)
EXTENDS PyHttpServer

MCSizes == {0, 2, 3}
=============================================================================
