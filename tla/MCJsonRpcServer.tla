--------------------------- MODULE MCJsonRpcServer ---------------------------
(***************************************************************************)
(* JsonRpcServer for TLC.  JsonRpc.cfg gives the constants their values; no *)
(* symmetry is declared, since the run checks liveness as well.            *)
(***************************************************************************)
EXTENDS JsonRpcServer
==============================================================================
