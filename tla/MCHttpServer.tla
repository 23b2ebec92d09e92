---------------------------- MODULE MCHttpServer ----------------------------
(***************************************************************************)
(* Two clients for HttpServer.                                             *)
(***************************************************************************)
EXTENDS HttpServer, TLC

CONSTANTS c1, c2

TwoClients == {c1, c2}
ClientSymmetry == Permutations(TwoClients)
=============================================================================
