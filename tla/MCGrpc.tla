------------------------------- MODULE MCGrpc -------------------------------
(* TLC instances of Grpc: the interceptor chains of the runs.              *)
EXTENDS Grpc

MCServerChain == {<<"log">>}
MCServiceChain == {<<"jwt">>}
=============================================================================
