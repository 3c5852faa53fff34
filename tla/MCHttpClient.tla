---------------------------- MODULE MCHttpClient ----------------------------
(* TLC instances of HttpClient.                                            *)
EXTENDS HttpClient
=============================================================================
