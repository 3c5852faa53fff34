---------------------------- MODULE MCHttpServer ----------------------------
(* TLC instances of HttpServer: the chains and patterns of the runs.       *)
EXTENDS HttpServer

\* A literal route, and one with a parameter that matches every path.
MCMatches == [p \in Path |-> IF p = "GET /health" THEN {"GET /health", "GET /:name"}
                             ELSE {"GET /:name"}]

\* One group logs inside authentication, another sets headers; the health route is bare.
MCRouteChain == {<<"auth", "log">>, <<"headers">>}
=============================================================================
