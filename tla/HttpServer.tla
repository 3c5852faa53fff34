----------------------------- MODULE HttpServer -----------------------------
(***************************************************************************)
(* config/server/http/server.ts with the middlewares that the package      *)
(* ships for it: httpLogger (logger/middlewares/http.ts), securityHeaders, *)
(* jwtMiddleware and cookieMiddleware (security/middlewares).              *)
(*                                                                         *)
(* Routes and global middleware are registered while the server runs; a    *)
(* listener keeps the global chain it was composed with, and reads the     *)
(* live array of routes for every request.  A request goes down the chain, *)
(* each middleware awaiting the next, and its response comes back up.      *)
(***************************************************************************)
EXTENDS Integers, Sequences, FiniteSets, SequencesExt

CONSTANTS Listener,      \* values returned by Deno.serve
          None,          \* no listener
          Path,          \* methods and paths of requests
          Pattern,       \* methods and patterns of routes
          Matches,       \* the patterns that match each path
          Request,       \* requests in flight
          Global,        \* middleware given to use: a subset of Kind
          RouteChain,    \* middleware sequences given to handle and group
          MaxRoutes, MaxGlobal   \* bounds on the two arrays

Kind == {"log", "headers", "auth"}

ASSUME MiddlewareAssumption == Global \subseteq Kind /\ RouteChain \subseteq Seq(Kind)
ASSUME MatchAssumption == Matches \in [Path -> SUBSET Pattern]
ASSUME BoundAssumption == MaxRoutes \in Nat /\ MaxGlobal \in Nat

VARIABLES global,     \* #global
          routes,     \* #routes: pattern and middleware of each
          listener,   \* the state of each listener and the chain it runs
          server,     \* #server
          request     \* the requests

vars == <<global, routes, listener, server, request>>

(***************************************************************************)
(* todo: what the request still has to enter.  stack: the middlewares that *)
(* await its response, innermost last.  lines, headers, claims: what the   *)
(* middlewares did.  route, entered, served and broken are history: the    *)
(* place in routes of the route that #route chose, or 0, everything the    *)
(* request went through, whether the route's handler ran, and whether a    *)
(* logger's sink threw.                                                    *)
(***************************************************************************)
NoRequest == [phase |-> "idle", at |-> None, path |-> None, valid |-> FALSE,
              todo |-> <<>>, stack |-> <<>>, outcome |-> "none", claims |-> FALSE,
              headers |-> FALSE, lines |-> 0, route |-> 0, entered |-> <<>>,
              served |-> FALSE, broken |-> FALSE]

\* A route as an entry of #routes.
Route(pattern, chain) == [pattern |-> pattern, chain |-> chain]

\* The constructor registers the health route, unless healthPath is "".
Init ==
  /\ global = <<>>
  /\ \/ routes = <<>>
     \/ \E health \in Pattern : routes = <<Route(health, <<>>)>>
  /\ listener = [l \in Listener |-> [state |-> "new", root |-> <<>>]]
  /\ server = None
  /\ request = [r \in Request |-> NoRequest]

-----------------------------------------------------------------------------
(* Registration.                                                           *)

Use(m) ==
  /\ Len(global) < MaxGlobal
  /\ global' = Append(global, m)
  /\ UNCHANGED <<routes, listener, server, request>>

\* Mutant: unshift for push.
HandleFirst(pattern, chain) ==
  /\ Len(routes) < MaxRoutes
  /\ routes' = <<Route(pattern, chain)>> \o routes
  /\ UNCHANGED <<global, listener, server, request>>

\* handle, directly or through groups: their middleware comes before the route's.
Handle(pattern, chain) ==
  /\ Len(routes) < MaxRoutes
  /\ routes' = Append(routes, Route(pattern, chain))
  /\ UNCHANGED <<global, listener, server, request>>

-----------------------------------------------------------------------------
(* The listener.                                                           *)

\* The root handler is composed here; a second call replaces #server.
Listen(l) ==
  /\ listener[l].state = "new"
  /\ listener' = [listener EXCEPT ![l] = [state |-> "open", root |-> global]]
  /\ server' = l
  /\ UNCHANGED <<global, routes, request>>

\* shutdown() stops the listener #server holds and waits for its requests.
Shutdown ==
  /\ server # None
  /\ listener[server].state = "open"
  /\ listener' = [listener EXCEPT ![server].state = "draining"]
  /\ UNCHANGED <<global, routes, server, request>>

InFlight(l) == {r \in Request : request[r].at = l /\ request[r].phase \in {"down", "up"}}

\* Mutant: shutdown() does not wait for the requests.
ShutdownAtOnce(l) ==
  /\ listener[l].state = "draining"
  /\ listener' = [listener EXCEPT ![l].state = "closed"]
  /\ UNCHANGED <<global, routes, server, request>>

ShutdownResolves(l) ==
  /\ listener[l].state = "draining"
  /\ InFlight(l) = {}
  /\ listener' = [listener EXCEPT ![l].state = "closed"]
  /\ UNCHANGED <<global, routes, server, request>>

-----------------------------------------------------------------------------
(* A request.                                                              *)

Accept(r, l, path, valid) ==
  /\ request[r].phase = "idle"
  /\ listener[l].state = "open"
  /\ request' = [request EXCEPT ![r] =
       [NoRequest EXCEPT !.phase = "down", !.at = l, !.path = path, !.valid = valid,
                         !.todo = Append(listener[l].root, "router")]]
  /\ UNCHANGED <<global, routes, listener, server>>

\* Route i serves a path: it matches, and none registered before it does.
Serves(i, path) ==
  /\ i \in DOMAIN routes /\ routes[i].pattern \in Matches[path]
  /\ \A j \in 1..(i - 1) : routes[j].pattern \notin Matches[path]

Enters(q) == [q EXCEPT !.todo = Tail(@), !.entered = Append(@, Head(q.todo))]

Responds(q, outcome) == [Enters(q) EXCEPT !.phase = "up", !.todo = <<>>, !.outcome = outcome]

Goes(r, kind) == request[r].phase = "down" /\ Head(request[r].todo) = kind

\* httpLogger and securityHeaders await the rest of the chain.
EnterWrapper(r, kind) ==
  /\ Goes(r, kind) /\ kind \in {"log", "headers"}
  /\ LET q == Enters(request[r])
     IN  request' = [request EXCEPT ![r] = [q EXCEPT !.stack = Append(q.stack, kind)]]
  /\ UNCHANGED <<global, routes, listener, server>>

\* jwtMiddleware and cookieMiddleware: claims are set and next is called, or 401.
EnterAuth(r) ==
  /\ Goes(r, "auth")
  /\ request' = [request EXCEPT ![r] =
       IF @.valid THEN [Enters(@) EXCEPT !.claims = TRUE] ELSE Responds(@, "unauthorized")]
  /\ UNCHANGED <<global, routes, listener, server>>

\* Mutant: the handler of the route is called without the route's middleware.
EnterRouterBare(r) ==
  /\ Goes(r, "router")
  /\ \/ \E i \in DOMAIN routes :
          /\ Serves(i, request[r].path)
          /\ request' = [request EXCEPT ![r] =
               [Enters(@) EXCEPT !.todo = <<"handler">>, !.route = i]]
     \/ /\ \A i \in DOMAIN routes : routes[i].pattern \notin Matches[request[r].path]
        /\ request' = [request EXCEPT ![r] = Responds(@, "not found")]
  /\ UNCHANGED <<global, routes, listener, server>>

\* #route: the first route that matches now, or 404.
EnterRouter(r) ==
  /\ Goes(r, "router")
  /\ \/ \E i \in DOMAIN routes :
          /\ Serves(i, request[r].path)
          /\ request' = [request EXCEPT ![r] =
               [Enters(@) EXCEPT !.todo = Append(routes[i].chain, "handler"), !.route = i]]
     \/ /\ \A i \in DOMAIN routes : routes[i].pattern \notin Matches[request[r].path]
        /\ request' = [request EXCEPT ![r] = Responds(@, "not found")]
  /\ UNCHANGED <<global, routes, listener, server>>

\* The route's handler answers or throws.
EnterHandler(r, outcome) ==
  /\ Goes(r, "handler")
  /\ request' = [request EXCEPT ![r] = [Responds(@, outcome) EXCEPT !.served = TRUE]]
  /\ UNCHANGED <<global, routes, listener, server>>

Returns(r, kind) ==
  request[r].phase = "up" /\ request[r].stack # <<>> /\ Last(request[r].stack) = kind

Popped(q) == [q EXCEPT !.stack = Front(@)]

\* Mutant: no catch block.
LeaveLogOnSuccess(r, infoThrows, errorThrows) ==
  /\ Returns(r, "log")
  /\ request' = [request EXCEPT ![r] =
       [Popped(@) EXCEPT !.lines = IF request[r].outcome = "throw" THEN @ ELSE @ + 1]]
  /\ UNCHANGED <<global, routes, listener, server>>

(***************************************************************************)
(* httpLogger: an info line and the response, or an error line and the     *)
(* error.  info is called inside the try block, so a sink that throws      *)
(* there turns the response into an error and asks for an error line,      *)
(* which may throw in its turn.                                            *)
(***************************************************************************)
LeaveLog(r, infoThrows, errorThrows) ==
  /\ Returns(r, "log")
  /\ LET q == request[r]
         threw == q.outcome = "throw"
         failed == threw \/ infoThrows
         mute == failed /\ errorThrows
         outcome == IF failed THEN "throw" ELSE q.outcome
         lines == IF mute THEN q.lines ELSE q.lines + 1
         broken == q.broken \/ mute \/ (~threw /\ infoThrows)
     IN  request' = [request EXCEPT ![r] =
           [Popped(q) EXCEPT !.outcome = outcome, !.lines = lines, !.broken = broken]]
  /\ UNCHANGED <<global, routes, listener, server>>

\* securityHeaders rebuilds the response; an error passes it by.
LeaveHeaders(r) ==
  /\ Returns(r, "headers")
  /\ LET q == request[r]
         headers == q.headers \/ q.outcome # "throw"
     IN  request' = [request EXCEPT ![r] = [Popped(q) EXCEPT !.headers = headers]]
  /\ UNCHANGED <<global, routes, listener, server>>

\* Deno.serve sends the response, or a 500 for an error.
Reply(r) ==
  /\ request[r].phase = "up" /\ request[r].stack = <<>>
  /\ request' = [request EXCEPT ![r].phase = "done"]
  /\ UNCHANGED <<global, routes, listener, server>>

Forget(r) ==
  /\ request[r].phase = "done"
  /\ request' = [request EXCEPT ![r] = NoRequest]
  /\ UNCHANGED <<global, routes, listener, server>>

-----------------------------------------------------------------------------
Steps(r) ==
  \/ \E kind \in {"log", "headers"} : EnterWrapper(r, kind)
  \/ EnterAuth(r)
  \/ EnterRouter(r)
  \/ \E outcome \in {"ok", "throw"} : EnterHandler(r, outcome)
  \/ \E infoThrows, errorThrows \in BOOLEAN : LeaveLog(r, infoThrows, errorThrows)
  \/ LeaveHeaders(r)
  \/ Reply(r)

Next ==
  \/ \E m \in Global : Use(m)
  \/ \E pattern \in Pattern, chain \in RouteChain : Handle(pattern, chain)
  \/ \E l \in Listener : Listen(l) \/ ShutdownResolves(l)
  \/ Shutdown
  \/ \E r \in Request, l \in Listener, path \in Path, valid \in BOOLEAN :
       Accept(r, l, path, valid)
  \/ \E r \in Request : Steps(r) \/ Forget(r)

Spec == Init /\ [][Next]_vars

\* Handlers settle, sinks return, and a drained listener closes.
FairSpec ==
  Spec /\ (\A r \in Request : WF_vars(Steps(r)))
       /\ (\A l \in Listener : WF_vars(ShutdownResolves(l)))

-----------------------------------------------------------------------------
(* Properties.                                                             *)

RequestRecord ==
  [phase : {"idle", "down", "up", "done"}, at : Listener \cup {None}, path : Path \cup {None},
   valid : BOOLEAN, todo : Seq(Kind \cup {"router", "handler"}), stack : Seq({"log", "headers"}),
   outcome : {"none", "ok", "throw", "unauthorized", "not found"}, claims : BOOLEAN,
   headers : BOOLEAN, lines : Nat, route : Nat, entered : Seq(Kind \cup {"router", "handler"}),
   served : BOOLEAN, broken : BOOLEAN]

\* Every variable keeps its type and the arrays their bounds.
TypeOK ==
  /\ global \in Seq(Kind) /\ Len(global) <= MaxGlobal
  /\ routes \in Seq([pattern : Pattern, chain : RouteChain \cup {<<>>}])
  /\ Len(routes) <= MaxRoutes + 1
  /\ listener \in [Listener ->
       [state : {"new", "open", "draining", "closed"}, root : Seq(Kind)]]
  /\ server \in Listener \cup {None}
  /\ request \in [Request -> RequestRecord]

(***************************************************************************)
(* A handler runs only on the route that serves its request's path, and    *)
(* only after every middleware of its listener's chain and of that very    *)
(* route, in that order and nothing besides, and behind auth only with     *)
(* claims.  What is registered while the request is under way changes      *)
(* neither the route that serves it nor what it goes through.              *)
(***************************************************************************)
HandlerIsGuarded ==
  \A r \in Request : request[r].served =>
    /\ Serves(request[r].route, request[r].path)
    /\ request[r].entered = listener[request[r].at].root \o <<"router">>
                              \o routes[request[r].route].chain \o <<"handler">>
    /\ Contains(request[r].entered, "auth") => request[r].valid /\ request[r].claims

(***************************************************************************)
(* Registering a route never takes a path away from the route that serves  *)
(* it already (the health route, first of all), and adding global          *)
(* middleware changes no listener.                                         *)
(***************************************************************************)
RegistrationIsStable ==
  [][/\ \A path \in Path : \A i \in DOMAIN routes :
          Serves(i, path) => Serves(i, path)' /\ routes'[i] = routes[i]
     /\ \A l \in Listener : listener[l].state # "new" => listener'[l].root = listener[l].root]_vars

\* How many loggers there are among what a request went through.
Loggers(entered) == Cardinality({i \in DOMAIN entered : entered[i] = "log"})

(***************************************************************************)
(* When the reply leaves, every logger that saw the request has written    *)
(* one line for it, unless a sink threw, and every securityHeaders it went *)
(* through has set its headers, unless an error passed by.                 *)
(***************************************************************************)
RepliesAreComplete ==
  \A r \in Request : request[r].phase = "done" =>
    /\ request[r].stack = <<>>
    /\ ~request[r].broken => request[r].lines = Loggers(request[r].entered)
    /\ request[r].outcome # "throw" /\ Contains(request[r].entered, "headers")
         => request[r].headers

(***************************************************************************)
(* A listener closes only when its last request got its reply, and a       *)
(* shutdown ends if its requests do.                                       *)
(***************************************************************************)
ShutdownDrains ==
  /\ [](\A l \in Listener : listener[l].state = "closed" => InFlight(l) = {})
  /\ \A l \in Listener : listener[l].state = "draining" ~> listener[l].state = "closed"

=============================================================================
