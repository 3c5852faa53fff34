------------------------------ MODULE HttpProofs ------------------------------
(***************************************************************************)
(* Proofs about config/server/http/server.ts, for any listeners, requests, *)
(* patterns, and chains of middleware of any length, and, at the end,      *)
(* about config/client/http/client.ts, for any requests and timeouts.      *)
(***************************************************************************)
EXTENDS HttpServer, HttpClient, Chains

(***************************************************************************)
(* The parts of the inductive invariant.                                   *)
(***************************************************************************)
Routed == RouteChain \cup {<<>>}

RootOf(q) == listener[q.at].root

\* A request in the listener's chain has entered a prefix of it.
InRoot(q) ==
  /\ q.entered \in Seq(Kind) /\ q.todo \in Seq(Kind \cup {"router"})
  /\ q.entered \o q.todo = Append(RootOf(q), "router")

ChainOf(q) == routes[q.route].chain

(***************************************************************************)
(* A request in a route's chain has entered all of the listener's and a    *)
(* prefix of the route's, which is the one that serves its path.           *)
(***************************************************************************)
InRoute(q) ==
  /\ Serves(q.route, q.path)
  /\ \E done \in Seq(Kind) :
       /\ q.entered = RootOf(q) \o <<"router">> \o done
       /\ q.todo \in Seq(Kind \cup {"handler"})
       /\ done \o q.todo = Append(ChainOf(q), "handler")

Authentic(q) == Contains(q.entered, "auth") => q.valid /\ q.claims

Guarded(q) ==
  /\ Serves(q.route, q.path)
  /\ q.entered = RootOf(q) \o <<"router">> \o ChainOf(q) \o <<"handler">>
  /\ Authentic(q)

Good(q) ==
  /\ q \in RequestRecord
  /\ q.phase # "idle" => q.at \in Listener /\ listener[q.at].state # "new"
  /\ q.phase = "down" =>
       ~q.served /\ q.todo # <<>> /\ (InRoot(q) \/ InRoute(q)) /\ Authentic(q)
  /\ q.served => q.phase # "idle" /\ Guarded(q)

IInv == TypeOK /\ \A r \in Request : Good(request[r])

-----------------------------------------------------------------------------
(* Registration and the listener.                                          *)

\* The chains are sequences of middlewares.
LEMMA ChainsTyped == Routed \subseteq Seq(Kind)
<1>1. RouteChain \subseteq Seq(Kind) /\ <<>> \in Seq(Kind)
  BY MiddlewareAssumption
<1>2. QED BY <1>1 DEF Routed

\* A route that serves a path is there, with a sequence of middlewares.
LEMMA ServingTyped ==
  ASSUME TypeOK, NEW i, NEW path, Serves(i, path)
  PROVE  i \in 1..Len(routes) /\ routes[i].chain \in Routed /\ routes[i].chain \in Seq(Kind)
<1>1. routes \in Seq([pattern : Pattern, chain : Routed])
  BY DEF TypeOK, Routed
<1>2. i \in 1..Len(routes)
  BY <1>1 DEF Serves
<1>3. routes[i] \in [pattern : Pattern, chain : Routed]
  BY <1>1, <1>2, ElementOfSeq
<1>4. QED BY <1>2, <1>3, ChainsTyped

\* What is registered already stays where it is, and a listener keeps its chain.
RegistrationsStay ==
  /\ routes' \in Seq([pattern : Pattern, chain : Routed]) /\ Len(routes) <= Len(routes')
  /\ \A i \in 1..Len(routes) : routes'[i] = routes[i]
  /\ \A l \in Listener : listener[l].state # "new" =>
       listener'[l].state # "new" /\ listener'[l].root = listener[l].root

\* Then what was good stays so.
LEMMA GoodStays ==
  ASSUME TypeOK, NEW q, Good(q), RegistrationsStay
  PROVE  Good(q)'
<1>1. CASE q.phase = "idle"
  BY <1>1 DEF Good
<1>2. CASE q.phase # "idle"
  <2>1. /\ q.at \in Listener /\ listener'[q.at].state # "new"
        /\ listener'[q.at].root = listener[q.at].root
    BY <1>2 DEF Good, RegistrationsStay
  <2>2. Serves(q.route, q.path) => Serves(q.route, q.path)' /\ ChainOf(q)' = ChainOf(q)
    <3>1. /\ DOMAIN routes = 1..Len(routes) /\ DOMAIN routes' = 1..Len(routes')
          /\ Len(routes) \in Nat /\ Len(routes') \in Nat
      BY DEF TypeOK, RegistrationsStay
    <3>2. \A i \in 1..Len(routes) :
            /\ i \in 1..Len(routes') /\ \A j \in 1..(i - 1) : j \in 1..Len(routes)
      BY <3>1 DEF RegistrationsStay
    <3>3. QED BY <3>1, <3>2 DEF RegistrationsStay, Serves, ChainOf
  <2>3. RootOf(q)' = RootOf(q)
    BY <2>1 DEF RootOf
  <2>4. /\ InRoot(q) => InRoot(q)'
        /\ InRoute(q) => InRoute(q)'
    BY <2>2, <2>3 DEF InRoot, InRoute
  <2>5. Authentic(q) => Authentic(q)'
    BY DEF Authentic
  <2>6. Guarded(q) => Guarded(q)'
    BY <2>2, <2>3, <2>5 DEF Guarded
  <2>7. QED BY <1>2, <2>1, <2>4, <2>5, <2>6 DEF Good
<1>3. QED BY <1>1, <1>2

\* Nothing listens and no request is there at the start.
LEMMA InitInv == Init => IInv
<1> SUFFICES ASSUME Init PROVE IInv
  OBVIOUS
<1>1. NoRequest \in RequestRecord
  BY DEF NoRequest, RequestRecord
<1>2. Good(NoRequest)
  BY <1>1 DEF Good, NoRequest
<1>3. \A r \in Request : request[r] = NoRequest
  BY DEF Init
<1>4. routes \in Seq([pattern : Pattern, chain : Routed]) /\ Len(routes) <= MaxRoutes + 1
  <2>1. CASE routes = <<>>
    BY <2>1, BoundAssumption
  <2>2. CASE \E health \in Pattern : routes = <<Route(health, <<>>)>>
    BY <2>2, BoundAssumption DEF Route, Routed
  <2>3. QED BY <2>1, <2>2 DEF Init
<1>5. TypeOK
  BY <1>1, <1>3, <1>4, BoundAssumption DEF Init, TypeOK, Routed
<1>6. QED BY <1>2, <1>3, <1>5 DEF IInv

\* A step that writes no request.
LEMMA NoRequestMoves ==
  ASSUME IInv, TypeOK', UNCHANGED request, RegistrationsStay
  PROVE  IInv'
<1>1. ASSUME NEW r \in Request PROVE Good(request[r])'
  <2>1. Good(request[r]) /\ request'[r] = request[r]
    BY DEF IInv
  <2> DEFINE q == request[r]
  <2>2. PICK p : p = q
    OBVIOUS
  <2>3. Good(p)'
    BY <2>1, <2>2, GoodStays DEF IInv
  <2>4. QED BY <2>1, <2>2, <2>3
<1>2. QED BY <1>1 DEF IInv

\* Where no route is registered.
LEMMA SameRoutes ==
  ASSUME TypeOK, UNCHANGED routes
  PROVE  /\ routes' \in Seq([pattern : Pattern, chain : Routed]) /\ Len(routes) <= Len(routes')
         /\ \A i \in 1..Len(routes) : routes'[i] = routes[i]
<1>1. routes \in Seq([pattern : Pattern, chain : Routed])
  BY DEF TypeOK, Routed
<1>2. QED BY <1>1

\* Registrations, listen and shutdown leave the requests alone.
LEMMA ServerKeeps ==
  ASSUME IInv,
         \/ \E m \in Global : Use(m)
         \/ \E pattern \in Pattern, chain \in RouteChain : Handle(pattern, chain)
         \/ \E l \in Listener : Listen(l) \/ ShutdownResolves(l)
         \/ Shutdown
  PROVE  IInv'
<1>1. ASSUME NEW m \in Global, Use(m) PROVE IInv'
  <2>1. TypeOK'
    BY <1>1, MiddlewareAssumption, BoundAssumption DEF Use, IInv, TypeOK
  <2>2. RegistrationsStay
    BY <1>1, SameRoutes DEF Use, IInv, RegistrationsStay
  <2>3. QED BY <1>1, <2>1, <2>2, NoRequestMoves DEF Use
<1>2. ASSUME NEW pattern \in Pattern, NEW chain \in RouteChain, Handle(pattern, chain)
      PROVE  IInv'
  <2>1. Route(pattern, chain) \in [pattern : Pattern, chain : RouteChain \cup {<<>>}]
    BY DEF Route
  <2>2. TypeOK'
    BY <1>2, <2>1, BoundAssumption DEF Handle, IInv, TypeOK
  <2>3. RegistrationsStay
    <3>1. routes \in Seq([pattern : Pattern, chain : Routed])
      BY DEF IInv, TypeOK, Routed
    <3>2. routes' = Append(routes, Route(pattern, chain)) /\ listener' = listener
      BY <1>2 DEF Handle
    <3>3. Route(pattern, chain) \in [pattern : Pattern, chain : Routed]
      BY <2>1 DEF Routed
    <3>4. QED BY <3>1, <3>2, <3>3, AppendProperties DEF RegistrationsStay
  <2>4. QED BY <1>2, <2>2, <2>3, NoRequestMoves DEF Handle
<1>3. ASSUME NEW l \in Listener, Listen(l) \/ ShutdownResolves(l) PROVE IInv'
  <2>1. CASE Listen(l)
    <3>1. TypeOK'
      BY <2>1 DEF Listen, IInv, TypeOK
    <3>2. RegistrationsStay
      BY <2>1, SameRoutes DEF Listen, IInv, TypeOK, RegistrationsStay
    <3>3. QED BY <2>1, <3>1, <3>2, NoRequestMoves DEF Listen
  <2>2. CASE ShutdownResolves(l)
    <3>1. TypeOK'
      BY <2>2 DEF ShutdownResolves, IInv, TypeOK
    <3>2. RegistrationsStay
      BY <2>2, SameRoutes DEF ShutdownResolves, IInv, TypeOK, RegistrationsStay
    <3>3. QED BY <2>2, <3>1, <3>2, NoRequestMoves DEF ShutdownResolves
  <2>3. QED BY <1>3, <2>1, <2>2
<1>4. ASSUME Shutdown PROVE IInv'
  <2>1. server \in Listener /\ listener[server].state = "open"
        /\ listener' = [listener EXCEPT ![server].state = "draining"]
        /\ UNCHANGED <<global, routes, server, request>>
    BY <1>4 DEF Shutdown, IInv, TypeOK
  <2>2. TypeOK'
    BY <2>1 DEF IInv, TypeOK
  <2>3. RegistrationsStay
    BY <2>1, SameRoutes DEF IInv, TypeOK, RegistrationsStay
  <2>4. QED BY <2>1, <2>2, <2>3, NoRequestMoves
<1>5. QED BY <1>1, <1>2, <1>3, <1>4

-----------------------------------------------------------------------------
(* A request.                                                              *)

\* A step that writes one request and nothing else.
LEMMA OneRequest ==
  ASSUME IInv, NEW r \in Request, NEW q, Good(q), request' = [request EXCEPT ![r] = q],
         UNCHANGED <<global, routes, listener, server>>
  PROVE  IInv'
<1>1. /\ request' \in [Request -> RequestRecord]
      /\ \A d \in Request : request'[d] = IF d = r THEN q ELSE request[d]
  BY DEF IInv, TypeOK, Good
<1>2. \A d \in Request : Good(request'[d])
  BY <1>1 DEF IInv
<1>3. TypeOK'
  BY <1>1 DEF IInv, TypeOK
<1>4. ASSUME NEW d \in Request PROVE Good(request[d])'
  <2>1. PICK p : p = request'[d]
    OBVIOUS
  <2>2. Good(p)
    BY <1>2, <2>1
  <2>3. Good(p)'
    <3>1. RegistrationsStay
      BY SameRoutes DEF IInv, RegistrationsStay
    <3>2. QED BY <2>2, <3>1, GoodStays DEF IInv
  <2>4. QED BY <2>1, <2>3
<1>5. QED BY <1>3, <1>4 DEF IInv

\* What a request meets on its way.
Stop == Kind \cup {"router", "handler"}

\* The fields that Enters leaves alone.
Keeps(p, q) ==
  /\ p.at = q.at /\ p.valid = q.valid /\ p.served = q.served
  /\ p.path = q.path /\ p.route = q.route

\* What entering a middleware writes.
LEMMA EntersTyped ==
  ASSUME NEW q \in RequestRecord, q.todo # <<>>
  PROVE  /\ Enters(q) = [q EXCEPT !.todo = Tail(q.todo),
                                  !.entered = Append(q.entered, Head(q.todo))]
         /\ Enters(q) \in RequestRecord /\ Keeps(Enters(q), q)
         /\ Enters(q).todo = Tail(q.todo)
         /\ Enters(q).entered = Append(q.entered, Head(q.todo))
         /\ Enters(q).phase = q.phase /\ Enters(q).claims = q.claims
         /\ Enters(q).stack = q.stack
<1>1. q.todo \in Seq(Stop) /\ q.entered \in Seq(Stop)
  BY DEF RequestRecord, Stop
<1>2. Head(q.todo) \in Stop /\ Tail(q.todo) \in Seq(Stop)
  BY <1>1
<1>3. Append(q.entered, Head(q.todo)) \in Seq(Stop)
  BY <1>1, <1>2
<1>4. QED BY <1>2, <1>3 DEF Enters, RequestRecord, Keeps, Stop

(***************************************************************************)
(* A request that enters a middleware, in the listener's chain or in that  *)
(* of its route, and goes on.                                              *)
(***************************************************************************)
LEMMA GoesOn ==
  ASSUME IInv, NEW r \in Request, request[r].phase = "down", Head(request[r].todo) \in Kind,
         NEW p \in RequestRecord, Keeps(p, request[r]),
         p.entered = Append(request[r].entered, Head(request[r].todo)),
         p.todo = Tail(request[r].todo)
  PROVE  p.todo # <<>> /\ (InRoot(p) \/ InRoute(p))
<1> DEFINE q == request[r]
<1>1. /\ q \in RequestRecord /\ q.at \in Listener /\ q.todo # <<>>
      /\ RootOf(q) \in Seq(Kind) /\ RootOf(p) = RootOf(q)
      /\ InRoot(q) \/ InRoute(q)
      /\ Head(q.todo) \in Kind /\ p.entered = Append(q.entered, Head(q.todo))
      /\ p.todo = Tail(q.todo) /\ p.path = q.path /\ p.route = q.route
  BY DEF IInv, TypeOK, Good, RootOf, Keeps
<1> HIDE DEF q
<1>2. PICK root, entered, todo :
        root \in Seq(Kind) /\ root = RootOf(q) /\ entered = q.entered /\ todo = q.todo
  BY <1>1
<1>3. todo # <<>> /\ Head(todo) \in Kind /\ "router" \notin Kind /\ "handler" \notin Kind
  BY <1>1, <1>2 DEF Kind
<1>4. CASE InRoot(q)
  <2>1. /\ entered \in Seq(Kind) /\ todo \in Seq(Kind \cup {"router"})
        /\ entered \o todo = Append(root, "router")
    BY <1>2, <1>4 DEF InRoot
  <2>2. /\ Append(entered, Head(todo)) \in Seq(Kind)
        /\ Tail(todo) \in Seq(Kind \cup {"router"}) /\ Tail(todo) # <<>>
        /\ Append(entered, Head(todo)) \o Tail(todo) = entered \o todo
    <3>1. entered \in Seq(Kind \cup {"router"})
      BY <2>1, SeqMonotonic
    <3>2. /\ Tail(todo) \in Seq(Kind \cup {"router"})
          /\ Append(entered, Head(todo)) \o Tail(todo) = entered \o todo
      BY <1>3, <2>1, <3>1, MovesOn, ZenonT(30)
    <3>3. Tail(todo) # <<>>
      BY <1>2, <1>3, <2>1, Remains, Zenon
    <3>4. Append(entered, Head(todo)) \in Seq(Kind)
      BY <1>3, <2>1, AppendProperties
    <3>5. QED BY <3>2, <3>3, <3>4
  <2>3. QED BY <1>1, <1>2, <2>1, <2>2 DEF InRoot
<1>5. CASE InRoute(q)
  <2> DEFINE chain == ChainOf(q)
  <2>1. PICK done \in Seq(Kind) :
          /\ entered = root \o <<"router">> \o done
          /\ todo \in Seq(Kind \cup {"handler"}) /\ done \o todo = Append(chain, "handler")
    BY <1>2, <1>5 DEF InRoute
  <2>2. /\ chain \in Seq(Kind) /\ Serves(p.route, p.path) /\ chain = ChainOf(p)
    BY <1>1, <1>5, ServingTyped DEF InRoute, ChainOf, IInv
  <2> HIDE DEF chain
  <2>3. /\ Append(done, Head(todo)) \in Seq(Kind)
        /\ Tail(todo) \in Seq(Kind \cup {"handler"}) /\ Tail(todo) # <<>>
        /\ Append(done, Head(todo)) \o Tail(todo) = done \o todo
    <3>1. done \in Seq(Kind \cup {"handler"})
      BY <2>1, SeqMonotonic
    <3>2. /\ Tail(todo) \in Seq(Kind \cup {"handler"})
          /\ Append(done, Head(todo)) \o Tail(todo) = done \o todo
      BY <1>3, <2>1, <3>1, MovesOn, ZenonT(30)
    <3>3. Tail(todo) # <<>>
      BY <1>3, <2>1, <2>2, Remains, Zenon
    <3>4. Append(done, Head(todo)) \in Seq(Kind)
      BY <1>3, <2>1, AppendProperties
    <3>5. QED BY <3>2, <3>3, <3>4
  <2>4. Append(entered, Head(todo)) = root \o <<"router">> \o Append(done, Head(todo))
    <3>1. /\ root \o <<"router">> \in Seq(Stop) /\ done \in Seq(Stop)
          /\ Head(todo) \in Stop
      BY <1>2, <1>3, SeqMonotonic DEF Stop
    <3>2. AppendsToBoth(root \o <<"router">>, done, Head(todo))
      BY <3>1, AppendConcat, Zenon
    <3>3. QED BY <2>1, <3>2, Zenon DEF AppendsToBoth
  <2>5. QED BY <1>1, <1>2, <2>1, <2>2, <2>3, <2>4 DEF InRoute
<1>6. QED BY <1>1, <1>4, <1>5
\* A request that goes on into a middleware of its chain.
LEMMA GoodDown ==
  ASSUME IInv, NEW r \in Request, request[r].phase = "down", Head(request[r].todo) \in Kind,
         NEW p \in RequestRecord, Keeps(p, request[r]), p.phase = "down",
         p.entered = Append(request[r].entered, Head(request[r].todo)),
         p.todo = Tail(request[r].todo), Authentic(p)
  PROVE  Good(p)
<1>1. p.todo # <<>> /\ (InRoot(p) \/ InRoute(p))
  BY GoesOn
<1>2. Good(request[r])
  BY DEF IInv
<1>3. QED BY <1>1, <1>2 DEF Good, Keeps

\* A response that a middleware or the router makes: no handler ran.
LEMMA GoodUp ==
  ASSUME NEW q, Good(q), q.phase = "down",
         NEW p \in RequestRecord, Keeps(p, q), p.phase = "up"
  PROVE  Good(p)
BY DEF Good, Keeps

\* A response on its way back.
LEMMA GoodBack ==
  ASSUME NEW q, Good(q), q.phase = "up",
         NEW p \in RequestRecord, Keeps(p, q), p.phase \in {"up", "done"},
         p.claims = q.claims, p.entered = q.entered
  PROVE  Good(p)
<1>1. Guarded(q) => Guarded(p)
  BY DEF Guarded, Authentic, RootOf, ChainOf, Keeps
<1>2. QED BY <1>1 DEF Good, Keeps

\* A request that is accepted has its listener's chain before it.
LEMMA AcceptKeeps ==
  ASSUME IInv, NEW r \in Request, NEW l \in Listener, NEW path \in Path,
         NEW valid \in BOOLEAN, Accept(r, l, path, valid)
  PROVE  IInv'
<1> DEFINE todo == Append(listener[l].root, "router")
           p == [NoRequest EXCEPT !.phase = "down", !.at = l, !.path = path,
                                  !.valid = valid, !.todo = todo]
<1>1. /\ listener[l].state = "open" /\ listener[l].root \in Seq(Kind)
      /\ request' = [request EXCEPT ![r] = p]
      /\ UNCHANGED <<global, routes, listener, server>>
  BY DEF Accept, IInv, TypeOK
<1>2. todo \in Seq(Kind \cup {"router"}) /\ todo \in Seq(Stop) /\ todo # <<>>
  BY <1>1, SeqMonotonic, AppendProperties DEF Stop
<1>3. /\ p \in RequestRecord /\ p.phase = "down" /\ p.at = l /\ p.todo = todo
      /\ p.entered = <<>> /\ ~p.served
  <2>1. /\ NoRequest \in RequestRecord /\ NoRequest.entered = <<>> /\ ~NoRequest.served
    BY DEF NoRequest, RequestRecord
  <2> HIDE DEF todo
  <2>2. QED BY <1>2, <2>1 DEF RequestRecord, Stop
<1> HIDE DEF p
<1>4. InRoot(p)
  BY <1>2, <1>3 DEF InRoot, RootOf
<1>5. Authentic(p)
  BY <1>3 DEF Authentic, Contains
<1>6. Good(p)
  BY <1>1, <1>2, <1>3, <1>4, <1>5 DEF Good
<1>7. QED BY <1>1, <1>6, OneRequest

\* httpLogger and securityHeaders are entered, with their way back kept.
LEMMA EnterWrapperKeeps ==
  ASSUME IInv, NEW r \in Request, NEW kind \in {"log", "headers"}, EnterWrapper(r, kind)
  PROVE  IInv'
<1> DEFINE q == request[r]
           e == Enters(q)
           p == [e EXCEPT !.stack = Append(e.stack, kind)]
<1>1. /\ Good(q) /\ q.phase = "down" /\ Head(q.todo) = kind /\ kind \in Kind
      /\ request' = [request EXCEPT ![r] = p]
      /\ UNCHANGED <<global, routes, listener, server>>
  BY DEF EnterWrapper, Goes, IInv, Kind
<1>2. q \in RequestRecord /\ q.todo # <<>> /\ Authentic(q)
  BY <1>1 DEF Good
<1>3. /\ e \in RequestRecord /\ Keeps(e, q) /\ e.todo = Tail(q.todo)
      /\ e.entered = Append(q.entered, kind)
      /\ e.phase = "down" /\ e.claims = q.claims
  BY <1>1, <1>2, EntersTyped
<1> HIDE DEF e
<1>4. Append(e.stack, kind) \in Seq({"log", "headers"})
  BY <1>3, AppendProperties DEF RequestRecord
<1>5. /\ p \in RequestRecord /\ Keeps(p, q) /\ p.phase = "down" /\ p.claims = q.claims
      /\ p.todo = Tail(q.todo) /\ p.entered = Append(q.entered, kind)
  BY <1>3, <1>4 DEF RequestRecord, Keeps
<1> HIDE DEF p
<1>6. Authentic(p)
  <2>1. q.entered \in Seq(Stop) /\ kind \in Stop
    BY <1>1, <1>2 DEF RequestRecord, Stop
  <2>2. Contains(p.entered, "auth") => Contains(q.entered, "auth")
    BY <1>5, <2>1, ContainsAppend
  <2>3. QED BY <1>2, <1>5, <2>2 DEF Authentic, Keeps
<1>7. Good(p)
  BY <1>1, <1>5, <1>6, GoodDown
<1>8. QED BY <1>1, <1>7, OneRequest

\* A request that a middleware or the router answers.
LEMMA RespondsGood ==
  ASSUME NEW q, Good(q), q.phase = "down",
         NEW outcome \in {"ok", "throw", "unauthorized", "not found"}
  PROVE  /\ Responds(q, outcome) \in RequestRecord /\ Good(Responds(q, outcome))
         /\ Responds(q, outcome).phase = "up" /\ Keeps(Responds(q, outcome), q)
         /\ Responds(q, outcome).claims = q.claims
         /\ Responds(q, outcome).entered = Append(q.entered, Head(q.todo))
<1> DEFINE e == Enters(q)
           p == [e EXCEPT !.phase = "up", !.todo = <<>>, !.outcome = outcome]
<1>1. q \in RequestRecord /\ q.todo # <<>>
  BY DEF Good
<1>2. /\ e \in RequestRecord /\ Keeps(e, q) /\ e.claims = q.claims
      /\ e.entered = Append(q.entered, Head(q.todo))
  BY <1>1, EntersTyped
<1>3. Responds(q, outcome) = p
  BY DEF Responds
<1> HIDE DEF e
<1>4. /\ p \in RequestRecord /\ p.phase = "up" /\ Keeps(p, q) /\ p.claims = q.claims
      /\ p.entered = e.entered
  <2>1. <<>> \in Seq(Stop)
    BY EmptySeq
  <2>2. QED BY <1>2, <2>1 DEF RequestRecord, Keeps, Stop
<1> HIDE DEF p
<1>5. QED BY <1>2, <1>3, <1>4, GoodUp

\* Behind jwtMiddleware a request has claims, or it has turned back.
LEMMA EnterAuthKeeps ==
  ASSUME IInv, NEW r \in Request, EnterAuth(r)
  PROVE  IInv'
<1> DEFINE q == request[r]
<1>1. /\ Good(q) /\ q.phase = "down" /\ Head(q.todo) = "auth" /\ "auth" \in Kind
      /\ UNCHANGED <<global, routes, listener, server>>
  BY DEF EnterAuth, Goes, IInv, Kind
<1>2. CASE q.valid
  <2> DEFINE e == Enters(q)
             p == [e EXCEPT !.claims = TRUE]
  <2>1. request' = [request EXCEPT ![r] = p]
    BY <1>2 DEF EnterAuth, IInv, TypeOK
  <2>2. q \in RequestRecord /\ q.todo # <<>>
    BY <1>1 DEF Good
  <2>3. /\ e \in RequestRecord /\ Keeps(e, q) /\ e.todo = Tail(q.todo)
        /\ e.entered = Append(q.entered, Head(q.todo)) /\ e.phase = "down"
    BY <1>1, <2>2, EntersTyped
  <2> HIDE DEF e
  <2>4. /\ p \in RequestRecord /\ Keeps(p, q) /\ p.phase = "down" /\ p.claims
        /\ p.todo = Tail(q.todo) /\ p.entered = Append(q.entered, Head(q.todo))
    BY <2>3 DEF RequestRecord, Keeps
  <2> HIDE DEF p
  <2>5. Authentic(p)
    BY <1>2, <2>4 DEF Authentic, Keeps
  <2>6. Good(p)
    BY <1>1, <2>4, <2>5, GoodDown
  <2>7. QED BY <1>1, <2>1, <2>6, OneRequest
<1>3. CASE ~q.valid
  <2>1. request' = [request EXCEPT ![r] = Responds(q, "unauthorized")]
    BY <1>3 DEF EnterAuth, IInv, TypeOK
  <2>2. Good(Responds(q, "unauthorized"))
    BY <1>1, RespondsGood
  <2>3. QED BY <1>1, <2>1, <2>2, OneRequest
<1>4. QED BY <1>2, <1>3

\* At the router a request has entered all of its listener's chain.
LEMMA AtRouter ==
  ASSUME IInv, NEW r \in Request, request[r].phase = "down", Head(request[r].todo) = "router"
  PROVE  request[r].entered = RootOf(request[r]) /\ RootOf(request[r]) \in Seq(Kind)
<1> DEFINE q == request[r]
<1>1. /\ q.at \in Listener /\ RootOf(q) \in Seq(Kind) /\ q.todo # <<>>
      /\ InRoot(q) \/ InRoute(q)
      /\ "router" \notin Kind /\ "router" \notin Kind \cup {"handler"}
  BY DEF IInv, TypeOK, Good, RootOf, Kind
<1>2. InRoot(q)
  <2>1. SUFFICES ASSUME q.todo \in Seq(Kind \cup {"handler"}) PROVE FALSE
    BY <1>1 DEF InRoute
  <2>2. Head(q.todo) \in Kind \cup {"handler"}
    BY <1>1, <2>1
  <2>3. QED BY <1>1, <2>2
<1>3. PICK root \in Seq(Kind), entered \in Seq(Kind), todo \in Seq(Kind \cup {"router"}) :
        /\ root = RootOf(q) /\ entered = q.entered /\ todo = q.todo
        /\ entered \o todo = Append(root, "router")
  BY <1>1, <1>2 DEF InRoot
<1>4. todo # <<>> /\ Head(todo) = "router"
  BY <1>1, <1>3
<1>5. entered = root
  BY <1>1, <1>3, <1>4, LastOfAll, Zenon
<1>6. QED BY <1>3, <1>5

\* The router puts the chain of the route behind the listener's.
LEMMA EnterRouterKeeps ==
  ASSUME IInv, NEW r \in Request, EnterRouter(r)
  PROVE  IInv'
<1> DEFINE q == request[r]
<1>1. /\ Good(q) /\ q.phase = "down" /\ Head(q.todo) = "router"
      /\ UNCHANGED <<global, routes, listener, server>>
  BY DEF EnterRouter, Goes, IInv
<1>2. ASSUME NEW i \in DOMAIN routes, Serves(i, q.path),
             request' = [request EXCEPT ![r] =
               [Enters(@) EXCEPT !.todo = Append(routes[i].chain, "handler"), !.route = i]]
      PROVE  IInv'
  <2> DEFINE chain == routes[i].chain
             e == Enters(q)
             p == [e EXCEPT !.todo = Append(chain, "handler"), !.route = i]
  <2>1. request' = [request EXCEPT ![r] = p]
    BY <1>2 DEF IInv, TypeOK
  <2>2. chain \in Routed /\ chain \in Seq(Kind) /\ i \in Nat
    BY <1>2, ServingTyped DEF IInv
  <2> HIDE DEF chain
  <2>3. /\ Append(chain, "handler") \in Seq(Kind \cup {"handler"})
        /\ Append(chain, "handler") \in Seq(Stop) /\ Append(chain, "handler") # <<>>
        /\ <<>> \o Append(chain, "handler") = Append(chain, "handler")
    <3>1. chain \in Seq(Kind \cup {"handler"}) /\ chain \in Seq(Stop)
      BY <2>2, SeqMonotonic DEF Stop
    <3>2. /\ Append(chain, "handler") \in Seq(Kind \cup {"handler"})
          /\ Append(chain, "handler") \in Seq(Stop) /\ Append(chain, "handler") # <<>>
      BY <3>1, AppendProperties DEF Stop
    <3>3. QED BY <3>2, ConcatEmptySeq
  <2>4. q \in RequestRecord /\ q.todo # <<>> /\ Authentic(q)
    BY <1>1 DEF Good
  <2>5. /\ e \in RequestRecord /\ Keeps(e, q) /\ e.claims = q.claims /\ e.phase = "down"
        /\ e.entered = Append(q.entered, "router")
    BY <1>1, <2>4, EntersTyped
  <2> HIDE DEF e
  <2>6. /\ p \in RequestRecord /\ p.at = q.at /\ p.valid = q.valid /\ p.served = q.served
        /\ p.claims = q.claims /\ p.phase = "down" /\ p.path = q.path /\ p.route = i
        /\ p.entered = Append(q.entered, "router") /\ p.todo = Append(chain, "handler")
    BY <2>2, <2>3, <2>5 DEF RequestRecord, Keeps, Stop
  <2> HIDE DEF p
  <2>7. q.entered = RootOf(q) /\ RootOf(q) \in Seq(Kind) /\ RootOf(p) = RootOf(q)
    BY <1>1, <2>6, AtRouter DEF RootOf
  <2>8. InRoute(p)
    <3>1. p.entered = RootOf(p) \o <<"router">> \o <<>>
      <4>1. RootOf(q) \in Seq(Stop) /\ "router" \in Stop
        BY <2>7, SeqMonotonic DEF Stop
      <4>2. Append(RootOf(q), "router") = RootOf(q) \o <<"router">>
        BY <4>1, AppendIsConcat
      <4>3. RootOf(q) \o <<"router">> \in Seq(Stop)
        BY <4>1
      <4>4. RootOf(q) \o <<"router">> \o <<>> = RootOf(q) \o <<"router">>
        BY <4>3, ConcatEmptySeq
      <4>5. QED BY <2>6, <2>7, <4>2, <4>4
    <3>2. <<>> \in Seq(Kind)
      BY EmptySeq
    <3>3. Serves(p.route, p.path) /\ ChainOf(p) = chain
      BY <1>2, <2>6 DEF ChainOf, chain
    <3>4. QED BY <2>2, <2>3, <2>6, <3>1, <3>2, <3>3 DEF InRoute
  <2>9. Authentic(p)
    <3>1. q.entered \in Seq(Stop) /\ "router" \in Stop
      BY <2>4 DEF RequestRecord, Stop
    <3>2. Contains(p.entered, "auth") => Contains(q.entered, "auth")
      BY <2>6, <3>1, ContainsAppend
    <3>3. QED BY <2>4, <2>6, <3>2 DEF Authentic
  <2>10. Good(p)
    BY <1>1, <2>3, <2>6, <2>8, <2>9 DEF Good
  <2>11. QED BY <1>1, <2>1, <2>10, OneRequest
<1>3. ASSUME request' = [request EXCEPT ![r] = Responds(@, "not found")] PROVE IInv'
  <2>1. request' = [request EXCEPT ![r] = Responds(q, "not found")]
    BY <1>3 DEF IInv, TypeOK
  <2>2. Good(Responds(q, "not found"))
    BY <1>1, RespondsGood
  <2>3. QED BY <1>1, <2>1, <2>2, OneRequest
<1>4. QED BY <1>2, <1>3 DEF EnterRouter

\* A handler is reached behind both chains.
LEMMA EnterHandlerKeeps ==
  ASSUME IInv, NEW r \in Request, NEW outcome \in {"ok", "throw"}, EnterHandler(r, outcome)
  PROVE  IInv'
<1> DEFINE q == request[r]
           e == Responds(q, outcome)
           p == [e EXCEPT !.served = TRUE]
<1>1. /\ Good(q) /\ q.phase = "down" /\ Head(q.todo) = "handler"
      /\ UNCHANGED <<global, routes, listener, server>>
      /\ request' = [request EXCEPT ![r] = p]
  BY DEF EnterHandler, Goes, IInv, TypeOK
<1>2. /\ e \in RequestRecord /\ Keeps(e, q) /\ e.claims = q.claims /\ e.phase = "up"
      /\ e.entered = Append(q.entered, "handler")
  <2>1. outcome \in {"ok", "throw", "unauthorized", "not found"}
    OBVIOUS
  <2>2. QED BY <1>1, <2>1, RespondsGood
<1> HIDE DEF e
<1>3. /\ p \in RequestRecord /\ p.phase = "up" /\ p.at = q.at /\ p.valid = q.valid
      /\ p.claims = q.claims /\ p.served /\ p.path = q.path /\ p.route = q.route
      /\ p.entered = Append(q.entered, "handler")
  BY <1>2 DEF RequestRecord, Keeps
<1> HIDE DEF p
<1>4. /\ q.at \in Listener /\ RootOf(q) \in Seq(Kind) /\ RootOf(p) = RootOf(q)
      /\ listener[q.at].state # "new" /\ q.todo # <<>> /\ Authentic(q)
      /\ InRoot(q) \/ InRoute(q)
      /\ q \in RequestRecord
      /\ "handler" \notin Kind /\ "handler" \notin Kind \cup {"router"}
  BY <1>1, <1>3 DEF IInv, TypeOK, Good, RootOf, Kind
<1>5. InRoute(q)
  <2>1. SUFFICES ASSUME q.todo \in Seq(Kind \cup {"router"}) PROVE FALSE
    BY <1>4 DEF InRoot
  <2>2. Head(q.todo) \in Kind \cup {"router"}
    BY <1>4, <2>1
  <2>3. QED BY <1>1, <1>4, <2>2
<1>6. PICK chain, done \in Seq(Kind), todo \in Seq(Kind \cup {"handler"}) :
        /\ q.entered = RootOf(q) \o <<"router">> \o done /\ todo = q.todo
        /\ done \o todo = Append(chain, "handler")
        /\ chain = ChainOf(p) /\ chain \in Seq(Kind) /\ Serves(p.route, p.path)
  BY <1>3, <1>5, ServingTyped DEF InRoute, ChainOf, IInv
<1>7. done = chain
  <2>1. /\ todo # <<>> /\ Head(todo) = "handler" /\ chain \in Seq(Kind)
        /\ "handler" \notin Kind /\ done \o todo = Append(chain, "handler")
        /\ done \in Seq(Kind) /\ todo \in Seq(Kind \cup {"handler"})
    BY <1>1, <1>4, <1>6
  <2>2. done = chain /\ todo = <<"handler">>
    BY <2>1, LastOfAll, Zenon
  <2>3. QED BY <2>2
<1>8. p.entered = RootOf(p) \o <<"router">> \o ChainOf(p) \o <<"handler">>
  <2>1. q.entered \in Seq(Stop) /\ "handler" \in Stop
    BY <1>1 DEF Good, RequestRecord, Stop
  <2>2. Append(q.entered, "handler") = q.entered \o <<"handler">>
    BY <2>1, AppendIsConcat
  <2>3. QED BY <1>3, <1>4, <1>6, <1>7, <2>2
<1>9. Authentic(p)
  <2>1. q.entered \in Seq(Stop) /\ "handler" \in Stop
    BY <1>1 DEF Good, RequestRecord, Stop
  <2>2. Contains(p.entered, "auth") => Contains(q.entered, "auth")
    BY <1>3, <2>1, ContainsAppend
  <2>3. QED BY <1>3, <1>4, <2>2 DEF Authentic
<1>10. Good(p)
  BY <1>3, <1>4, <1>6, <1>8, <1>9 DEF Good, Guarded
<1>11. QED BY <1>1, <1>10, OneRequest

\* What is left of the way back when its last part is done.
LEMMA FrontTyped ==
  ASSUME NEW s \in Seq({"log", "headers"}), s # <<>>
  PROVE  Front(s) \in Seq({"log", "headers"})
BY DEF Front

\* On its way back a response passes a logger; a sink may throw.
LEMMA LeaveLogKeeps ==
  ASSUME IInv, NEW r \in Request, NEW infoThrows \in BOOLEAN, NEW errorThrows \in BOOLEAN,
         LeaveLog(r, infoThrows, errorThrows)
  PROVE  IInv'
<1> DEFINE q == request[r]
           threw == q.outcome = "throw"
           failed == threw \/ infoThrows
           mute == failed /\ errorThrows
           outcome == IF failed THEN "throw" ELSE q.outcome
           lines == IF mute THEN q.lines ELSE q.lines + 1
           broken == q.broken \/ mute \/ (~threw /\ infoThrows)
           p == [q EXCEPT !.stack = Front(q.stack), !.outcome = outcome,
                          !.lines = lines, !.broken = broken]
<1>1. /\ Good(q) /\ q.phase = "up" /\ q.stack # <<>> /\ request' = [request EXCEPT ![r] = p]
      /\ UNCHANGED <<global, routes, listener, server>>
  BY DEF IInv, LeaveLog, Returns, Popped
<1>2. /\ q \in RequestRecord /\ q.stack \in Seq({"log", "headers"}) /\ q.lines \in Nat
      /\ q.broken \in BOOLEAN
      /\ q.outcome \in {"none", "ok", "throw", "unauthorized", "not found"}
  BY <1>1 DEF Good, RequestRecord
<1>3. Front(q.stack) \in Seq({"log", "headers"})
  BY <1>1, <1>2, FrontTyped
<1>4. /\ lines \in Nat /\ broken \in BOOLEAN
      /\ outcome \in {"none", "ok", "throw", "unauthorized", "not found"}
  <2>1. lines \in {q.lines, q.lines + 1}
    BY Zenon
  <2>2. outcome \in {"throw", q.outcome}
    BY Zenon
  <2>3. broken \in BOOLEAN
    OBVIOUS
  <2> HIDE DEF lines, outcome, broken
  <2>4. lines \in Nat
    <3>1. \A n \in Nat : n + 1 \in Nat
      OBVIOUS
    <3>2. QED BY <1>2, <2>1, <3>1, Zenon
  <2>5. outcome \in {"none", "ok", "throw", "unauthorized", "not found"}
    BY <1>2, <2>2
  <2>6. QED BY <2>3, <2>4, <2>5, Zenon
<1> HIDE DEF lines, outcome, broken
<1>5. \A b \in BOOLEAN :
        LET g == [q EXCEPT !.stack = Front(q.stack), !.outcome = outcome,
                           !.lines = lines, !.broken = b]
        IN  /\ g \in RequestRecord /\ g.phase = "up" /\ Keeps(g, q)
            /\ g.claims = q.claims /\ g.entered = q.entered
  BY <1>1, <1>2, <1>3, <1>4 DEF RequestRecord, Keeps
<1>6. /\ p \in RequestRecord /\ p.phase = "up" /\ Keeps(p, q)
      /\ p.claims = q.claims /\ p.entered = q.entered
  BY <1>4, <1>5, Zenon
<1> HIDE DEF p
<1>7. Good(p)
  BY <1>1, <1>6, GoodBack
<1>8. QED BY <1>1, <1>7, OneRequest

\* On its way back a response gets its security headers.
LEMMA LeaveHeadersKeeps ==
  ASSUME IInv, NEW r \in Request, LeaveHeaders(r)
  PROVE  IInv'
<1> DEFINE q == request[r]
           headers == q.headers \/ q.outcome # "throw"
           p == [q EXCEPT !.stack = Front(q.stack), !.headers = headers]
<1>1. /\ Good(q) /\ q.phase = "up" /\ q.stack # <<>> /\ request' = [request EXCEPT ![r] = p]
      /\ UNCHANGED <<global, routes, listener, server>>
  BY DEF IInv, LeaveHeaders, Returns, Popped
<1>2. q \in RequestRecord /\ q.stack \in Seq({"log", "headers"})
  BY <1>1 DEF Good, RequestRecord
<1>3. Front(q.stack) \in Seq({"log", "headers"})
  BY <1>1, <1>2, FrontTyped
<1>4. headers \in BOOLEAN
  BY <1>2
<1> HIDE DEF headers
<1>5. \A b \in BOOLEAN :
        LET g == [q EXCEPT !.stack = Front(q.stack), !.headers = b]
        IN  /\ g \in RequestRecord /\ g.phase = "up" /\ Keeps(g, q)
            /\ g.claims = q.claims /\ g.entered = q.entered
  BY <1>1, <1>2, <1>3 DEF RequestRecord, Keeps
<1>6. /\ p \in RequestRecord /\ p.phase = "up" /\ Keeps(p, q)
      /\ p.claims = q.claims /\ p.entered = q.entered
  BY <1>4, <1>5, Zenon
<1> HIDE DEF p
<1>7. Good(p)
  BY <1>1, <1>6, GoodBack
<1>8. QED BY <1>1, <1>7, OneRequest

\* A reply that leaves, and a request that is forgotten.
LEMMA ReplyKeeps ==
  ASSUME IInv, NEW r \in Request, Reply(r) \/ Forget(r)
  PROVE  IInv'
<1> DEFINE q == request[r]
<1>1. Good(q) /\ UNCHANGED <<global, routes, listener, server>>
  BY DEF IInv, Reply, Forget
<1>2. CASE Reply(r)
  <2> DEFINE p == [q EXCEPT !.phase = "done"]
  <2>1. q.phase = "up" /\ request' = [request EXCEPT ![r] = p]
    BY <1>2 DEF Reply, IInv, TypeOK
  <2>2. /\ p \in RequestRecord /\ p.phase = "done" /\ Keeps(p, q)
        /\ p.claims = q.claims /\ p.entered = q.entered
    BY <1>1 DEF Good, RequestRecord, Keeps
  <2> HIDE DEF p
  <2>3. Good(p)
    BY <1>1, <2>1, <2>2, GoodBack
  <2>4. QED BY <1>1, <2>1, <2>3, OneRequest
<1>3. CASE Forget(r)
  <2>1. NoRequest \in RequestRecord
    BY DEF NoRequest, RequestRecord
  <2>2. Good(NoRequest)
    BY <2>1 DEF Good, NoRequest
  <2>3. QED BY <1>1, <1>3, <2>2, OneRequest DEF Forget
<1>4. QED BY <1>2, <1>3

-----------------------------------------------------------------------------
(* The theorems.                                                           *)

\* Every step keeps the invariant.
LEMMA NextInv == IInv /\ [Next]_vars => IInv'
<1> SUFFICES ASSUME IInv, [Next]_vars PROVE IInv'
  OBVIOUS
<1>1. ASSUME NEW r \in Request, NEW l \in Listener, NEW path \in Path,
             NEW valid \in BOOLEAN, Accept(r, l, path, valid)
      PROVE  IInv'
  BY <1>1, AcceptKeeps
<1>2. ASSUME NEW r \in Request, Steps(r) PROVE IInv'
  BY <1>2, EnterWrapperKeeps, EnterAuthKeeps, EnterRouterKeeps, EnterHandlerKeeps,
     LeaveLogKeeps, LeaveHeadersKeeps, ReplyKeeps DEF Steps
<1>3. ASSUME NEW r \in Request, Forget(r) PROVE IInv'
  BY <1>3, ReplyKeeps
<1>4. CASE UNCHANGED vars
  <2>1. TypeOK'
    BY <1>4 DEF vars, IInv, TypeOK
  <2>2. RegistrationsStay
    BY <1>4, SameRoutes DEF vars, IInv, RegistrationsStay
  <2>3. QED BY <1>4, <2>1, <2>2, NoRequestMoves DEF vars
<1>5. QED BY <1>1, <1>2, <1>3, <1>4, ServerKeeps DEF Next

(***************************************************************************)
(* In every reachable state a request on its way down has been through a   *)
(* prefix of its listener's chain, the router and the chain of the route   *)
(* that serves its path, in that order, and the rest of it is before it.   *)
(***************************************************************************)
THEOREM Invariance == Spec => []IInv
<1>1. QED BY InitInv, NextInv, PTL DEF Spec

\* The variables keep their types.
THEOREM TypeCorrect == Spec => []TypeOK
<1>1. IInv => TypeOK
  BY DEF IInv
<1>2. QED BY <1>1, Invariance, PTL

(***************************************************************************)
(* A handler runs on the route that serves its path, behind exactly the    *)
(* middleware of its listener and of that route, and behind auth only with *)
(* claims.                                                                 *)
(***************************************************************************)
THEOREM HandlersAreGuarded == Spec => []HandlerIsGuarded
<1>1. IInv => HandlerIsGuarded
  <2> SUFFICES ASSUME IInv, NEW r \in Request, request[r].served
      PROVE  /\ Serves(request[r].route, request[r].path)
             /\ request[r].entered = listener[request[r].at].root \o <<"router">>
                                       \o routes[request[r].route].chain \o <<"handler">>
             /\ Contains(request[r].entered, "auth")
                  => request[r].valid /\ request[r].claims
    BY DEF HandlerIsGuarded
  <2>1. Guarded(request[r])
    BY DEF IInv, Good
  <2>2. QED BY <2>1 DEF Guarded, Authentic, RootOf, ChainOf
<1>2. QED BY <1>1, Invariance, PTL

(***************************************************************************)
(* A route that serves a path goes on serving it, and a listener keeps the *)
(* chain it was opened with.                                               *)
(***************************************************************************)
THEOREM RoutesKeep == Spec => RegistrationIsStable
<1> DEFINE Keep ==
      /\ \A path \in Path : \A i \in DOMAIN routes :
           Serves(i, path) => Serves(i, path)' /\ routes'[i] = routes[i]
      /\ \A l \in Listener :
           listener[l].state # "new" => listener'[l].root = listener[l].root
<1>1. ASSUME IInv, Next PROVE Keep
  <2>1. CASE UNCHANGED <<routes, listener>>
    BY <2>1 DEF Serves
  <2>2. ASSUME NEW pattern \in Pattern, NEW chain \in RouteChain, Handle(pattern, chain)
        PROVE  Keep
    <3>1. /\ DOMAIN routes = 1..Len(routes) /\ Len(routes) \in Nat
          /\ routes' = Append(routes, Route(pattern, chain)) /\ listener' = listener
      BY <1>1, <2>2 DEF Handle, IInv, TypeOK
    <3>2. /\ DOMAIN routes' = 1..(Len(routes) + 1)
          /\ \A i \in 1..Len(routes) : routes'[i] = routes[i]
      BY <1>1, <3>1 DEF IInv, TypeOK
    <3>3. QED BY <3>1, <3>2 DEF Serves
  <2>3. ASSUME NEW l \in Listener, Listen(l) \/ ShutdownResolves(l) PROVE Keep
    <3>1. UNCHANGED routes
      BY <2>3 DEF Listen, ShutdownResolves
    <3>2. \A path \in Path, i \in DOMAIN routes : Serves(i, path) <=> Serves(i, path)'
      BY <3>1 DEF Serves
    <3>3. listener \in [Listener -> [state : {"new", "open", "draining", "closed"},
                                    root : Seq(Kind)]]
      BY <1>1 DEF IInv, TypeOK
    <3>4. \A k \in Listener : listener[k].state # "new" => listener'[k].root = listener[k].root
      <4>1. CASE Listen(l)
        BY <3>3, <4>1 DEF Listen
      <4>2. CASE ShutdownResolves(l)
        BY <3>3, <4>2 DEF ShutdownResolves
      <4>3. QED BY <2>3, <4>1, <4>2
    <3>5. QED BY <3>1, <3>2, <3>4
  <2>4. ASSUME Shutdown PROVE Keep
    <3>1. /\ server \in Listener /\ routes' = routes
          /\ listener' = [listener EXCEPT ![server].state = "draining"]
      BY <1>1, <2>4 DEF Shutdown, IInv, TypeOK
    <3>2. QED BY <1>1, <3>1 DEF Serves, IInv, TypeOK
  <2>5. QED BY <1>1, <2>1, <2>2, <2>3, <2>4
        DEF Next, Use, Accept, Steps, Forget, EnterWrapper, EnterAuth, EnterRouter,
            EnterHandler, LeaveLog, LeaveHeaders, Reply
<1>2. ASSUME IInv, UNCHANGED vars PROVE Keep
  BY <1>2 DEF vars, Serves
<1>3. IInv /\ [Next]_vars => [Keep]_vars
  BY <1>1, <1>2
<1>4. QED BY <1>3, Invariance, PTL DEF Spec, RegistrationIsStable
-----------------------------------------------------------------------------
(* What the middlewares owe a request on its way back.                     *)

(***************************************************************************)
(* The lines written and the loggers that still await the response make up *)
(* the loggers entered; a securityHeaders that was entered has set its     *)
(* headers or awaits the response too, unless an error passes it by.       *)
(***************************************************************************)
Accounted(q) ==
  /\ ~q.broken => q.lines + Times(q.stack, "log") = Times(q.entered, "log")
  /\ (q.phase = "down" \/ q.outcome # "throw") /\ Contains(q.entered, "headers")
       => q.headers \/ Contains(q.stack, "headers")
  /\ q.phase = "done" => q.stack = <<>>

Accounts == \A r \in Request : Accounted(request[r])

\* What Accounted reads that a step down the chain leaves alone.
Owes(p, q) == p.lines = q.lines /\ p.broken = q.broken /\ p.headers = q.headers

\* A step that writes one request and nothing else.
LEMMA OneAccount ==
  ASSUME IInv, Accounts, NEW r \in Request, NEW q, Accounted(q),
         request' = [request EXCEPT ![r] = q]
  PROVE  Accounts'
<1>1. \A d \in Request : request'[d] = IF d = r THEN q ELSE request[d]
  BY DEF IInv, TypeOK
<1>2. \A d \in Request : Accounted(request'[d])
  BY <1>1 DEF Accounts
<1>3. QED BY <1>2 DEF Accounts, Accounted

\* A request that has met nothing owes nothing.
LEMMA NothingOwed ==
  ASSUME NEW q, q.entered = <<>>, q.stack = <<>>, q.lines = 0
  PROVE  Accounted(q)
<1>1. Times(<<>>, "log") = 0 /\ ~Contains(<<>>, "headers")
  BY TimesEmpty DEF Contains
<1>2. QED BY <1>1 DEF Accounted

\* Authentication, the router and the handler write no line and set no headers.
LEMMA PassingBy ==
  ASSUME NEW q \in RequestRecord, Accounted(q), q.phase = "down",
         NEW k \in Stop, k \notin {"log", "headers"},
         NEW p, Owes(p, q), p.stack = q.stack, p.phase # "done",
         p.entered = Append(q.entered, k)
  PROVE  Accounted(p)
<1>1. q.entered \in Seq(Stop)
  BY DEF RequestRecord, Stop
<1>2. Times(p.entered, "log") = Times(q.entered, "log")
  <2>1. Times(Append(q.entered, k), "log") = Times(q.entered, "log")
    BY <1>1, TimesAppend, Zenon
  <2>2. QED BY <2>1
<1>3. Contains(p.entered, "headers") => Contains(q.entered, "headers")
  <2>1. Contains(Append(q.entered, k), "headers")
          <=> Contains(q.entered, "headers") \/ "headers" = k
    BY <1>1, ContainsAppend, ZenonT(40)
  <2>2. QED BY <2>1
<1>4. QED BY <1>2, <1>3 DEF Accounted, Owes

\* A wrapper that is entered is owed the response.
LEMMA Wrapping ==
  ASSUME NEW q \in RequestRecord, Accounted(q), q.phase = "down",
         NEW kind \in {"log", "headers"},
         NEW p, Owes(p, q), p.stack = Append(q.stack, kind), p.phase = "down",
         p.entered = Append(q.entered, kind)
  PROVE  Accounted(p)
<1>1. /\ q.entered \in Seq(Stop) /\ kind \in Stop
      /\ q.stack \in Seq({"log", "headers"}) /\ q.lines \in Nat
  BY DEF RequestRecord, Stop, Kind
<1>2. /\ kind = "log" => /\ Times(p.entered, "log") = Times(q.entered, "log") + 1
                         /\ Times(p.stack, "log") = Times(q.stack, "log") + 1
      /\ kind # "log" => /\ Times(p.entered, "log") = Times(q.entered, "log")
                         /\ Times(p.stack, "log") = Times(q.stack, "log")
  <2>1. kind \in {"log", "headers"}
    OBVIOUS
  <2>2. /\ kind = "log" => Times(Append(q.entered, kind), "log") = Times(q.entered, "log") + 1
        /\ kind # "log" => Times(Append(q.entered, kind), "log") = Times(q.entered, "log")
    BY <1>1, TimesAppend, Zenon
  <2>3. /\ kind = "log" => Times(Append(q.stack, kind), "log") = Times(q.stack, "log") + 1
        /\ kind # "log" => Times(Append(q.stack, kind), "log") = Times(q.stack, "log")
    BY <1>1, <2>1, TimesAppend, Zenon
  <2>4. QED BY <2>2, <2>3
<1>3. Times(q.stack, "log") \in Nat /\ Times(q.entered, "log") \in Nat
  BY <1>1, TimesFinite, Zenon
<1>4. ~p.broken => p.lines + Times(p.stack, "log") = Times(p.entered, "log")
  <2>1. \A a, b, c \in Nat : a + b = c => a + (b + 1) = c + 1
    OBVIOUS
  <2>2. SUFFICES ASSUME ~p.broken
        PROVE  p.lines + Times(p.stack, "log") = Times(p.entered, "log")
    OBVIOUS
  <2>3. q.lines + Times(q.stack, "log") = Times(q.entered, "log") /\ p.lines = q.lines
    BY <2>2 DEF Accounted, Owes
  <2>4. CASE kind = "log"
    <3>1. q.lines + (Times(q.stack, "log") + 1) = Times(q.entered, "log") + 1
      BY <1>1, <1>3, <2>1, <2>3, Zenon
    <3>2. /\ Times(p.entered, "log") = Times(q.entered, "log") + 1
          /\ Times(p.stack, "log") = Times(q.stack, "log") + 1
      BY <1>2, <2>4
    <3>3. QED BY <2>3, <3>1, <3>2
  <2>5. CASE kind # "log"
    BY <1>2, <2>3, <2>5, Zenon
  <2>6. QED BY <2>4, <2>5
<1>5. /\ Contains(p.entered, "headers") => Contains(q.entered, "headers") \/ kind = "headers"
      /\ Contains(p.stack, "headers") <=> Contains(q.stack, "headers") \/ kind = "headers"
  <2>1. Contains(Append(q.entered, kind), "headers")
          <=> Contains(q.entered, "headers") \/ "headers" = kind
    BY <1>1, ContainsAppend, Zenon
  <2> DEFINE kinds == {"log", "headers"}
  <2>2. kind \in kinds /\ q.stack \in Seq(kinds)
    BY <1>1
  <2> HIDE DEF kinds
  <2>3. Contains(Append(q.stack, kind), "headers")
          <=> Contains(q.stack, "headers") \/ "headers" = kind
    BY <2>2, ContainsAppend, Zenon
  <2>4. p.entered = Append(q.entered, kind) /\ p.stack = Append(q.stack, kind)
    OBVIOUS
  <2>5. QED BY <2>1, <2>3, <2>4, Zenon
<1>6. QED BY <1>4, <1>5 DEF Accounted, Owes

\* What Enters and Responds leave alone and write.
LEMMA EntersOwes ==
  ASSUME NEW q \in RequestRecord, q.todo # <<>>
  PROVE  /\ Enters(q) \in RequestRecord /\ Owes(Enters(q), q) /\ Enters(q).stack = q.stack
         /\ Enters(q).phase = q.phase
         /\ Enters(q).entered = Append(q.entered, Head(q.todo))
         /\ \A outcome : /\ Owes(Responds(q, outcome), q)
                         /\ Responds(q, outcome).stack = q.stack
                         /\ Responds(q, outcome).phase = "up"
                         /\ Responds(q, outcome).entered = Append(q.entered, Head(q.todo))
<1> DEFINE e == Enters(q)
<1>1. /\ e \in RequestRecord /\ e.stack = q.stack /\ e.phase = q.phase
      /\ e.entered = Append(q.entered, Head(q.todo))
  BY EntersTyped
<1>2. Owes(e, q)
  BY DEF Enters, RequestRecord, Owes
<1>3. ASSUME NEW outcome
      PROVE  /\ Owes(Responds(q, outcome), q) /\ Responds(q, outcome).stack = q.stack
             /\ Responds(q, outcome).phase = "up"
             /\ Responds(q, outcome).entered = Append(q.entered, Head(q.todo))
  <2> DEFINE p == [e EXCEPT !.phase = "up", !.todo = <<>>, !.outcome = outcome]
  <2>1. Responds(q, outcome) = p
    BY DEF Responds
  <2> HIDE DEF e
  <2>2. Owes(p, e) /\ p.stack = e.stack /\ p.phase = "up" /\ p.entered = e.entered
    BY <1>1 DEF RequestRecord, Owes
  <2> HIDE DEF p
  <2>3. Owes(p, q)
    BY <1>2, <2>2 DEF Owes
  <2>4. QED BY <1>1, <2>1, <2>2, <2>3
<1>4. QED BY <1>1, <1>2, <1>3, Zenon

\* Every request that is entered somewhere has somewhere to go.
LEMMA WayDown ==
  ASSUME IInv, NEW r \in Request, request[r].phase = "down"
  PROVE  request[r] \in RequestRecord /\ request[r].todo # <<>>
BY DEF IInv, Good
\* A request that meets its listener's chain, or another chain behind the router.
LEMMA AccountsDown ==
  ASSUME IInv, Accounts, NEW r \in Request,
         \/ \E kind \in {"log", "headers"} : EnterWrapper(r, kind)
         \/ EnterAuth(r) \/ EnterRouter(r)
         \/ \E outcome \in {"ok", "throw"} : EnterHandler(r, outcome)
  PROVE  Accounts'
<1> DEFINE q == request[r]
           e == Enters(q)
<1>1. /\ q \in RequestRecord /\ q.todo # <<>> /\ q.phase = "down" /\ Accounted(q)
      /\ request \in [Request -> RequestRecord]
  BY WayDown DEF EnterWrapper, EnterAuth, EnterRouter, EnterHandler, Goes, Accounts,
     IInv, TypeOK
<1>2. /\ e \in RequestRecord /\ Owes(e, q) /\ e.stack = q.stack /\ e.phase = "down"
      /\ e.entered = Append(q.entered, Head(q.todo))
      /\ \A outcome : /\ Owes(Responds(q, outcome), q)
                      /\ Responds(q, outcome).stack = q.stack
                      /\ Responds(q, outcome).phase = "up"
                      /\ Responds(q, outcome).entered = Append(q.entered, Head(q.todo))
  BY <1>1, EntersOwes, Zenon
<1>3. ASSUME NEW kind \in {"log", "headers"}, EnterWrapper(r, kind) PROVE Accounts'
  <2> DEFINE p == [e EXCEPT !.stack = Append(e.stack, kind)]
  <2>1. request' = [request EXCEPT ![r] = p] /\ Head(q.todo) = kind
    BY <1>3 DEF EnterWrapper, Goes
  <2> HIDE DEF e
  <2>2. /\ Owes(p, q) /\ p.phase = "down" /\ p.stack = Append(q.stack, kind)
        /\ p.entered = Append(q.entered, kind)
    BY <1>2, <2>1 DEF RequestRecord, Owes
  <2> HIDE DEF p
  <2>3. Accounted(p)
    BY <1>1, <2>2, Wrapping
  <2>4. QED BY <2>1, <2>3, OneAccount
<1>4. ASSUME NEW k \in Stop, k \notin {"log", "headers"}, Head(q.todo) = k,
             NEW p, Owes(p, q), p.stack = q.stack, p.phase # "done",
             p.entered = Append(q.entered, Head(q.todo)),
             request' = [request EXCEPT ![r] = p]
      PROVE  Accounts'
  <2>1. Accounted(p)
    BY <1>1, <1>4, PassingBy
  <2>2. QED BY <1>4, <2>1, OneAccount
<1>5. ASSUME NEW k \in {"auth", "router", "handler"}, Head(q.todo) = k,
             NEW outcome, request' = [request EXCEPT ![r] = Responds(q, outcome)]
      PROVE  Accounts'
  <2>1. k \in Stop /\ k \notin {"log", "headers"}
    BY DEF Stop, Kind
  <2>2. QED BY <1>2, <1>4, <1>5, <2>1
<1>6. ASSUME EnterAuth(r) PROVE Accounts'
  <2>1. Head(q.todo) = "auth" /\ "auth" \in Stop
    BY <1>6 DEF EnterAuth, Goes, Stop, Kind
  <2>2. CASE q.valid
    <3> DEFINE p == [e EXCEPT !.claims = TRUE]
    <3>1. request' = [request EXCEPT ![r] = p]
      BY <1>1, <1>6, <2>2 DEF EnterAuth
    <3> HIDE DEF e
    <3>2. /\ Owes(p, q) /\ p.phase # "done" /\ p.stack = q.stack
          /\ p.entered = Append(q.entered, Head(q.todo))
      BY <1>2 DEF RequestRecord, Owes
    <3> HIDE DEF p
    <3>3. QED BY <1>4, <2>1, <3>1, <3>2
  <2>3. CASE ~q.valid
    <3>1. request' = [request EXCEPT ![r] = Responds(q, "unauthorized")]
      BY <1>1, <1>6, <2>3 DEF EnterAuth
    <3>2. QED BY <1>5, <2>1, <3>1
  <2>4. QED BY <2>2, <2>3
<1>7. ASSUME EnterRouter(r) PROVE Accounts'
  <2>1. Head(q.todo) = "router" /\ "router" \in Stop
    BY <1>7 DEF EnterRouter, Goes, Stop
  <2>2. ASSUME NEW i \in DOMAIN routes,
               request' = [request EXCEPT ![r] =
                 [Enters(@) EXCEPT !.todo = Append(routes[i].chain, "handler"), !.route = i]]
        PROVE  Accounts'
    <3> DEFINE p == [e EXCEPT !.todo = Append(routes[i].chain, "handler"), !.route = i]
    <3>1. request' = [request EXCEPT ![r] = p]
      BY <1>1, <2>2
    <3> HIDE DEF e
    <3>2. /\ Owes(p, q) /\ p.phase # "done" /\ p.stack = q.stack
          /\ p.entered = Append(q.entered, Head(q.todo))
      BY <1>2 DEF RequestRecord, Owes
    <3> HIDE DEF p
    <3>3. QED BY <1>4, <2>1, <3>1, <3>2
  <2>3. ASSUME request' = [request EXCEPT ![r] = Responds(@, "not found")] PROVE Accounts'
    <3>1. request' = [request EXCEPT ![r] = Responds(q, "not found")]
      BY <1>1, <2>3
    <3>2. QED BY <1>5, <2>1, <3>1
  <2>4. QED BY <1>7, <2>2, <2>3 DEF EnterRouter
<1>8. ASSUME NEW outcome \in {"ok", "throw"}, EnterHandler(r, outcome) PROVE Accounts'
  <2> DEFINE f == Responds(q, outcome)
             p == [f EXCEPT !.served = TRUE]
  <2>1. request' = [request EXCEPT ![r] = p] /\ Head(q.todo) = "handler" /\ "handler" \in Stop
    BY <1>1, <1>8 DEF EnterHandler, Goes, Stop
  <2>2. Good(q)
    BY DEF IInv
  <2>3. f \in RequestRecord
    BY <1>1, <2>2, RespondsGood
  <2>4. /\ Owes(f, q) /\ f.phase = "up" /\ f.stack = q.stack
        /\ f.entered = Append(q.entered, Head(q.todo))
    BY <1>2, Zenon
  <2> HIDE DEF f
  <2>5. /\ Owes(p, q) /\ p.phase # "done" /\ p.stack = q.stack
        /\ p.entered = Append(q.entered, Head(q.todo))
    BY <2>3, <2>4 DEF RequestRecord, Owes
  <2> HIDE DEF p
  <2>6. QED BY <1>4, <2>1, <2>5
<1>9. QED BY <1>3, <1>6, <1>7, <1>8
\* What is left of the way back, and what has gone from it.
LEMMA Unwinding ==
  ASSUME NEW q \in RequestRecord, q.stack # <<>>
  PROVE  LET rest == Front(q.stack)
         IN  /\ rest \in Seq({"log", "headers"})
             /\ Last(q.stack) = "log" => /\ Times(q.stack, "log") = Times(rest, "log") + 1
                                         /\ Contains(q.stack, "headers")
                                              <=> Contains(rest, "headers")
             /\ Last(q.stack) = "headers" => Times(q.stack, "log") = Times(rest, "log")
             /\ Times(rest, "log") \in Nat /\ Times(q.entered, "log") \in Nat
<1> DEFINE rest == Front(q.stack)
           last == Last(q.stack)
<1>1. /\ rest \in Seq({"log", "headers"}) /\ last \in {"log", "headers"}
      /\ q.stack = Append(rest, last) /\ q.entered \in Seq(Stop)
  <2>1. q.stack \in Seq({"log", "headers"}) /\ q.entered \in Seq(Stop)
    BY DEF RequestRecord, Stop
  <2>2. QED BY <2>1, FrontAndLast, Zenon
<1> HIDE DEF rest, last
<1>2. /\ last = "log" => Times(Append(rest, last), "log") = Times(rest, "log") + 1
      /\ last # "log" => Times(Append(rest, last), "log") = Times(rest, "log")
  BY <1>1, TimesAppend, Zenon
<1>3. Contains(Append(rest, last), "headers") <=> Contains(rest, "headers") \/ "headers" = last
  BY <1>1, ContainsAppend, ZenonT(40)
<1>4. Times(rest, "log") \in Nat /\ Times(q.entered, "log") \in Nat
  BY <1>1, TimesFinite, Zenon
<1>5. /\ last = "log" => /\ Times(q.stack, "log") = Times(rest, "log") + 1
                         /\ Contains(q.stack, "headers") <=> Contains(rest, "headers")
      /\ last = "headers" => Times(q.stack, "log") = Times(rest, "log")
  BY <1>1, <1>2, <1>3
<1>6. QED BY <1>1, <1>4, <1>5 DEF rest, last

\* A logger writes its line, or a sink of it has thrown.
LEMMA AccountsLeaveLog ==
  ASSUME IInv, Accounts, NEW r \in Request,
         NEW infoThrows \in BOOLEAN, NEW errorThrows \in BOOLEAN,
         LeaveLog(r, infoThrows, errorThrows)
  PROVE  Accounts'
<1> DEFINE q == request[r]
           threw == q.outcome = "throw"
           failed == threw \/ infoThrows
           mute == failed /\ errorThrows
           outcome == IF failed THEN "throw" ELSE q.outcome
           lines == IF mute THEN q.lines ELSE q.lines + 1
           broken == q.broken \/ mute \/ (~threw /\ infoThrows)
           rest == Front(q.stack)
           p == [q EXCEPT !.stack = rest, !.outcome = outcome,
                          !.lines = lines, !.broken = broken]
<1>1. /\ q \in RequestRecord /\ q.phase = "up" /\ Accounted(q) /\ q.stack # <<>>
      /\ Last(q.stack) = "log" /\ request' = [request EXCEPT ![r] = p]
  BY DEF IInv, Good, Accounts, LeaveLog, Returns, Popped
<1>2. /\ Times(q.stack, "log") = Times(rest, "log") + 1
      /\ Contains(q.stack, "headers") <=> Contains(rest, "headers")
      /\ Times(rest, "log") \in Nat /\ Times(q.entered, "log") \in Nat /\ q.lines \in Nat
  BY <1>1, Unwinding DEF RequestRecord
<1>3. /\ ~broken => ~q.broken /\ lines = q.lines + 1
      /\ outcome # "throw" => q.outcome # "throw"
  OBVIOUS
<1> HIDE DEF outcome, lines, broken, rest
<1>4. /\ p.stack = rest /\ p.outcome = outcome /\ p.lines = lines /\ p.broken = broken
      /\ p.entered = q.entered /\ p.headers = q.headers /\ p.phase = "up"
  BY <1>1 DEF RequestRecord
<1> HIDE DEF p
<1>5. ~p.broken => p.lines + Times(p.stack, "log") = Times(p.entered, "log")
  <2>1. \A a, b, c \in Nat : a + (b + 1) = c => (a + 1) + b = c
    OBVIOUS
  <2>2. SUFFICES ASSUME ~p.broken PROVE p.lines + Times(p.stack, "log") = Times(p.entered, "log")
    OBVIOUS
  <2>3. lines = q.lines + 1 /\ ~q.broken
    BY <1>3, <1>4, <2>2
  <2>4. q.lines + (Times(rest, "log") + 1) = Times(q.entered, "log")
    BY <1>1, <1>2, <2>3 DEF Accounted
  <2>5. (q.lines + 1) + Times(rest, "log") = Times(q.entered, "log")
    <3>1. PICK a \in Nat, b \in Nat, c \in Nat :
            a = q.lines /\ b = Times(rest, "log") /\ c = Times(q.entered, "log")
      BY <1>2
    <3>2. a + (b + 1) = c
      BY <2>4, <3>1
    <3>3. QED BY <2>1, <3>1, <3>2
  <2>6. QED BY <1>4, <2>3, <2>5
<1>6. Accounted(p)
  BY <1>1, <1>2, <1>3, <1>4, <1>5 DEF Accounted
<1>7. QED BY <1>1, <1>6, OneAccount

\* securityHeaders sets its headers, or an error passes it by.
LEMMA AccountsLeaveHeaders ==
  ASSUME IInv, Accounts, NEW r \in Request, LeaveHeaders(r)
  PROVE  Accounts'
<1> DEFINE q == request[r]
           headers == q.headers \/ q.outcome # "throw"
           rest == Front(q.stack)
           p == [q EXCEPT !.stack = rest, !.headers = headers]
<1>1. /\ q \in RequestRecord /\ q.phase = "up" /\ Accounted(q) /\ q.stack # <<>>
      /\ Last(q.stack) = "headers" /\ request' = [request EXCEPT ![r] = p]
  BY DEF IInv, Good, Accounts, LeaveHeaders, Returns, Popped
<1>2. Times(q.stack, "log") = Times(rest, "log")
  BY <1>1, Unwinding
<1>3. q.outcome # "throw" => headers
  OBVIOUS
<1> HIDE DEF headers, rest
<1>4. /\ p.stack = rest /\ p.outcome = q.outcome /\ p.lines = q.lines /\ p.broken = q.broken
      /\ p.entered = q.entered /\ p.headers = headers /\ p.phase = "up"
  BY <1>1 DEF RequestRecord
<1> HIDE DEF p
<1>5. Accounted(p)
  BY <1>1, <1>2, <1>3, <1>4 DEF Accounted
<1>6. QED BY <1>1, <1>5, OneAccount

\* Every step keeps the accounts.
LEMMA NextAccounts == IInv /\ Accounts /\ [Next]_vars => Accounts'
<1> SUFFICES ASSUME IInv, Accounts, [Next]_vars PROVE Accounts'
  OBVIOUS
<1>1. ASSUME UNCHANGED request PROVE Accounts'
  BY <1>1 DEF Accounts, Accounted
<1>2. ASSUME NEW r \in Request, NEW l \in Listener, NEW path \in Path,
             NEW valid \in BOOLEAN, Accept(r, l, path, valid)
      PROVE  Accounts'
  <2> DEFINE todo == Append(listener[l].root, "router")
             p == [NoRequest EXCEPT !.phase = "down", !.at = l, !.path = path,
                                    !.valid = valid, !.todo = todo]
  <2>1. request' = [request EXCEPT ![r] = p]
    BY <1>2 DEF Accept
  <2> HIDE DEF todo
  <2>2. /\ p.phase = "down" /\ p.entered = <<>> /\ p.stack = <<>> /\ p.lines = 0
    BY DEF NoRequest
  <2> HIDE DEF p
  <2>3. Accounted(p)
    BY <2>2, NothingOwed
  <2>4. QED BY <2>1, <2>3, OneAccount
<1>3. ASSUME NEW r \in Request, Reply(r) PROVE Accounts'
  <2> DEFINE q == request[r]
             p == [q EXCEPT !.phase = "done"]
  <2>1. /\ q \in RequestRecord /\ Accounted(q) /\ q.phase = "up" /\ q.stack = <<>>
        /\ request' = [request EXCEPT ![r] = p]
    BY <1>3 DEF Reply, IInv, Good, Accounts, TypeOK
  <2>2. /\ p.phase = "done" /\ p.stack = q.stack /\ p.outcome = q.outcome /\ p.lines = q.lines
        /\ p.broken = q.broken /\ p.entered = q.entered /\ p.headers = q.headers
    BY <2>1 DEF RequestRecord
  <2> HIDE DEF p
  <2>3. Accounted(p)
    BY <2>1, <2>2 DEF Accounted
  <2>4. QED BY <2>1, <2>3, OneAccount
<1>4. ASSUME NEW r \in Request, Forget(r) PROVE Accounts'
  <2>1. request' = [request EXCEPT ![r] = NoRequest] /\ Accounted(NoRequest)
    BY <1>4, NothingOwed DEF Forget, NoRequest
  <2>2. QED BY <2>1, OneAccount
<1>5. ASSUME NEW r \in Request, Steps(r) PROVE Accounts'
  BY <1>3, <1>5, AccountsDown, AccountsLeaveLog, AccountsLeaveHeaders DEF Steps
<1>6. QED BY <1>1, <1>2, <1>4, <1>5 DEF Next, Use, Handle, Listen, ShutdownResolves, Shutdown, vars

(***************************************************************************)
(* When a reply leaves, every logger the request went through has written  *)
(* one line unless a sink threw, and every securityHeaders has set its     *)
(* headers unless an error passed by.                                      *)
(***************************************************************************)
THEOREM RepliesComplete == Spec => []RepliesAreComplete
<1>1. Init => Accounts
  BY NothingOwed DEF Init, Accounts, NoRequest
<1>2. IInv /\ Accounts => RepliesAreComplete
  <2> SUFFICES ASSUME IInv, Accounts, NEW r \in Request, request[r].phase = "done"
      PROVE  /\ request[r].stack = <<>>
             /\ ~request[r].broken => request[r].lines = Loggers(request[r].entered)
             /\ request[r].outcome # "throw" /\ Contains(request[r].entered, "headers")
                  => request[r].headers
    BY DEF RepliesAreComplete
  <2>1. Accounted(request[r]) /\ request[r].stack = <<>> /\ request[r].lines \in Nat
    BY DEF Accounts, Accounted, IInv, Good, RequestRecord
  <2>2. Times(<<>>, "log") = 0 /\ ~Contains(<<>>, "headers")
    BY TimesEmpty DEF Contains
  <2>3. \A n \in Nat : n + 0 = n
    OBVIOUS
  <2>4. ~request[r].broken => request[r].lines = Times(request[r].entered, "log")
    BY <2>1, <2>2, <2>3 DEF Accounted
  <2>5. Loggers(request[r].entered) = Times(request[r].entered, "log")
    BY DEF Loggers, Times
  <2>6. QED BY <2>1, <2>2, <2>4, <2>5 DEF Accounted
<1>3. QED BY <1>1, <1>2, NextAccounts, Invariance, PTL DEF Spec
-----------------------------------------------------------------------------
(* The REST client.                                                        *)

ClientRecord ==
  [phase : {"idle", "fetching", "reading", "done"}, signals : SUBSET {"caller", "timeout"},
   result : {"none", "response", "HttpClientError", "raw"}, given : Timeouts \cup {Omitted}]

\* A request is done exactly when its promise is settled.
Settles(q) == q \in ClientRecord /\ (q.phase = "done" <=> q.result # "none")

ClientInv == aborted \in BOOLEAN /\ call \in [Call -> ClientRecord] /\ \A r \in Call : Settles(call[r])

\* A step that replaces one request by one that settles alike keeps the invariant.
LEMMA OneCall ==
  ASSUME ClientInv, NEW r \in Call, NEW q, Settles(q), call' = [call EXCEPT ![r] = q],
         aborted' \in BOOLEAN
  PROVE  ClientInv'
BY DEF ClientInv, Settles

\* A request that is in flight settles when it fails, and does not return to waiting.
LEMMA FailKeeps ==
  ASSUME ClientInv, NEW r \in Call, Pending(r), Fail(r), aborted' = aborted
  PROVE  ClientInv'
<1> DEFINE q == [call[r] EXCEPT !.phase = "done", !.result = Rejection(r)]
<1>1. call' = [call EXCEPT ![r] = q]
  BY DEF Fail
<1>2. Rejection(r) \in {"HttpClientError", "raw"}
  BY DEF Rejection
<1>3. Settles(q)
  BY <1>2 DEF Settles, ClientRecord, ClientInv
<1>4. aborted' \in BOOLEAN
  BY DEF ClientInv
<1> QED
  BY <1>1, <1>3, <1>4, OneCall

(***************************************************************************)
(* The inductive invariant of the REST client: every request, in whatever  *)
(* order answers, timeouts and aborts reach it, is done exactly when its   *)
(* promise is settled.                                                     *)
(***************************************************************************)
THEOREM ClientInvariance == ClientSpec => []ClientInv
<1>0. Settles(NotMade)
  BY DEF Settles, ClientRecord, NotMade
<1>1. ClientInit => ClientInv
  BY <1>0 DEF ClientInit, ClientInv, Settles
<1>2. ClientInv /\ [ClientNext]_clientVars => ClientInv'
  <2> SUFFICES ASSUME ClientInv, [ClientNext]_clientVars PROVE ClientInv'
    OBVIOUS
  <2>0. aborted \in BOOLEAN /\ \A r \in Call : Settles(call[r])
    BY DEF ClientInv
  <2>1. ASSUME NEW r \in Call, NEW hasSignal \in BOOLEAN, NEW timeoutMs \in Timeouts \cup {Omitted},
               Begin(r, hasSignal, timeoutMs)
        PROVE  ClientInv'
    <3> DEFINE sources == ComposeSignal(hasSignal, EffectiveTimeout(timeoutMs))
               q == [call[r] EXCEPT !.phase = "fetching", !.given = timeoutMs, !.signals = sources]
    <3>1. sources \in SUBSET {"caller", "timeout"}
      BY DEF ComposeSignal
    <3>2. call[r].phase = "idle" /\ call' = [call EXCEPT ![r] = q] /\ aborted' = aborted
      BY <2>1 DEF Begin
    <3> HIDE DEF sources
    <3>3. Settles(q)
      BY <2>0, <3>1, <3>2 DEF Settles, ClientRecord
    <3> QED
      BY <2>0, <3>2, <3>3, OneCall
  <2>2. ASSUME NEW r \in Call, BadArgument(r) PROVE ClientInv'
    <3> DEFINE q == [call[r] EXCEPT !.phase = "done", !.result = "raw"]
    <3>1. call' = [call EXCEPT ![r] = q] /\ aborted' = aborted
      BY <2>2 DEF BadArgument
    <3>2. Settles(q)
      BY <2>0 DEF Settles, ClientRecord
    <3> QED
      BY <2>0, <3>1, <3>2, OneCall
  <2>3. ASSUME NEW r \in Call, HeadersArrive(r) PROVE ClientInv'
    <3> DEFINE q == [call[r] EXCEPT !.phase = "reading"]
    <3>1. call[r].phase = "fetching" /\ call' = [call EXCEPT ![r] = q] /\ aborted' = aborted
      BY <2>3 DEF HeadersArrive
    <3>2. Settles(q)
      BY <2>0, <3>1 DEF Settles, ClientRecord
    <3> QED
      BY <2>0, <3>1, <3>2, OneCall
  <2>4. ASSUME NEW r \in Call, BodyArrives(r) PROVE ClientInv'
    <3> DEFINE q == [call[r] EXCEPT !.phase = "done", !.result = "response"]
    <3>1. call' = [call EXCEPT ![r] = q] /\ aborted' = aborted
      BY <2>4 DEF BodyArrives
    <3>2. Settles(q)
      BY <2>0 DEF Settles, ClientRecord
    <3> QED
      BY <2>0, <3>1, <3>2, OneCall
  <2>5. ASSUME NEW r \in Call, NetworkFails(r) \/ TimeoutFires(r) \/ AbortSeen(r) PROVE ClientInv'
    BY <2>5, FailKeeps DEF NetworkFails, TimeoutFires, AbortSeen
  <2>6. ASSUME NEW r \in Call, Again(r) PROVE ClientInv'
    <3>1. call' = [call EXCEPT ![r] = NotMade] /\ aborted' = aborted
      BY <2>6 DEF Again
    <3> QED
      BY <2>0, <3>1, <1>0, OneCall
  <2>7. CASE Abort
    BY <2>7 DEF Abort, ClientInv
  <2>8. CASE UNCHANGED clientVars
    BY <2>8 DEF clientVars, ClientInv
  <2> QED
    BY <2>1, <2>2, <2>3, <2>4, <2>5, <2>6, <2>7, <2>8 DEF ClientNext
<1> QED
  BY <1>1, <1>2, PTL DEF ClientSpec

(***************************************************************************)
(* The variables of the REST client keep their types, and no request is    *)
(* done without an answer or an error, or has one before it is done.       *)
(***************************************************************************)
THEOREM ClientTypeCorrect == ClientSpec => []ClientTypeOK
<1>1. ClientInv => ClientTypeOK
  BY DEF ClientInv, ClientTypeOK, Settles, ClientRecord
<1> QED
  BY <1>1, ClientInvariance, PTL

=============================================================================
