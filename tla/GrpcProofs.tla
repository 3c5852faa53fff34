----------------------------- MODULE GrpcProofs -----------------------------
(***************************************************************************)
(* Proofs about config/server/grpc and config/client/grpc, for any number  *)
(* of calls and methods and any sequences of interceptors.                 *)
(***************************************************************************)
EXTENDS Grpc, Chains

(***************************************************************************)
(* The parts of the inductive invariant.                                   *)
(***************************************************************************)
\* What a handler is registered with: the server's interceptors, then its service's.
Behind(chain) == \E own \in ServiceChain : chain = interceptors \o own

HandlersBehind == \A m \in Method : handlers[m] # None => Behind(handlers[m])

Route(q) == Append(q.chain, "handler")

\* Where a call is on its way down its chain, and what it keeps of it afterwards.
OnRoute(q) ==
  /\ q.phase = "sent" => q.method \in Method
  /\ q.phase \in {"idle", "sent"} => q.entered = <<>>
  /\ q.phase \in {"sent", "down"} => q.outcome = "none"
  /\ q.phase \in {"idle", "sent", "down"} => q.result = "none" /\ ~q.broken
  /\ q.phase = "down" =>
       /\ q.todo # <<>> /\ q.entered \o q.todo = Route(q) /\ Behind(q.chain)
       /\ q.entered \in Seq(Interceptor)
       /\ Contains(q.entered, "jwt") => q.valid /\ q.claims
  /\ Contains(q.entered, "handler") =>
       /\ q.entered = Route(q) /\ Behind(q.chain)
       /\ Contains(q.chain, "jwt") => q.valid /\ q.claims
  /\ q.result # "none" => Contains(q.entered, "handler")

\* What the callback of a call gets: the verdict, unless a sink threw on the way.
Due(q) == IF q.broken THEN "internal" ELSE Verdict(q)

\* An outcome is what the handler or an interceptor made it, and so is what a client is told.
Honest(q) ==
  /\ q.promise = "pending" => q.phase \notin {"idle", "over"}
  /\ q.outcome = "ok" => q.result = "ok"
  /\ q.outcome = "unauthenticated" => ~Contains(q.entered, "handler")
  /\ q.phase \in {"up", "answered"} => q.outcome = Due(q)
  /\ q.promise = "resolved" => q.result = "ok"
  /\ q.code \notin OwnCodes => q.phase = "answered" /\ q.code = q.outcome

Good(q) == q \in CallRecord /\ OnRoute(q) /\ Honest(q)

IInv == TypeOK /\ HandlersBehind /\ \A c \in Call : Good(call[c])

\* What a call meets on its way: interceptors, and a handler behind them.
Stop == Interceptor \cup {"handler"}

-----------------------------------------------------------------------------
(* Steps.                                                                  *)

\* A step that writes one call and nothing else.
LEMMA OneCall ==
  ASSUME IInv, NEW c \in Call, NEW q, Good(q), call' = [call EXCEPT ![c] = q], OnlyCalls
  PROVE  IInv'
<1>1. /\ call' \in [Call -> CallRecord]
      /\ \A d \in Call : call'[d] = IF d = c THEN q ELSE call[d]
  BY DEF IInv, TypeOK, Good
<1>2. \A d \in Call : Good(call'[d])
  BY <1>1 DEF IInv
<1>3. TypeOK'
  <2>1. \A d \in Call : call'[d].promise = "pending" => call'[d].phase \notin {"idle", "over"}
    BY <1>2 DEF Good, Honest, Due, Verdict, OwnCodes
  <2>2. QED BY <1>1, <2>1 DEF IInv, TypeOK, OnlyCalls, Pending
<1>4. HandlersBehind'
  BY DEF IInv, HandlersBehind, Behind, OnlyCalls
<1>5. ASSUME NEW d \in Call PROVE Good(call[d])'
  <2>1. Good(call'[d]) /\ interceptors' = interceptors
    BY <1>2 DEF OnlyCalls
  <2>2. (call[d] \in CallRecord)' /\ Honest(call[d])'
    BY <2>1 DEF Good, Honest, Due, Verdict, OwnCodes
  <2>3. OnRoute(call[d])'
    BY <2>1 DEF Good, OnRoute, Behind, Route
  <2>4. QED BY <2>2, <2>3 DEF Good
<1>6. QED BY <1>3, <1>4, <1>5 DEF IInv

\* A step that leaves the calls, the interceptors and the handlers alone.
LEMMA NoCallMoves ==
  ASSUME IInv, UNCHANGED <<interceptors, handlers, call>>,
         server' \in {"new", "open", "draining", "stopped"},
         closed' \in BOOLEAN
  PROVE  IInv'
<1>1. TypeOK' /\ HandlersBehind'
  BY DEF IInv, TypeOK, HandlersBehind, Behind, Pending
<1>2. \A d \in Call : Good(call[d])'
  BY ZenonT(60) DEF IInv, Good, OnRoute, Honest, Behind, Route
<1>3. QED BY <1>1, <1>2 DEF IInv

\* A call that was not made is nowhere on its way.
LEMMA NoCallGood == Good(NoCall)
<1>1. /\ NoCall.entered = <<>> /\ NoCall.phase = "idle" /\ NoCall.outcome = "none"
      /\ NoCall.promise = "none" /\ NoCall.code = "none" /\ NoCall.result = "none" /\ ~NoCall.broken
      /\ NoCall \in CallRecord
  BY DEF NoCall, CallRecord
<1>2. ~Contains(<<>>, "handler")
  BY DEF Contains
<1>3. QED BY <1>1, <1>2 DEF Good, OnRoute, Honest, OwnCodes

\* Nothing is registered and no call made at the start.
LEMMA InitInv == Init => IInv
<1> SUFFICES ASSUME Init PROVE IInv
  OBVIOUS
<1>1. \A c \in Call : call[c] = NoCall /\ Good(call[c])
  BY NoCallGood DEF Init
<1>2. TypeOK
  BY <1>1 DEF Init, TypeOK, Good, Pending, NoCall
<1>3. HandlersBehind
  BY DEF Init, HandlersBehind
<1>4. QED BY <1>1, <1>2, <1>3 DEF IInv

\* A service is registered behind the interceptors.
LEMMA AddServiceKeeps ==
  ASSUME IInv, NEW m \in Method, NEW own \in ServiceChain, AddService(m, own)
  PROVE  IInv'
<1>1. /\ interceptors \in Seq(Interceptor) /\ own \in Seq(Interceptor)
      /\ interceptors \o own \in Seq(Interceptor)
  BY ChainAssumption DEF IInv, TypeOK
<1>2. handlers' = [handlers EXCEPT ![m] = interceptors \o own]
      /\ UNCHANGED <<interceptors, server, closed, call>>
  BY DEF AddService
<1>3. TypeOK'
  BY <1>1, <1>2 DEF IInv, TypeOK, Pending
<1>4. HandlersBehind'
  BY <1>2 DEF IInv, TypeOK, HandlersBehind, Behind
<1>5. \A d \in Call : Good(call[d])'
  BY ZenonT(60), <1>2 DEF IInv, Good, OnRoute, Honest, Behind, Route
<1>6. QED BY <1>3, <1>4, <1>5 DEF IInv

\* A promise that settles on the client's side, with a code of the client's.
LEMMA SettledGood ==
  ASSUME NEW q, Good(q),
         NEW code \in {"cancelled", "deadline", "unavailable", "unknown or closed"}
  PROVE  Good(Settled(q, "rejected", code))
<1> DEFINE p == Settled(q, "rejected", code)
<1>1. p = [q EXCEPT !.promise = "rejected", !.code = code]
  BY DEF Settled
<1>2. /\ p \in CallRecord /\ p.promise = "rejected" /\ p.code = code
      /\ p.phase = q.phase /\ p.method = q.method /\ p.entered = q.entered
      /\ p.outcome = q.outcome /\ p.result = q.result /\ p.broken = q.broken /\ p.todo = q.todo
      /\ p.chain = q.chain /\ p.valid = q.valid /\ p.claims = q.claims
  BY ZenonT(60), <1>1 DEF Good, CallRecord
<1> HIDE DEF p
<1>3. OnRoute(p)
  BY <1>2 DEF Good, OnRoute, Route
<1>4. Honest(p)
  BY <1>2 DEF Good, Honest, Due, Verdict, OwnCodes
<1>5. QED BY <1>2, <1>3, <1>4 DEF Good, p

\* forceShutdown settles every promise the server still owes, and moves no call.
LEMMA ForceShutdownKeeps ==
  ASSUME IInv, ForceShutdown
  PROVE  IInv'
<1>1. /\ call' = [c \in Call |-> IF c \in InFlight THEN Settled(call[c], "rejected", "cancelled")
                                 ELSE call[c]]
      /\ server' = "stopped" /\ UNCHANGED <<interceptors, handlers, closed>>
  BY DEF ForceShutdown
<1>2. \A d \in Call : Good(call'[d])
  BY <1>1, SettledGood DEF IInv
<1>3. TypeOK'
  BY <1>1, <1>2 DEF IInv, TypeOK, Pending, Good, Honest
<1>4. HandlersBehind'
  BY <1>1 DEF IInv, HandlersBehind, Behind
<1>5. \A d \in Call : Good(call[d])'
  BY ZenonT(60), <1>1, <1>2 DEF Good, OnRoute, Honest, Behind, Route
<1>6. QED BY <1>3, <1>4, <1>5 DEF IInv

-----------------------------------------------------------------------------
(* A call at its client.                                                   *)

\* A call that is made has its promise, settled at once if it cannot be sent.
LEMMA UnaryKeeps ==
  ASSUME IInv, NEW c \in Call, NEW m \in Method \cup {None},
         NEW valid \in BOOLEAN, NEW deadline \in BOOLEAN, Unary(c, m, valid, deadline)
  PROVE  IInv'
<1>1. Good(call[c]) /\ OnlyCalls
  BY DEF IInv, Unary
<1>2. CASE closed \/ m \notin Method
  <2>1. call' = [call EXCEPT ![c] = Settled(call[c], "rejected", "unknown or closed")]
    BY <1>2, Zenon DEF Unary
  <2>2. QED BY <1>1, <2>1, SettledGood, OneCall
<1>3. CASE ~(closed \/ m \notin Method)
  <2> DEFINE q == [NoCall EXCEPT !.promise = "pending", !.phase = "sent",
                                 !.method = m, !.valid = valid, !.deadline = deadline]
  <2>1. call' = [call EXCEPT ![c] = q]
    BY <1>3 DEF Unary
  <2>2. /\ q \in CallRecord /\ q.promise = "pending" /\ q.phase = "sent" /\ q.method = m
        /\ q.entered = <<>> /\ q.outcome = "none" /\ q.code = "none" /\ q.result = "none"
        /\ ~q.broken
    <3>1. NoCall \in CallRecord
      BY NoCallGood DEF Good
    <3>2. q \in CallRecord
      BY <3>1 DEF CallRecord
    <3>3. QED BY <3>2 DEF NoCall
  <2> HIDE DEF q
  <2>3. ~Contains(q.entered, "handler")
    BY <2>2 DEF Contains
  <2>4. OnRoute(q)
    BY <1>3, <2>2, <2>3 DEF OnRoute
  <2>5. Honest(q)
    BY <2>2 DEF Honest, Due, Verdict, OwnCodes
  <2>6. QED BY <1>1, <2>1, <2>2, <2>4, <2>5, OneCall DEF Good
<1>4. QED BY <1>2, <1>3

\* A deadline or a broken connection settles the promise, wherever the call is.
LEMMA ClientGivesUp ==
  ASSUME IInv, NEW c \in Call, DeadlinePasses(c) \/ ConnectionBreaks(c)
  PROVE  IInv'
<1>1. PICK code \in {"deadline", "unavailable"} :
        call' = [call EXCEPT ![c] = Settled(call[c], "rejected", code)]
  BY DEF DeadlinePasses, ConnectionBreaks, IInv, TypeOK
<1>2. OnlyCalls /\ Good(call[c])
  BY DEF DeadlinePasses, ConnectionBreaks, IInv
<1>3. QED BY <1>1, <1>2, SettledGood, OneCall

\* An answer that arrives settles the promise if nothing else has.
LEMMA AnsweredKeeps ==
  ASSUME IInv, NEW c \in Call, Answered(c)
  PROVE  IInv'
<1> DEFINE q == call[c]
<1>1. /\ Good(q) /\ q.phase = "answered" /\ OnlyCalls
  BY DEF IInv, Answered
<1>2. PICK promise \in {"resolved", "rejected"} :
        /\ call' = [call EXCEPT ![c] = Settled(q, promise, q.outcome)]
        /\ promise = "resolved" => q.outcome = "ok"
  <2>1. CASE q.outcome = "ok"
    BY <2>1 DEF Answered, IInv, TypeOK
  <2>2. CASE q.outcome # "ok"
    BY <2>2 DEF Answered, IInv, TypeOK
  <2>3. QED BY <2>1, <2>2
<1> DEFINE p == Settled(q, promise, q.outcome)
<1>3. p = [q EXCEPT !.promise = promise, !.code = q.outcome]
  BY DEF Settled
<1>4. /\ p \in CallRecord /\ p.promise = promise /\ p.code = q.outcome
      /\ p.phase = q.phase /\ p.method = q.method /\ p.entered = q.entered
      /\ p.outcome = q.outcome /\ p.result = q.result /\ p.broken = q.broken /\ p.todo = q.todo
      /\ p.chain = q.chain /\ p.valid = q.valid /\ p.claims = q.claims
  BY ZenonT(60), <1>1, <1>3 DEF Good, CallRecord
<1> HIDE DEF p
<1>5. OnRoute(p)
  BY <1>1, <1>4 DEF Good, OnRoute, Route
<1>6. Honest(p)
  BY <1>1, <1>2, <1>4 DEF Good, Honest, Due, Verdict, OwnCodes
<1>7. QED BY <1>1, <1>2, <1>4, <1>5, <1>6, OneCall DEF Good, p

-----------------------------------------------------------------------------
(* A call at the server.                                                   *)

\* A call that the server takes gets the chain of its method.
LEMMA AcceptKeeps ==
  ASSUME IInv, NEW c \in Call, Accept(c)
  PROVE  IInv'
<1> DEFINE q == call[c]
           chain == handlers[q.method]
<1>1. /\ Good(q) /\ q.phase = "sent" /\ OnlyCalls
  BY DEF IInv, Accept
<1>2. q.method \in Method /\ q.entered = <<>> /\ q.result = "none" /\ ~q.broken
  BY <1>1 DEF Good, OnRoute
<1>3. ~Contains(q.entered, "handler") /\ ~Contains(q.entered, "jwt")
  BY <1>2 DEF Contains
<1>4. CASE chain = None
  <2> DEFINE p == [q EXCEPT !.phase = "answered", !.outcome = "unimplemented"]
  <2>1. call' = [call EXCEPT ![c] = p]
    BY <1>4 DEF Accept, IInv, TypeOK
  <2>2. /\ p \in CallRecord /\ p.phase = "answered" /\ p.outcome = "unimplemented"
        /\ p.entered = q.entered /\ p.promise = q.promise /\ p.code = q.code
        /\ p.result = q.result /\ p.broken = q.broken
    BY <1>1 DEF Good, CallRecord
  <2> HIDE DEF p
  <2>3. OnRoute(p)
    BY <1>2, <1>3, <2>2 DEF OnRoute
  <2>4. Honest(p)
    BY <1>1, <1>2, <1>3, <2>2 DEF Good, Honest, Due, Verdict, OwnCodes
  <2>5. QED BY <1>1, <2>1, <2>2, <2>3, <2>4, OneCall DEF Good
<1>5. CASE chain # None
  <2> DEFINE p == [q EXCEPT !.phase = "down", !.chain = chain,
                            !.todo = Append(chain, "handler")]
  <2>1. call' = [call EXCEPT ![c] = p]
    BY <1>5 DEF Accept, IInv, TypeOK
  <2>2. chain \in Seq(Interceptor) /\ Behind(chain)
    BY <1>2, <1>5 DEF IInv, TypeOK, HandlersBehind
  <2>3. Append(chain, "handler") \in Seq(Stop) /\ Append(chain, "handler") # <<>>
    BY <2>2, SeqMonotonic, AppendProperties DEF Stop
  <2>4. /\ p \in CallRecord /\ p.phase = "down" /\ p.outcome = q.outcome
        /\ p.entered = <<>> /\ p.promise = q.promise /\ p.code = q.code
        /\ p.result = q.result /\ p.broken = q.broken /\ p.chain = chain /\ p.todo = Append(chain, "handler")
    BY <1>1, <1>2, <2>2, <2>3 DEF Good, CallRecord, Stop
  <2> HIDE DEF p
  <2>5. p.entered \o p.todo = Route(p) /\ p.entered \in Seq(Interceptor)
    BY <2>3, <2>4 DEF Route
  <2>6. p.outcome = "none"
    BY <1>1, <2>4 DEF Good, OnRoute
  <2>7. OnRoute(p)
    BY <1>2, <1>3, <2>2, <2>3, <2>4, <2>5, <2>6 DEF OnRoute
  <2>8. Honest(p)
    BY <1>1, <1>2, <2>4, <2>6 DEF Good, Honest, Due, Verdict, OwnCodes
  <2>9. QED BY <1>1, <2>1, <2>4, <2>7, <2>8, OneCall DEF Good
<1>6. QED BY <1>4, <1>5

\* A call that is turned away has met nothing.
LEMMA RefuseKeeps ==
  ASSUME IInv, NEW c \in Call, Refuse(c)
  PROVE  IInv'
<1>1. Good(call[c]) /\ call[c].phase = "sent" /\ OnlyCalls
  BY DEF IInv, Refuse
<1>2. PICK q : /\ Good(q) /\ q.phase = "sent" /\ q.promise # "pending"
               /\ call' = [call EXCEPT ![c] = [q EXCEPT !.phase = "over"]]
  <2>1. CASE Pending(c)
    <3> DEFINE q == Settled(call[c], "rejected", "unavailable")
    <3>1. Good(q)
      BY <1>1, SettledGood
    <3>2. q.phase = "sent" /\ q.promise = "rejected"
      BY <1>1 DEF Settled, Good, CallRecord
    <3>3. call' = [call EXCEPT ![c] = [q EXCEPT !.phase = "over"]]
      BY <2>1 DEF Refuse, IInv, TypeOK
    <3>4. QED BY <3>1, <3>2, <3>3
  <2>2. CASE ~Pending(c)
    <3>1. call' = [call EXCEPT ![c] = [call[c] EXCEPT !.phase = "over"]]
      BY <2>2 DEF Refuse, IInv, TypeOK
    <3>2. QED BY <1>1, <2>2, <3>1 DEF Pending
  <2>3. QED BY <2>1, <2>2
<1> DEFINE p == [q EXCEPT !.phase = "over"]
<1>3. /\ p \in CallRecord /\ p.phase = "over" /\ p.promise = q.promise
      /\ p.entered = q.entered /\ p.outcome = q.outcome /\ p.code = q.code
      /\ p.result = q.result /\ p.broken = q.broken
  BY <1>2 DEF Good, CallRecord
<1> HIDE DEF p
<1>4. p.entered = <<>> /\ p.outcome = "none" /\ p.result = "none" /\ ~p.broken
  BY <1>2, <1>3 DEF Good, OnRoute
<1>5. ~Contains(p.entered, "handler")
  BY <1>4 DEF Contains
<1>6. OnRoute(p)
  BY <1>3, <1>4, <1>5 DEF OnRoute
<1>7. Honest(p)
  BY <1>2, <1>3, <1>4 DEF Good, Honest, Due, Verdict, OwnCodes
<1>8. QED BY <1>1, <1>2, <1>3, <1>6, <1>7, OneCall DEF Good, p

(***************************************************************************)
(* A call that enters the next of its interceptors.                        *)
(***************************************************************************)
LEMMA EnteredOne ==
  ASSUME NEW q, Good(q), q.phase = "down", Head(q.todo) \in Interceptor
  PROVE  /\ Enters(q).entered = Append(q.entered, Head(q.todo))
         /\ Enters(q).entered \in Seq(Interceptor) /\ Enters(q).todo = Tail(q.todo)
         /\ Enters(q).todo \in Seq(Stop) /\ Enters(q).todo # <<>>
         /\ Enters(q).entered \o Enters(q).todo = Route(q)
         /\ Enters(q) = [q EXCEPT !.todo = Tail(q.todo),
                                  !.entered = Append(q.entered, Head(q.todo))]
<1>1. /\ q.todo \in Seq(Stop) /\ q.todo # <<>> /\ q.entered \o q.todo = Route(q)
      /\ q.entered \in Seq(Interceptor) /\ q.chain \in Seq(Interceptor)
  BY DEF Good, OnRoute, CallRecord, Stop
<1>2. Enters(q) = [q EXCEPT !.todo = Tail(q.todo),
                            !.entered = Append(q.entered, Head(q.todo))]
  BY DEF Enters
<1>3. /\ Enters(q).entered = Append(q.entered, Head(q.todo))
      /\ Enters(q).todo = Tail(q.todo)
  BY <1>2 DEF Good, CallRecord
<1>4. q.entered \in Seq(Stop)
  BY <1>1, SeqMonotonic DEF Stop
<1>5. /\ Enters(q).entered \in Seq(Stop) /\ Enters(q).todo \in Seq(Stop)
      /\ Enters(q).entered \o Enters(q).todo = Route(q)
  <2>1. /\ Append(q.entered, Head(q.todo)) \in Seq(Stop) /\ Tail(q.todo) \in Seq(Stop)
        /\ Append(q.entered, Head(q.todo)) \o Tail(q.todo) = q.entered \o q.todo
    <3>1. q.entered \in Seq(Stop) /\ q.todo \in Seq(Stop) /\ q.todo # <<>>
      BY <1>1, <1>4
    <3>2. QED BY <3>1, MovesOn, ZenonT(60)
  <2>2. Enters(q).entered \o Enters(q).todo = Append(q.entered, Head(q.todo)) \o Tail(q.todo)
    BY <1>3, Zenon
  <2>3. q.entered \o q.todo = Route(q)
    BY <1>1
  <2>4. Enters(q).entered \in Seq(Stop) /\ Enters(q).todo \in Seq(Stop)
    BY <1>3, <2>1, Zenon
  <2>5. QED BY <2>1, <2>2, <2>3, <2>4, ZenonT(30)
<1>6. Enters(q).entered \in Seq(Interceptor)
  BY <1>1, <1>3, AppendProperties
<1>7. Enters(q).todo # <<>>
  <2>1. SUFFICES ASSUME Enters(q).todo = <<>> PROVE FALSE
    OBVIOUS
  <2>2. Enters(q).entered = Append(q.chain, "handler")
    BY <1>5, <2>1, ConcatEmptySeq DEF Route
  <2>3. Contains(Append(q.chain, "handler"), "handler")
    <3>1. q.chain \in Seq(Stop) /\ "handler" \in Stop
      BY <1>1, SeqMonotonic DEF Stop
    <3>2. QED BY <3>1, ContainsAppend, Zenon
  <2>4. "handler" \in Interceptor
    BY <1>6, <2>2, <2>3, ContainsTyped
  <2>5. QED BY <2>4 DEF Interceptor
<1>8. QED BY <1>2, <1>3, <1>5, <1>6, <1>7

\* What the next call has in common with q, of what Good reads.
Keeps(p, q) ==
  /\ p.method = q.method /\ p.promise = q.promise /\ p.code = q.code
  /\ p.chain = q.chain /\ p.valid = q.valid

\* The logger's interceptor is entered as any other.
LEMMA EnterLogKeeps ==
  ASSUME IInv, NEW c \in Call, EnterLog(c)
  PROVE  IInv'
<1> DEFINE q == call[c]
           e == Enters(q)
           p == [e EXCEPT !.stack = Append(e.stack, "log")]
<1>1. /\ Good(q) /\ q.phase = "down" /\ Head(q.todo) = "log" /\ OnlyCalls
  BY DEF IInv, EnterLog, Goes
<1>2. /\ e.entered = Append(q.entered, "log") /\ e.entered \in Seq(Interceptor)
      /\ e.todo \in Seq(Stop) /\ e.todo # <<>> /\ e.entered \o e.todo = Route(q)
      /\ e = [q EXCEPT !.todo = Tail(q.todo), !.entered = Append(q.entered, "log")]
  BY <1>1, EnteredOne DEF Interceptor
<1>3. e.entered \in Seq(Stop)
  BY <1>2, SeqMonotonic DEF Stop
<1>4. /\ e \in CallRecord /\ e.phase = "down" /\ Keeps(e, q) /\ e.stack = q.stack
      /\ e.outcome = q.outcome /\ e.result = q.result /\ e.broken = q.broken /\ e.claims = q.claims
  BY <1>1, <1>2, <1>3 DEF Good, CallRecord, Keeps, Stop
<1>5. call' = [call EXCEPT ![c] = p]
  BY DEF EnterLog
<1> HIDE DEF e
<1>6. Append(e.stack, "log") \in Seq({"log"})
  BY <1>1, <1>4, AppendProperties DEF Good, CallRecord
<1>7. /\ p \in CallRecord /\ p.phase = "down" /\ Keeps(p, q)
      /\ p.outcome = q.outcome /\ p.result = q.result /\ p.broken = q.broken /\ p.claims = q.claims
      /\ p.entered = e.entered /\ p.todo = e.todo
  BY <1>4, <1>6 DEF CallRecord, Keeps
<1> HIDE DEF p
<1>8. ~Contains(p.entered, "handler")
  <2>1. "handler" \notin Interceptor
    BY DEF Interceptor
  <2>2. QED BY <1>2, <1>7, <2>1, ContainsTyped
<1>9. Contains(p.entered, "jwt") => Contains(q.entered, "jwt")
  <2>1. q.entered \in Seq(Interceptor) /\ "log" \in Interceptor
    BY <1>1 DEF Good, OnRoute, Interceptor
  <2>2. QED BY <1>2, <1>7, <2>1, ContainsAppend
<1>10. OnRoute(p)
  BY <1>1, <1>2, <1>7, <1>8, <1>9 DEF Good, OnRoute, Route, Keeps
<1>11. Honest(p)
  BY <1>1, <1>7, <1>8 DEF Good, Honest, OnRoute, Keeps, Due, Verdict, OwnCodes
<1>12. QED BY <1>1, <1>5, <1>7, <1>10, <1>11, OneCall DEF Good, p

\* A call that turns back.
LEMMA Turned ==
  ASSUME NEW e \in CallRecord, NEW outcome \in Result \cup {"unauthenticated"}
  PROVE  LET f == [e EXCEPT !.phase = "up", !.todo = <<>>, !.outcome = outcome]
         IN  /\ f \in CallRecord /\ f.phase = "up" /\ f.outcome = outcome /\ Keeps(f, e)
             /\ f.result = e.result /\ f.broken = e.broken /\ f.claims = e.claims
             /\ f.entered = e.entered
<1>1. <<>> \in Seq(Interceptor \cup {"handler"})
  OBVIOUS
<1>2. outcome \in {"none", "ok", "custom", "unauthenticated", "unimplemented", "internal"}
  BY DEF Result
<1> DEFINE f == [e EXCEPT !.phase = "up", !.todo = <<>>, !.outcome = outcome]
<1>3. f \in CallRecord
  BY <1>1, <1>2 DEF CallRecord
<1>4. /\ f.phase = "up" /\ f.outcome = outcome /\ Keeps(f, e)
      /\ f.result = e.result /\ f.broken = e.broken /\ f.claims = e.claims
      /\ f.entered = e.entered
  BY DEF CallRecord, Keeps
<1>5. QED BY <1>3, <1>4

\* Behind the JWT check a call has claims, or it has turned back.
LEMMA EnterJwtKeeps ==
  ASSUME IInv, NEW c \in Call, EnterJwt(c)
  PROVE  IInv'
<1> DEFINE q == call[c]
           e == Enters(q)
<1>1. /\ Good(q) /\ q.phase = "down" /\ Head(q.todo) = "jwt" /\ OnlyCalls
  BY DEF IInv, EnterJwt, Goes
<1>2. /\ e.entered = Append(q.entered, "jwt") /\ e.entered \in Seq(Interceptor)
      /\ e.todo \in Seq(Stop) /\ e.todo # <<>> /\ e.entered \o e.todo = Route(q)
      /\ e = [q EXCEPT !.todo = Tail(q.todo), !.entered = Append(q.entered, "jwt")]
  BY <1>1, EnteredOne DEF Interceptor
<1>3. e.entered \in Seq(Stop)
  BY <1>2, SeqMonotonic DEF Stop
<1>4. /\ e \in CallRecord /\ e.phase = "down" /\ Keeps(e, q)
      /\ e.outcome = q.outcome /\ e.result = q.result /\ e.broken = q.broken
  BY <1>1, <1>2, <1>3 DEF Good, CallRecord, Keeps, Stop
<1>5. ~Contains(e.entered, "handler")
  <2>1. "handler" \notin Interceptor
    BY DEF Interceptor
  <2>2. QED BY <1>2, <2>1, ContainsTyped
<1>6. CASE q.valid
  <2> DEFINE p == [e EXCEPT !.claims = TRUE]
  <2>1. call' = [call EXCEPT ![c] = p]
    BY <1>6 DEF EnterJwt
  <2> HIDE DEF e
  <2>2. /\ p \in CallRecord /\ p.phase = "down" /\ Keeps(p, q)
        /\ p.outcome = q.outcome /\ p.result = q.result /\ p.broken = q.broken /\ p.claims
        /\ p.entered = e.entered /\ p.todo = e.todo
    BY <1>4 DEF CallRecord, Keeps
  <2> HIDE DEF p
  <2>3. OnRoute(p)
    BY <1>1, <1>2, <1>5, <1>6, <2>2 DEF Good, OnRoute, Route, Keeps
  <2>4. Honest(p)
    BY <1>1, <1>5, <2>2 DEF Good, Honest, OnRoute, Keeps, Due, Verdict, OwnCodes
  <2>5. QED BY <1>1, <2>1, <2>2, <2>3, <2>4, OneCall DEF Good, p
<1>7. CASE ~q.valid
  <2> DEFINE p == [e EXCEPT !.phase = "up", !.todo = <<>>, !.outcome = "unauthenticated"]
  <2>1. call' = [call EXCEPT ![c] = p]
    BY <1>7 DEF EnterJwt, Ends
  <2> HIDE DEF e
  <2>2. /\ p \in CallRecord /\ p.phase = "up" /\ Keeps(p, q)
        /\ p.outcome = "unauthenticated" /\ p.result = q.result /\ p.broken = q.broken
        /\ p.entered = e.entered
    <3>1. "unauthenticated" \in Result \cup {"unauthenticated"}
      OBVIOUS
    <3>2. e \in CallRecord
      BY <1>4
    <3>3. /\ p \in CallRecord /\ p.phase = "up" /\ p.outcome = "unauthenticated" /\ Keeps(p, e)
          /\ p.result = e.result /\ p.broken = e.broken /\ p.entered = e.entered
      BY <3>1, <3>2, Turned
    <3> HIDE DEF p
    <3>4. QED BY <1>4, <3>3 DEF Keeps
  <2> HIDE DEF p
  <2>3. p.result = "none" /\ ~p.broken
    BY <1>1, <2>2 DEF Good, OnRoute
  <2>4. OnRoute(p)
    BY <1>5, <2>2, <2>3 DEF OnRoute
  <2>5. Contains(p.entered, "jwt")
    <3>1. q.entered \in Seq(Interceptor) /\ "jwt" \in Interceptor
      BY <1>1 DEF Good, OnRoute, Interceptor
    <3>2. QED BY <1>2, <2>2, <3>1, ContainsAppend
  <2>6. Honest(p)
    BY <1>1, <1>5, <2>2, <2>3, <2>5 DEF Good, Honest, Keeps, Due, Verdict, OwnCodes
  <2>7. QED BY <1>1, <2>1, <2>2, <2>4, <2>6, OneCall DEF Good, p
<1>8. QED BY <1>6, <1>7

\* A handler is reached behind the whole chain.
LEMMA EnterHandlerKeeps ==
  ASSUME IInv, NEW c \in Call, NEW outcome \in Result, EnterHandler(c, outcome)
  PROVE  IInv'
<1> DEFINE q == call[c]
           e == [q EXCEPT !.todo = Tail(q.todo), !.entered = Append(q.entered, "handler")]
           f == [e EXCEPT !.phase = "up", !.todo = <<>>, !.outcome = outcome]
           p == [f EXCEPT !.result = outcome]
<1>1. /\ Good(q) /\ q.phase = "down" /\ Head(q.todo) = "handler" /\ OnlyCalls
      /\ call' = [call EXCEPT ![c] = p]
  BY DEF IInv, EnterHandler, Goes, Ends, Enters
<1>2. /\ q.entered \in Seq(Interceptor) /\ q.chain \in Seq(Interceptor)
      /\ q.todo \in Seq(Interceptor \cup {"handler"}) /\ q.todo # <<>>
      /\ q.entered \o q.todo = Append(q.chain, "handler") /\ "handler" \notin Interceptor
      /\ Contains(q.entered, "jwt") => q.valid /\ q.claims
      /\ Behind(q.chain)
  BY <1>1 DEF Good, OnRoute, CallRecord, Route, Interceptor
<1>3. q.entered = q.chain
  BY <1>1, <1>2, LastOfAll, Zenon
<1>4. Append(q.entered, "handler") \in Seq(Interceptor \cup {"handler"})
  <2>1. q.entered \in Seq(Stop) /\ "handler" \in Stop
    BY <1>2, SeqMonotonic DEF Stop
  <2>2. QED BY <2>1, AppendProperties, Zenon DEF Stop
<1>5. /\ p \in CallRecord /\ p.phase = "up" /\ Keeps(p, q) /\ p.claims = q.claims
      /\ p.outcome = outcome /\ p.result = outcome /\ p.broken = q.broken
      /\ p.entered = Append(q.entered, "handler")
  <2>1. /\ e \in CallRecord /\ Keeps(e, q) /\ e.claims = q.claims /\ e.broken = q.broken
        /\ e.entered = Append(q.entered, "handler")
    <3>1. Tail(q.todo) \in Seq(Interceptor \cup {"handler"})
      BY <1>2
    <3>2. QED BY <1>1, <1>4, <3>1 DEF Good, CallRecord, Keeps
  <2> HIDE DEF e
  <2>2. /\ f \in CallRecord /\ f.phase = "up" /\ f.outcome = outcome /\ Keeps(f, e)
        /\ f.claims = e.claims /\ f.entered = e.entered /\ f.broken = e.broken
    <3>1. outcome \in Result \cup {"unauthenticated"}
      OBVIOUS
    <3>2. QED BY <2>1, <3>1, Turned
  <2> HIDE DEF f
  <2>3. /\ p \in CallRecord /\ p.phase = "up" /\ Keeps(p, f) /\ p.claims = f.claims
        /\ p.outcome = outcome /\ p.result = outcome /\ p.entered = f.entered
        /\ p.broken = f.broken
    BY <2>2 DEF CallRecord, Keeps
  <2> HIDE DEF p
  <2>4. QED BY <2>1, <2>2, <2>3 DEF Keeps
<1> HIDE DEF p, f, e
<1>6. Contains(p.entered, "handler")
  <2>1. q.entered \in Seq(Stop) /\ "handler" \in Stop
    BY <1>2, SeqMonotonic DEF Stop
  <2>2. Contains(Append(q.entered, "handler"), "handler")
    BY <2>1, ContainsAppend, Zenon
  <2>3. QED BY <1>5, <2>2
<1>7. OnRoute(p)
  BY <1>2, <1>3, <1>5, <1>6 DEF OnRoute, Route, Keeps
<1>8. Honest(p)
  BY <1>1, <1>5, <1>6 DEF Good, Honest, OnRoute, Keeps, Due, Verdict, OwnCodes, Result
<1>9. QED BY <1>1, <1>5, <1>7, <1>8, OneCall DEF Good

\* On its way back a call passes a logger; a sink may throw.
LEMMA LeaveLogKeeps ==
  ASSUME IInv, NEW c \in Call, NEW infoThrows \in BOOLEAN, NEW errorThrows \in BOOLEAN,
         LeaveLog(c, infoThrows, errorThrows)
  PROVE  IInv'
<1> DEFINE q == call[c]
           failed == q.outcome # "ok" \/ infoThrows
           broke == (q.outcome = "ok" /\ infoThrows) \/ (failed /\ errorThrows)
           lines == IF failed /\ errorThrows THEN q.lines ELSE q.lines + 1
           outcome == IF broke THEN "internal" ELSE q.outcome
           p == [q EXCEPT !.stack = Front(q.stack), !.lines = lines, !.outcome = outcome,
                          !.broken = q.broken \/ broke]
<1>1. /\ Good(q) /\ q.phase = "up" /\ q.stack # <<>> /\ OnlyCalls
      /\ call' = [call EXCEPT ![c] = p]
  BY DEF IInv, LeaveLog, Returns
<1>2. /\ q.stack \in Seq({"log"}) /\ q.lines \in Nat /\ q.broken \in BOOLEAN
  BY <1>1 DEF Good, CallRecord
<1>3. Front(q.stack) \in Seq({"log"})
  BY <1>1, <1>2 DEF Front
<1>4. lines \in Nat /\ outcome \in {q.outcome, "internal"} /\ (q.broken \/ broke) \in BOOLEAN
  BY <1>2
<1>5. /\ q.broken \/ broke => outcome = "internal"
      /\ ~(q.broken \/ broke) => outcome = q.outcome /\ outcome = Verdict(q)
  BY <1>1 DEF Good, Honest, Due
<1> HIDE DEF lines, outcome, broke
<1>6. \A b \in BOOLEAN :
        LET g == [q EXCEPT !.stack = Front(q.stack), !.lines = lines,
                           !.outcome = outcome, !.broken = b]
        IN  /\ g \in CallRecord /\ g.phase = "up" /\ g.outcome = outcome /\ Keeps(g, q)
            /\ g.result = q.result /\ g.claims = q.claims /\ g.entered = q.entered
            /\ g.broken = b
  BY <1>1, <1>3, <1>4, ZenonT(40) DEF Good, CallRecord, Keeps
<1>7. /\ p \in CallRecord /\ p.phase = "up" /\ p.outcome = outcome /\ Keeps(p, q)
      /\ p.result = q.result /\ p.claims = q.claims /\ p.entered = q.entered
      /\ p.broken = (q.broken \/ broke)
  BY <1>4, <1>6, Zenon
<1> HIDE DEF p
<1>8. OnRoute(p)
  BY <1>1, <1>7 DEF Good, OnRoute, Route, Keeps
<1>9. p.outcome = Due(p)
  BY <1>5, <1>7 DEF Due, Verdict
<1>10. Honest(p)
  BY <1>1, <1>4, <1>7, <1>9 DEF Good, Honest, Keeps, OwnCodes
<1>11. QED BY <1>1, <1>7, <1>8, <1>10, OneCall DEF Good

\* The outcome is handed to grpc-js.
LEMMA CallbackKeeps ==
  ASSUME IInv, NEW c \in Call, Callback(c)
  PROVE  IInv'
<1> DEFINE q == call[c]
           phase == IF Pending(c) THEN "answered" ELSE "over"
           p == [q EXCEPT !.phase = phase]
<1>1. /\ Good(q) /\ q.phase = "up" /\ OnlyCalls /\ call' = [call EXCEPT ![c] = p]
  BY DEF IInv, TypeOK, Callback
<1>2. phase \in {"answered", "over"} /\ (q.promise = "pending" => phase = "answered")
  BY DEF Pending
<1> HIDE DEF phase
<1>3. /\ p \in CallRecord /\ p.phase = phase /\ p.outcome = q.outcome /\ Keeps(p, q)
      /\ p.result = q.result /\ p.broken = q.broken /\ p.claims = q.claims /\ p.entered = q.entered
  BY <1>1, <1>2 DEF Good, CallRecord, Keeps
<1> HIDE DEF p
<1>4. OnRoute(p)
  BY <1>1, <1>2, <1>3 DEF Good, OnRoute, Route, Keeps
<1>5. Honest(p)
  BY <1>1, <1>2, <1>3 DEF Good, Honest, Keeps, Due, Verdict, OwnCodes
<1>6. QED BY <1>1, <1>3, <1>4, <1>5, OneCall DEF Good

-----------------------------------------------------------------------------
(* The theorems.                                                           *)

\* Every step keeps the invariant.
LEMMA NextInv == IInv /\ [Next]_vars => IInv'
<1> SUFFICES ASSUME IInv, [Next]_vars PROVE IInv'
  OBVIOUS
<1>1. ASSUME NEW m \in Method, NEW own \in ServiceChain, AddService(m, own) PROVE IInv'
  BY <1>1, AddServiceKeeps
<1>2. ASSUME Listen \/ Shutdown \/ ShutdownResolves \/ Close PROVE IInv'
  BY <1>2, NoCallMoves DEF Listen, Shutdown, ShutdownResolves, Close, IInv, TypeOK
<1>3. ASSUME ForceShutdown PROVE IInv'
  BY <1>3, ForceShutdownKeeps
<1>4. ASSUME NEW c \in Call, NEW m \in Method \cup {None}, NEW valid \in BOOLEAN,
             NEW deadline \in BOOLEAN, Unary(c, m, valid, deadline)
      PROVE  IInv'
  BY <1>4, UnaryKeeps
<1>5. ASSUME NEW c \in Call, NEW outcome \in Result, EnterHandler(c, outcome)
      PROVE  IInv'
  BY <1>5, EnterHandlerKeeps
<1>6. ASSUME NEW c \in Call, Steps(c) PROVE IInv'
  BY <1>6, AcceptKeeps, RefuseKeeps, EnterLogKeeps, EnterJwtKeeps, CallbackKeeps,
     AnsweredKeeps, LeaveLogKeeps DEF Steps
<1>7. ASSUME NEW c \in Call, DeadlinePasses(c) \/ ConnectionBreaks(c) PROVE IInv'
  BY <1>7, ClientGivesUp
<1>8. CASE UNCHANGED vars
  BY <1>8, NoCallMoves DEF vars, IInv, TypeOK
<1>9. QED BY <1>1, <1>2, <1>3, <1>4, <1>5, <1>6, <1>7, <1>8 DEF Next

(***************************************************************************)
(* In every reachable state a call has been through a prefix of its chain, *)
(* and what its client was told is what the handler or an interceptor      *)
(* decided.                                                                *)
(***************************************************************************)
THEOREM Invariance == Spec => []IInv
<1>1. QED BY InitInv, NextInv, PTL DEF Spec

\* The variables keep their types, and no pending call is off the wire and out of the server.
THEOREM TypeCorrect == Spec => []TypeOK
<1>1. IInv => TypeOK
  BY DEF IInv
<1>2. QED BY <1>1, Invariance, PTL

(***************************************************************************)
(* A client is told the truth, and a handler runs only behind all of its   *)
(* interceptors and, if one of them checks tokens, for a good token.       *)
(***************************************************************************)
THEOREM TruthTold == Spec => []AnswersAreTrue
<1>1. IInv => AnswersAreTrue
  <2> SUFFICES ASSUME IInv, NEW c \in Call
      PROVE  /\ call[c].promise = "resolved" => call[c].result = "ok"
             /\ call[c].result # "none" =>
                  /\ call[c].entered = Append(call[c].chain, "handler")
                  /\ \E own \in ServiceChain : call[c].chain = interceptors \o own
             /\ call[c].code = "unauthenticated" => ~Contains(call[c].entered, "handler")
             /\ Contains(call[c].entered, "handler") /\ Contains(call[c].chain, "jwt")
                  => call[c].valid /\ call[c].claims
    BY DEF AnswersAreTrue
  <2>1. OnRoute(call[c]) /\ Honest(call[c])
    BY DEF IInv, Good
  <2>2. QED BY <2>1 DEF OnRoute, Honest, Behind, Route, OwnCodes
<1>2. QED BY <1>1, Invariance, PTL

(***************************************************************************)
(* A code from the server is the handler's, the JWT check's or that of a   *)
(* method without a handler, through any number of loggers; a sink that    *)
(* threw in one of them has made it INTERNAL.                              *)
(***************************************************************************)
THEOREM CodesTold == Spec => []CodesArrive
<1>1. IInv => CodesArrive
  <2> SUFFICES ASSUME IInv, NEW c \in Call, call[c].code \notin OwnCodes
      PROVE  call[c].code = IF call[c].broken THEN "internal" ELSE Verdict(call[c])
    BY DEF CodesArrive
  <2>1. Honest(call[c])
    BY DEF IInv, Good
  <2>2. QED BY <2>1 DEF Honest, Due
<1>2. QED BY <1>1, Invariance, PTL

-----------------------------------------------------------------------------
(* What the loggers leave behind.                                          *)

(***************************************************************************)
(* The lines written and the loggers that still await the outcome make up  *)
(* the loggers entered; where a sink threw, lines are missing.             *)
(***************************************************************************)
Accounted(q) ==
  /\ q.lines + Times(q.stack, "log") <= Times(q.entered, "log")
  /\ ~q.broken => q.lines + Times(q.stack, "log") = Times(q.entered, "log")
  /\ q.phase \in {"idle", "sent"} => q.stack = <<>>
  /\ q.phase \in {"answered", "over"} => q.stack = <<>>

Accounts == \A c \in Call : Accounted(call[c])

\* What Accounted reads of a call, its phase apart.
SameAccount(p, q) ==
  /\ p.lines = q.lines /\ p.broken = q.broken /\ p.stack = q.stack
  /\ p.entered = q.entered

\* A step that writes one call and nothing else.
LEMMA OneAccount ==
  ASSUME IInv, Accounts, NEW c \in Call, NEW q, Accounted(q), call' = [call EXCEPT ![c] = q]
  PROVE  Accounts'
<1>1. \A d \in Call : call'[d] = IF d = c THEN q ELSE call[d]
  BY DEF IInv, TypeOK
<1>2. \A d \in Call : Accounted(call'[d])
  BY <1>1 DEF Accounts
<1>3. QED BY <1>2 DEF Accounts, Accounted

\* A call that was not made owes nothing.
LEMMA NoAccount == Accounted(NoCall)
<1>1. Times(<<>>, "log") = 0
  BY TimesEmpty
<1>2. 0 + 0 = 0 /\ 0 <= 0
  OBVIOUS
<1>3. QED BY <1>1, <1>2 DEF Accounted, NoCall

\* A promise that settles changes nothing at the server.
LEMMA SettledAccount ==
  ASSUME NEW q \in CallRecord, Accounted(q), NEW promise, NEW code
  PROVE  Accounted(Settled(q, promise, code)) /\ Settled(q, promise, code).phase = q.phase
<1> DEFINE p == [q EXCEPT !.promise = promise, !.code = code]
<1>1. Settled(q, promise, code) = p
  BY DEF Settled
<1>2. SameAccount(p, q) /\ p.phase = q.phase
  BY DEF CallRecord, SameAccount
<1> HIDE DEF p
<1>3. Accounted(p)
  BY <1>2 DEF Accounted, SameAccount
<1>4. QED BY <1>1, <1>2, <1>3

\* The client's side: a call is made, and its promise settles.
LEMMA AccountsAtClient ==
  ASSUME IInv, Accounts, NEW c \in Call,
         \/ \E m \in Method \cup {None}, valid, deadline \in BOOLEAN :
              Unary(c, m, valid, deadline)
         \/ DeadlinePasses(c) \/ ConnectionBreaks(c) \/ Answered(c)
  PROVE  Accounts'
<1>1. call[c] \in CallRecord /\ Accounted(call[c]) /\ call \in [Call -> CallRecord]
  BY DEF IInv, TypeOK, Accounts
<1>2. ASSUME NEW promise, NEW code, call' = [call EXCEPT ![c] = Settled(call[c], promise, code)]
      PROVE  Accounts'
  BY <1>1, <1>2, SettledAccount, OneAccount
<1>3. ASSUME NEW m \in Method \cup {None}, NEW valid \in BOOLEAN, NEW deadline \in BOOLEAN,
             Unary(c, m, valid, deadline)
      PROVE  Accounts'
  <2>1. CASE closed \/ m \notin Method
    <3>1. call' = [call EXCEPT ![c] = Settled(call[c], "rejected", "unknown or closed")]
      BY <1>3, <2>1, Zenon DEF Unary
    <3>2. QED BY <1>2, <3>1
  <2>2. CASE ~(closed \/ m \notin Method)
    <3> DEFINE q == [NoCall EXCEPT !.promise = "pending", !.phase = "sent",
                                   !.method = m, !.valid = valid, !.deadline = deadline]
    <3>1. call' = [call EXCEPT ![c] = q]
      BY <1>3, <2>2 DEF Unary
    <3>2. q.phase = "sent" /\ q.lines = 0 /\ q.stack = <<>> /\ q.entered = <<>>
      BY DEF NoCall
    <3> HIDE DEF q
    <3>3. Times(<<>>, "log") = 0
      BY TimesEmpty
    <3>4. Accounted(q)
      BY <3>2, <3>3 DEF Accounted
    <3>5. QED BY <3>1, <3>4, OneAccount
  <2>3. QED BY <2>1, <2>2
<1>4. ASSUME DeadlinePasses(c) PROVE Accounts'
  <2>1. call' = [call EXCEPT ![c] = Settled(call[c], "rejected", "deadline")]
    BY <1>1, <1>4 DEF DeadlinePasses
  <2>2. QED BY <1>2, <2>1
<1>5. ASSUME ConnectionBreaks(c) PROVE Accounts'
  <2>1. call' = [call EXCEPT ![c] = Settled(call[c], "rejected", "unavailable")]
    BY <1>1, <1>5 DEF ConnectionBreaks
  <2>2. QED BY <1>2, <2>1
<1>6. ASSUME Answered(c) PROVE Accounts'
  <2>1. CASE call[c].outcome = "ok"
    <3>1. call' = [call EXCEPT ![c] = Settled(call[c], "resolved", "ok")]
      BY <1>1, <1>6, <2>1 DEF Answered
    <3>2. QED BY <1>2, <3>1
  <2>2. CASE call[c].outcome # "ok"
    <3>1. call' = [call EXCEPT ![c] = Settled(call[c], "rejected", call[c].outcome)]
      BY <1>1, <1>6, <2>2 DEF Answered
    <3>2. QED BY <1>2, <3>1
  <2>3. QED BY <2>1, <2>2
<1>7. QED BY <1>3, <1>4, <1>5, <1>6

\* A request that leaves the wire: it is taken, refused or lost.
LEMMA AccountsArrive ==
  ASSUME IInv, Accounts, NEW c \in Call, Accept(c) \/ Refuse(c)
  PROVE  Accounts'
<1> DEFINE q == call[c]
           chain == handlers[q.method]
<1>1. /\ q \in CallRecord /\ Accounted(q) /\ q.phase = "sent" /\ q.stack = <<>>
      /\ call \in [Call -> CallRecord]
  BY DEF IInv, TypeOK, Accounts, Accounted, Accept, Refuse
<1>2. ASSUME Accept(c), chain = None PROVE Accounts'
  <2> DEFINE p == [q EXCEPT !.phase = "answered", !.outcome = "unimplemented"]
  <2>1. call' = [call EXCEPT ![c] = p]
    BY <1>1, <1>2 DEF Accept
  <2>2. SameAccount(p, q) /\ p.phase = "answered"
    BY <1>1 DEF CallRecord, SameAccount
  <2> HIDE DEF p
  <2>3. Accounted(p)
    BY <1>1, <2>2 DEF Accounted, SameAccount
  <2>4. QED BY <2>1, <2>3, OneAccount
<1>3. ASSUME Accept(c), chain # None PROVE Accounts'
  <2> DEFINE p == [q EXCEPT !.phase = "down", !.chain = chain,
                            !.todo = Append(chain, "handler")]
  <2>1. call' = [call EXCEPT ![c] = p]
    BY <1>1, <1>3 DEF Accept
  <2> HIDE DEF chain
  <2>2. /\ p.phase = "down" /\ p.lines = q.lines /\ p.broken = q.broken /\ p.stack = q.stack
        /\ p.entered = q.entered
    BY <1>1 DEF CallRecord
  <2> HIDE DEF p
  <2>3. Accounted(p)
    BY <1>1, <2>2 DEF Accounted
  <2>4. QED BY <2>1, <2>3, OneAccount
<1>4. ASSUME Refuse(c) PROVE Accounts'
  <2> DEFINE s == Settled(q, "rejected", "unavailable")
  <2>1. PICK f : /\ f \in CallRecord /\ Accounted(f) /\ f.phase = "sent"
                 /\ call' = [call EXCEPT ![c] = [f EXCEPT !.phase = "over"]]
    <3>1. CASE Pending(c)
      <4>1. Accounted(s) /\ s.phase = "sent"
        BY <1>1, SettledAccount
      <4>2. s \in CallRecord
        BY SettledGood DEF IInv, Good
      <4>3. call' = [call EXCEPT ![c] = [s EXCEPT !.phase = "over"]]
        BY <1>1, <1>4, <3>1 DEF Refuse
      <4>4. QED BY <4>1, <4>2, <4>3
    <3>2. CASE ~Pending(c)
      <4>1. call' = [call EXCEPT ![c] = [q EXCEPT !.phase = "over"]]
        BY <1>1, <1>4, <3>2 DEF Refuse
      <4>2. QED BY <1>1, <4>1
    <3>3. QED BY <3>1, <3>2
  <2> DEFINE p == [f EXCEPT !.phase = "over"]
  <2>2. SameAccount(p, f) /\ p.phase = "over"
    BY <2>1 DEF CallRecord, SameAccount
  <2> HIDE DEF p
  <2>3. Accounted(p)
    BY <2>1, <2>2 DEF Accounted, SameAccount
  <2>4. QED BY <2>1, <2>3, OneAccount DEF p
<1>5. QED BY <1>2, <1>3, <1>4

\* What entering an interceptor or the handler does to the account of a call.
LEMMA EntersAccount ==
  ASSUME IInv, NEW c \in Call, call[c].phase = "down"
  PROVE  LET q == call[c]
             e == Enters(q)
         IN  /\ e \in CallRecord /\ e.phase = "down" /\ e.lines = q.lines
             /\ e.broken = q.broken /\ e.stack = q.stack
             /\ e.entered = Append(q.entered, Head(q.todo))
             /\ q.entered \in Seq(Stop) /\ Head(q.todo) \in Stop
<1> DEFINE q == call[c]
<1>1. /\ q \in CallRecord /\ q.todo # <<>> /\ q.phase = "down" /\ q.todo \in Seq(Stop)
      /\ q.entered \in Seq(Stop)
  BY DEF IInv, Good, OnRoute, CallRecord, Stop
<1>2. Head(q.todo) \in Stop /\ Tail(q.todo) \in Seq(Stop)
  BY <1>1
<1>3. Append(q.entered, Head(q.todo)) \in Seq(Stop)
  BY <1>1, <1>2
<1>4. QED BY <1>1, <1>2, <1>3 DEF Enters, CallRecord, Stop

\* A call that goes on, or turns back without a logger: its loggers are the same.
LEMMA SameLoggers ==
  ASSUME NEW s \in Seq(Stop), NEW k \in Stop, k # "log"
  PROVE  Times(Append(s, k), "log") = Times(s, "log")
BY TimesAppend, Zenon

\* A logger is entered, and has the outcome to wait for.
LEMMA AccountsEnterLog ==
  ASSUME IInv, Accounts, NEW c \in Call, EnterLog(c)
  PROVE  Accounts'
<1> DEFINE q == call[c]
           e == Enters(q)
           p == [e EXCEPT !.stack = Append(e.stack, "log")]
<1>1. /\ q \in CallRecord /\ Accounted(q) /\ q.phase = "down" /\ Head(q.todo) = "log"
      /\ call' = [call EXCEPT ![c] = p]
  BY DEF IInv, Good, Accounts, EnterLog, Goes
<1>2. /\ e \in CallRecord /\ e.phase = "down" /\ e.lines = q.lines /\ e.broken = q.broken
      /\ e.stack = q.stack /\ e.entered = Append(q.entered, "log")
      /\ q.entered \in Seq(Stop) /\ "log" \in Stop
      /\ q.stack \in Seq({"log"}) /\ q.lines \in Nat
  BY <1>1, EntersAccount DEF CallRecord
<1> HIDE DEF e
<1>3. /\ p.phase = "down" /\ p.lines = q.lines /\ p.broken = q.broken
      /\ p.stack = Append(q.stack, "log") /\ p.entered = Append(q.entered, "log")
  BY <1>2 DEF CallRecord
<1> HIDE DEF p
<1>4. /\ Times(Append(q.stack, "log"), "log") = Times(q.stack, "log") + 1
      /\ Times(Append(q.entered, "log"), "log") = Times(q.entered, "log") + 1
  <2> DEFINE stack == q.stack
             entered == q.entered
  <2>1. stack \in Seq({"log"}) /\ entered \in Seq(Stop) /\ "log" \in Stop /\ "log" \in {"log"}
    BY <1>2
  <2> HIDE DEF stack, entered
  <2>2. Times(Append(stack, "log"), "log") = Times(stack, "log") + 1
    BY <2>1, TimesAppend, Zenon
  <2>3. Times(Append(entered, "log"), "log") = Times(entered, "log") + 1
    BY <2>1, TimesAppend, Zenon
  <2>4. QED BY <2>2, <2>3 DEF stack, entered
<1>5. PICK a \in Nat, b \in Nat, d \in Nat :
        a = q.lines /\ b = Times(q.stack, "log") /\ d = Times(q.entered, "log")
  BY <1>2, TimesFinite
<1>6. /\ p.lines + Times(p.stack, "log") <= Times(p.entered, "log")
      /\ ~p.broken => p.lines + Times(p.stack, "log") = Times(p.entered, "log")
  <2>1. a + b <= d /\ (~q.broken => a + b = d)
    BY <1>1, <1>5 DEF Accounted
  <2>2. a + (b + 1) <= d + 1 /\ (~q.broken => a + (b + 1) = d + 1)
    BY <2>1
  <2>3. p.lines = a /\ Times(p.stack, "log") = b + 1 /\ Times(p.entered, "log") = d + 1
    BY <1>3, <1>4, <1>5
  <2>4. QED BY <1>3, <2>2, <2>3
<1>7. Accounted(p)
  BY <1>3, <1>6 DEF Accounted
<1>8. QED BY <1>1, <1>7, OneAccount

\* A call that the JWT check lets through or turns back passes no logger.
LEMMA AccountsEnterJwt ==
  ASSUME IInv, Accounts, NEW c \in Call, EnterJwt(c)
  PROVE  Accounts'
<1> DEFINE q == call[c]
           e == Enters(q)
<1>1. /\ q \in CallRecord /\ Accounted(q) /\ q.phase = "down" /\ Head(q.todo) = "jwt"
      /\ call \in [Call -> CallRecord]
  BY DEF IInv, TypeOK, Accounts, EnterJwt, Goes
<1>2. /\ e \in CallRecord /\ e.phase = "down" /\ e.lines = q.lines /\ e.broken = q.broken
      /\ e.stack = q.stack /\ e.entered = Append(q.entered, "jwt")
      /\ q.entered \in Seq(Stop) /\ "jwt" \in Stop
  BY <1>1, EntersAccount
<1>3. Times(Append(q.entered, "jwt"), "log") = Times(q.entered, "log")
  BY <1>2, SameLoggers
<1>4. CASE q.valid
  <2> DEFINE p == [e EXCEPT !.claims = TRUE]
  <2>1. call' = [call EXCEPT ![c] = p]
    BY <1>1, <1>4 DEF EnterJwt
  <2> HIDE DEF e
  <2>2. p.phase = "down" /\ SameAccount(p, e)
    BY <1>2 DEF CallRecord, SameAccount
  <2> HIDE DEF p
  <2>3. Accounted(p)
    BY <1>1, <1>2, <1>3, <2>2 DEF Accounted, SameAccount
  <2>4. QED BY <2>1, <2>3, OneAccount
<1>5. CASE ~q.valid
  <2> DEFINE p == [e EXCEPT !.phase = "up", !.todo = <<>>, !.outcome = "unauthenticated"]
  <2>1. call' = [call EXCEPT ![c] = p]
    BY <1>1, <1>5 DEF EnterJwt, Ends
  <2> HIDE DEF e
  <2>2. p.phase = "up" /\ SameAccount(p, e)
    BY <1>2 DEF CallRecord, SameAccount
  <2> HIDE DEF p
  <2>3. Accounted(p)
    BY <1>1, <1>2, <1>3, <2>2 DEF Accounted, SameAccount
  <2>4. QED BY <2>1, <2>3, OneAccount
<1>6. QED BY <1>4, <1>5

\* Nor does one that reaches its handler.
LEMMA AccountsEnterHandler ==
  ASSUME IInv, Accounts, NEW c \in Call, NEW outcome \in Result,
         EnterHandler(c, outcome)
  PROVE  Accounts'
<1> DEFINE q == call[c]
           e == Enters(q)
           f == [e EXCEPT !.phase = "up", !.todo = <<>>, !.outcome = outcome]
           p == [f EXCEPT !.result = outcome]
<1>1. /\ q \in CallRecord /\ Accounted(q) /\ q.phase = "down" /\ Head(q.todo) = "handler"
      /\ call \in [Call -> CallRecord] /\ call' = [call EXCEPT ![c] = p]
  BY DEF IInv, TypeOK, Accounts, EnterHandler, Goes, Ends
<1>2. /\ e \in CallRecord /\ e.lines = q.lines /\ e.broken = q.broken
      /\ e.stack = q.stack /\ e.entered = Append(q.entered, "handler")
      /\ q.entered \in Seq(Stop) /\ "handler" \in Stop
  BY <1>1, EntersAccount
<1>3. Times(Append(q.entered, "handler"), "log") = Times(q.entered, "log")
  BY <1>2, SameLoggers
<1> HIDE DEF e
<1>4. p.phase = "up" /\ SameAccount(p, e)
  <2>1. f.phase = "up" /\ SameAccount(f, e) /\ DOMAIN f = DOMAIN e /\ f = [x \in DOMAIN f |-> f[x]]
    BY <1>2 DEF CallRecord, SameAccount
  <2> HIDE DEF f
  <2>2. p.phase = f.phase /\ SameAccount(p, f)
    BY <2>1 DEF SameAccount
  <2>3. QED BY <2>1, <2>2 DEF SameAccount
<1> HIDE DEF p
<1>5. Accounted(p)
  BY <1>1, <1>2, <1>3, <1>4 DEF Accounted, SameAccount
<1>6. QED BY <1>1, <1>5, OneAccount

\* A logger writes its line, or a sink of it has thrown.
LEMMA AccountsLeaveLog ==
  ASSUME IInv, Accounts, NEW c \in Call, NEW infoThrows \in BOOLEAN, NEW errorThrows \in BOOLEAN,
         LeaveLog(c, infoThrows, errorThrows)
  PROVE  Accounts'
<1> DEFINE q == call[c]
           failed == q.outcome # "ok" \/ infoThrows
           broke == (q.outcome = "ok" /\ infoThrows) \/ (failed /\ errorThrows)
           lines == IF failed /\ errorThrows THEN q.lines ELSE q.lines + 1
           outcome == IF broke THEN "internal" ELSE q.outcome
           broken == q.broken \/ broke
           rest == Front(q.stack)
           p == [q EXCEPT !.stack = rest, !.lines = lines, !.outcome = outcome,
                          !.broken = broken]
<1>1. /\ q \in CallRecord /\ Accounted(q) /\ q.phase = "up" /\ q.stack # <<>>
      /\ call' = [call EXCEPT ![c] = p]
  BY DEF IInv, Good, Accounts, LeaveLog, Returns
<1>2. /\ q.stack \in Seq({"log"}) /\ q.entered \in Seq(Stop) /\ q.lines \in Nat
  BY <1>1 DEF CallRecord, Stop
<1>3. rest \in Seq({"log"}) /\ q.stack = Append(rest, "log")
  <2>1. rest \in Seq({"log"}) /\ Last(q.stack) \in {"log"} /\ q.stack = Append(rest, Last(q.stack))
    BY <1>1, <1>2, FrontAndLast, Zenon
  <2>2. Last(q.stack) = "log"
    BY <2>1
  <2>3. QED BY <2>1, <2>2, Zenon
<1>4. /\ lines \in {q.lines, q.lines + 1}
      /\ ~broken => ~q.broken /\ lines = q.lines + 1
  OBVIOUS
<1> HIDE DEF outcome, lines, broken, rest
<1>5. Times(q.stack, "log") = Times(rest, "log") + 1
  <2>1. "log" \in {"log"}
    OBVIOUS
  <2>2. Times(Append(rest, "log"), "log") = Times(rest, "log") + 1
    BY <1>3, <2>1, TimesAppend, Zenon
  <2>3. QED BY <1>3, <2>2, Zenon
<1>6. PICK a \in Nat, b \in Nat, d \in Nat :
        a = q.lines /\ b = Times(rest, "log") /\ d = Times(q.entered, "log")
  BY <1>2, <1>3, TimesFinite
<1>7. /\ p.stack = rest /\ p.lines = lines /\ p.broken = broken
      /\ p.entered = q.entered /\ p.phase = "up"
  BY <1>1 DEF CallRecord
<1> HIDE DEF p
<1>8. /\ p.lines + Times(p.stack, "log") <= Times(p.entered, "log")
      /\ ~p.broken => p.lines + Times(p.stack, "log") = Times(p.entered, "log")
  <2>1. a + (b + 1) <= d /\ (~q.broken => a + (b + 1) = d)
    BY <1>1, <1>5, <1>6 DEF Accounted
  <2>2. a + b <= d /\ (a + 1) + b <= d /\ (~q.broken => (a + 1) + b = d)
    BY <2>1
  <2>3. Times(p.stack, "log") = b /\ Times(p.entered, "log") = d
    BY <1>6, <1>7
  <2>4. /\ p.lines \in {a, a + 1}
        /\ ~p.broken => ~q.broken /\ p.lines = a + 1
    BY <1>4, <1>6, <1>7
  <2>5. QED BY <2>2, <2>3, <2>4
<1>9. Accounted(p)
  BY <1>7, <1>8 DEF Accounted
<1>10. QED BY <1>1, <1>9, OneAccount

\* Every step keeps the accounts.
LEMMA NextAccounts == IInv /\ Accounts /\ [Next]_vars => Accounts'
<1> SUFFICES ASSUME IInv, Accounts, [Next]_vars PROVE Accounts'
  OBVIOUS
<1>1. ASSUME UNCHANGED call PROVE Accounts'
  BY <1>1 DEF Accounts, Accounted
<1>2. ASSUME ForceShutdown PROVE Accounts'
  <2>1. \A d \in Call : call'[d] = IF d \in InFlight
                                   THEN Settled(call[d], "rejected", "cancelled")
                                   ELSE call[d]
    BY <1>2 DEF ForceShutdown
  <2>2. \A d \in Call : call[d] \in CallRecord /\ Accounted(call[d])
    BY DEF IInv, TypeOK, Accounts
  <2>3. \A d \in Call : Accounted(Settled(call[d], "rejected", "cancelled"))
    BY <2>2, SettledAccount
  <2>4. \A d \in Call : Accounted(call'[d])
    BY <2>1, <2>2, <2>3
  <2>5. QED BY <2>4 DEF Accounts, Accounted
<1>3. ASSUME NEW c \in Call, Callback(c) PROVE Accounts'
  <2> DEFINE q == call[c]
             phase == IF Pending(c) THEN "answered" ELSE "over"
             p == [q EXCEPT !.phase = phase]
  <2>1. /\ q \in CallRecord /\ Accounted(q) /\ q.phase = "up" /\ q.stack = <<>>
        /\ call' = [call EXCEPT ![c] = p]
    BY <1>3 DEF IInv, TypeOK, Accounts, Callback
  <2>2. phase \in {"answered", "over"}
    OBVIOUS
  <2> HIDE DEF phase
  <2>3. SameAccount(p, q) /\ p.phase = phase
    BY <2>1 DEF CallRecord, SameAccount
  <2> HIDE DEF p
  <2>4. Accounted(p)
    BY <2>1, <2>2, <2>3 DEF Accounted, SameAccount
  <2>5. QED BY <2>1, <2>4, OneAccount
<1>4. ASSUME NEW c \in Call, Steps(c) PROVE Accounts'
  BY <1>3, <1>4, AccountsAtClient, AccountsArrive, AccountsEnterLog, AccountsEnterJwt,
     AccountsLeaveLog DEF Steps
<1>5. ASSUME NEW c \in Call,
             \/ \E m \in Method \cup {None}, valid, deadline \in BOOLEAN :
                  Unary(c, m, valid, deadline)
             \/ DeadlinePasses(c) \/ ConnectionBreaks(c)
      PROVE  Accounts'
  BY <1>5, AccountsAtClient
<1>6. ASSUME NEW c \in Call, NEW outcome \in Result, EnterHandler(c, outcome)
      PROVE  Accounts'
  BY <1>6, AccountsEnterHandler
<1>7. QED BY <1>1, <1>2, <1>4, <1>5, <1>6
      DEF Next, AddService, Listen, Shutdown, ShutdownResolves, Close, vars

(***************************************************************************)
(* When the outcome of a call is decided, each logger it went through has  *)
(* written one line; where a sink threw there may be fewer, never more.    *)
(***************************************************************************)
THEOREM CallsLogged == Spec => []CallsAreLogged
<1>1. Init => Accounts
  BY NoAccount DEF Init, Accounts
<1>2. IInv /\ Accounts => CallsAreLogged
  <2> SUFFICES ASSUME IInv, Accounts, NEW c \in Call, call[c].phase \in {"answered", "over"}
      PROVE  /\ call[c].lines <= Loggers(call[c].entered)
             /\ ~call[c].broken => call[c].lines = Loggers(call[c].entered)
    BY DEF CallsAreLogged
  <2>1. /\ Accounted(call[c]) /\ call[c].stack = <<>> /\ call[c].lines \in Nat
    BY DEF Accounts, Accounted, IInv, Good, CallRecord
  <2>2. Times(<<>>, "log") = 0 /\ \A n \in Nat : n + 0 = n
    BY TimesEmpty
  <2>3. /\ call[c].lines <= Times(call[c].entered, "log")
        /\ ~call[c].broken => call[c].lines = Times(call[c].entered, "log")
    BY <2>1, <2>2 DEF Accounted
  <2>4. Loggers(call[c].entered) = Times(call[c].entered, "log")
    BY DEF Loggers, Times
  <2>5. QED BY <2>3, <2>4
<1>3. QED BY <1>1, <1>2, NextAccounts, Invariance, PTL DEF Spec
=============================================================================
