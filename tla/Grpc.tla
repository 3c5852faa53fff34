-------------------------------- MODULE Grpc --------------------------------
(***************************************************************************)
(* config/server/grpc and config/client/grpc: unary calls between a        *)
(* GrpcClient and a GrpcServer, with the interceptors the package ships    *)
(* (logger/middlewares/grpc.ts and security/middlewares/grpc_jwt.ts).      *)
(*                                                                         *)
(* A call runs on two sides.  At the client a promise is pending; at the   *)
(* server the request goes down its service's interceptors to the handler, *)
(* and the outcome comes back up to the callback.  The stream between them *)
(* lasts as long as the promise is pending.  When it goes first (after a   *)
(* deadline, a broken connection or forceShutdown), the server's part goes *)
(* on, and its answer is dropped.                                          *)
(***************************************************************************)
EXTENDS Integers, Sequences, FiniteSets, SequencesExt

CONSTANTS Call,           \* calls of unary
          Method,         \* unary methods of the services
          None,           \* no handler for a method
          ServerChain,    \* interceptor sequences given to the constructor
          ServiceChain    \* interceptor sequences given to addService

Interceptor == {"log", "jwt"}

\* What a handler does: it returns, throws a GrpcError, or throws something else.
Result == {"ok", "custom", "internal"}

ASSUME ChainAssumption == ServerChain \cup ServiceChain \subseteq Seq(Interceptor)
ASSUME NoneAssumption == None \notin Seq(Interceptor)

VARIABLES interceptors,   \* #interceptors
          handlers,       \* the chain in front of each method's handler, or None
          server,         \* new, open, draining (tryShutdown) or stopped
          closed,         \* the client's close was called
          call            \* the calls

vars == <<interceptors, handlers, server, closed, call>>

(***************************************************************************)
(* promise and code are the client's side.  phase: sent and answered are   *)
(* on the wire, down and up in the server's chain.  chain: what the        *)
(* request goes through.  lines and claims: what the interceptors did.     *)
(* entered, result and broken are history: what it went through, what its  *)
(* handler did, and whether a logger's sink threw.                         *)
(***************************************************************************)
NoCall == [promise |-> "none", method |-> None, valid |-> FALSE,
           deadline |-> FALSE, phase |-> "idle", chain |-> <<>>, todo |-> <<>>,
           stack |-> <<>>, outcome |-> "none", code |-> "none", claims |-> FALSE,
           lines |-> 0, entered |-> <<>>, result |-> "none", broken |-> FALSE]

Init ==
  /\ interceptors \in ServerChain
  /\ handlers = [m \in Method |-> None]
  /\ server = "new" /\ closed = FALSE
  /\ call = [c \in Call |-> NoCall]

OnlyCalls == UNCHANGED <<interceptors, handlers, server, closed>>

-----------------------------------------------------------------------------
(* The server's API.                                                       *)

\* A service of one method.  The chain is copied here; grpc-js throws if it has a handler.
AddService(m, chain) ==
  /\ handlers[m] = None
  /\ handlers' = [handlers EXCEPT ![m] = interceptors \o chain]
  /\ UNCHANGED <<interceptors, server, closed, call>>

\* bindAsync succeeds; when it fails, nothing changes and listen rejects.
Listen ==
  /\ server = "new" /\ server' = "open"
  /\ UNCHANGED <<interceptors, handlers, closed, call>>

Shutdown ==
  /\ server \in {"new", "open"} /\ server' = "draining"
  /\ UNCHANGED <<interceptors, handlers, closed, call>>

Pending(c) == call[c].promise = "pending"

\* Calls the server works on and whose client still waits.
InFlight == {c \in Call : call[c].phase \in {"down", "up"} /\ Pending(c)}

\* The promise of a call settles, and its stream is gone.
Settled(q, promise, code) == [q EXCEPT !.promise = promise, !.code = code]

ShutdownResolves ==
  /\ server = "draining" /\ InFlight = {} /\ server' = "stopped"
  /\ UNCHANGED <<interceptors, handlers, closed, call>>

\* The streams are cut; nobody tells the handlers.
ForceShutdown ==
  /\ server # "stopped" /\ server' = "stopped"
  /\ call' = [c \in Call |-> IF c \in InFlight THEN Settled(call[c], "rejected", "cancelled")
                             ELSE call[c]]
  /\ UNCHANGED <<interceptors, handlers, closed>>

-----------------------------------------------------------------------------
(* The client.                                                             *)

(***************************************************************************)
(* unary: an unknown method, or a closed channel, rejects at once; else    *)
(* the request leaves, with a deadline if deadlineMs is positive.          *)
(***************************************************************************)
Unary(c, m, valid, deadline) ==
  /\ call[c].promise = "none"
  /\ call' = [call EXCEPT ![c] =
       IF closed \/ m \notin Method THEN Settled(@, "rejected", "unknown or closed")
       ELSE [NoCall EXCEPT !.promise = "pending", !.phase = "sent",
                           !.method = m, !.valid = valid, !.deadline = deadline]]
  /\ OnlyCalls

Close ==
  /\ closed' = TRUE
  /\ UNCHANGED <<interceptors, handlers, server, call>>

\* Mutant: the deadline ends when the server has the request.
DeadlineOfSending(c) ==
  /\ Pending(c) /\ call[c].deadline /\ call[c].phase = "sent"
  /\ call' = [call EXCEPT ![c] = Settled(@, "rejected", "deadline")]
  /\ OnlyCalls

DeadlinePasses(c) ==
  /\ Pending(c) /\ call[c].deadline
  /\ call' = [call EXCEPT ![c] = Settled(@, "rejected", "deadline")]
  /\ OnlyCalls

ConnectionBreaks(c) ==
  /\ Pending(c)
  /\ call' = [call EXCEPT ![c] = Settled(@, "rejected", "unavailable")]
  /\ OnlyCalls

\* The answer arrives: the callback of fn.call, with an error or a value.
Answered(c) ==
  /\ Pending(c) /\ call[c].phase = "answered"
  /\ call' = [call EXCEPT ![c] =
       IF @.outcome = "ok" THEN Settled(@, "resolved", "ok")
       ELSE Settled(@, "rejected", @.outcome)]
  /\ OnlyCalls

-----------------------------------------------------------------------------
(* A call at the server.                                                   *)

(***************************************************************************)
(* The server takes a request that is on the wire, even one whose client   *)
(* gave up meanwhile; or the request is lost, refused by a server that is  *)
(* not open, or dropped by a closed channel.                               *)
(***************************************************************************)
Accept(c) ==
  /\ call[c].phase = "sent" /\ server = "open"
  /\ LET chain == handlers[call[c].method]
     IN  call' = [call EXCEPT ![c] =
           IF chain = None THEN [@ EXCEPT !.phase = "answered", !.outcome = "unimplemented"]
           ELSE [@ EXCEPT !.phase = "down", !.chain = chain,
                          !.todo = Append(chain, "handler")]]
  /\ OnlyCalls

Refuse(c) ==
  /\ call[c].phase = "sent"
  /\ server # "open" \/ closed \/ ~Pending(c)
  /\ call' = [call EXCEPT ![c] =
       [(IF Pending(c) THEN Settled(@, "rejected", "unavailable") ELSE @) EXCEPT !.phase = "over"]]
  /\ OnlyCalls

Goes(c, kind) == call[c].phase = "down" /\ Head(call[c].todo) = kind

Enters(q) == [q EXCEPT !.todo = Tail(@), !.entered = Append(@, Head(q.todo))]

Ends(q, outcome) == [Enters(q) EXCEPT !.phase = "up", !.todo = <<>>, !.outcome = outcome]

EnterLog(c) ==
  /\ Goes(c, "log")
  /\ LET q == Enters(call[c])
     IN  call' = [call EXCEPT ![c] = [q EXCEPT !.stack = Append(q.stack, "log")]]
  /\ OnlyCalls

\* Mutant: next is called whatever verify says.
EnterJwtAnyway(c) ==
  /\ Goes(c, "jwt")
  /\ call' = [call EXCEPT ![c] = [Enters(@) EXCEPT !.claims = @ \/ call[c].valid]]
  /\ OnlyCalls

\* grpcJwtInterceptor: the claims are stored and next is called, or UNAUTHENTICATED.
EnterJwt(c) ==
  /\ Goes(c, "jwt")
  /\ call' = [call EXCEPT ![c] =
       IF @.valid THEN [Enters(@) EXCEPT !.claims = TRUE] ELSE Ends(@, "unauthenticated")]
  /\ OnlyCalls

\* The handler returns, or throws: a GrpcError with a code of its own, or any other error.
EnterHandler(c, outcome) ==
  /\ Goes(c, "handler")
  /\ call' = [call EXCEPT ![c] = [Ends(@, outcome) EXCEPT !.result = outcome]]
  /\ OnlyCalls

Returns(c) == call[c].phase = "up" /\ call[c].stack # <<>>

\* Mutant: the logger writes its line of a success only.
LeaveLogOfSuccess(c, infoThrows, errorThrows) ==
  /\ Returns(c)
  /\ call' = [call EXCEPT ![c].stack = Front(@),
                         ![c].lines = IF call[c].outcome = "ok" THEN @ + 1 ELSE @]
  /\ OnlyCalls

\* Mutant: the logger throws a new Error with the message of the one it logged.
LeaveLogWrapping(c, infoThrows, errorThrows) ==
  /\ Returns(c)
  /\ call' = [call EXCEPT ![c].stack = Front(@), ![c].lines = @ + 1,
                         ![c].outcome = IF @ = "ok" THEN "ok" ELSE "internal"]
  /\ OnlyCalls

(***************************************************************************)
(* grpcLogger: an info line, or an error line and the error again.  info   *)
(* is called inside the try block; what a sink throws takes the place of   *)
(* the response or of the error, and the code of a GrpcError is lost.      *)
(***************************************************************************)
LeaveLog(c, infoThrows, errorThrows) ==
  /\ Returns(c)
  /\ LET q == call[c]
         failed == q.outcome # "ok" \/ infoThrows
         broke == (q.outcome = "ok" /\ infoThrows) \/ (failed /\ errorThrows)
     IN  call' = [call EXCEPT ![c] =
           [q EXCEPT !.stack = Front(q.stack),
                     !.lines = IF failed /\ errorThrows THEN q.lines ELSE q.lines + 1,
                     !.outcome = IF broke THEN "internal" ELSE q.outcome,
                     !.broken = q.broken \/ broke]]
  /\ OnlyCalls

\* The callback of the chain, through toServiceError; without its stream it tells nobody.
Callback(c) ==
  /\ call[c].phase = "up" /\ call[c].stack = <<>>
  /\ call' = [call EXCEPT ![c].phase = IF Pending(c) THEN "answered" ELSE "over"]
  /\ OnlyCalls

-----------------------------------------------------------------------------
\* What the server and the two event loops do with a call, handlers apart.
Steps(c) ==
  \/ Accept(c) \/ Refuse(c) \/ EnterLog(c) \/ EnterJwt(c) \/ Callback(c) \/ Answered(c)
  \/ \E infoThrows, errorThrows \in BOOLEAN : LeaveLog(c, infoThrows, errorThrows)

Next ==
  \/ \E m \in Method, chain \in ServiceChain : AddService(m, chain)
  \/ Listen \/ Shutdown \/ ShutdownResolves \/ ForceShutdown \/ Close
  \/ \E c \in Call, m \in Method \cup {None}, valid, deadline \in BOOLEAN :
       Unary(c, m, valid, deadline)
  \/ \E c \in Call, outcome \in Result : EnterHandler(c, outcome)
  \/ \E c \in Call : Steps(c) \/ DeadlinePasses(c) \/ ConnectionBreaks(c)

Spec == Init /\ [][Next]_vars

\* Timers fire and grpc-js makes progress; no handler need ever settle.
FairSpec ==
  Spec /\ WF_vars(ShutdownResolves)
       /\ (\A c \in Call : WF_vars(Steps(c)) /\ WF_vars(DeadlinePasses(c)))

-----------------------------------------------------------------------------
(* Properties.                                                             *)

CallRecord ==
  [promise : {"none", "pending", "resolved", "rejected"},
   method : Method \cup {None}, valid : BOOLEAN, deadline : BOOLEAN,
   phase : {"idle", "sent", "down", "up", "answered", "over"},
   chain : Seq(Interceptor), todo : Seq(Interceptor \cup {"handler"}), stack : Seq({"log"}),
   outcome : {"none", "ok", "custom", "unauthenticated", "unimplemented", "internal"},
   code : {"none", "ok", "custom", "unauthenticated", "unimplemented", "internal",
           "cancelled", "deadline", "unavailable", "unknown or closed"},
   claims : BOOLEAN, lines : Nat, entered : Seq(Interceptor \cup {"handler"}),
   result : Result \cup {"none"}, broken : BOOLEAN]

\* Every variable keeps its type, and a pending call is on the wire or at the server.
TypeOK ==
  /\ interceptors \in ServerChain
  /\ handlers \in [Method -> Seq(Interceptor) \cup {None}]
  /\ server \in {"new", "open", "draining", "stopped"}
  /\ closed \in BOOLEAN
  /\ call \in [Call -> CallRecord]
  /\ \A c \in Call : Pending(c) => call[c].phase \notin {"idle", "over"}

(***************************************************************************)
(* What a client is told is true.  A resolved promise means that the       *)
(* handler returned, behind every interceptor of the server and of the     *)
(* service, in that order.  A call refused for its token, or whose token   *)
(* was bad, never reached its handler, whatever the client was told.       *)
(***************************************************************************)
AnswersAreTrue ==
  \A c \in Call :
    /\ call[c].promise = "resolved" => call[c].result = "ok"
    /\ call[c].result # "none" =>
         /\ call[c].entered = Append(call[c].chain, "handler")
         /\ \E chain \in ServiceChain : call[c].chain = interceptors \o chain
    /\ call[c].code = "unauthenticated" => ~Contains(call[c].entered, "handler")
    /\ Contains(call[c].entered, "handler") /\ Contains(call[c].chain, "jwt")
         => call[c].valid /\ call[c].claims

\* How many loggers there are among what a call went through.
Loggers(entered) == Cardinality({i \in DOMAIN entered : entered[i] = "log"})

(***************************************************************************)
(* A call whose outcome is decided has one line of each logger it went     *)
(* through, also when its client has gone; where a sink threw there may be *)
(* fewer, and never more.                                                  *)
(***************************************************************************)
CallsAreLogged ==
  \A c \in Call :
    call[c].phase \in {"answered", "over"} =>
      /\ call[c].lines <= Loggers(call[c].entered)
      /\ ~call[c].broken => call[c].lines = Loggers(call[c].entered)

\* What a call comes to at the server, by what it went through.
Verdict(q) ==
  IF Contains(q.entered, "handler") THEN q.result
  ELSE IF Contains(q.entered, "jwt") THEN "unauthenticated" ELSE "unimplemented"

\* Codes that a client gives itself, and those of a call not yet settled.
OwnCodes == {"none", "cancelled", "deadline", "unavailable", "unknown or closed"}

(***************************************************************************)
(* Every code that comes from the server is the one decided there: of the  *)
(* handler, of the JWT check, or of a method that has no handler.  It      *)
(* passes all loggers unchanged unless a sink throws; then it is INTERNAL, *)
(* whatever the loggers above it do.                                       *)
(***************************************************************************)
CodesArrive ==
  \A c \in Call :
    call[c].code \notin OwnCodes =>
      call[c].code = IF call[c].broken THEN "internal" ELSE Verdict(call[c])

(***************************************************************************)
(* A call with a deadline settles, even if its handler hangs, its request  *)
(* is lost or the server is stopped; and shutdown ends unless it waits for *)
(* a hanging handler of a call that has none.                              *)
(***************************************************************************)
DeadlinesBound ==
  /\ \A c \in Call : Pending(c) /\ call[c].deadline ~> ~Pending(c)
  /\ server = "draining" ~>
       server = "stopped" \/ \E c \in InFlight : ~call[c].deadline
=============================================================================
