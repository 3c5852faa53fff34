----------------------------- MODULE HttpClient -----------------------------
(***************************************************************************)
(* config/client/http/client.ts: concurrent requests of one ClientHTTP     *)
(* that share a caller's AbortSignal, each with its own timeout signal.    *)
(*                                                                         *)
(* #request prepares headers and payload, awaits fetch (the only part in   *)
(* its try block), and then awaits the body.  The composed signal governs  *)
(* the fetch and the body alike.                                           *)
(***************************************************************************)
EXTENDS Integers

CONSTANTS Call,            \* requests of the client
          DefaultTimeout,  \* ClientOptions.timeoutMs, or Omitted
          Timeouts,        \* values requests give RequestOptions.timeoutMs
          Omitted          \* an option that was not given

ASSUME TimeoutAssumption == {DefaultTimeout} \cup Timeouts \subseteq Int \cup {Omitted}

VARIABLES call,    \* the state of each request
          aborted  \* whether the caller aborted the shared signal

clientVars == <<call, aborted>>

(***************************************************************************)
(* signals: the sources of the composed signal.  given is a history field: *)
(* the timeoutMs of the request's own options.                             *)
(***************************************************************************)
NotMade == [phase |-> "idle", signals |-> {}, result |-> "none", given |-> Omitted]

ClientInit == call = [r \in Call |-> NotMade] /\ aborted = FALSE

-----------------------------------------------------------------------------
\* Mutant: the client's default is not used.
EffectiveTimeoutOwn(timeoutMs) == timeoutMs

\* options.timeoutMs ?? this.#timeoutMs: zero is a value, and disables the default.
EffectiveTimeout(timeoutMs) == IF timeoutMs = Omitted THEN DefaultTimeout ELSE timeoutMs

ComposeSignal(hasSignal, timeoutMs) ==
  (IF hasSignal THEN {"caller"} ELSE {})
    \cup (IF timeoutMs # Omitted /\ timeoutMs > 0 THEN {"timeout"} ELSE {})

\* #request up to the call of fetch.
Begin(r, hasSignal, timeoutMs) ==
  /\ call[r].phase = "idle"
  /\ call' = [call EXCEPT ![r].phase = "fetching", ![r].given = timeoutMs,
                   ![r].signals = ComposeSignal(hasSignal, EffectiveTimeout(timeoutMs))]
  /\ UNCHANGED aborted

\* JSON.stringify or the Headers constructor throws: a misuse, not a failure.
BadArgument(r) ==
  /\ call[r].phase = "idle"
  /\ call' = [call EXCEPT ![r].phase = "done", ![r].result = "raw"]
  /\ UNCHANGED aborted

\* The response's status line and headers arrive.
HeadersArrive(r) ==
  /\ call[r].phase = "fetching"
  /\ call' = [call EXCEPT ![r].phase = "reading"]
  /\ UNCHANGED aborted

\* The body arrives.  JSON that does not parse becomes text; an empty body, undefined.
BodyArrives(r) ==
  /\ call[r].phase = "reading"
  /\ call' = [call EXCEPT ![r].phase = "done", ![r].result = "response"]
  /\ UNCHANGED aborted

\* Mutant: the promise does not settle when reading the body fails.
RejectionOfFetch(r) == IF call[r].phase = "fetching" THEN "HttpClientError" ELSE "none"

\* Only a failure of fetch itself is wrapped in an HttpClientError.
Rejection(r) == IF call[r].phase = "fetching" THEN "HttpClientError" ELSE "raw"

Pending(r) == call[r].phase \in {"fetching", "reading"}

Fail(r) == call' = [call EXCEPT ![r].phase = "done", ![r].result = Rejection(r)]

\* The connection breaks, or fetch cannot use the URL.
NetworkFails(r) == Pending(r) /\ Fail(r) /\ UNCHANGED aborted

TimeoutFires(r) ==
  /\ Pending(r) /\ "timeout" \in call[r].signals
  /\ Fail(r)
  /\ UNCHANGED aborted

\* The caller aborts the signal its requests share.
Abort == aborted' = TRUE /\ UNCHANGED call

\* fetch or the body stream rejects because the signal is aborted.
AbortSeen(r) ==
  /\ Pending(r) /\ aborted /\ "caller" \in call[r].signals
  /\ Fail(r)
  /\ UNCHANGED aborted

\* The caller makes another request.
Again(r) ==
  /\ call[r].phase = "done"
  /\ call' = [call EXCEPT ![r] = NotMade]
  /\ UNCHANGED aborted

-----------------------------------------------------------------------------
ClientNext ==
  \/ \E r \in Call, hasSignal \in BOOLEAN, timeoutMs \in Timeouts \cup {Omitted} :
       Begin(r, hasSignal, timeoutMs)
  \/ \E r \in Call : \/ BadArgument(r) \/ HeadersArrive(r) \/ BodyArrives(r)
                        \/ NetworkFails(r) \/ TimeoutFires(r) \/ AbortSeen(r) \/ Again(r)
  \/ Abort

ClientSpec == ClientInit /\ [][ClientNext]_clientVars

\* The platform's timers fire and its signals are seen; no server need answer.
ClientFairSpec ==
  ClientSpec /\ \A r \in Call : WF_clientVars(TimeoutFires(r)) /\ WF_clientVars(AbortSeen(r))

-----------------------------------------------------------------------------
(* Properties.                                                             *)

(***************************************************************************)
(* Every variable keeps its type, and a request is done exactly when its   *)
(* promise is settled.                                                     *)
(***************************************************************************)
ClientTypeOK ==
  /\ aborted \in BOOLEAN
  /\ \A r \in Call :
       /\ call[r].phase \in {"idle", "fetching", "reading", "done"}
       /\ call[r].signals \subseteq {"caller", "timeout"}
       /\ call[r].result \in {"none", "response", "HttpClientError", "raw"}
       /\ call[r].phase = "done" <=> call[r].result # "none"

\* The timeout the caller asked for: the client's default applies when it gave none.
Asked(r) == IF call[r].given # Omitted THEN call[r].given
            ELSE IF DefaultTimeout # Omitted THEN DefaultTimeout ELSE 0

(***************************************************************************)
(* A request never waits for ever for a silent server: with a positive     *)
(* timeout, its own or the client's default, it ends, even if the server   *)
(* goes silent in the middle of the body; and so does a request whose      *)
(* caller aborts.                                                          *)
(***************************************************************************)
TimedRequestsEnd ==
  \A r \in Call :
    /\ Pending(r) /\ Asked(r) > 0 ~> ~Pending(r)
    /\ Pending(r) /\ "caller" \in call[r].signals /\ aborted ~> ~Pending(r)

=============================================================================
