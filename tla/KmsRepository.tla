--------------------------- MODULE KmsRepository ---------------------------
(***************************************************************************)
(* encrypt/common/kms.ts: a KmsRepositoryBase shared by concurrent calls,  *)
(* each wrapped in runWithSignal (encrypt/utilities/utilities.ts), over    *)
(* the AWS, GCP or Azure adapter.                                          *)
(*                                                                         *)
(* The adapter is built lazily by the first call that finds none, and the  *)
(* check and the assignment are separated by an await.  A request to the   *)
(* key service may fail before or after it took effect.  An abort rejects  *)
(* the caller's promise and leaves the operation running.                  *)
(*                                                                         *)
(* encrypt, decrypt, sign and verify are one operation, "crypt": they      *)
(* change no state and differ only in the bytes they carry.                *)
(***************************************************************************)
EXTENDS Integers, FiniteSets

CONSTANTS Call,        \* calls of the repository's methods
          Key,         \* managed keys
          Providers,   \* the adapters a repository may be over
          None,        \* no adapter
          Injected     \* the adapter given to the constructor

ASSUME CallAssumption ==
  IsFiniteSet(Call) /\ {None, Injected} \cap Call = {} /\ None # Injected
ASSUME ProviderAssumption == Providers \subseteq {"aws", "gcp", "azure"}

VARIABLES provider,  \* which adapter this repository builds
          api,       \* #api; an adapter is named by the call that built it
          call,      \* the state of each call
          version,   \* the key service: how often each key was rotated
          enabled    \* the key service: whether each key is enabled

kmsVars == <<provider, api, call, version, enabled>>

Operation == {"getKey", "rotateKey", "deactivateKey", "crypt"}

(***************************************************************************)
(* phase: where the operation is.  creating: it awaits createApi.  ready:  *)
(* it awaits #resolveApi.  sent and answered: its request.  settled: its   *)
(* promise has the outcome inner.  result: what the caller's promise says. *)
(* The last four fields are history.                                       *)
(***************************************************************************)
Idle == [op |-> "none", key |-> None, phase |-> "idle", request |-> "none",
         answer |-> "none", inner |-> "none", signal |-> "none", listener |-> FALSE,
         result |-> "pending",
         adapter |-> None, effects |-> 0, minted |-> 0, seen |-> 0]

KmsInit ==
  /\ provider \in Providers
  /\ api \in {None, Injected}
  /\ call = [c \in Call |-> Idle]
  /\ version = [k \in Key |-> 0]
  /\ enabled = [k \in Key |-> TRUE]

-----------------------------------------------------------------------------
\* Mutant: the adapter is built for every call.
InvokeUncached(c, op, key, signal) ==
  /\ call[c].phase = "idle"
  /\ LET started == [Idle EXCEPT !.op = op, !.key = key, !.signal = signal]
     IN  call' = [call EXCEPT ![c] =
           IF signal = "aborted" THEN [started EXCEPT !.phase = "over", !.result = "aborted"]
           ELSE [started EXCEPT !.phase = "creating", !.adapter = c,
                                !.listener = signal = "live"]]
  /\ UNCHANGED <<provider, api, version, enabled>>

(***************************************************************************)
(* A caller calls a method, with no signal, a live one or an aborted one.  *)
(* runWithSignal rejects at once in the last case; otherwise op() runs up  *)
(* to its first await, which decides whether this call builds an adapter.  *)
(***************************************************************************)
Invoke(c, op, key, signal) ==
  /\ call[c].phase = "idle"
  /\ LET started == [Idle EXCEPT !.op = op, !.key = key, !.signal = signal]
     IN  call' = [call EXCEPT ![c] =
           IF signal = "aborted" THEN [started EXCEPT !.phase = "over", !.result = "aborted"]
           ELSE [started EXCEPT !.phase = IF api = None THEN "creating" ELSE "ready",
                                !.adapter = IF api = None THEN c ELSE api,
                                !.listener = signal = "live"]]
  /\ UNCHANGED <<provider, api, version, enabled>>

\* The operation's promise settles; runWithSignal has not seen it yet.
SettledAs(r, outcome) == [r EXCEPT !.phase = "settled", !.inner = outcome]

\* createApi resolves, and this.#api is assigned whatever it holds by now.
ApiCreated(c) ==
  /\ call[c].phase = "creating"
  /\ api' = c
  /\ call' = [call EXCEPT ![c].phase = "ready"]
  /\ UNCHANGED <<provider, version, enabled>>

\* The SDK cannot be loaded, or Azure's options are missing.
ApiFailed(c) ==
  /\ call[c].phase = "creating"
  /\ call' = [call EXCEPT ![c] = SettledAs(@, "rejected")]
  /\ UNCHANGED <<provider, api, version, enabled>>

FirstRequest ==
  [getKey |-> "describe", rotateKey |-> "rotate", deactivateKey |-> "disable",
   crypt |-> "crypt"]

\* The adapter is there and the first request leaves.
Send(c) ==
  /\ call[c].phase = "ready"
  /\ call' = [call EXCEPT ![c].phase = "sent", ![c].request = FirstRequest[call[c].op]]
  /\ UNCHANGED <<provider, api, version, enabled>>

\* The ciphertext or the signature is not Base64, or Azure gets no key id.
BadInput(c) ==
  /\ call[c].phase = "ready" /\ call[c].op = "crypt"
  /\ call' = [call EXCEPT ![c] = SettledAs(@, "rejected")]
  /\ UNCHANGED <<provider, api, version, enabled>>

(***************************************************************************)
(* The key service handles a request and its answer is on the way.  An     *)
(* error may come after the effect: a lost answer, or a timeout of the     *)
(* SDK.  A request it refuses has no effect.                               *)
(***************************************************************************)
Handle(c, answer, effect) ==
  LET k == call[c].key
      request == call[c].request
  IN  /\ call[c].phase = "sent"
      /\ answer = "ok" => effect
      /\ version' = IF effect /\ request = "rotate" THEN [version EXCEPT ![k] = @ + 1]
                    ELSE version
      /\ enabled' = IF effect /\ request = "disable" THEN [enabled EXCEPT ![k] = FALSE]
                    ELSE enabled
      /\ call' = [call EXCEPT ![c].phase = "answered", ![c].answer = answer,
                    ![c].effects = @ + (IF effect /\ request \in {"rotate", "disable"}
                                        THEN 1 ELSE 0),
                    ![c].minted = IF effect /\ request = "rotate" THEN version'[k] ELSE @,
                    ![c].seen = IF effect /\ request = "describe" THEN version[k] ELSE @]
      /\ UNCHANGED <<provider, api>>

\* GCP's describeKey catches every error and returns the id alone.  (AWS's asks
\* for the public key as well; that request may only fail silently.)
RequestFailed(c) == call[c].answer = "error" /\ ~(provider = "gcp" /\ call[c].request = "describe")

\* Mutant: a rotation that failed is sent again.
ResumeWithRetry(c) ==
  /\ call[c].phase = "answered"
  /\ call' = [call EXCEPT ![c] =
       IF RequestFailed(c) THEN IF @.request = "rotate" THEN [@ EXCEPT !.phase = "sent"]
                         ELSE SettledAs(@, "rejected")
       ELSE IF @.request = "rotate" THEN [@ EXCEPT !.phase = "sent", !.request = "describe"]
       ELSE SettledAs(@, "resolved")]
  /\ UNCHANGED <<provider, api, version, enabled>>

\* The operation resumes: rotateKey goes on to describe the key.
Resume(c) ==
  /\ call[c].phase = "answered"
  /\ call' = [call EXCEPT ![c] =
       IF RequestFailed(c) THEN SettledAs(@, "rejected")
       ELSE IF @.request = "rotate" THEN [@ EXCEPT !.phase = "sent", !.request = "describe"]
       ELSE SettledAs(@, "resolved")]
  /\ UNCHANGED <<provider, api, version, enabled>>

-----------------------------------------------------------------------------
\* Mutant: then(resolve), with no reject.
FinishIfResolved(c) ==
  /\ call[c].phase = "settled"
  /\ call' = [call EXCEPT ![c].phase = "over", ![c].listener = FALSE,
                          ![c].result = IF @ = "pending" /\ call[c].inner = "resolved"
                                        THEN "resolved" ELSE @]
  /\ UNCHANGED <<provider, api, version, enabled>>

\* Mutant: no removeEventListener.
FinishStillListening(c) ==
  /\ call[c].phase = "settled"
  /\ call' = [call EXCEPT ![c].phase = "over",
                          ![c].result = IF @ = "pending" THEN call[c].inner ELSE @]
  /\ UNCHANGED <<provider, api, version, enabled>>

\* then(resolve, reject) and finally(removeEventListener) of runWithSignal.
Finish(c) ==
  /\ call[c].phase = "settled"
  /\ call' = [call EXCEPT ![c].phase = "over", ![c].listener = FALSE,
                          ![c].result = IF @ = "pending" THEN call[c].inner ELSE @]
  /\ UNCHANGED <<provider, api, version, enabled>>

\* Mutant: an abort replaces the result the caller already has.
AbortAnyway(c) ==
  /\ call[c].signal = "live"
  /\ call' = [call EXCEPT ![c].signal = "fired", ![c].listener = FALSE,
                          ![c].result = "aborted"]
  /\ UNCHANGED <<provider, api, version, enabled>>

\* The caller aborts; the listener, if still there, runs once.
Abort(c) ==
  /\ call[c].signal = "live"
  /\ call' = [call EXCEPT ![c].signal = "fired", ![c].listener = FALSE,
                          ![c].result = IF call[c].listener /\ @ = "pending" THEN "aborted"
                                        ELSE @]
  /\ UNCHANGED <<provider, api, version, enabled>>

-----------------------------------------------------------------------------
KmsNext ==
  \/ \E c \in Call, op \in Operation, k \in Key, signal \in {"none", "live", "aborted"} :
       Invoke(c, op, k, signal)
  \/ \E c \in Call, answer \in {"ok", "error"}, effect \in BOOLEAN : Handle(c, answer, effect)
  \/ \E c \in Call : \/ ApiCreated(c) \/ ApiFailed(c) \/ Send(c) \/ BadInput(c)
                     \/ Resume(c) \/ Finish(c) \/ Abort(c)

KmsSpec == KmsInit /\ [][KmsNext]_kmsVars

\* What is awaited settles in the end; nobody need call or abort.
KmsFairness ==
  \A c \in Call :
    WF_kmsVars(\/ ApiCreated(c) \/ ApiFailed(c) \/ Send(c) \/ BadInput(c)
            \/ Resume(c) \/ Finish(c)
            \/ \E answer \in {"ok", "error"}, effect \in BOOLEAN : Handle(c, answer, effect))

KmsFairSpec == KmsSpec /\ KmsFairness

-----------------------------------------------------------------------------
(* Properties.                                                             *)

CallRecord ==
  [op : Operation \cup {"none"}, key : Key \cup {None},
   phase : {"idle", "creating", "ready", "sent", "answered", "settled", "over"},
   request : {"none", "describe", "rotate", "disable", "crypt"},
   answer : {"none", "ok", "error"}, inner : {"none", "resolved", "rejected"},
   signal : {"none", "live", "aborted", "fired"}, listener : BOOLEAN,
   result : {"pending", "resolved", "rejected", "aborted"},
   adapter : Call \cup {None, Injected}, effects : Nat, minted : Nat, seen : Nat]

\* Every variable keeps its type.
KmsTypeOK ==
  /\ provider \in Providers
  /\ api \in Call \cup {None, Injected}
  /\ version \in [Key -> Nat] /\ enabled \in [Key -> BOOLEAN]
  /\ call \in [Call -> CallRecord]

(***************************************************************************)
(* What a resolved promise tells is true: rotateKey rotated the key, once, *)
(* and describes the key no older than its own rotation (unless GCP        *)
(* swallowed the error of the description); deactivateKey left the key     *)
(* disabled.  No call takes effect twice, whatever fails or is aborted.    *)
(***************************************************************************)
ResolvedMeansDone ==
  \A c \in Call :
    /\ call[c].effects <= 1
    /\ call[c].result = "resolved" /\ call[c].op = "rotateKey" =>
         /\ call[c].effects = 1
         /\ call[c].seen >= call[c].minted \/ (provider = "gcp" /\ call[c].answer = "error")
    /\ call[c].result = "resolved" /\ call[c].op = "deactivateKey" => ~enabled[call[c].key]

(***************************************************************************)
(* The abort listener is there exactly while the operation of a call with  *)
(* a live signal is pending, so a long-lived signal collects no listeners; *)
(* and the caller was told of an abort exactly when it came in that time.  *)
(***************************************************************************)
ListenerIsCurrent ==
  \A c \in Call :
    /\ call[c].listener <=> call[c].signal = "live" /\ call[c].phase \notin {"idle", "over"}
    /\ call[c].signal = "fired" /\ call[c].phase # "over" => call[c].result = "aborted"

\* A promise settles once: an answer after the abort, or an abort after it, changes nothing.
SettledForGood ==
  [][\A c \in Call : call[c].result # "pending" => call'[c].result = call[c].result]_kmsVars

(***************************************************************************)
(* The adapter is built only by calls that came before any adapter was     *)
(* ready, and an injected adapter is never replaced.                       *)
(***************************************************************************)
LazyAdapter ==
  [][api # None =>
       /\ api' # None /\ (api = Injected => api' = Injected)
       /\ \A c \in Call : call'[c].phase = "creating" => call[c].phase = "creating"]_kmsVars

(***************************************************************************)
(* Every call ends and lets go of its signal.                              *)
(***************************************************************************)
CallsEnd ==
  \A c \in Call : call[c].phase # "idle" ~> call[c].result # "pending" /\ ~call[c].listener
=============================================================================
