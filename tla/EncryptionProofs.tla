-------------------------- MODULE EncryptionProofs --------------------------
(***************************************************************************)
(* Proofs about the encrypt package, in two parts that share nothing but   *)
(* this module: the repository of managed keys, with its lazily built      *)
(* adapter and its abortable calls, for any calls and keys and any         *)
(* adapter; and the providers, for any keys, texts and cloud keys and any  *)
(* calls one after the other.                                              *)
(***************************************************************************)
EXTENDS KmsRepository, Providers, TLAPS

-----------------------------------------------------------------------------
(* The repository: encrypt/common/kms.ts, encrypt/utilities/utilities.ts.  *)

(***************************************************************************)
(* The parts of the inductive invariant, about one call r.                 *)
(***************************************************************************)
\* A call that was made has an operation and a key.
Known(r) == IF r.phase = "idle" THEN r = Idle
            ELSE /\ r.op \in Operation /\ r.key \in Key
                 /\ r.phase = "answered" => r.answer # "none"
                 /\ r.phase = "settled" => r.inner # "none"

\* The signal, its listener and the promise that the caller holds.
Listening(r) ==
  /\ r.listener = (r.signal = "live" /\ r.phase \notin {"idle", "over"})
  /\ r.phase # "over" => r.result = IF r.signal = "fired" THEN "aborted" ELSE "pending"
  /\ r.phase = "over" => r.result # "pending"

\* How far a rotation has come, and what the caller may be told of it.
Rotation(r, ver) ==
  r.op = "rotateKey" =>
    /\ r.phase \in {"creating", "ready"} => r.effects = 0
    /\ r.phase \in {"sent", "answered"} => r.request \in {"rotate", "describe"}
    /\ r.phase = "sent" /\ r.request = "rotate" => r.effects = 0
    /\ r.phase = "answered" /\ r.request = "rotate" /\ r.answer = "ok"
         => r.effects = 1 /\ r.minted <= ver[r.key]
    /\ r.phase \in {"sent", "answered"} /\ r.request = "describe"
         => r.effects = 1 /\ r.minted <= ver[r.key]
    /\ r.phase = "answered" /\ r.request = "describe" /\ r.answer = "ok"
         => r.minted <= r.seen
    /\ (r.phase = "settled" /\ r.inner = "resolved") \/ r.result = "resolved"
         => r.effects = 1 /\ (r.minted <= r.seen \/ (provider = "gcp" /\ r.answer = "error"))

\* The same for a deactivation.
Deactivation(r, en) ==
  r.op = "deactivateKey" =>
    /\ r.phase \in {"creating", "ready", "sent"} => r.effects = 0
    /\ r.phase \in {"sent", "answered"} => r.request = "disable"
    /\ r.phase = "answered" /\ r.answer = "ok" => ~en[r.key]
    /\ (r.phase = "settled" /\ r.inner = "resolved") \/ r.result = "resolved" => ~en[r.key]

\* The other operations only read.
Reading(r) ==
  r.op \notin {"rotateKey", "deactivateKey"} =>
    /\ r.effects = 0
    /\ r.phase \in {"sent", "answered"} => r.request \in {"describe", "crypt"}

Sound(r, ver, en) ==
  /\ Known(r) /\ Listening(r)
  /\ r.effects <= 1
  /\ Rotation(r, ver) /\ Deactivation(r, en) /\ Reading(r)

\* An injected adapter is there from the start, so nobody builds another.
Unrivalled == api = Injected => \A c \in Call : call[c].phase # "creating"

KmsInv ==
  /\ KmsTypeOK /\ Unrivalled
  /\ \A c \in Call : Sound(call[c], version, enabled)

-----------------------------------------------------------------------------
(* Keys only gain versions and are never enabled again.                    *)

\* What is true of a call stays true when keys are rotated or disabled further.
LEMMA SoundStays ==
  ASSUME NEW r \in CallRecord, NEW ver \in [Key -> Nat], NEW later \in [Key -> Nat],
         NEW en, NEW enLater,
         \A k \in Key : ver[k] <= later[k] /\ (enLater[k] => en[k]),
         Sound(r, ver, en)
  PROVE  Sound(r, later, enLater)
<1>1. r.minted \in Nat /\ (r.phase # "idle" => r.key \in Key)
  BY DEF CallRecord, Sound, Known
<1>2. r.phase = "idle" => r = Idle
  BY DEF Sound, Known
<1>3. Rotation(r, later)
  BY <1>1, <1>2 DEF Rotation, Sound, Idle
<1>4. Deactivation(r, enLater)
  BY <1>1, <1>2 DEF Deactivation, Sound, Idle
<1>5. QED BY <1>3, <1>4 DEF Sound

\* A step that writes one call, and leaves the key service alone, is judged by that call.
LEMMA OneCall ==
  ASSUME KmsInv, NEW c \in Call, NEW r \in CallRecord,
         call' = [call EXCEPT ![c] = r],
         UNCHANGED <<provider, version, enabled>>,
         api' \in Call \cup {None, Injected},
         api' = Injected => api = Injected /\ r.phase # "creating",
         Sound(r, version, enabled)
  PROVE  KmsInv'
<1>1. call'[c] = r /\ \A d \in Call : d # c => call'[d] = call[d]
  BY DEF KmsInv, KmsTypeOK
<1>2. KmsTypeOK'
  BY DEF KmsInv, KmsTypeOK
<1>3. Unrivalled'
  BY <1>1 DEF KmsInv, Unrivalled
<1>4. ASSUME NEW d \in Call PROVE Sound(call[d], version, enabled)'
  <2>1. Sound(call'[d], version, enabled)
    BY <1>1 DEF KmsInv
  <2>2. QED BY <2>1 DEF Sound, Known, Listening, Rotation, Deactivation, Reading
<1>5. QED BY <1>2, <1>3, <1>4 DEF KmsInv

-----------------------------------------------------------------------------
(* One lemma per handler that decides something.                           *)


\* Setting up a record of CallRecord from its fields.
LEMMA IdleTyped == Idle \in CallRecord
BY DEF Idle, CallRecord

\* A call that was not made is sound.
LEMMA IdleSound == Sound(Idle, version, enabled)
<1>1. Known(Idle)
  BY DEF Known, Idle
<1>2. Listening(Idle)
  BY DEF Listening, Idle
<1>3. Rotation(Idle, version) /\ Deactivation(Idle, enabled) /\ Reading(Idle)
  BY DEF Rotation, Deactivation, Reading, Idle
<1>4. QED BY <1>1, <1>2, <1>3 DEF Sound, Idle

\* No call is made at the start.
LEMMA InitInv == KmsInit => KmsInv
<1> SUFFICES ASSUME KmsInit PROVE KmsInv
  OBVIOUS
<1>1. Idle.phase = "idle"
  BY DEF Idle
<1>2. QED BY <1>1, IdleTyped, IdleSound DEF KmsInit, KmsInv, KmsTypeOK, Unrivalled

\* A call that begins has its listener if its signal is live.
LEMMA InvokeInv ==
  ASSUME KmsInv, NEW c \in Call, NEW op \in Operation, NEW k \in Key,
         NEW signal \in {"none", "live", "aborted"}, Invoke(c, op, k, signal)
  PROVE  KmsInv'
<1>1. UNCHANGED <<provider, api, version, enabled>> /\ KmsTypeOK
  BY DEF Invoke, KmsInv
<1>2. CASE signal = "aborted"
  <2> DEFINE next == [[Idle EXCEPT !.op = op, !.key = k, !.signal = signal]
                        EXCEPT !.phase = "over", !.result = "aborted"]
  <2>1. call' = [call EXCEPT ![c] = next]
    BY <1>2 DEF Invoke
  <2>2. /\ next.op = op /\ next.key = k /\ next.signal = signal /\ next.phase = "over"
        /\ next.result = "aborted" /\ next.listener = FALSE /\ next.effects = 0
    BY DEF Idle
  <2>3. next \in CallRecord
    BY DEF Idle, CallRecord
  <2> HIDE DEF next
  <2>4. Known(next) /\ Listening(next)
    BY <1>2, <2>2 DEF Known, Listening
  <2>5. Rotation(next, version) /\ Deactivation(next, enabled) /\ Reading(next)
    BY <2>2 DEF Rotation, Deactivation, Reading
  <2>6. Sound(next, version, enabled)
    BY <2>2, <2>4, <2>5 DEF Sound
  <2>7. QED BY <1>1, <2>1, <2>2, <2>3, <2>6, OneCall DEF KmsTypeOK
<1>3. CASE signal # "aborted"
  <2> DEFINE next == [[Idle EXCEPT !.op = op, !.key = k, !.signal = signal]
                        EXCEPT !.phase = IF api = None THEN "creating" ELSE "ready",
                               !.adapter = IF api = None THEN c ELSE api,
                               !.listener = signal = "live"]
  <2>1. call' = [call EXCEPT ![c] = next]
    BY <1>3 DEF Invoke
  <2>2. /\ next.op = op /\ next.key = k /\ next.signal = signal
        /\ next.phase = IF api = None THEN "creating" ELSE "ready"
        /\ next.result = "pending" /\ next.effects = 0
        /\ next.listener = (signal = "live")
    BY DEF Idle
  <2>3. next \in CallRecord
    <3>1. /\ (IF api = None THEN c ELSE api) \in Call \cup {None, Injected}
          /\ (IF api = None THEN "creating" ELSE "ready") \in {"creating", "ready"}
          /\ (signal = "live") \in BOOLEAN
      BY <1>1 DEF KmsTypeOK
    <3>2. \A adapter \in Call \cup {None, Injected}, phase \in {"creating", "ready"},
             live \in BOOLEAN :
            [[Idle EXCEPT !.op = op, !.key = k, !.signal = signal]
               EXCEPT !.phase = phase, !.adapter = adapter, !.listener = live] \in CallRecord
      BY ZenonT(40) DEF Idle, CallRecord
    <3> HIDE DEF next
    <3>3. QED BY <3>1, <3>2 DEF next
  <2> HIDE DEF next
  <2>4. Known(next) /\ Listening(next)
    BY <1>3, <2>2 DEF Known, Listening
  <2>5. Rotation(next, version) /\ Deactivation(next, enabled) /\ Reading(next)
    BY <2>2 DEF Rotation, Deactivation, Reading
  <2>6. Sound(next, version, enabled)
    BY <2>2, <2>4, <2>5 DEF Sound
  <2>7. api = Injected => next.phase # "creating"
    BY <2>2, CallAssumption
  <2>8. QED BY <1>1, <2>1, <2>3, <2>6, <2>7, OneCall DEF KmsTypeOK
<1>4. QED BY <1>2, <1>3

\* A failure leaves the call with nothing to tell but that it failed.
LEMMA RejectSound ==
  ASSUME KmsTypeOK, NEW r \in CallRecord, Sound(r, version, enabled),
         r.phase \notin {"idle", "settled", "over"}
  PROVE  /\ SettledAs(r, "rejected") \in CallRecord
         /\ Sound(SettledAs(r, "rejected"), version, enabled)
         /\ SettledAs(r, "rejected").phase = "settled"
<1> DEFINE next == SettledAs(r, "rejected")
<1>1. next \in CallRecord
  BY ZenonT(40) DEF SettledAs, CallRecord
<1>2. /\ next.op = r.op /\ next.key = r.key /\ next.signal = r.signal
      /\ next.phase = "settled" /\ next.inner = "rejected"
      /\ next.result = r.result /\ next.listener = r.listener
      /\ next.effects = r.effects
  BY DEF SettledAs, CallRecord
<1> HIDE DEF next
<1>3. Known(next) /\ Listening(next)
  BY <1>2 DEF Sound, Known, Listening
<1>4. r.result # "resolved"
  BY DEF Sound, Listening
<1>5. Rotation(next, version) /\ Deactivation(next, enabled) /\ Reading(next)
  BY <1>2, <1>4 DEF Sound, Rotation, Deactivation, Reading
<1>6. QED BY <1>1, <1>2, <1>3, <1>5 DEF Sound, next

\* What happens to a call before its request is on the way.
LEMMA SetupInv ==
  ASSUME KmsInv, NEW c \in Call,
         ApiCreated(c) \/ ApiFailed(c) \/ Send(c) \/ BadInput(c)
  PROVE  KmsInv'
<1> DEFINE r == call[c]
<1>1. r \in CallRecord /\ Sound(r, version, enabled) /\ KmsTypeOK /\ Unrivalled
  BY DEF KmsInv, KmsTypeOK
<1>2. CASE ApiCreated(c)
  <2> DEFINE next == [r EXCEPT !.phase = "ready"]
  <2>1. call' = [call EXCEPT ![c] = next] /\ r.phase = "creating"
    BY <1>2 DEF ApiCreated
  <2>2. /\ next.op = r.op /\ next.key = r.key /\ next.signal = r.signal
        /\ next.phase = "ready" /\ next.result = r.result /\ next.listener = r.listener
        /\ next.effects = r.effects
    BY <1>1 DEF CallRecord
  <2>3. next \in CallRecord
    BY <1>1 DEF CallRecord
  <2> HIDE DEF next
  <2>4. Known(next) /\ Listening(next)
    BY <1>1, <2>1, <2>2 DEF Sound, Known, Listening
  <2>5. r.result # "resolved"
    BY <1>1, <2>1 DEF Sound, Listening
  <2>6. Rotation(next, version) /\ Deactivation(next, enabled) /\ Reading(next)
    BY <1>1, <2>1, <2>2, <2>5 DEF Sound, Rotation, Deactivation, Reading
  <2>7. Sound(next, version, enabled)
    BY <1>1, <2>2, <2>4, <2>6 DEF Sound
  <2>8. api' = c /\ c # Injected /\ UNCHANGED <<provider, version, enabled>>
    BY <1>2, CallAssumption DEF ApiCreated
  <2>9. QED BY <2>1, <2>3, <2>7, <2>8, OneCall
<1>3. CASE ApiFailed(c) \/ BadInput(c)
  <2>1. call' = [call EXCEPT ![c] = SettledAs(r, "rejected")]
    BY <1>3 DEF ApiFailed, BadInput
  <2>2. r.phase \notin {"idle", "settled", "over"}
    BY <1>3 DEF ApiFailed, BadInput
  <2>3. UNCHANGED <<provider, api, version, enabled>>
    BY <1>3 DEF ApiFailed, BadInput
  <2>4. QED BY <1>1, <2>1, <2>2, <2>3, RejectSound, OneCall DEF KmsTypeOK
<1>4. CASE Send(c)
  <2> DEFINE next == [r EXCEPT !.phase = "sent", !.request = FirstRequest[r.op]]
  <2>1. call' = [call EXCEPT ![c] = next] /\ r.phase = "ready"
    BY <1>4 DEF Send
  <2>2. r.op \in Operation
    BY <1>1, <2>1 DEF Sound, Known
  <2>3. /\ next.op = r.op /\ next.key = r.key /\ next.signal = r.signal
        /\ next.phase = "sent" /\ next.result = r.result /\ next.listener = r.listener
        /\ next.effects = r.effects /\ next.request = FirstRequest[r.op]
    BY <1>1 DEF CallRecord
  <2>4. next \in CallRecord
    <3>1. FirstRequest[r.op] \in {"none", "describe", "rotate", "disable", "crypt"}
      BY <2>2 DEF FirstRequest, Operation
    <3>2. QED BY ZenonT(60), <1>1, <3>1 DEF CallRecord
  <2> HIDE DEF next
  <2>5. Known(next) /\ Listening(next)
    BY <1>1, <2>1, <2>3 DEF Sound, Known, Listening
  <2>6. r.result # "resolved"
    BY <1>1, <2>1 DEF Sound, Listening
  <2>7. Rotation(next, version) /\ Deactivation(next, enabled) /\ Reading(next)
    BY <1>1, <2>1, <2>2, <2>3, <2>6
       DEF Sound, Rotation, Deactivation, Reading, FirstRequest, Operation
  <2>8. Sound(next, version, enabled)
    BY <1>1, <2>3, <2>5, <2>7 DEF Sound
  <2>9. UNCHANGED <<provider, api, version, enabled>>
    BY <1>4 DEF Send
  <2>10. QED BY <1>1, <2>1, <2>3, <2>4, <2>8, <2>9, OneCall DEF KmsTypeOK
<1>5. QED BY <1>2, <1>3, <1>4

\* What a call makes of the answer to its request.
LEMMA ResumeInv ==
  ASSUME KmsInv, NEW c \in Call, Resume(c)
  PROVE  KmsInv'
<1> DEFINE r == call[c]
<1>1. r \in CallRecord /\ Sound(r, version, enabled) /\ KmsTypeOK /\ r.phase = "answered"
  BY DEF KmsInv, KmsTypeOK, Resume
<1>2. UNCHANGED <<provider, api, version, enabled>> /\ r.result # "resolved"
  BY <1>1 DEF Resume, Sound, Listening
<1>3. r.answer \in {"ok", "error"}
  BY <1>1 DEF Sound, Known, CallRecord
<1>4. CASE RequestFailed(c)
  <2>1. call' = [call EXCEPT ![c] = SettledAs(r, "rejected")]
    BY <1>4 DEF Resume
  <2>2. QED BY <1>1, <1>2, <2>1, RejectSound, OneCall DEF KmsTypeOK
<1>5. CASE ~RequestFailed(c) /\ r.request = "rotate"
  <2> DEFINE next == [r EXCEPT !.phase = "sent", !.request = "describe"]
  <2>1. call' = [call EXCEPT ![c] = next]
    BY <1>5 DEF Resume
  <2>2. next \in CallRecord
    BY <1>1 DEF CallRecord
  <2>3. r.op = "rotateKey" /\ r.effects = 1 /\ r.minted <= version[r.key]
    BY <1>1, <1>3, <1>5 DEF RequestFailed, Sound, Rotation, Deactivation, Reading
  <2>4. /\ next.op = r.op /\ next.key = r.key /\ next.signal = r.signal
        /\ next.phase = "sent" /\ next.result = r.result /\ next.listener = r.listener
        /\ next.effects = r.effects /\ next.request = "describe" /\ next.minted = r.minted
    BY <1>1 DEF CallRecord
  <2> HIDE DEF next
  <2>5. Known(next) /\ Listening(next)
    BY <1>1, <2>4 DEF Sound, Known, Listening
  <2>6. Rotation(next, version) /\ Deactivation(next, enabled) /\ Reading(next)
    BY <1>2, <2>3, <2>4 DEF Rotation, Deactivation, Reading
  <2>7. Sound(next, version, enabled)
    BY <1>1, <2>4, <2>5, <2>6 DEF Sound
  <2>8. QED BY <1>1, <1>2, <2>1, <2>2, <2>4, <2>7, OneCall DEF KmsTypeOK
<1>6. CASE ~RequestFailed(c) /\ r.request # "rotate"
  <2> DEFINE next == SettledAs(r, "resolved")
  <2>1. call' = [call EXCEPT ![c] = next]
    BY <1>6 DEF Resume
  <2>2. next \in CallRecord
    BY <1>1 DEF CallRecord, SettledAs
  <2>3. r.op = "rotateKey" =>
          r.effects = 1 /\ (r.minted <= r.seen \/ (provider = "gcp" /\ r.answer = "error"))
    BY <1>1, <1>3, <1>6 DEF RequestFailed, Sound, Rotation
  <2>4. r.op = "deactivateKey" => ~enabled[r.key]
    BY <1>1, <1>3, <1>6 DEF RequestFailed, Sound, Deactivation
  <2>5. /\ next.op = r.op /\ next.key = r.key /\ next.signal = r.signal
        /\ next.phase = "settled" /\ next.result = r.result /\ next.listener = r.listener
        /\ next.effects = r.effects /\ next.inner = "resolved" /\ next.minted = r.minted
        /\ next.seen = r.seen /\ next.answer = r.answer
    BY <1>1 DEF CallRecord, SettledAs
  <2> HIDE DEF next
  <2>6. Known(next) /\ Listening(next)
    BY <1>1, <2>5 DEF Sound, Known, Listening
  <2>7. Rotation(next, version) /\ Deactivation(next, enabled) /\ Reading(next)
    BY <1>1, <2>3, <2>4, <2>5 DEF Sound, Rotation, Deactivation, Reading
  <2>8. Sound(next, version, enabled)
    BY <1>1, <2>5, <2>6, <2>7 DEF Sound
  <2>9. QED BY <1>1, <1>2, <2>1, <2>2, <2>5, <2>8, OneCall DEF KmsTypeOK
<1>7. QED BY <1>4, <1>5, <1>6
\* A call ends by its answer or by its signal, whichever is first.
LEMMA FinishInv ==
  ASSUME KmsInv, NEW c \in Call, Finish(c) \/ Abort(c)
  PROVE  KmsInv'
<1> DEFINE r == call[c]
<1>1. r \in CallRecord /\ Sound(r, version, enabled) /\ KmsTypeOK /\ Unrivalled
  BY DEF KmsInv, KmsTypeOK
<1>2. UNCHANGED <<provider, api, version, enabled>>
  BY DEF Finish, Abort
<1>3. CASE Finish(c)
  <2> DEFINE told == IF r.result = "pending" THEN r.inner ELSE r.result
             next == [r EXCEPT !.phase = "over", !.listener = FALSE, !.result = told]
  <2>1. call' = [call EXCEPT ![c] = next] /\ r.phase = "settled"
    BY <1>3 DEF Finish
  <2>2. /\ told \in {"resolved", "rejected", "aborted"}
        /\ told = "resolved" => r.inner = "resolved"
    BY <1>1, <2>1 DEF Sound, Known, Listening, CallRecord
  <2> HIDE DEF told
  <2>3. /\ next.op = r.op /\ next.key = r.key /\ next.signal = r.signal
        /\ next.phase = "over" /\ next.result = told /\ next.listener = FALSE
        /\ next.effects = r.effects /\ next.minted = r.minted
        /\ next.seen = r.seen /\ next.answer = r.answer
    BY <1>1 DEF CallRecord
  <2>4. next \in CallRecord
    <3>1. \A t \in {"resolved", "rejected", "aborted"} :
            [r EXCEPT !.phase = "over", !.listener = FALSE, !.result = t] \in CallRecord
      BY <1>1 DEF CallRecord
    <3>2. QED BY <2>2, <3>1
  <2> HIDE DEF next
  <2>5. Known(next) /\ Listening(next)
    BY <1>1, <2>1, <2>2, <2>3 DEF Sound, Known, Listening
  <2>6. Rotation(next, version) /\ Deactivation(next, enabled) /\ Reading(next)
    BY <1>1, <2>1, <2>2, <2>3 DEF Sound, Rotation, Deactivation, Reading
  <2>7. Sound(next, version, enabled)
    BY <1>1, <2>3, <2>5, <2>6 DEF Sound
  <2>8. QED BY <1>1, <1>2, <2>1, <2>3, <2>4, <2>7, OneCall DEF KmsTypeOK
<1>4. CASE Abort(c)
  <2> DEFINE told == IF r.listener /\ r.result = "pending" THEN "aborted" ELSE r.result
             next == [r EXCEPT !.signal = "fired", !.listener = FALSE, !.result = told]
  <2>1. call' = [call EXCEPT ![c] = next] /\ r.signal = "live"
    BY <1>4 DEF Abort
  <2>2. r.phase # "idle"
    BY <1>1, <2>1 DEF Sound, Known, Idle
  <2>3. /\ r.phase # "over" => told = "aborted"
        /\ r.phase = "over" => told = r.result
        /\ told \in {"pending", "resolved", "rejected", "aborted"}
    BY <1>1, <2>1, <2>2 DEF Sound, Listening, CallRecord
  <2> HIDE DEF told
  <2>4. /\ next.op = r.op /\ next.key = r.key /\ next.signal = "fired"
        /\ next.phase = r.phase /\ next.result = told /\ next.listener = FALSE
        /\ next.effects = r.effects /\ next.minted = r.minted /\ next.inner = r.inner
        /\ next.seen = r.seen /\ next.answer = r.answer /\ next.request = r.request
    BY <1>1 DEF CallRecord
  <2>5. next \in CallRecord
    <3>1. \A t \in {"pending", "resolved", "rejected", "aborted"} :
            [r EXCEPT !.signal = "fired", !.listener = FALSE, !.result = t] \in CallRecord
      BY <1>1 DEF CallRecord
    <3>2. QED BY <2>3, <3>1
  <2> HIDE DEF next
  <2>6. Known(next) /\ Listening(next)
    BY <1>1, <2>2, <2>3, <2>4 DEF Sound, Known, Listening
  <2>7. Rotation(next, version) /\ Deactivation(next, enabled) /\ Reading(next)
    BY <1>1, <2>3, <2>4 DEF Sound, Rotation, Deactivation, Reading
  <2>8. Sound(next, version, enabled)
    BY <1>1, <2>4, <2>6, <2>7 DEF Sound
  <2>9. next.phase = "creating" => api # Injected
    BY <1>1, <2>4 DEF Unrivalled
  <2>10. QED BY <1>1, <1>2, <2>1, <2>5, <2>8, <2>9, OneCall DEF KmsTypeOK
<1>5. QED BY <1>3, <1>4

\* Handle writes five fields of a call, one after the other.
LEMMA FiveFields ==
  ASSUME call \in [Call -> CallRecord], NEW c \in Call, NEW answer,
         NEW effects, NEW minted, NEW seen
  PROVE  [call EXCEPT ![c].phase = "answered", ![c].answer = answer,
                      ![c].effects = effects, ![c].minted = minted, ![c].seen = seen]
         = [call EXCEPT ![c] = [call[c] EXCEPT !.phase = "answered", !.answer = answer,
                                  !.effects = effects, !.minted = minted, !.seen = seen]]
BY DEF CallRecord

\* The key service handles a request, with or without effect.
LEMMA HandleInv ==
  ASSUME KmsInv, NEW c \in Call, NEW answer \in {"ok", "error"}, NEW effect \in BOOLEAN,
         Handle(c, answer, effect)
  PROVE  KmsInv'
<1> DEFINE r == call[c]
           k == r.key
           turned == effect /\ r.request = "rotate"
           closed == effect /\ r.request = "disable"
           effects == r.effects + (IF effect /\ r.request \in {"rotate", "disable"} THEN 1 ELSE 0)
           minted == IF turned THEN version'[k] ELSE r.minted
           seen == IF effect /\ r.request = "describe" THEN version[k] ELSE r.seen
           next == [r EXCEPT !.phase = "answered", !.answer = answer, !.effects = effects,
                             !.minted = minted, !.seen = seen]
<1>1. r \in CallRecord /\ Sound(r, version, enabled) /\ KmsTypeOK /\ Unrivalled
  BY DEF KmsInv, KmsTypeOK
<1>2. /\ r.phase = "sent" /\ k \in Key /\ r.op \in Operation /\ (answer = "ok" => effect)
      /\ version' = IF turned THEN [version EXCEPT ![k] = @ + 1] ELSE version
      /\ enabled' = IF closed THEN [enabled EXCEPT ![k] = FALSE] ELSE enabled
      /\ call' = [call EXCEPT ![c] = next]
      /\ UNCHANGED <<provider, api>>
  <2>1. /\ r.phase = "sent" /\ (answer = "ok" => effect)
        /\ version' = IF turned THEN [version EXCEPT ![k] = @ + 1] ELSE version
        /\ enabled' = IF closed THEN [enabled EXCEPT ![k] = FALSE] ELSE enabled
        /\ UNCHANGED <<provider, api>>
    BY DEF Handle
  <2>2. k \in Key /\ r.op \in Operation
    BY <1>1, <2>1 DEF Sound, Known
  <2>3. call' = [call EXCEPT ![c] = next]
    <3>1. call' = [call EXCEPT ![c].phase = "answered", ![c].answer = answer,
                               ![c].effects = effects, ![c].minted = minted,
                               ![c].seen = seen]
      BY Zenon DEF Handle
    <3>2. QED BY <1>1, <3>1, FiveFields DEF KmsTypeOK
  <2>4. QED BY <2>1, <2>2, <2>3
<1>3. /\ version' \in [Key -> Nat] /\ enabled' \in [Key -> BOOLEAN]
      /\ \A m \in Key : version[m] <= version'[m] /\ (enabled'[m] => enabled[m])
      /\ turned => version'[k] = version[k] + 1
      /\ closed => ~enabled'[k]
  BY <1>1, <1>2 DEF KmsTypeOK
<1>4. effects \in Nat /\ minted \in Nat /\ seen \in Nat
  BY <1>1, <1>2, <1>3 DEF CallRecord, KmsTypeOK
<1>5. /\ r.effects = 0 \/ (r.op = "rotateKey" /\ r.request = "describe")
      /\ r.effects \in Nat /\ r.effects <= 1
      /\ r.op = "rotateKey" => r.request \in {"rotate", "describe"}
      /\ r.op = "deactivateKey" => r.request = "disable"
      /\ r.op \notin {"rotateKey", "deactivateKey"} => r.request \in {"describe", "crypt"}
      /\ r.result # "resolved"
  BY <1>1, <1>2 DEF Sound, Rotation, Deactivation, Reading, Listening, CallRecord
<1> HIDE DEF effects, minted, seen
<1>6. /\ next.op = r.op /\ next.key = r.key /\ next.signal = r.signal
      /\ next.phase = "answered" /\ next.result = r.result /\ next.listener = r.listener
      /\ next.effects = effects /\ next.minted = minted /\ next.inner = r.inner
      /\ next.seen = seen /\ next.answer = answer /\ next.request = r.request
  BY <1>1 DEF CallRecord
<1>7. next \in CallRecord
  BY ZenonT(60), <1>1, <1>4 DEF CallRecord
<1> HIDE DEF next
<1>8. Known(next) /\ Listening(next)
  BY <1>1, <1>2, <1>6 DEF Sound, Known, Listening
<1>9. Rotation(next, version')
  <2>1. CASE r.op = "rotateKey" /\ r.request = "rotate"
    <3>1. answer = "ok" => effects = 1 /\ minted = version'[k]
      BY <1>2, <1>5, <2>1 DEF effects, minted
    <3>2. minted <= version'[k] \/ answer = "error"
      BY <1>2, <1>3, <3>1
    <3>3. QED BY <1>5, <1>6, <2>1, <3>1, <3>2 DEF Rotation
  <2>2. CASE r.op = "rotateKey" /\ r.request = "describe"
    <3>1. r.effects = 1 /\ r.minted <= version[k]
      BY <1>1, <1>2, <2>2 DEF Sound, Rotation
    <3>2. effects = 1 /\ minted = r.minted /\ (answer = "ok" => seen = version[k])
      BY <1>2, <2>2, <3>1 DEF effects, minted, seen
    <3>3. minted <= version'[k] /\ (answer = "ok" => minted <= seen)
      BY <1>1, <1>2, <1>3, <1>4, <3>1, <3>2 DEF KmsTypeOK
    <3>4. QED BY <1>5, <1>6, <2>2, <3>2, <3>3 DEF Rotation
  <2>3. CASE r.op # "rotateKey"
    BY <1>6, <2>3 DEF Rotation
  <2>4. QED BY <1>5, <2>1, <2>2, <2>3
<1>10. Deactivation(next, enabled')
  BY <1>2, <1>3, <1>5, <1>6 DEF Deactivation
<1>11. Reading(next)
  BY <1>5, <1>6 DEF Reading, effects
<1>12. effects <= 1
  BY <1>5 DEF effects
<1>13. Sound(next, version', enabled')
  BY <1>6, <1>8, <1>9, <1>10, <1>11, <1>12 DEF Sound
<1>14. call'[c] = next /\ \A d \in Call : d # c => call'[d] = call[d]
  BY <1>1, <1>2 DEF KmsTypeOK
<1>15. KmsTypeOK' /\ Unrivalled'
  BY <1>1, <1>2, <1>3, <1>6, <1>7, <1>14 DEF KmsTypeOK, Unrivalled
<1>16. ASSUME NEW d \in Call PROVE Sound(call'[d], version', enabled')
  <2>1. CASE d = c
    BY <1>13, <1>14, <2>1
  <2>2. CASE d # c
    <3>1. call[d] \in CallRecord /\ Sound(call[d], version, enabled)
      BY DEF KmsInv, KmsTypeOK
    <3>2. Sound(call[d], version', enabled')
      BY <1>1, <1>3, <3>1, SoundStays DEF KmsTypeOK
    <3>3. QED BY <1>14, <2>2, <3>2
  <2>3. QED BY <2>1, <2>2
<1>17. ASSUME NEW d \in Call PROVE Sound(call[d], version, enabled)'
  <2>1. provider' = provider
    BY <1>2
  <2>2. QED BY <1>16, <2>1
          DEF Sound, Known, Listening, Rotation, Deactivation, Reading
<1>18. QED BY <1>15, <1>17 DEF KmsInv
-----------------------------------------------------------------------------
(* The theorems.                                                           *)

\* Every step keeps the invariant.
LEMMA NextInv == KmsInv /\ [KmsNext]_kmsVars => KmsInv'
<1> SUFFICES ASSUME KmsInv, [KmsNext]_kmsVars PROVE KmsInv'
  OBVIOUS
<1>1. ASSUME NEW c \in Call, NEW op \in Operation, NEW k \in Key,
             NEW signal \in {"none", "live", "aborted"}, Invoke(c, op, k, signal)
      PROVE  KmsInv'
  BY <1>1, InvokeInv
<1>2. ASSUME NEW c \in Call, NEW answer \in {"ok", "error"}, NEW effect \in BOOLEAN,
             Handle(c, answer, effect)
      PROVE  KmsInv'
  BY <1>2, HandleInv
<1>3. ASSUME NEW c \in Call, ApiCreated(c) \/ ApiFailed(c) \/ Send(c) \/ BadInput(c)
      PROVE  KmsInv'
  BY <1>3, SetupInv
<1>4. ASSUME NEW c \in Call, Resume(c) PROVE KmsInv'
  BY <1>4, ResumeInv
<1>5. ASSUME NEW c \in Call, Finish(c) \/ Abort(c) PROVE KmsInv'
  BY <1>5, FinishInv
<1>6. CASE UNCHANGED kmsVars
  BY <1>6 DEF kmsVars, KmsInv, KmsTypeOK, Unrivalled, Sound, Known, Listening, Rotation,
              Deactivation, Reading
<1>7. QED BY <1>1, <1>2, <1>3, <1>4, <1>5, <1>6 DEF KmsNext

(***************************************************************************)
(* The inductive invariant: every call is as far as its promise and its    *)
(* effects on the key service say, whatever fails, races or is aborted.    *)
(***************************************************************************)
THEOREM KmsInvariance == KmsSpec => []KmsInv
BY InitInv, NextInv, PTL DEF KmsSpec

(***************************************************************************)
(* Every variable of the repository and the key service keeps its type.    *)
(***************************************************************************)
THEOREM TypeCorrect == KmsSpec => []KmsTypeOK
<1>1. KmsInv => KmsTypeOK
  BY DEF KmsInv
<1>2. QED BY <1>1, KmsInvariance, PTL

(***************************************************************************)
(* A resolved rotation rotated the key once and describes it as it is then *)
(* or later; a resolved deactivation left the key disabled (rotateKey and  *)
(* deactivateKey of kms.ts).                                               *)
(***************************************************************************)
THEOREM PromisesAreTrue == KmsSpec => []ResolvedMeansDone
<1>1. KmsInv => ResolvedMeansDone
  <2> SUFFICES ASSUME KmsInv, NEW c \in Call
               PROVE  /\ call[c].effects <= 1
                      /\ call[c].result = "resolved" /\ call[c].op = "rotateKey" =>
                           /\ call[c].effects = 1
                           /\ \/ call[c].seen >= call[c].minted
                              \/ provider = "gcp" /\ call[c].answer = "error"
                      /\ call[c].result = "resolved" /\ call[c].op = "deactivateKey" =>
                           ~enabled[call[c].key]
    BY DEF ResolvedMeansDone
  <2>1. Sound(call[c], version, enabled) /\ call[c] \in CallRecord
    BY DEF KmsInv, KmsTypeOK
  <2>2. call[c].seen \in Nat /\ call[c].minted \in Nat
    BY <2>1 DEF CallRecord
  <2>3. QED BY <2>1, <2>2 DEF Sound, Rotation, Deactivation
<1>2. QED BY <1>1, KmsInvariance, PTL

(***************************************************************************)
(* runWithSignal listens to a signal exactly while its operation is        *)
(* pending, and an abort in that time reaches the caller.                  *)
(***************************************************************************)
THEOREM ListenersEnd == KmsSpec => []ListenerIsCurrent
<1>1. KmsInv => ListenerIsCurrent
  BY DEF KmsInv, Sound, Listening, ListenerIsCurrent
<1>2. QED BY <1>1, KmsInvariance, PTL

\* What a step does to a call that has its result.
LEMMA ResultStays ==
  ASSUME KmsInv, [KmsNext]_kmsVars, NEW c \in Call, call[c].result # "pending"
  PROVE  call'[c].result = call[c].result
<1>1. call \in [Call -> CallRecord] /\ Sound(call[c], version, enabled)
  BY DEF KmsInv, KmsTypeOK
<1>2. call[c].phase # "idle"
  BY <1>1 DEF Sound, Known, Idle
<1>3. ASSUME NEW d \in Call, NEW op \in Operation, NEW k \in Key,
             NEW signal \in {"none", "live", "aborted"}, Invoke(d, op, k, signal)
      PROVE  call'[c].result = call[c].result
  <2>1. d # c
    BY <1>2, <1>3 DEF Invoke
  <2>2. QED BY <1>1, <1>3, <2>1 DEF Invoke
<1>4. ASSUME NEW d \in Call, NEW answer \in {"ok", "error"}, NEW effect \in BOOLEAN,
             Handle(d, answer, effect)
      PROVE  call'[c].result = call[c].result
  BY <1>1, <1>4 DEF Handle, CallRecord
<1>5. ASSUME NEW d \in Call, ApiCreated(d) \/ ApiFailed(d) \/ Send(d) \/ BadInput(d)
      PROVE  call'[c].result = call[c].result
  <2>1. CASE ApiCreated(d)
    BY <1>1, <2>1 DEF ApiCreated, CallRecord
  <2>2. CASE ApiFailed(d) \/ BadInput(d)
    <3>1. call' = [call EXCEPT ![d] = SettledAs(call[d], "rejected")]
      BY <2>2 DEF ApiFailed, BadInput
    <3>2. SettledAs(call[d], "rejected").result = call[d].result
      BY <1>1 DEF SettledAs, CallRecord
    <3>3. QED BY <1>1, <3>1, <3>2
  <2>3. CASE Send(d)
    <3>1. PICK request : call' = [call EXCEPT ![d].phase = "sent", ![d].request = request]
      BY <2>3 DEF Send
    <3>2. QED BY <1>1, <3>1 DEF CallRecord
  <2>4. QED BY <1>5, <2>1, <2>2, <2>3
<1>6. ASSUME NEW d \in Call, Resume(d) PROVE call'[c].result = call[c].result
  BY <1>1, <1>6 DEF Resume, SettledAs, CallRecord
<1>7. ASSUME NEW d \in Call, Finish(d) \/ Abort(d) PROVE call'[c].result = call[c].result
  <2>1. CASE Finish(d)
    <3>1. call'[c] = IF d = c THEN [call[c] EXCEPT !.phase = "over", !.listener = FALSE,
                                                   !.result = call[c].result]
                     ELSE call[c]
      BY <1>1, <2>1 DEF Finish, CallRecord
    <3>2. QED BY <1>1, <3>1 DEF CallRecord
  <2>2. CASE Abort(d)
    <3>1. call'[c] = IF d = c THEN [call[c] EXCEPT !.signal = "fired", !.listener = FALSE,
                                                   !.result = call[c].result]
                     ELSE call[c]
      BY <1>1, <2>2 DEF Abort, CallRecord
    <3>2. QED BY <1>1, <3>1 DEF CallRecord
  <2>3. QED BY <1>7, <2>1, <2>2
<1>8. CASE UNCHANGED kmsVars
  BY <1>8 DEF kmsVars
<1>9. QED BY <1>3, <1>4, <1>5, <1>6, <1>7, <1>8 DEF KmsNext

(***************************************************************************)
(* A promise settles once: late answers and late aborts change nothing.    *)
(***************************************************************************)
THEOREM SettleOnce == KmsSpec => SettledForGood
<1>1. KmsInv /\ [KmsNext]_kmsVars =>
        [\A c \in Call : call[c].result # "pending" => call'[c].result = call[c].result]_kmsVars
  BY ResultStays
<1>2. QED BY <1>1, KmsInvariance, PTL DEF KmsSpec, SettledForGood

\* A step that writes the call d and leaves it in a phase past creating builds nothing.
LEMMA NobodyBuilds ==
  ASSUME KmsInv, [KmsNext]_kmsVars, api # None
  PROVE  /\ api' # None /\ (api = Injected => api' = Injected)
         /\ \A c \in Call : call'[c].phase = "creating" => call[c].phase = "creating"
<1>1. call \in [Call -> CallRecord]
  BY DEF KmsInv, KmsTypeOK
<1>2. api' # None /\ (api = Injected => api' = Injected)
  <2>1. UNCHANGED api \/ \E c \in Call : ApiCreated(c)
    <3>1. \A c \in Call, op \in Operation, k \in Key, signal \in {"none", "live", "aborted"} :
            Invoke(c, op, k, signal) => UNCHANGED api
      BY DEF Invoke
    <3>2. \A c \in Call, answer \in {"ok", "error"}, effect \in BOOLEAN :
            Handle(c, answer, effect) => UNCHANGED api
      BY DEF Handle
    <3>3. \A c \in Call :
            \/ ApiFailed(c) \/ Send(c) \/ BadInput(c) \/ Resume(c) \/ Finish(c) \/ Abort(c)
            => UNCHANGED api
      BY Zenon DEF ApiFailed, Send, BadInput, Resume, Finish, Abort
    <3>4. QED BY <3>1, <3>2, <3>3, Zenon DEF KmsNext, kmsVars
  <2>2. ASSUME NEW c \in Call, ApiCreated(c) PROVE api' # None /\ api # Injected
    BY <2>2, CallAssumption DEF ApiCreated, KmsInv, Unrivalled
  <2>3. QED BY <2>1, <2>2
<1>3. ASSUME NEW c \in Call, call'[c].phase = "creating", call[c].phase # "creating"
      PROVE  FALSE
  <2>1. ASSUME NEW d \in Call, NEW op \in Operation, NEW k \in Key,
               NEW signal \in {"none", "live", "aborted"}, Invoke(d, op, k, signal)
        PROVE  FALSE
    <3>1. CASE d = c /\ signal = "aborted"
      BY <1>1, <1>3, <2>1, <3>1 DEF Invoke, Idle
    <3>2. CASE d = c /\ signal # "aborted"
      BY <1>1, <1>3, <2>1, <3>2 DEF Invoke, Idle
    <3>3. CASE d # c
      BY <1>1, <1>3, <2>1, <3>3 DEF Invoke
    <3>4. QED BY <3>1, <3>2, <3>3
  <2>2. ASSUME NEW d \in Call, NEW answer \in {"ok", "error"}, NEW effect \in BOOLEAN,
               Handle(d, answer, effect)
        PROVE  FALSE
    BY <1>1, <1>3, <2>2 DEF Handle, CallRecord
  <2>3. ASSUME NEW d \in Call, ApiCreated(d) \/ ApiFailed(d) \/ Send(d) \/ BadInput(d)
        PROVE  FALSE
    BY <1>1, <1>3, <2>3, ZenonT(40) DEF ApiCreated, ApiFailed, Send, BadInput, SettledAs, CallRecord
  <2>4. ASSUME NEW d \in Call, Resume(d) PROVE FALSE
    BY <1>1, <1>3, <2>4 DEF Resume, SettledAs, CallRecord
  <2>5. ASSUME NEW d \in Call, Finish(d) \/ Abort(d) PROVE FALSE
    BY <1>1, <1>3, <2>5 DEF Finish, Abort, CallRecord
  <2>6. CASE UNCHANGED kmsVars
    BY <1>3, <2>6 DEF kmsVars
  <2>7. QED BY <2>1, <2>2, <2>3, <2>4, <2>5, <2>6 DEF KmsNext
<1>4. QED BY <1>2, <1>3

(***************************************************************************)
(* #resolveApi builds an adapter only while there is none, and an injected *)
(* adapter stays.                                                          *)
(***************************************************************************)
THEOREM AdapterIsLazy == KmsSpec => LazyAdapter
<1>1. KmsInv /\ [KmsNext]_kmsVars =>
        [api # None =>
           /\ api' # None /\ (api = Injected => api' = Injected)
           /\ \A c \in Call : call'[c].phase = "creating" => call[c].phase = "creating"]_kmsVars
  BY NobodyBuilds
<1>2. QED BY <1>1, KmsInvariance, PTL DEF KmsSpec, LazyAdapter

-----------------------------------------------------------------------------
(* The providers: encrypt/local, encrypt/.../repository.ts.                  *)

(***************************************************************************)
(* The inductive invariant: the form of an answer tells which call gave    *)
(* it, and its parts are those of the call's arguments.                    *)
(***************************************************************************)
IsKeyCall(c) ==
  \/ c.op = "secret" /\ c.secret \in Secret
  \/ c.op = "pair" /\ c.pair \in Pair

IsBlob(m) ==
  /\ m.call.op = "encryptAES" /\ m.call.text \in Text /\ IsAESKey(m.call.key)
  /\ m.value.form = "blob"
  /\ m.value.cipher =
       Sealed(m.call.key, m.value.nonce, AdditionalData(m.call.additional), Utf8[m.call.text])

IsOaep(m) ==
  /\ m.call.op = "rsaOaepEncode" /\ m.call.text \in Text
  /\ m.call.key.pair \in Pair /\ KindOf[m.call.key.pair] = "RSA"
  /\ m.value.form = "oaep" /\ m.value.pair = m.call.key.pair
  /\ m.value.bytes = Utf8[m.call.text]

\* The key of an envelope, which both sides derive.
Shared(ephemeral, pair, curve) ==
  [form |-> "hkdf", info |-> curve,
   shared |-> [pairs |-> {ephemeral, pair}, bits |-> BitLengths[curve]]]

IsEnvelope(m) ==
  LET pair      == m.call.key.pair
      ephemeral == m.value.ephemeralPublicKey.pair
      curve     == m.value.curve
  IN  /\ m.call.op = "ecdhEncode" /\ m.call.text \in Text
      /\ m.value.form = "envelope" /\ curve \in Curve
      /\ pair \in Pair /\ ephemeral \in Ephemeral
      /\ KindOf[pair] = curve /\ KindOf[ephemeral] = curve
      /\ m.value.ephemeralPublicKey = PublicKey(ephemeral)
      /\ m.value.cipherText =
           Sealed(Shared(ephemeral, pair, curve), m.value.nonce, NoBytes, Utf8[m.call.text])

IsDigest(m) ==
  /\ m.call.op \in {"hmac", "sha256Hex", "blake3"}
  /\ m.value.form \in {"mac", "sha256", "blake3"}

IsSignature(m) ==
  /\ m.call.op = "sign" /\ m.call.text \in Text /\ m.call.scheme \in DOMAIN SignerKind
  /\ m.call.key.pair \in Pair /\ KindOf[m.call.key.pair] = SignerKind[m.call.scheme]
  /\ m.value = Signature(m.call.scheme, m.call.key.pair, Sha256(Utf8[m.call.text]))

IsKms(m) ==
  /\ m.call.op = "encrypt" /\ m.call.text \in Text /\ m.call.key \in CloudKey
  /\ m.value.form = "kms" /\ m.value.key = m.call.key /\ m.value.bytes = Utf8[m.call.text]

IsCloudSignature(m) ==
  LET scheme == SchemeOf(m.call.key, m.call.algorithm)
  IN  /\ m.call.op = "signCloud" /\ m.call.text \in Text /\ m.call.key \in CloudKey
      /\ scheme # "symmetric"
      /\ m.value = Signature(scheme, m.call.key, Sha256(Utf8[m.call.text]))

IsAnswer(m) ==
  \/ IsBlob(m) \/ IsOaep(m) \/ IsEnvelope(m) \/ IsDigest(m)
  \/ IsSignature(m) \/ IsKms(m) \/ IsCloudSignature(m)

IInv == (\A c \in keys : IsKeyCall(c)) /\ (\A m \in made : IsAnswer(m))
-----------------------------------------------------------------------------
(* What the strings at hand can be.                                        *)

\* A string at hand is half of a pair, a symmetric key or an answer.
LEMMA HeldIs ==
  ASSUME IInv, NEW v \in Held
  PROVE  \/ \E pair \in Pair : v = PublicKey(pair) \/ v = PrivateKey(pair)
         \/ \E secret \in Secret : v = SecretKey(secret)
         \/ \E m \in made : IsAnswer(m) /\ v = m.value
<1>1. \/ \E c \in keys : c.op = "pair" /\ v \in {PublicKey(c.pair), PrivateKey(c.pair)}
      \/ \E c \in keys : c.op = "secret" /\ v = SecretKey(c.secret)
      \/ \E m \in made : v = m.value
  BY DEF Held
<1>2. ASSUME NEW c \in keys
      PROVE  /\ c.op = "pair" => c.pair \in Pair
             /\ c.op = "secret" => c.secret \in Secret
  BY DEF IInv, IsKeyCall
<1>3. \A m \in made : IsAnswer(m)
  BY DEF IInv
<1>4. QED BY <1>1, <1>2, <1>3

\* The form of a string tells what it is.
LEMMA FormTells ==
  ASSUME IInv, NEW v \in Held
  PROVE  /\ v.form = "spki" => v.pair \in Pair /\ v = PublicKey(v.pair)
         /\ v.form = "pkcs8" => v.pair \in Pair /\ v = PrivateKey(v.pair)
         /\ v.form = "blob" => \E m \in made : IsBlob(m) /\ v = m.value
         /\ v.form = "oaep" => \E m \in made : IsOaep(m) /\ v = m.value
         /\ v.form = "envelope" => \E m \in made : IsEnvelope(m) /\ v = m.value
         /\ v.form = "kms" => \E m \in made : IsKms(m) /\ v = m.value
         /\ v.form = "signature" =>
              \E m \in made : (IsSignature(m) \/ IsCloudSignature(m)) /\ v = m.value
<1>1. CASE \E pair \in Pair : v = PublicKey(pair) \/ v = PrivateKey(pair)
  BY <1>1 DEF PublicKey, PrivateKey
<1>2. CASE \E secret \in Secret : v = SecretKey(secret)
  BY <1>2 DEF SecretKey
<1>3. ASSUME NEW m \in made, IsAnswer(m), v = m.value
      PROVE  /\ v.form \in {"blob", "oaep", "envelope", "mac", "sha256", "blake3",
                              "signature", "kms"}
             /\ v.form = "blob" => IsBlob(m)
             /\ v.form = "oaep" => IsOaep(m)
             /\ v.form = "envelope" => IsEnvelope(m)
             /\ v.form = "kms" => IsKms(m)
             /\ v.form = "signature" => IsSignature(m) \/ IsCloudSignature(m)
  <2>1. /\ IsSignature(m) => v.form = "signature"
        /\ IsCloudSignature(m) => v.form = "signature"
    BY <1>3 DEF IsSignature, IsCloudSignature, Signature
  <2>2. /\ IsBlob(m) => v.form = "blob"
        /\ IsOaep(m) => v.form = "oaep"
        /\ IsEnvelope(m) => v.form = "envelope"
        /\ IsDigest(m) => v.form \in {"mac", "sha256", "blake3"}
        /\ IsKms(m) => v.form = "kms"
    BY <1>3 DEF IsBlob, IsOaep, IsEnvelope, IsDigest, IsKms
  <2>3. QED BY <1>3, <2>1, <2>2 DEF IsAnswer
<1>4. QED BY <1>1, <1>2, <1>3, HeldIs

\* And so does the call that answered with it.
LEMMA CallTells ==
  ASSUME IInv, NEW m \in made
  PROVE  /\ m.call.op = "encryptAES" => IsBlob(m)
         /\ m.call.op = "rsaOaepEncode" => IsOaep(m)
         /\ m.call.op = "ecdhEncode" => IsEnvelope(m)
         /\ m.call.op = "encrypt" => IsKms(m)
         /\ m.call.op = "sign" => IsSignature(m)
         /\ m.call.op = "signCloud" => IsCloudSignature(m)
BY DEF IInv, IsAnswer, IsBlob, IsOaep, IsEnvelope, IsDigest, IsSignature, IsKms,
       IsCloudSignature

-----------------------------------------------------------------------------
(* Every call gives an answer of its form.                                 *)

\* An answer of a known form keeps the invariant.
LEMMA Kept ==
  ASSUME IInv, NEW done, NEW value, Make(done, value),
         value # Failed => IsAnswer([call |-> done, value |-> value])
  PROVE  IInv'
<1> DEFINE answer == [call |-> done, value |-> value]
<1>1. keys' = keys /\ made' = made \cup {answer} /\ IsAnswer(answer)
  BY DEF Make
<1> HIDE DEF answer
<1>2. \A c \in keys' : IsKeyCall(c)
  BY <1>1 DEF IInv
<1>3. \A m \in made' : IsAnswer(m)
  BY <1>1, Zenon DEF IInv
<1>4. QED BY <1>2, <1>3 DEF IInv

\* A generated key is one of the known kinds.
LEMMA GenerateKept ==
  ASSUME IInv, GenerateSymmetricKeys \/ GeneratePair
  PROVE  IInv'
<1>1. PICK c : IsKeyCall(c) /\ Generate(c)
  BY DEF GenerateSymmetricKeys, GeneratePair, IsKeyCall
<1>2. keys' = keys \cup {c} /\ made' = made
  BY <1>1 DEF Generate
<1>3. QED BY <1>1, <1>2 DEF IInv, IsKeyCall, IsAnswer, IsBlob, IsOaep, IsEnvelope, IsDigest,
                           IsSignature, IsKms, IsCloudSignature

\* What ecdhEncode answers is sealed with the key that both sides derive.
LEMMA EcdhEncodeIs ==
  ASSUME NEW key, key.form = "spki" => key.pair \in Pair, NEW text \in Text,
         NEW ephemeral \in Ephemeral, NEW nonce,
         EcdhEncode(key, text, ephemeral, nonce) # Failed
  PROVE  /\ key.form = "spki" /\ KindOf[key.pair] = KindOf[ephemeral]
         /\ KindOf[ephemeral] \in Curve
         /\ EcdhEncode(key, text, ephemeral, nonce) =
              ECCCipherPayload(KindOf[ephemeral], PublicKey(ephemeral), nonce,
                Sealed(Shared(ephemeral, key.pair, KindOf[ephemeral]), nonce, NoBytes, Utf8[text]))
<1> DEFINE curve  == ImportECDHPublicKeyAuto(key)
           aesKey == DeriveECCAESKey(ephemeral, key.pair, curve)
<1>1. curve = KindOf[ephemeral] /\ aesKey # Failed
      /\ EcdhEncode(key, text, ephemeral, nonce) =
           ECCCipherPayload(curve, PublicKey(ephemeral), nonce,
                            Sealed(aesKey, nonce, NoBytes, Utf8[text]))
  BY DEF EcdhEncode
<1>2. KindOf[ephemeral] \in Curve /\ Failed \notin Curve
  BY KindAssumption, FailedAssumption DEF Kind
<1>3. key.form = "spki" /\ KindOf[key.pair] = curve
  BY <1>1, <1>2 DEF ImportECDHPublicKeyAuto, Imports
<1>4. aesKey = Shared(ephemeral, key.pair, curve)
  BY <1>1 DEF DeriveECCAESKey, DeriveBits, Shared
<1>5. QED BY <1>1, <1>2, <1>3, <1>4

\* Encryption answers with a blob, with the ciphertext of RSA-OAEP or with an envelope.
LEMMA EncryptKept ==
  ASSUME IInv, Encrypt
  PROVE  IInv'
<1>1. PICK key \in Held, text \in Text :
        \/ \E additional \in Additional, nonce \in Nonce :
             Make([op |-> "encryptAES", key |-> key, text |-> text, additional |-> additional],
                  EncryptAES(key, text, additional, nonce))
        \/ Make([op |-> "rsaOaepEncode", key |-> key, text |-> text], RsaOaepEncode(key, text))
        \/ \E ephemeral \in Ephemeral, nonce \in Nonce :
             Make([op |-> "ecdhEncode", key |-> key, text |-> text],
                  EcdhEncode(key, text, ephemeral, nonce))
  BY DEF Encrypt
<1>2. key.form = "spki" => key.pair \in Pair
  BY FormTells
<1>3. ASSUME NEW additional \in Additional, NEW nonce \in Nonce,
             Make([op |-> "encryptAES", key |-> key, text |-> text, additional |-> additional],
                  EncryptAES(key, text, additional, nonce))
      PROVE  IInv'
  <2> DEFINE done  == [op |-> "encryptAES", key |-> key, text |-> text,
                       additional |-> additional]
             value == EncryptAES(key, text, additional, nonce)
  <2>1. value # Failed => IsBlob([call |-> done, value |-> value])
    BY DEF EncryptAES, IsBlob
  <2>2. QED BY <1>3, <2>1, Kept DEF IsAnswer
<1>4. ASSUME Make([op |-> "rsaOaepEncode", key |-> key, text |-> text], RsaOaepEncode(key, text))
      PROVE  IInv'
  <2> DEFINE done  == [op |-> "rsaOaepEncode", key |-> key, text |-> text]
             value == RsaOaepEncode(key, text)
  <2>1. value # Failed => IsOaep([call |-> done, value |-> value])
    BY <1>2 DEF RsaOaepEncode, Imports, IsOaep
  <2>2. QED BY <1>4, <2>1, Kept DEF IsAnswer
<1>5. ASSUME NEW ephemeral \in Ephemeral, NEW nonce \in Nonce,
             Make([op |-> "ecdhEncode", key |-> key, text |-> text],
                  EcdhEncode(key, text, ephemeral, nonce))
      PROVE  IInv'
  <2> DEFINE done  == [op |-> "ecdhEncode", key |-> key, text |-> text]
             value == EcdhEncode(key, text, ephemeral, nonce)
  <2>1. value # Failed => IsEnvelope([call |-> done, value |-> value])
    BY <1>2, EcdhEncodeIs DEF ECCCipherPayload, PublicKey, IsEnvelope
  <2>2. QED BY <1>5, <2>1, Kept DEF IsAnswer
<1>6. QED BY <1>1, <1>3, <1>4, <1>5

\* Digests have forms of their own.
LEMMA DigestKept ==
  ASSUME IInv, Digest
  PROVE  IInv'
<1>1. PICK message \in Text, key \in Text :
        \/ Make([op |-> "hmac"], Hmac(key, message))
        \/ Make([op |-> "sha256Hex"], Sha256Hex(message))
        \/ Make([op |-> "blake3"], Blake3(message))
  BY DEF Digest
<1>2. /\ IsDigest([call |-> [op |-> "hmac"], value |-> Hmac(key, message)])
      /\ IsDigest([call |-> [op |-> "sha256Hex"], value |-> Sha256Hex(message)])
      /\ IsDigest([call |-> [op |-> "blake3"], value |-> Blake3(message)])
  BY DEF IsDigest, Hmac, Sha256Hex, Sha256, Blake3
<1>3. QED BY <1>1, <1>2, Kept DEF IsAnswer

\* A local signature is made with a key of the kind that the scheme wants.
LEMMA SignKept ==
  ASSUME IInv, Sign
  PROVE  IInv'
<1>1. PICK scheme \in DOMAIN SignerKind, key \in Held, text \in Text :
        Make([op |-> "sign", scheme |-> scheme, key |-> key, text |-> text],
             SignLocal(scheme, key, text))
  BY DEF Sign
<1> DEFINE done  == [op |-> "sign", scheme |-> scheme, key |-> key, text |-> text]
           value == SignLocal(scheme, key, text)
<1>2. key.form = "pkcs8" => key.pair \in Pair
  BY FormTells
<1>3. value # Failed => IsSignature([call |-> done, value |-> value])
  BY <1>2 DEF SignLocal, Imports, IsSignature
<1>4. QED BY <1>1, <1>3, Kept DEF IsAnswer

\* The services answer with their own ciphertexts and with signatures of their keys.
LEMMA CallCloudKept ==
  ASSUME IInv, CallCloud
  PROVE  IInv'
<1>1. PICK k \in CloudKey, text \in Text :
        \/ Make([op |-> "encrypt", key |-> k, text |-> text], EncryptCloud(k, text))
        \/ \E algorithm \in Algorithm \cup {Undefined} :
             Make([op |-> "signCloud", key |-> k, text |-> text,
                   algorithm |-> Effective(algorithm)],
                  SignCloud(k, text, algorithm))
  BY DEF CallCloud
<1>2. ASSUME Make([op |-> "encrypt", key |-> k, text |-> text], EncryptCloud(k, text))
      PROVE  IInv'
  <2> DEFINE done  == [op |-> "encrypt", key |-> k, text |-> text]
             value == EncryptCloud(k, text)
  <2>1. value # Failed => IsKms([call |-> done, value |-> value])
    BY DEF EncryptCloud, IsKms
  <2>2. QED BY <1>2, <2>1, Kept DEF IsAnswer
<1>3. ASSUME NEW algorithm \in Algorithm \cup {Undefined},
             Make([op |-> "signCloud", key |-> k, text |-> text,
                   algorithm |-> Effective(algorithm)],
                  SignCloud(k, text, algorithm))
      PROVE  IInv'
  <2> DEFINE done  == [op |-> "signCloud", key |-> k, text |-> text,
                       algorithm |-> Effective(algorithm)]
             value == SignCloud(k, text, algorithm)
  <2>1. value # Failed => IsCloudSignature([call |-> done, value |-> value])
    BY DEF SignCloud, IsCloudSignature
  <2>2. QED BY <1>3, <2>1, Kept DEF IsAnswer
<1>4. QED BY <1>1, <1>2, <1>3

(***************************************************************************)
(* Every answer at hand is one that its call gives: whatever is held, and  *)
(* by whichever calls it was made, its form leads back to one of them.     *)
(***************************************************************************)
THEOREM Invariance == Spec => []IInv
<1>1. Init => IInv
  BY DEF Init, IInv
<1>2. IInv /\ [Next]_vars => IInv'
  <2>1. SUFFICES ASSUME IInv, [Next]_vars PROVE IInv'
    OBVIOUS
  <2>2. CASE UNCHANGED vars
    BY <2>1, <2>2 DEF vars, IInv, IsKeyCall, IsAnswer, IsBlob, IsOaep, IsEnvelope, IsDigest,
                      IsSignature, IsKms, IsCloudSignature
  <2>3. QED BY <2>1, <2>2, GenerateKept, EncryptKept, DigestKept, SignKept, CallCloudKept DEF Next
<1>3. QED BY <1>1, <1>2, PTL DEF Spec

-----------------------------------------------------------------------------
(* What decoding makes of the strings at hand.                             *)

\* The text of the bytes of a text is not a rejection.
LEMMA TextComesBack ==
  ASSUME NEW text \in Text
  PROVE  Utf8[text] # Failed /\ TextOf(Utf8[text]) = Shown[Utf8[text]]
BY TextAssumption, FailedAssumption DEF TextOf

\* A ciphertext opens with the key, the nonce and the additional data that sealed it.
LEMMA OpenedIs ==
  ASSUME NEW key, NEW nonce, NEW additional, NEW k, NEW data, NEW text \in Text, NEW cipher,
         cipher = Sealed(k, nonce, data, Utf8[text])
  PROVE  /\ key = k /\ additional = data =>
              TextOf(Opened(key, nonce, additional, cipher)) = Shown[Utf8[text]]
         /\ key # k \/ additional # data =>
              TextOf(Opened(key, nonce, additional, cipher)) = Failed
<1>1. cipher.bytes = Utf8[text] /\ cipher.key = k /\ cipher.additional = data
  BY DEF Sealed
<1>2. CASE key = k /\ additional = data
  <2>1. Opened(key, nonce, additional, cipher) = Utf8[text]
    BY <1>1, <1>2 DEF Opened
  <2>2. QED BY <1>2, <2>1, TextComesBack
<1>3. CASE key # k \/ additional # data
  <2>1. cipher # Sealed(key, nonce, additional, cipher.bytes)
    BY <1>1, <1>3 DEF Sealed
  <2>2. Opened(key, nonce, additional, cipher) = Failed
    BY <2>1 DEF Opened
  <2>3. QED BY <1>3, <2>2 DEF TextOf
<1>4. QED BY <1>2, <1>3

\* decryptAES is the inverse of encryptAES with the same key and the same additional data.
LEMMA AesRoundTrips ==
  ASSUME IInv, NEW value \in Held, NEW key \in Held, NEW additional \in Additional
  PROVE  AESInverts(key, value, additional)
<1> DEFINE Belongs(done) ==
             key = done.key /\ AdditionalData(additional) = AdditionalData(done.additional)
           encodings == Encodings("encryptAES", value, Belongs)
           answer == DecryptAES(key, value, additional)
<1> SUFFICES GivesBack(answer, encodings)
  BY DEF AESInverts
<1>1. \A m \in encodings : m \in made /\ IsBlob(m) /\ m.value = value /\ Belongs(m.call)
  BY CallTells DEF Encodings
<1>2. CASE value.form # "blob"
  <2>1. encodings = {}
    BY <1>1, <1>2 DEF IsBlob
  <2>2. answer = Failed
    BY <1>2 DEF DecryptAES
  <2>3. QED BY <2>1, <2>2 DEF GivesBack
<1>3. CASE value.form = "blob"
  <2>1. PICK m \in made : IsBlob(m) /\ value = m.value
    BY <1>3, FormTells
  <2> DEFINE done == m.call
             opened == TextOf(Opened(key, value.nonce, AdditionalData(additional), value.cipher))
  <2>2. /\ done.text \in Text /\ IsAESKey(done.key) /\ done.op = "encryptAES"
        /\ value.cipher = Sealed(done.key, value.nonce, AdditionalData(done.additional),
                                 Utf8[done.text])
    BY <2>1 DEF IsBlob
  <2>3. /\ Belongs(done) => opened = Shown[Utf8[done.text]]
        /\ ~Belongs(done) => opened = Failed
    BY <2>2, OpenedIs, SMTT(30)
  <2>4. CASE Belongs(done)
    <3>1. m \in encodings
      BY <2>1, <2>2, <2>4 DEF Encodings
    <3>2. answer = Shown[Utf8[m.call.text]]
      BY <1>3, <2>2, <2>3, <2>4 DEF DecryptAES
    <3>3. QED BY <3>1, <3>2 DEF GivesBack
  <2>5. CASE ~Belongs(done)
    <3>1. ASSUME NEW o \in encodings PROVE FALSE
      <4>1. value.cipher = Sealed(o.call.key, value.nonce, AdditionalData(o.call.additional),
                                  Utf8[o.call.text])
            /\ Belongs(o.call)
        BY <1>1 DEF IsBlob
      <4>2. o.call.key = done.key /\ AdditionalData(o.call.additional) = AdditionalData(done.additional)
        BY <2>2, <4>1 DEF Sealed
      <4>3. QED BY <2>5, <4>1, <4>2
    <3>2. answer = Failed
      BY <1>3, <2>3, <2>5 DEF DecryptAES
    <3>3. QED BY <3>1, <3>2 DEF GivesBack
  <2>6. QED BY <2>4, <2>5
<1>4. QED BY <1>2, <1>3

\* rsaOaepDecode is the inverse of rsaOaepEncode with the other half of the pair.
LEMMA RsaRoundTrips ==
  ASSUME IInv, NEW value \in Held, NEW key \in Held
  PROVE  RsaInverts(key, value)
<1> DEFINE Belongs(done) == key = PrivateKey(done.key.pair)
           encodings == Encodings("rsaOaepEncode", value, Belongs)
           answer == RsaOaepDecode(key, value)
<1> SUFFICES GivesBack(answer, encodings)
  BY DEF RsaInverts
<1>1. \A m \in encodings : m \in made /\ IsOaep(m) /\ m.value = value /\ Belongs(m.call)
  BY CallTells DEF Encodings
<1>2. CASE value.form # "oaep"
  <2>1. encodings = {}
    BY <1>1, <1>2 DEF IsOaep
  <2>2. answer = Failed
    BY <1>2 DEF RsaOaepDecode
  <2>3. QED BY <2>1, <2>2 DEF GivesBack
<1>3. CASE value.form = "oaep"
  <2>1. PICK m \in made : IsOaep(m) /\ value = m.value
    BY <1>3, FormTells
  <2>2. /\ m.call.text \in Text /\ m.call.op = "rsaOaepEncode"
        /\ KindOf[m.call.key.pair] = "RSA"
        /\ value.pair = m.call.key.pair /\ value.bytes = Utf8[m.call.text]
    BY <2>1 DEF IsOaep
  <2>3. CASE Belongs(m.call)
    <3>1. m \in encodings
      BY <2>1, <2>2, <2>3 DEF Encodings
    <3>2. answer = Shown[Utf8[m.call.text]]
      BY <1>3, <2>2, <2>3, TextComesBack DEF RsaOaepDecode, Imports, PrivateKey
    <3>3. QED BY <3>1, <3>2 DEF GivesBack
  <2>4. CASE ~Belongs(m.call)
    <3>1. encodings = {}
      BY <1>1, <2>2, <2>4 DEF IsOaep
    <3>2. key.form = "pkcs8" => key.pair # value.pair
      BY <2>2, <2>4, FormTells
    <3>3. answer = Failed
      BY <3>2 DEF RsaOaepDecode, Imports
    <3>4. QED BY <3>1, <3>3 DEF GivesBack
  <2>5. QED BY <2>3, <2>4
<1>4. QED BY <1>2, <1>3

\* Two pairs of one curve derive a key, whichever of them is the private one.
LEMMA DerivedIs ==
  ASSUME NEW private \in Pair, NEW public \in Pair,
         KindOf[private] \in Curve, KindOf[public] = KindOf[private]
  PROVE  /\ DeriveECCAESKey(private, public, KindOf[private]) =
              Shared(private, public, KindOf[private])
         /\ Shared(private, public, KindOf[private]) \in DerivedKey
<1> DEFINE curve  == KindOf[private]
           shared == [pairs |-> {private, public}, bits |-> BitLengths[curve]]
<1>1. BitLengths[curve] \in Nat /\ BitLengths[curve] % 8 = 0
  BY DEF BitLengths, Curve
<1>2. shared \in SharedSecret
  BY <1>1 DEF SharedSecret
<1>3. DeriveBits(private, public, BitLengths[curve]) = shared /\ shared # Failed
  BY <1>1, <1>2, FailedAssumption DEF DeriveBits
<1>4. DeriveECCAESKey(private, public, curve) = Shared(private, public, curve)
  BY <1>3 DEF DeriveECCAESKey, Shared
<1>5. Shared(private, public, curve) \in DerivedKey
  BY <1>2 DEF Shared, DerivedKey
<1>6. QED BY <1>4, <1>5

\* The key of an envelope is that of one pair alone.
LEMMA SharedTells ==
  ASSUME NEW ephemeral, NEW pair, NEW other, NEW curve
  PROVE  /\ Shared(ephemeral, other, curve) = Shared(ephemeral, pair, curve) => other = pair
         /\ Shared(other, ephemeral, curve) = Shared(ephemeral, pair, curve) <=> other = pair
<1>1. /\ Shared(ephemeral, other, curve).shared.pairs = {ephemeral, other}
      /\ Shared(other, ephemeral, curve).shared.pairs = {other, ephemeral}
      /\ Shared(ephemeral, pair, curve).shared.pairs = {ephemeral, pair}
  BY DEF Shared
<1>2. /\ {ephemeral, other} = {ephemeral, pair} => other = pair
      /\ {other, ephemeral} = {ephemeral, other}
  OBVIOUS
<1>3. Shared(other, ephemeral, curve) = Shared(ephemeral, other, curve)
  BY <1>2 DEF Shared
<1>4. QED BY <1>1, <1>2, <1>3

\* ecdhDecode is the inverse of ecdhEncode with the other half of the recipient's pair.
LEMMA EcdhRoundTrips ==
  ASSUME IInv, NEW value \in Held, NEW key \in Held
  PROVE  EcdhInverts(key, value)
<1> DEFINE Belongs(done) == key = PrivateKey(done.key.pair)
           encodings == Encodings("ecdhEncode", value, Belongs)
           answer == EcdhDecode(key, value)
<1> SUFFICES GivesBack(answer, encodings)
  BY DEF EcdhInverts
<1>1. \A m \in encodings : m \in made /\ IsEnvelope(m) /\ m.value = value /\ Belongs(m.call)
  BY CallTells DEF Encodings
<1>2. CASE value.form # "envelope"
  <2>1. encodings = {}
    BY <1>1, <1>2 DEF IsEnvelope
  <2>2. answer = Failed
    BY <1>2 DEF EcdhDecode
  <2>3. QED BY <2>1, <2>2 DEF GivesBack
<1>3. CASE value.form = "envelope"
  <2>1. PICK m \in made : IsEnvelope(m) /\ value = m.value
    BY <1>3, FormTells
  <2> DEFINE pair      == m.call.key.pair
             ephemeral == value.ephemeralPublicKey.pair
             curve     == value.curve
  <2>2. /\ m.call.text \in Text /\ m.call.op = "ecdhEncode"
        /\ pair \in Pair /\ ephemeral \in Ephemeral /\ curve \in Curve
        /\ KindOf[pair] = curve /\ KindOf[ephemeral] = curve
        /\ value.ephemeralPublicKey = PublicKey(ephemeral)
        /\ value.cipherText =
             Sealed(Shared(ephemeral, pair, curve), value.nonce, NoBytes, Utf8[m.call.text])
    BY <2>1 DEF IsEnvelope
  <2>3. Imports("spki", value.ephemeralPublicKey, curve)
    BY <2>2 DEF Imports, PublicKey
  <2> DEFINE derived == DeriveECCAESKey(key.pair, ephemeral, curve)
             opened  == TextOf(Opened(derived, value.nonce, NoBytes, value.cipherText))
  <2>4. /\ derived = Shared(ephemeral, pair, curve) => opened = Shown[Utf8[m.call.text]]
        /\ derived # Shared(ephemeral, pair, curve) => opened = Failed
    BY <2>2, OpenedIs
  <2>5. answer = IF Imports("pkcs8", key, curve) THEN opened ELSE Failed
    BY <1>3, <2>3 DEF EcdhDecode
  <2>6. key.form = "pkcs8" => key.pair \in Pair /\ key = PrivateKey(key.pair)
    BY FormTells
  <2>7. Imports("pkcs8", key, curve) =>
          (derived = Shared(ephemeral, pair, curve) <=> key.pair = pair)
    BY <2>2, <2>6, DerivedIs, SharedTells, KindAssumption DEF Imports
  <2>8. Belongs(m.call) <=> Imports("pkcs8", key, curve) /\ key.pair = pair
    BY <2>2, <2>6 DEF Imports, PrivateKey
  <2>9. CASE Belongs(m.call)
    <3>1. m \in encodings
      BY <2>1, <2>2, <2>9 DEF Encodings
    <3>2. answer = Shown[Utf8[m.call.text]]
      BY <2>4, <2>5, <2>7, <2>8, <2>9
    <3>3. QED BY <3>1, <3>2 DEF GivesBack
  <2>10. CASE ~Belongs(m.call)
    <3>1. ASSUME NEW o \in encodings PROVE FALSE
      <4>1. /\ o.call.key.pair \in Pair /\ KindOf[o.call.key.pair] = curve
            /\ value.cipherText = Sealed(Shared(ephemeral, o.call.key.pair, curve), value.nonce,
                                         NoBytes, Utf8[o.call.text])
            /\ Belongs(o.call)
        BY <1>1 DEF IsEnvelope
      <4>2. Shared(ephemeral, o.call.key.pair, curve) = Shared(ephemeral, pair, curve)
        BY <2>2, <4>1 DEF Sealed
      <4>3. o.call.key.pair = pair
        BY <4>2, SharedTells
      <4>4. QED BY <2>10, <4>1, <4>3
    <3>2. answer = Failed
      BY <2>4, <2>5, <2>7, <2>8, <2>10
    <3>3. QED BY <3>1, <3>2 DEF GivesBack
  <2>11. QED BY <2>9, <2>10
<1>4. QED BY <1>2, <1>3

\* decrypt of a cloud adapter is the inverse of encrypt with the same key of the same service.
LEMMA CloudRoundTrips ==
  ASSUME IInv, NEW value \in Held, NEW k, NEW service
  PROVE  CloudInverts(k, service, value)
<1> DEFINE Belongs(done) == /\ ProviderOf[done.key] = service
                            /\ k = done.key \/ (k = Undefined /\ service = "aws-kms")
           encodings == Encodings("encrypt", value, Belongs)
           answer == DecryptCloud(service, value, k)
<1> SUFFICES GivesBack(answer, encodings)
  BY DEF CloudInverts
<1>1. \A m \in encodings : m \in made /\ IsKms(m) /\ m.value = value /\ Belongs(m.call)
  BY CallTells DEF Encodings
<1>2. CASE value.form # "kms"
  <2>1. encodings = {}
    BY <1>1, <1>2 DEF IsKms
  <2>2. answer = Failed
    BY <1>2 DEF DecryptCloud
  <2>3. QED BY <2>1, <2>2 DEF GivesBack
<1>3. CASE value.form = "kms"
  <2>1. PICK m \in made : IsKms(m) /\ value = m.value
    BY <1>3, FormTells
  <2>2. /\ m.call.text \in Text /\ m.call.op = "encrypt"
        /\ value.key = m.call.key /\ value.bytes = Utf8[m.call.text]
    BY <2>1 DEF IsKms
  <2>3. CASE Belongs(m.call)
    <3>1. m \in encodings
      BY <2>1, <2>2, <2>3 DEF Encodings
    <3>2. answer = Shown[Utf8[m.call.text]]
      BY <1>3, <2>2, <2>3, TextComesBack DEF DecryptCloud
    <3>3. QED BY <3>1, <3>2 DEF GivesBack
  <2>4. CASE ~Belongs(m.call)
    <3>1. encodings = {}
      BY <1>1, <2>2, <2>4 DEF IsKms
    <3>2. answer = Failed
      BY <2>2, <2>4 DEF DecryptCloud
    <3>3. QED BY <3>1, <3>2 DEF GivesBack
  <2>5. QED BY <2>3, <2>4
<1>4. QED BY <1>2, <1>3

(***************************************************************************)
(* Whatever string is given to a decryption, it gives back the text that   *)
(* was encrypted if the key and the additional data belong to it, and      *)
(* fails otherwise.                                                        *)
(***************************************************************************)
THEOREM DecryptionInverts == Spec => []RoundTrips
<1>1. IInv => RoundTrips
  BY AesRoundTrips, RsaRoundTrips, EcdhRoundTrips, CloudRoundTrips DEF RoundTrips
<1>2. QED BY <1>1, Invariance, PTL

-----------------------------------------------------------------------------
(* Signatures.                                                             *)

\* A signature tells what was signed and by whom: a key in the cloud, or a pair.
LEMMA SignedTells ==
  ASSUME NEW m
  PROVE  /\ IsSignature(m) =>
              /\ m.value.signer = m.call.key.pair /\ m.call.key.pair \in Pair
              /\ m.value.scheme = m.call.scheme /\ m.value.digest.bytes = Utf8[m.call.text]
         /\ IsCloudSignature(m) =>
              /\ m.value.signer = m.call.key /\ m.call.key \in CloudKey
              /\ m.value.scheme = SchemeOf(m.call.key, m.call.algorithm)
              /\ m.value.digest.bytes = Utf8[m.call.text]
BY DEF IsSignature, IsCloudSignature, Signature, Sha256

\* A local signature verifies under the other half of the pair that made it.
LEMMA LocalVerifies ==
  ASSUME IInv, NEW signature \in Held, NEW text \in Text,
         NEW scheme \in DOMAIN SignerKind, NEW key \in Held
  PROVE  VerifiesLocally(scheme, key, text, signature)
<1>1. VerifyLocal(scheme, key, text, signature) = Verified
        <=> /\ Imports("spki", key, SignerKind[scheme])
            /\ signature = Signature(scheme, key.pair, Sha256(Utf8[text]))
  BY OutcomeAssumption DEF VerifyLocal
<1>2. ASSUME Imports("spki", key, SignerKind[scheme]),
             signature = Signature(scheme, key.pair, Sha256(Utf8[text]))
      PROVE  \E m \in made :
               /\ m.call.op = "sign" /\ m.value = signature /\ m.call.scheme = scheme
               /\ key = PublicKey(m.call.key.pair) /\ Utf8[m.call.text] = Utf8[text]
  <2>1. key.pair \in Pair /\ key = PublicKey(key.pair)
    BY <1>2, FormTells DEF Imports
  <2>2. PICK m \in made : (IsSignature(m) \/ IsCloudSignature(m)) /\ signature = m.value
    BY <1>2, FormTells DEF Signature
  <2>3. /\ signature.scheme = scheme /\ signature.signer = key.pair
        /\ signature.digest.bytes = Utf8[text]
    BY <1>2 DEF Signature, Sha256
  <2>4. IsSignature(m)
    BY <2>1, <2>2, <2>3, SignedTells, CloudAssumption
  <2>5. m.call.scheme = scheme /\ m.call.key.pair = key.pair /\ Utf8[m.call.text] = Utf8[text]
    BY <2>2, <2>3, <2>4, SignedTells
  <2>6. m.call.op = "sign"
    BY <2>4 DEF IsSignature
  <2>7. QED BY <2>1, <2>2, <2>5, <2>6
<1>3. ASSUME NEW m \in made,
             m.call.op = "sign", m.value = signature, m.call.scheme = scheme,
             key = PublicKey(m.call.key.pair), Utf8[m.call.text] = Utf8[text]
      PROVE  /\ Imports("spki", key, SignerKind[scheme])
             /\ signature = Signature(scheme, key.pair, Sha256(Utf8[text]))
  <2>1. IsSignature(m)
    BY <1>3, CallTells
  <2>2. key.form = "spki" /\ key.pair = m.call.key.pair
    BY <1>3 DEF PublicKey
  <2>3. QED BY <1>3, <2>1, <2>2 DEF IsSignature, Imports
<1>4. QED BY <1>1, <1>2, <1>3 DEF VerifiesLocally

\* The scheme of a cloud key is its algorithm, but for the keys of GCP, which have their own.
LEMMA SchemeTells ==
  ASSUME NEW k \in CloudKey, NEW a, NEW b
  PROVE  /\ ProviderOf[k] = "gcp-kms" => SchemeOf(k, a) = UsageOf[k]
         /\ ProviderOf[k] # "gcp-kms" /\ SchemeOf(k, a) # "symmetric" => SchemeOf(k, a) = a
BY DEF SchemeOf

\* A signature of the cloud verifies with the algorithm that made it.
LEMMA CloudVerifies ==
  ASSUME IInv, NEW signature \in Held, NEW text \in Text,
         NEW k \in CloudKey, NEW algorithm \in Algorithm \cup {Undefined}
  PROVE  VerifiesInCloud(k, text, signature, algorithm)
<1> DEFINE scheme == SchemeOfVerify(k, Effective(algorithm))
           named  == IF algorithm = "PKCS1" THEN "PKCS1" ELSE "PSS"
           Fits(m) ==
             /\ m.call.op = "signCloud" /\ m.value = signature
             /\ m.call.key = k /\ Utf8[m.call.text] = Utf8[text]
             /\ IF ProviderOf[k] = "gcp-kms" THEN UsageOf[k] = named
                ELSE m.call.algorithm = Effective(algorithm)
<1>1. VerifyCloud(k, text, signature, algorithm) = Verified
        <=> /\ scheme # "symmetric"
            /\ ProviderOf[k] = "gcp-kms" => UsageOf[k] \in {"PSS", "PKCS1"}
            /\ signature = Signature(scheme, k, Sha256(Utf8[text]))
  BY OutcomeAssumption DEF VerifyCloud
<1>2. /\ ProviderOf[k] = "gcp-kms" => scheme = named
      /\ ProviderOf[k] # "gcp-kms" => scheme = SchemeOf(k, Effective(algorithm))
  BY UndefinedAssumption DEF SchemeOfVerify, Effective, Algorithm
<1>3. ASSUME scheme # "symmetric",
             ProviderOf[k] = "gcp-kms" => UsageOf[k] \in {"PSS", "PKCS1"},
             signature = Signature(scheme, k, Sha256(Utf8[text]))
      PROVE  \E m \in made : Fits(m)
  <2>1. PICK m \in made : (IsSignature(m) \/ IsCloudSignature(m)) /\ signature = m.value
    BY <1>3, FormTells DEF Signature
  <2>2. /\ signature.scheme = scheme /\ signature.signer = k
        /\ signature.digest.bytes = Utf8[text]
    BY <1>3 DEF Signature, Sha256
  <2>3. IsCloudSignature(m)
    BY <2>1, <2>2, SignedTells, CloudAssumption
  <2>4. /\ SchemeOf(k, m.call.algorithm) = scheme /\ m.call.key = k
        /\ Utf8[m.call.text] = Utf8[text] /\ m.call.op = "signCloud"
    <3>1. m.call.key = k
      BY <2>1, <2>2, <2>3, SignedTells
    <3>2. SchemeOf(k, m.call.algorithm) = scheme /\ Utf8[m.call.text] = Utf8[text]
      BY <2>1, <2>2, <2>3, <3>1, SignedTells
    <3>3. QED BY <2>3, <3>1, <3>2 DEF IsCloudSignature
  <2>5. CASE ProviderOf[k] = "gcp-kms"
    BY <1>2, <2>1, <2>4, <2>5, SchemeTells
  <2>6. CASE ProviderOf[k] # "gcp-kms"
    BY <1>2, <1>3, <2>1, <2>4, <2>6, SchemeTells
  <2>7. QED BY <2>5, <2>6
<1>4. ASSUME NEW m \in made, Fits(m)
      PROVE  /\ scheme # "symmetric"
             /\ ProviderOf[k] = "gcp-kms" => UsageOf[k] \in {"PSS", "PKCS1"}
             /\ signature = Signature(scheme, k, Sha256(Utf8[text]))
  <2>1. IsCloudSignature(m)
    BY <1>4, CallTells
  <2>2. /\ SchemeOf(k, m.call.algorithm) # "symmetric"
        /\ signature = Signature(SchemeOf(k, m.call.algorithm), k, Sha256(Utf8[text]))
    BY <1>4, <2>1 DEF IsCloudSignature
  <2>3. CASE ProviderOf[k] = "gcp-kms"
    BY <1>2, <1>4, <2>2, <2>3, SchemeTells
  <2>4. CASE ProviderOf[k] # "gcp-kms"
    BY <1>2, <1>4, <2>2, <2>4
  <2>5. QED BY <2>3, <2>4
<1>5. QED BY <1>1, <1>3, <1>4 DEF VerifiesInCloud

(***************************************************************************)
(* A signature at hand verifies for the key, the text and the scheme it    *)
(* was made with, and for nothing else; keys in the cloud are no pairs.    *)
(***************************************************************************)
THEOREM SignaturesVerify == Spec => []VerifiesWhatWasSigned
<1>1. IInv => VerifiesWhatWasSigned
  BY LocalVerifies, CloudVerifies DEF VerifiesWhatWasSigned
<1>2. QED BY <1>1, Invariance, PTL

-----------------------------------------------------------------------------
(* Generated keys.                                                         *)

\* A generated symmetric key encrypts every text.
LEMMA SecretsServe ==
  ASSUME NEW secret \in Secret, NEW text \in Text, NEW additional \in Additional,
         NEW nonce \in Nonce
  PROVE  EncryptAES(SecretKey(secret), text, additional, nonce) # Failed
<1> DEFINE data   == AdditionalData(additional)
           cipher == Sealed(SecretKey(secret), nonce, data, Utf8[text])
<1>1. Utf8[text] \in Bytes /\ data \in Bytes \cup {NoBytes}
  BY CloudAssumption DEF Bytes, AdditionalData
<1>2. IsAESKey(SecretKey(secret)) /\ SecretKey(secret) \in AESKey
  BY DEF IsAESKey, SecretKey, AESKey
<1>3. cipher \in CipherText(AESKey)
  BY <1>1, <1>2 DEF Sealed, CipherText
<1>4. [form |-> "blob", nonce |-> nonce, cipher |-> cipher] \in Blob
  BY <1>3 DEF Blob
<1>5. EncryptAES(SecretKey(secret), text, additional, nonce)
        = [form |-> "blob", nonce |-> nonce, cipher |-> cipher]
  BY <1>2 DEF EncryptAES
<1>6. QED BY <1>4, <1>5, FailedAssumption

\* The public half of a pair on a curve seals for it whatever the ephemeral pair.
LEMMA CurvesServe ==
  ASSUME NEW pair \in Pair, NEW text \in Text, NEW nonce \in Nonce,
         NEW ephemeral \in Ephemeral, KindOf[ephemeral] = KindOf[pair]
  PROVE  EcdhEncode(PublicKey(pair), text, ephemeral, nonce) # Failed
<1> DEFINE curve  == KindOf[ephemeral]
           key    == Shared(ephemeral, pair, curve)
           cipher == Sealed(key, nonce, NoBytes, Utf8[text])
<1>1. curve \in Curve /\ ephemeral \in Pair /\ Utf8[text] \in Bytes
  BY KindAssumption DEF Bytes
<1>2. PublicKey(pair).form = "spki" /\ PublicKey(pair).pair = pair
  BY DEF PublicKey
<1>3. ImportECDHPublicKeyAuto(PublicKey(pair)) = curve
  BY <1>1, <1>2 DEF ImportECDHPublicKeyAuto, Imports
<1>4. DeriveECCAESKey(ephemeral, pair, curve) = key /\ key \in DerivedKey
  BY <1>1, DerivedIs
<1>5. EcdhEncode(PublicKey(pair), text, ephemeral, nonce)
        = ECCCipherPayload(curve, PublicKey(ephemeral), nonce, cipher)
  BY <1>2, <1>3, <1>4, FailedAssumption DEF EcdhEncode
<1>6. cipher \in CipherText(DerivedKey)
  BY <1>1, <1>4 DEF Sealed, CipherText
<1>7. ECCCipherPayload(curve, PublicKey(ephemeral), nonce, cipher) \in Envelope
  BY <1>1, <1>6 DEF ECCCipherPayload, Envelope
<1>8. QED BY <1>5, <1>7, FailedAssumption

\* The public half of an RSA pair refuses only texts that are too long for it.
LEMMA RsaServes ==
  ASSUME NEW pair \in Pair, KindOf[pair] = "RSA", NEW text \in Text
  PROVE  RsaOaepEncode(PublicKey(pair), text) = Failed <=> Utf8[text] \notin Short
<1>1. Imports("spki", PublicKey(pair), "RSA") /\ PublicKey(pair).pair = pair
  BY DEF Imports, PublicKey
<1>2. [form |-> "oaep", pair |-> pair, bytes |-> Utf8[text]] \in Oaep
  BY DEF Oaep, Bytes
<1>3. QED BY <1>1, <1>2, FailedAssumption DEF RsaOaepEncode

\* The private half of a pair signs in the schemes of its kind.
LEMMA SignersServe ==
  ASSUME NEW pair \in Pair, NEW text \in Text, NEW scheme \in DOMAIN SignerKind,
         SignerKind[scheme] = KindOf[pair]
  PROVE  SignLocal(scheme, PrivateKey(pair), text) # Failed
<1>1. Imports("pkcs8", PrivateKey(pair), SignerKind[scheme]) /\ PrivateKey(pair).pair = pair
  BY DEF Imports, PrivateKey
<1>2. scheme \in {"Ed25519", "PSS", "PKCS1"} /\ Sha256(Utf8[text]) \in {Sha256(b) : b \in Bytes}
  BY DEF SignerKind, Bytes
<1>3. Signature(scheme, pair, Sha256(Utf8[text])) \in Signatures(Pair)
  BY <1>2 DEF Signature, Signatures
<1>4. QED BY <1>1, <1>3, FailedAssumption DEF SignLocal

(***************************************************************************)
(* Whatever keys have been generated, each does what it is for: on every   *)
(* curve and in every scheme, with every text, nonce and additional data.  *)
(***************************************************************************)
THEOREM KeysServe == Spec => []GeneratedKeysServe
<1>1. IInv => GeneratedKeysServe
  <2>1. SUFFICES ASSUME IInv PROVE GeneratedKeysServe
    OBVIOUS
  <2>2. ASSUME NEW c \in keys
        PROVE  /\ c.op = "secret" => c.secret \in Secret
               /\ c.op = "pair" => c.pair \in Pair
    BY <2>1 DEF IInv, IsKeyCall
  <2>3. QED BY <2>2, SecretsServe, CurvesServe, RsaServes, SignersServe DEF GeneratedKeysServe
<1>2. QED BY <1>1, Invariance, PTL
=============================================================================
