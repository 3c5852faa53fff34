# DenoForge in TLA+

TLA+ modules for DenoForge, a Deno toolkit of servers, clients, authentication,
encryption, logging, in-process scheduling and two command-line tools, with the
TLC runs that check them and TLAPS proofs of the safety properties of every
component. Paths below are relative to the repository's `src/`.

    tlc -config MCWorkerPool.cfg MCWorkerPool.tla
    tlapm WorkerPoolProofs.tla

and likewise for the other runs, and for `JobsProofs` (about `Jobs` and
`CronJob`), `EncryptionProofs` (`KmsRepository` and `Providers`), `HttpProofs`
(`HttpServer` and `HttpClient`), `GrpcProofs`, `AuthProofs` and
`LoggerCliProofs` (`Logger` and `Cli`).
`Chains` holds lemmas that the two about servers share.

## The system

Everything runs in one JavaScript event loop. A step of a model is what the
loop runs without giving way: one call of an API, one callback of a promise or
a timer. Whatever is separated by an `await`, a timer or a network answer is
separate steps, and steps of different callers interleave freely.

| Component | Source | State it keeps | Operations | Talks to |
|---|---|---|---|---|
| Worker pool | `tools/workers/workers.ts` | limit, queue, count of active tasks, running flag | addTask, setWorkersLimit, run/stop/restart/resetWorkers; a launched task's promise chain | the callers' tasks |
| Job scheduler | `tools/jobs/jobs.ts` | registry of instances, jobs by id, flags and a timer per job | job, cronJob (with id or not), start/stop/pause/resume, destroy, the package-level functions, ticks, timeouts | event-loop timers, test mode |
| Test mode | `tools/utilities/mode.ts` | one flag | enable, disable, isModeTest | jobs, logger |
| KMS repository and `runWithSignal` | `encrypt/common/kms.ts`, `encrypt/utilities/utilities.ts` | a lazily built adapter; an abort listener per call | getKey, rotateKey, deactivateKey, encrypt, decrypt, sign, verify | AWS, GCP, Azure adapters |
| REST client | `config/client/http/client.ts` | none but its options; a composed signal per request | five methods over one `#request` | `fetch`, AbortSignal |
| HTTP server | `config/server/http/server.ts` | global middleware, routes, the listener | use, group, handle, listen, shutdown; a request's way through the chain | `Deno.serve`, middlewares |
| HTTP middlewares | `logger/middlewares/http.ts`, `security/middlewares/*.ts` | claims per request | around `next(req)` | logger, JWT service |
| gRPC server and interceptors | `config/server/grpc/*.ts`, `logger/middlewares/grpc.ts`, `security/middlewares/grpc_jwt.ts` | interceptors, services, claims per call | addService, listen, shutdown, forceShutdown; a call's way through the chain | grpc-js |
| gRPC client | `config/client/grpc/client.ts` | the channel | unary, close | grpc-js |
| JWT service, cookies | `security/auth/**` | keys imported on first use | sign, verify; read, validateRequest and decode of the cookie | Web Crypto, validation callbacks |
| Logger, sanitizer | `logger/**` | level, attributes, sanitizer; none | initLogger, with, the four levels; sanitize | sinks, test mode |
| Local provider, cloud adapters | `encrypt/local/*.ts`, `encrypt/*/repository.ts` | none | key generation, AES-GCM, RSA-OAEP, ECDH, digests, signatures | Web Crypto, the SDKs |
| deno-openssl, qdeno | `cmd/**` | files | generate keys and certificates, read them; scaffold a project | the file system |

What is hard here, and what the properties are for (PROJECT.json lists each
hazard at its line):

* one slot of the pool must be given back exactly once, on every way a task can
  end, with resets, stops and limit changes while tasks run;
* a job's calls, timeouts, stops and ticks interleave; a function that timed
  out goes on in the background;
* a cron job polls a clock with timers that run late;
* an adapter is built behind an `await`, so concurrent first calls race; a
  request to a key service may fail after it took effect; an abort races the
  answer;
* the middleware chains must run in order, stop where they refuse, and do their
  part on the way back, whatever throws;
* shutdown must wait for what is in flight, and still end; deadlines and
  timeouts must end a call whose other side hangs;
* every argument of the encryption API is a string, so a key, a ciphertext and a
  signature can be given to any call; what decrypts and verifies must be what
  belongs together, over five kinds of keys and four services;
* keys of a JWT service are imported behind an `await`, by several requests at
  once, and an import can fail; a guard may stand inside another one;
* a secret can be nested in objects, arrays, Headers and serialized JSON, and
  in what a child logger inherits;
* the tools write several files one after the other, may fail or be killed in
  between, and may meet another run or what an earlier one left.

## The modules

### Worker pool

`TaskPool` is what the pool promises: entries wait in order, an admission never
exceeds the limit (and the entries that were busy when the pool was last
cleared), nothing waits while there is room. It has no counters and no promises.

`WorkerPool` is the code. `limit`, `queue`, `active` and `running` are the
module's variables. `pump`'s loop is the closed form `Launches`, the number of
rounds, and `Pump`, their effect. A launched task is `launched` until its
`then(task)` microtask runs, `executing` until its promise settles, then
`fulfilled` or `rejected` until its `finally` callback: four stages because the
API can be called between any two of them. `ready` is the order of the pending
microtasks. `forgotten` is history: how many tasks were in flight when
`resetWorkers` zeroed the counter, which is the amount by which it is wrong
from then on.

`ImplementsPool` maps the code to the abstract pool: `queue` waits, `InFlight`
is busy, `running` is open, `forgotten` is what came beside the limit.

### Jobs

`Jobs` has the class's fields as functions of the instance and of the control
object: `started`, `controls` (the map from ids), `job` (the flags, whether the
timer is set, whether there is a timeout). `calls` counts the calls of a job's
function by phase: `deferred` in `withTimeout`'s microtask, `executing`,
`settled` with the `finally` block pending, `abandoned` after a timeout. A tick
past its early returns is `Tick`; a cron tick that does not match is no step.
`Cron` names the controls of cron jobs, which are registered without a timeout.
`restartJobs` and `stopAllJobs` are single actions, since the code does not
give way in them. `MaxAbandoned` bounds the calls that outlive their timeout; it
is two in the run, so that an awaited call begins, runs and ends beside an
abandoned one and may itself be abandoned before that one is over.

`CronJob` is one armed cron job and a clock. Timers run up to `MaxLate` after
they are due and are rearmed from the moment they ran; a tick compares the
clock with the trigger and `lastFired`. The constants scale the calendar down:
three units to a second, two seconds to a day.

### KMS repository

`KmsRepository` follows each call through `runWithSignal` (signal, listener,
the promise the caller holds), `#resolveApi` (`creating` while `createApi` is
awaited) and its requests. The key service is external: `Handle` may answer or
fail, and may fail with or without having taken effect. An adapter is named by
the call that built it. `encrypt`, `decrypt`, `sign` and `verify` change no
state and are one operation; how they may reject before a request is `BadInput`.

### HTTP

`HttpClient` follows requests through `fetch` and the body, with the sources of
their composed signal; the server, the network and the caller's abort are
external. `HttpServer` has the arrays of routes and global middleware, the
listener with the chain it was composed with, and each request's way down
(`todo`) and back up (`stack`). Its field `route` is history: which route served
it, for properties that compare what it went through with the chain of that
route. URL patterns are a relation between paths and patterns.

### gRPC

`Grpc` joins client and server in one module, since the promise at the client
and the chain at the server are what has to agree. The promise may settle first
(a deadline, a broken connection, `forceShutdown`); the server's chain then goes
on and its answer is dropped. When a connection breaks the two sides learn of
it in one step. The channel and `tryShutdown` are grpc-js, and external. What
a handler did is kept in `result`: it returned, threw a `GrpcError`, or threw
something else, which `toServiceError` makes INTERNAL.

`unary` only asks whether the stub has a function of the given name
(`config/client/grpc/client.ts:65-66`). A name such as `close` or `toString`
passes that check, and the promise of such a call may never settle. `Unary` has
the methods of the service and names that are no function.

The part of the chains that `HttpServer` and `Grpc` have in common is not a
module of the model, since the code has none: the HTTP chain is composed of
closures per listener, the gRPC chain when a service is added. What is common
is proved once, in `Chains`.

### Authentication

`Tokens` is data: configurations, guards, tokens, and what a set of issued
tokens says of a request. A signature is a term of algorithm, key pair and
signed content; it verifies under the pair that made it and no other. What
reaches a server is what was issued, with its claims or its header exchanged,
or something malformed.

`AuthGate` is what authentication promises: each request gets one verdict, and
the issued tokens and what it carries decide which. It has no keys, no caches
and no awaits.

`Auth` is the code, await by await. `cached` is what each strategy has imported
so far (`#key`, or `#priv` and `#pub`), `signing` the calls of `sign`, `request`
the requests: `at` is the guard a request is in, `checked` how many of its
validators have accepted. `Enter` is `next(req)` up to the first await. The
bearer middleware, the gRPC interceptor and the cookie middleware are guards
that read a different carrier. `ImplementsGate` maps a request's phase to its
verdict.

### Encryption

`Crypto` has the strings of the package as terms (keys in their encodings, AES
blobs, ECDH and hybrid envelopes, MACs, digests, signatures) and takes Web
Crypto at its word. `Providers` has every call of the local provider, and the
encrypt, decrypt, sign and verify of the three cloud adapters, as operators of
terms; its state is the keys generated and the strings made so far, and its
properties give every string at hand to every call. Keys that are rotated,
disabled and described are in `KmsRepository`.

### Logging

`Logger` has the loggers that `initLogger` and `with` made, and the test mode.
Redaction treats each member of a value by itself, so a value is one leaf and
the steps down to it: into a field, an element, Headers, or a string that holds
JSON. `Log` is one call: attributes are spread, redacted, and rendered by JSON,
which changes Headers and dates and throws for what it cannot express. The text
of a line is left out.

### Command-line tools

`Cli` has both tools, since they parse alike and write files alike. `Parse` is
the parser, read from the last token to the first: what the loop adds at a token
is put before what it adds behind it, and a flag set again behind keeps that
value. `Plan` is what a command line asks for up to the first await, and a
run goes through its phases over one file system that it shares with the
others: `checking` and `making` the directory, `generating` or `reading`,
`opening` and `filling` each file. A step may fail and a run may be killed at
any of them. `place` is the project's directory or the prefix of `--out`. The
fields `alone`, `found`, `touched` and `fault` are history, for the properties.

## The runs

| Run | Instance | What it shows |
|---|---|---|
| `pool` | four entries, arguments of `setWorkersLimit` that are zero and positive | `Accounting`, `WorkConserving`, `QueuesMatchStages`, `LaunchWithinLimit`, `ImplementsPool`; under fairness `NoStarvation` |
| `jobs` | two instances, two ids, an interval and a cron job, up to two abandoned calls per job | `NoLeakedTimer`, `OneAwaitedCall`, `StartedJobsArmed`, `StoppedStaysStopped`; under fairness `RunningEnds`, `JobRecurs` |
| `jobs_stop_all` | one instance | counterexample to `StopAllReachesEveryInstance` |
| `cron` | six days of two seconds; a daily and a one-day trigger; no interval, and one of more than two days; timers up to two thirds of a second late | `RunsAsScheduled`, `NoTwoSecondsSkipped`, `FiresWhenPunctual` |
| `kms` | two calls on one key, adapters AWS and GCP, injected or built | `ResolvedMeansDone`, `ListenerIsCurrent`, `SettledForGood`, `LazyAdapter`; under fairness `CallsEnd` |
| `client` | two requests with no timeout, zero, one, and a default | `ClientTypeOK`, in which a request is done exactly when its promise is settled; under fairness `TimedRequestsEnd` |
| `server` | two requests, two paths, two patterns, two routes with either of two chains, one global middleware, one listener | `HandlerIsGuarded`, `RepliesAreComplete`, `RegistrationIsStable`; under fairness `ShutdownDrains` |
| `grpc` | two calls of one method behind a logger and a JWT check | `AnswersAreTrue`, `CallsAreLogged`, `CodesArrive`; under fairness `DeadlinesBound` |
| `auth` | two requests; a service that signs, one with only the public key and a validator, one with keys that do not import; a chain of two guards and a broken one; two tokens | `ImplementsGate`; under fairness `RequestsEnd` |
| `providers` | two generated keys and two other calls over seven pairs of five kinds and six cloud keys | `RoundTrips`, `VerifiesWhatWasSigned`, `GeneratedKeysServe` |
| `logger` | two loggers, every value of up to three steps, a depth limit of three | `SecretsHidden`, `NothingElseLost` |
| `cli` | two runs among nineteen command lines, one directory from before | `ExitCodeTells`, `ParseMeetsReference`, `UnforcedKeepsWhatItFound` |

The comment of each property says what it states and of which code. The type
invariants of the modules that are proved about are theorems and not checked
again.

Why the bounds are enough. In the pool two tasks in flight, one waiting and one
idle are the least in which order, capacity and a reset can go wrong together.
Two jobs are needed for a timer to be lost to the other's id, and one abandoned
call beside an awaited one for an overlap: that takes a bound of two, since a
tick is bounded by the calls that it may leave behind. Six days and an interval
of more than two cover several periods of the trigger's pattern of match,
refusal and match. Two calls race for the adapter and the key; a third would
repeat one of them. Two requests show that shutdown waits for the last one and
not for the first; they do not touch each other otherwise. In `server` one route
chain logs inside authentication, below a global logger or `securityHeaders`, so
that each middleware is met outside and inside another; the other chain differs,
so that the middleware of the wrong route shows. In `grpc` one logger is outside
the JWT check; that a code comes through any number of loggers is left to the
proof. In `auth` two requests race for one import, and the second guard of a
chain has another service, carrier and validators than the first. In `pool`,
`jobs`, `cron`, `kms`, `server`, `grpc`, `client`, `auth`, `providers`, `logger`
and `cli` the proofs remove the bounds from all safety properties.

Nothing in `providers` depends on more than two keys and one string: with two
generated keys and two calls each string meets a wrong key of its own kind, a
wrong kind and a second string of its own form. `MaxDepth` is 32 in the code
and three in `logger`: values are as deep as the limit and their attribute's
key is one level more, which is beyond it, and every order of the four kinds of
step is among them. In `cli` two runs are the least that can meet; the command lines have
each command, option and error once, and the parser is compared with its
reference on all sequences of up to four of six kinds of token, which is the
longest reach of one token on another twice.

## Fairness

Fairness is assumed of the event loop and of nothing else that the code does
not wait for by construction:

* pool: microtasks run, and a task settles. Callers owe nothing; `NoStarvation`
  itself supposes that the pool is running again and again.
* jobs: the timers of interval jobs fire and microtasks run; only functions
  registered without a timeout are taken to settle. One with a timeout may hang
  for ever, which is what the timeout is for. Nothing is assumed of the ticks of
  cron jobs: a trigger may match rarely or, with a year that is past, never
  again (`jobs.ts:173`). `JobRecurs` speaks of interval jobs that are not paused
  from some moment on.
* KMS: what is awaited settles; the SDKs have their own timeouts.
* REST client: timers fire and signals are seen. Servers may stay silent.
* HTTP server: handlers settle. The server has no timeout of its own, so a
  handler that hangs does hang its shutdown.
* gRPC: timers fire, grpc-js makes progress; handlers may hang.
* authentication: Web Crypto and the validators settle.
* encryption, logger and tools: none; a run of a tool may stop anywhere.

## The proofs

All theorems hold for every value of the constants that satisfies the named
assumptions of the modules (`TaskAssumption`, `InstanceAssumption`,
`ConfigAssumption` and so on): any number of tasks, jobs, calls, requests,
routes, services and chains. Each proof module has one inductive
invariant `IInv`, shown to hold initially and to be kept by each action; the
properties follow from it. What each needs beyond itself is said below.

`WorkerPoolProofs`: `TypeOK`, `Accounting`, `WorkConserving`,
`QueuesMatchStages`, `LaunchWithinLimit`, and the refinement `ImplementsPool`.
`Accounting` needs each queue to hold an entry once (else one launch would count
twice in `active` and once in `InFlight`), which is `QueuesMatchStages`; that
needs `FinishTask` to act on a task in flight; and `WorkConserving` after a
launch needs `pump`'s arithmetic. The argument is in layers: `CutSeq`,
`JoinSeq`, `AppendFresh`, `TakeHead` and `RangeSize` are about sequences without
repetitions, `LaunchesBounds` about the number of rounds, `PumpStep` says what
one pump does to a state whose queues match its stages, and `PumpInvariant`
turns that into preservation of `IInv` for any action that ends in a pump. For
the refinement, `PumpAdmits` shows that one pump is one admission of `TaskPool`.

`JobsProofs`: `TypeOK`, `NoLeakedTimer`, `OneAwaitedCall`, `StartedJobsArmed`,
`StoppedStaysStopped`. `NoLeakedTimer` needs `Homes`, that only an instance
that was constructed has jobs; the type of `calls`, which bounds the abandoned
calls, needs `CallsCounted`: a call that is awaited leaves room for itself.

Its second half is about the cron job: `CronTypeOK`, `RunsAsScheduled`,
`NoTwoSecondsSkipped`, `FiresWhenPunctual`, from `CronInv`, for any number of
units to the second and seconds to the day. `Spaced` says that the next tick is
a whole resolution behind the last that fired, `Polled` which seconds had their
tick, `Punctual` that none was missed. The lemmas `SecondBounds` to
`SecondStarts` are the arithmetic of seconds. `NoTwoSecondsSkipped` assumes
`MaxLate < UnitsPerSecond`: timers that are later than that do skip.

`EncryptionProofs`, first half: `KmsTypeOK`, `ResolvedMeansDone`,
`ListenerIsCurrent`, `SettledForGood`, `LazyAdapter`, from `KmsInv`. `Sound`
says of one call what its phase, its signal and its effects have to do with each
other, in parts for each operation; `SoundStays` shows that it survives what
other calls do to the key.

Second half: `TypeOK`, `RoundTrips`, `VerifiesWhatWasSigned`,
`GeneratedKeysServe`. A call that decrypts is given any string at all, and what
it answers depends on the form of the string, so that each proof goes from the
form back to the one call that makes it: `DecryptionInverts` and
`SignaturesVerify` say this of the operators alone, for every key, text and
additional data, and `KeysServe` of what is generated; the invariant only says
that the keys and strings at hand were made by these calls. Four facts that the
bounded instance has by the choice of its model values turned out to be needed,
and are assumptions: a rejection is not a term, the keys of a cloud are not
those of a pair, no algorithm has the name of the missing one, and additional
data are among the texts.

`AuthProofs`: `TypeOK` and the refinement `ImplementsGate`. `WellSigned` says
how issued tokens were made, `KeysGood` that no corrupt key is cached for
signing, `Progress` that a request is past a guard only if that guard's verdict
was positive. `SignaturesTell` is the core: over what can be on the wire, a
signature that holds and an algorithm that agrees are the same as a token that
was issued. `Decides` is what each step of a request comes to, and implies a
step of the gate or a stutter.

`HttpProofs`: `TypeOK`, `HandlerIsGuarded`, `RepliesAreComplete`,
`RegistrationIsStable`. What a request has entered and what is before it are
together the chain of its listener (`InRoot`) or, behind the router, that of the
route that serves its path (`InRoute`), although routes and middleware are
registered meanwhile; routes are only appended, so that the one that served a
request keeps its place. `RepliesAreComplete` counts log lines against the
loggers of a chain. A count is the size of the set of positions at which a
logger stands, and `Accounts` keeps two of them equal: the lines written and
those still due on the way back, and the loggers that were entered. What an
`Append` or the removal of the last element does to such a size is in `Chains`.
At the end `ClientTypeOK`, from `ClientInv`: no order of answers, timeouts and
aborts leaves a request of the REST client done without an answer or an error.

`GrpcProofs`: `TypeOK`, `AnswersAreTrue`, `CodesArrive`, `CallsAreLogged`.
`OnRoute` and `Accounts` are the same for the chain of a call. `Honest` relates
the outcome at the server, the code and the promise, which settle in any order:
on its way back a call carries what is `Due`, the verdict of what it went
through, or INTERNAL once a sink has thrown, and `LeaveLogKeeps` shows that a
second throwing sink changes nothing more. Of a call that its deadline settled
under a hanging handler, `CallsAreLogged` says nothing: its loggers have not
seen an outcome.

`LoggerCliProofs`, first half: `SecretsHidden` and `NothingElseLost`, for any number of
loggers, any limit of depth and values of any depth. Redaction is a recursive
function of the steps of a value, and induction is not available over a
predicate; it is stated for a set of numbers instead. `SetInduction` has a
set that holds 0 and every successor of a member hold all numbers, since the
successor would otherwise map a finite set into itself one to one and miss 0;
`DownwardInduction` goes from the end of an interval, and `DownwardRecursion`
and `UpwardRecursion` say that functions defined by such a recursion exist, so
that the operators defined by `CHOOSE` have the values they are written to have.
`RedactionTells` is the core: redaction ends a value at the first secret it gets
to, and otherwise changes dates and Headers only. The invariant says that each
logger has its own attributes over those of its parent (`Inherits`), that one's
sanitizer, and a rank (`Ranks`), so that its line of ancestors ends at a logger
that `initLogger` made. It assumes (`LoggerAssumption`) that there are finitely
many loggers.

Second half: `ParseMeetsReference`, `ExitCodeTells` and
`UnforcedKeepsWhatItFound`, for any number of runs, any command lines over any
texts, and any files and directories from before. `ParserReads` says of
arguments of any length that the parser gives the flags and positionals the
tokens mean; it goes from the last token to the first, with `Parse` unfolded by
`DownwardRecursion`. The reference asks for the last mention of a flag
(`LastSetIs`) and counts positionals by their rank among the free words
(`RankIs`, `Shifts`). `PlanIs` says what either tool can be asked for.

`CliInv` has a part for each run by itself and parts for runs that meet. `Obeys`
says that a run is at what its command line asks for, that it has touched
something only while it writes, after it ended with 0 or through a failure, and
that a run of `qdeno` that found its directory makes and writes only when
forced. `UnforcedKeepsWhatItFound` leaves out a run whose `stat` failed, since
there the code does overwrite without `--force`: `exists` answers every failure
with false (`cmd/qdeno/code/scaffold.ts:24-31`, against the intent of lines 46
and 64). And what a run found is what was there when it began, so that two runs
that meet in a new directory are not held against each other. `ExitCodeTells`
speaks of runs that are `alone`, and needs that the files a run has gone past
are there and its own (`WritesAll`), that a file it has opened is still empty
when it writes, and that nobody else's file is in a directory it made
(`Exclusive`); these hold only because every other run with its place has ended
(`Apart`), and because there are no files of a scaffold without its directory
(`FilesInDirectories`). `StepKeeps` has the part of the argument all actions
share: a step changes one run, one directory and one file, and so nothing of a
run that is alone elsewhere. The proof showed that a prefix of `deno-openssl`
may be the name of a directory that `qdeno` made; as PEM files at that prefix
are not in it, the property leaves them out.

Only model-checked: liveness (`NoStarvation`, `RunningEnds`, `JobRecurs`,
`CallsEnd`, `TimedRequestsEnd`, `ShutdownDrains`, `DeadlinesBound`,
`RequestsEnd`), which the prover cannot do under fairness.

## Where the code and its documentation differ

`jobs_stop_all` ends in a counterexample against the comment of the module,
"a global registry so {@link stopAllJobs} can halt every instance": `destroy`,
and so `restartJobs`, takes an instance out of the registry for good, and
`stopAllJobs` no longer reaches what it starts later.

Noted while modelling, without a run of their own.

Against what is written:

* "at most `limit` tasks run at once" (`tools/workers/workers.ts:7-8`) does not
  hold after `resetWorkers` under running tasks and `runWorkers`; the amount is
  `forgotten`, and `LaunchWithinLimit` states what does hold;
* test mode does not suppress jobs that were armed before it (`README.md:171-172`,
  `tools/utilities/mode.ts:7-8`);
* a failure while the body is read is not an `HttpClientError`
  (`config/client/http/models.ts:44`);
* the 500 that `Deno.serve` makes of a handler's error has no security headers
  (`security/middlewares/headers.ts:7`).

Scheduling and servers:

* a job registered in test mode on a started instance is never armed by a later
  `startJobs`; cron ticks that are late drift over a whole second and miss a
  match in it; a tick that a paused or busy cron job ignores uses up its
  interval; a limit of `NaN` blocks the pool;
* `use` after `listen` has no effect on the running listener, while `handle`
  has; a second `listen` leaves the first listener open after `shutdown`;
* a log sink that throws turns a successful reply into an error, and a gRPC
  status into INTERNAL.

Authentication and encryption:

* a guard inside another one replaces its claims; validators are kept by
  reference; `CookieService.decode` throws at once where `read` and
  `validateRequest` answer or reject;
* `sign` of the GCP adapter ignores the algorithm it is given and `verify` goes
  by its name, and never verifies a signature of an EC key
  (`encrypt/gcp-kms/repository.ts:116`); `VerifiesWhatWasSigned` states it;
* a text that starts with a byte order mark comes back without it, and a lone
  surrogate in a text comes back as a replacement character
  (`encrypt/utilities/utilities.ts:26`);
* a synchronous exception in an operation of the local provider leaves the abort
  listener on its signal (`encrypt/utilities/utilities.ts:59`,
  `encrypt/local/repository.ts:107-108`).

Logging:

* the sanitizer does not look into the values of Headers, stops 32 levels deep,
  and makes empty objects of dates; Headers it does not get to come out empty;
  attributes that JSON cannot express make the call throw;
* in JSON lines, attributes named `time`, `level` or `msg` replace the line's
  own (`logger/formatter/format.ts:39`).

Tools:

* `--force http` takes `http` for the value of `--force`, and `--force=true`
  does not force; `--out` without a value prints the private key;
* a scaffold that failed or was killed leaves a directory that the next run
  refuses; under `--force` a `service.proto` of an earlier gRPC project stays;
  two runs at once in one directory mix their files; `exists` takes any failure
  of `stat` for absence;
* `deno-openssl constructor` finds a member of `Object.prototype` among the
  commands; `qdeno --help` exits with 1, since the flag is
  taken for the command.

## Not modelled

* Text: log lines, the form of JSON, URLs, templates, PEM and Base64, and the
  terminal animation.
* Cryptography itself: that a ciphertext opens only with its key and a signature
  verifies only under its pair is assumed of Web Crypto and the cloud services.
* The event loop's own timing beyond "late by at most", time going backwards,
  and numbers that are not integers.
* The proto loader, which hands a file to the gRPC library and keeps no state,
  and the examples.

## Plan

Done: worker pool (with abstract pool), jobs, cron, KMS repository, REST client,
HTTP server with middlewares, gRPC, authentication (with abstract gate),
encryption, logger and sanitizer, command-line tools; proofs of the safety
properties of all of them.

Left:

1. The gate in place of the flag `valid` in `HttpServer` and `Grpc`, so that
   the claims a handler sees are those of `Auth`.
