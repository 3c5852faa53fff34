------------------------------- MODULE Logger -------------------------------
(***************************************************************************)
(* logger/builder and logger/sanitizer: loggers, their children, and what  *)
(* becomes of the attributes of a record on its way to the sink.           *)
(*                                                                         *)
(* Redaction treats each member of a value by itself, so a value stands    *)
(* for one of its leaves and the steps that lead there: into a field of an *)
(* object or of Headers, into an array, or into a string that holds JSON.  *)
(***************************************************************************)
EXTENDS Integers, Sequences, FiniteSets

CONSTANTS LoggerId,  \* loggers
          Name,      \* names that sanitizers are created with
          Key,       \* names of attributes and fields
          Matching,  \* the keys that contain each name
          MaxDepth,  \* MAX_DEPTH
          Sanitizer, \* sets of names, or None
          BaseAttrs, \* attributes of initLogger and with
          CallAttrs, \* attributes of a call
          None

Level == {-4, 0, 4, 8}

FieldStep == [in : {"object", "headers"}, key : Key]

Step == FieldStep \cup [in : {"array", "json"}]

Leaf == {"text", "date", "unprintable", "{}", "[REDACTED]"}

Value == [steps : Seq(Step), leaf : Leaf]

\* Header values and JSON documents are strings: no date or bigint is below them.
WellFormed(value) ==
  /\ value \in Value
  /\ \A i \in DOMAIN value.steps :
       LET next == i + 1 \in DOMAIN value.steps
       IN  /\ value.steps[i] \in Step
           /\ value.steps[i].in = "headers" /\ next => value.steps[i + 1].in = "json"
           /\ value.steps[i].in = "json" => next /\ value.steps[i + 1].in \in {"object", "array"}
           /\ value.steps[i].in = "headers" => \A j \in 1 .. i - 1 : value.steps[j].in # "json"
           /\ value.steps[i].in \in {"headers", "json"} => value.leaf = "text"

ASSUME LoggerAssumption == IsFiniteSet(LoggerId)
ASSUME NameAssumption == Matching \in [Name -> SUBSET Key]
ASSUME DepthAssumption == MaxDepth \in Nat \ {0}
ASSUME SanitizerAssumption == \A names \in Sanitizer \ {None} : names \subseteq Name
ASSUME AttrsAssumption ==
  \A attrs \in BaseAttrs \cup CallAttrs :
    DOMAIN attrs \subseteq Key /\ \A k \in DOMAIN attrs : WellFormed(attrs[k])

VARIABLES logger,   \* the loggers there are
          testMode  \* the module's flag

vars == <<logger, testMode>>

Init ==
  /\ logger = [l \in LoggerId |-> None]
  /\ testMode = FALSE

-----------------------------------------------------------------------------
(* The sanitizer.                                                          *)

IsSensitive(sanitizer, key) == \E name \in sanitizer : key \in Matching[name]

\* The value without its first i - 1 steps.
From(value, i) == [value EXCEPT !.steps = SubSeq(@, i, Len(@))]

Redacted == [steps |-> <<>>, leaf |-> "[REDACTED]"]

Under(step, value) == [value EXCEPT !.steps = <<step>> \o @]

\* headers: a plain object of the same fields, whose values are not looked into.
Headers(sanitizer, value) ==
  LET field == [in |-> "object", key |-> value.steps[1].key]
  IN  Under(field, IF IsSensitive(sanitizer, field.key) THEN Redacted ELSE From(value, 2))

\* What is not looked into: a leaf, or a value at the limit.  A date has no entries.
Untouched(value, depth) ==
  IF depth < MaxDepth /\ value.steps = <<>> /\ value.leaf = "date"
  THEN [steps |-> <<>>, leaf |-> "{}"] ELSE value

\* A field, an element or a document, of which rest is left.
Entry(sanitizer, step, rest) ==
  Under(step, IF step.in = "object" /\ IsSensitive(sanitizer, step.key) THEN Redacted ELSE rest)

\* Mutant: a string is not parsed.
RedactedUnparsed(sanitizer, value, depth, rest) ==
  IF depth >= MaxDepth \/ value.steps = <<>> THEN Untouched(value, depth)
  ELSE IF value.steps[1].in \in {"headers", "json"} THEN value
  ELSE Entry(sanitizer, value.steps[1], rest)

\* #redact of a value at some depth, when rest is what it makes of the one step down.
RedactedAt(sanitizer, value, depth, rest) ==
  IF depth >= MaxDepth \/ value.steps = <<>> THEN Untouched(value, depth)
  ELSE IF value.steps[1].in = "headers" THEN Headers(sanitizer, value)
  ELSE Entry(sanitizer, value.steps[1], rest)

(***************************************************************************)
(* One level of depth for each step, until a sensitive key, Headers or the *)
(* limit ends the recursion.                                               *)
(***************************************************************************)
Redact(sanitizer, value, depth) ==
  LET redact[i \in 1 .. Len(value.steps) + 1] ==
        RedactedAt(sanitizer, From(value, i), depth + i - 1, redact[i + 1])
  IN  redact[1]

\* details: the attributes are the fields of an object at depth 0.
Details(sanitizer, attrs) ==
  [k \in DOMAIN attrs |->
     IF IsSensitive(sanitizer, k) THEN Redacted ELSE Redact(sanitizer, attrs[k], 1)]

-----------------------------------------------------------------------------
(* Loggers.                                                                *)

\* Mutant: the attributes of the logger win over those of the call.
SpreadUnder(base, attrs) ==
  [k \in DOMAIN base \cup DOMAIN attrs |-> IF k \in DOMAIN base THEN base[k] ELSE attrs[k]]

\* { ...base, ...attrs }
Spread(base, attrs) ==
  [k \in DOMAIN base \cup DOMAIN attrs |-> IF k \in DOMAIN attrs THEN attrs[k] ELSE base[k]]

\* base is the service's metadata with options.base spread over it.
InitLogger(l, level, sanitizer, base) ==
  /\ logger[l] = None
  /\ logger' = [logger EXCEPT ![l] =
       [parent |-> l, given |-> base, level |-> level, sanitizer |-> sanitizer, base |-> base]]
  /\ UNCHANGED testMode

With(l, child, attrs) ==
  /\ logger[l] # None /\ logger[child] = None
  /\ logger' = [logger EXCEPT ![child] =
       [logger[l] EXCEPT !.parent = l, !.given = attrs, !.base = Spread(@, attrs)]]
  /\ UNCHANGED testMode

SetModeTest(on) ==
  /\ testMode' = on
  /\ UNCHANGED logger

Enabled(l, level) == ~testMode /\ level >= logger[l].level

\* JSON.stringify: Headers have no properties of their own, a date has toJSON, a bigint throws.
Rendered(value) ==
  LET hidden == {i \in DOMAIN value.steps : value.steps[i].in = "headers"}
      first  == CHOOSE i \in hidden : \A j \in hidden : i <= j
  IN  IF hidden # {} THEN [steps |-> SubSeq(value.steps, 1, first - 1), leaf |-> "{}"]
      ELSE [value EXCEPT !.leaf = IF @ = "date" THEN "text" ELSE @]

\* debug, info, warn, error: a line for the sink, an exception for the caller, or neither.
Log(l, level, attrs) ==
  LET merged  == Spread(logger[l].base, attrs)
      details == IF logger[l].sanitizer = None THEN merged ELSE Details(logger[l].sanitizer, merged)
      line    == [k \in DOMAIN details |-> Rendered(details[k])]
  IN  IF ~Enabled(l, level) THEN [outcome |-> "silent"]
      ELSE IF \E k \in DOMAIN line : line[k].leaf = "unprintable" THEN [outcome |-> "thrown"]
      ELSE [outcome |-> "written", line |-> line]

-----------------------------------------------------------------------------
Next ==
  \/ \E l \in LoggerId :
       \/ \E level \in Level, sanitizer \in Sanitizer, base \in BaseAttrs :
            InitLogger(l, level, sanitizer, base)
       \/ \E child \in LoggerId, attrs \in BaseAttrs : With(l, child, attrs)
  \/ \E on \in BOOLEAN : SetModeTest(on)

Spec == Init /\ [][Next]_vars

-----------------------------------------------------------------------------
(* Properties.  Each speaks of every call of every logger there is.        *)

Loggers == {l \in LoggerId : logger[l] # None}

\* The loggers from l up to the one initLogger made.
Ancestors(l) ==
  LET up[n \in 0 .. Cardinality(LoggerId)] == IF n = 0 THEN l ELSE logger[up[n - 1]].parent
  IN  up

\* The attributes of a call, of its logger, of that one's parent and so on.
Sources(l, attrs) ==
  <<attrs>> \o [n \in 1 .. Cardinality(LoggerId) + 1 |-> logger[Ancestors(l)[n - 1]].given]

Named(sources) == UNION {DOMAIN sources[n] : n \in DOMAIN sources}

\* A value under its key.
Attribute(k, value) == Under([in |-> "object", key |-> k], value)

\* What the nearest of them says of k.
Meant(sources, k) ==
  LET nearest == CHOOSE n \in DOMAIN sources :
                   k \in DOMAIN sources[n] /\ \A m \in 1 .. n - 1 : k \notin DOMAIN sources[m]
  IN  Attribute(k, sources[nearest][k])

\* Sensitive to the sanitizer of the logger that initLogger made.
Sensitive(l, step) ==
  LET sanitizer == logger[Ancestors(l)[Cardinality(LoggerId)]].sanitizer
  IN  step.in \in {"object", "headers"} /\ sanitizer # None /\ IsSensitive(sanitizer, step.key)

\* The steps of a value that the sanitizer gets to.
Reached(value) ==
  {i \in DOMAIN value.steps : i <= MaxDepth /\ \A j \in 1 .. i - 1 : value.steps[j].in # "headers"}

(***************************************************************************)
(* A line shows nothing below a sensitive key that is less than MAX_DEPTH  *)
(* levels deep and not inside a header's value: of the call's attributes   *)
(* and the logger's own, whichever logger the sanitizer was given to, and  *)
(* however fields, arrays and serialized documents are nested.             *)
(***************************************************************************)
SecretsHidden ==
  \A l \in Loggers, level \in Level, attrs \in CallAttrs :
    LET sources == Sources(l, attrs)
        call    == Log(l, level, attrs)
    IN  call.outcome = "written" =>
          \A k \in Named(sources) :
            LET meant == Meant(sources, k)
                shown == Attribute(k, call.line[k])
            IN  \A i \in Reached(meant) :
                  Sensitive(l, meant.steps[i]) => i >= Len(shown.steps) /\ shown.leaf # "text"

Hidden(l, meant) == \E i \in Reached(meant) : Sensitive(l, meant.steps[i])

\* All that was meant is shown, or a part of it that is hidden or was in Headers is not.
Preserves(l, meant, shown) ==
  \/ Hidden(l, meant)
  \/ \E i \in DOMAIN meant.steps : meant.steps[i].in = "headers"
  \/ shown.steps = meant.steps /\ (shown.leaf = meant.leaf \/ meant.leaf = "date")

(***************************************************************************)
(* A line shows the attributes of the call and those of the logger and its *)
(* ancestors, the nearest first, and changes only what has to be hidden,   *)
(* but for two losses: Headers that the sanitizer does not get to, and     *)
(* dates that it does, come out as empty objects.  The call throws only    *)
(* for what JSON cannot express, and not if that is hidden.                *)
(***************************************************************************)
NothingElseLost ==
  \A l \in Loggers, level \in Level, attrs \in CallAttrs :
    LET sources == Sources(l, attrs)
        call    == Log(l, level, attrs)
    IN  /\ call.outcome = "silent" \/
             (call.outcome = "thrown" <=>
                \E k \in Named(sources) :
                  Meant(sources, k).leaf = "unprintable" /\ ~Hidden(l, Meant(sources, k)))
        /\ call.outcome = "written" =>
             /\ DOMAIN call.line = Named(sources)
             /\ \A k \in Named(sources) :
                  Preserves(l, Meant(sources, k), Attribute(k, call.line[k]))
=============================================================================
