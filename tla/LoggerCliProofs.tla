--------------------------- MODULE LoggerCliProofs ---------------------------
(***************************************************************************)
(* Proofs about the two parts whose data have no bound: the logger and its *)
(* sanitizer, for any loggers, values of any depth, any limit and any      *)
(* names, and the command-line tools, for any runs of any command lines    *)
(* over any texts, in any directories.                                     *)
(*                                                                         *)
(* What a recursive function does to every value is shown by induction     *)
(* over the steps of the value, and what it does to every command line by  *)
(* induction over the tokens.  An induction is stated for a set of         *)
(* numbers, and not for a predicate.                                       *)
(***************************************************************************)
EXTENDS Logger, Cli, FiniteSetTheorems, FunctionTheorems, SequenceTheorems, TLAPS

-----------------------------------------------------------------------------
(* Induction and recursion.                                                *)

(***************************************************************************)
(* Induction over the natural numbers, for a set.  If n were missing, the  *)
(* successor would map the members up to n into themselves, one to one but *)
(* without 0, which no finite set allows.                                  *)
(***************************************************************************)
LEMMA SetInduction ==
  ASSUME NEW P, 0 \in P, \A n \in Nat : n \in P => n + 1 \in P
  PROVE  Nat \subseteq P
<1> SUFFICES ASSUME NEW n \in Nat, n \notin P PROVE FALSE
  OBVIOUS
<1> DEFINE below == {m \in 0..n : m \in P}
           next  == [m \in below |-> m + 1]
<1>1. IsFiniteSet(below)
  <2>1. IsFiniteSet(0..n)
    BY FS_Interval
  <2>2. QED BY <2>1, FS_Subset
<1>2. next \in Injection(below, below)
  <2>1. \A m \in below : m + 1 \in below
    OBVIOUS
  <2>2. next \in [below -> below]
    BY <2>1
  <2>3. \A a, b \in below : next[a] = next[b] => a = b
    OBVIOUS
  <2>4. QED BY <2>2, <2>3 DEF Injection, IsInjective
<1>3. next \in Surjection(below, below)
  BY <1>1, <1>2, FS_Injection
<1>4. 0 \in below
  OBVIOUS
<1>5. PICK m \in below : next[m] = 0
  BY <1>3, <1>4 DEF Surjection
<1>6. QED BY <1>5

\* A set of natural numbers that is not empty has a least member.
LEMMA LeastMember ==
  ASSUME NEW T, T \subseteq Nat, T # {}
  PROVE  \E m \in T : \A n \in T : m <= n
<1> SUFFICES ASSUME \A m \in T : \E n \in T : n < m PROVE FALSE
  OBVIOUS
<1> DEFINE P == {n \in Nat : \A m \in T : n <= m}
<1>1. 0 \in P
  OBVIOUS
<1>2. ASSUME NEW n \in Nat, n \in P PROVE n + 1 \in P
  <2>1. n \notin T
    BY <1>2
  <2>2. \A m \in T : n <= m /\ n # m
    BY <1>2, <2>1
  <2>3. QED BY <2>2
<1> HIDE DEF P
<1>3. Nat \subseteq P
  BY <1>1, <1>2, SetInduction
<1>4. PICK m \in T : TRUE
  OBVIOUS
<1>5. m + 1 \in P
  BY <1>3
<1>6. QED BY <1>5 DEF P

\* Induction from the end of an interval down.
LEMMA DownwardInduction ==
  ASSUME NEW n \in Nat, NEW P, n \in P, \A i \in Nat : i < n /\ i + 1 \in P => i \in P
  PROVE  0..n \subseteq P
<1> DEFINE Q == {m \in Nat : m <= n => n - m \in P}
<1>1. 0 \in Q
  OBVIOUS
<1>2. ASSUME NEW m \in Nat, m \in Q PROVE m + 1 \in Q
  <2>1. m + 1 <= n => n - (m + 1) \in Nat /\ n - (m + 1) < n /\ n - (m + 1) + 1 = n - m
    OBVIOUS
  <2>2. m + 1 <= n => n - (m + 1) \in P
    BY <1>2, <2>1
  <2>3. QED BY <2>2
<1> HIDE DEF Q
<1>3. Nat \subseteq Q
  BY <1>1, <1>2, SetInduction
<1>4. ASSUME NEW i \in 0..n PROVE i \in P
  <2>1. n - i \in Nat /\ n - i <= n /\ n - (n - i) = i
    OBVIOUS
  <2>2. QED BY <1>3, <2>1 DEF Q
<1>5. QED BY <1>4

\* f is defined from its last value down.
Descends(f, V, n, last, step) ==
  /\ f \in [1..(n + 1) -> V]
  /\ f[n + 1] = last
  /\ \A i \in 1..n : f[i] = step[i][f[i + 1]]

\* There is such a function.
LEMMA DownwardRecursion ==
  ASSUME NEW V, NEW n \in Nat, NEW last \in V, NEW step \in [1..n -> [V -> V]]
  PROVE  \E f : Descends(f, V, n, last, step)
<1> DEFINE Good(m, f) == /\ f \in [(n + 1 - m)..(n + 1) -> V]
                         /\ f[n + 1] = last
                         /\ \A i \in (n + 1 - m)..n : f[i] = step[i][f[i + 1]]
           P == {m \in Nat : m <= n => \E f : Good(m, f)}
<1>1. 0 \in P
  <2>1. Good(0, [i \in (n + 1)..(n + 1) |-> last])
    OBVIOUS
  <2>2. QED BY <2>1
<1>2. ASSUME NEW m \in Nat, m \in P PROVE m + 1 \in P
  <2> SUFFICES ASSUME m + 1 <= n PROVE \E f : Good(m + 1, f)
    OBVIOUS
  <2>1. PICK f : Good(m, f)
    BY <1>2
  <2> DEFINE at == n - m
             g  == [i \in at..(n + 1) |-> IF i = at THEN step[at][f[at + 1]] ELSE f[i]]
  <2>2. at \in 1..n /\ at + 1 = n + 1 - m /\ at = n + 1 - (m + 1)
    OBVIOUS
  <2>3. f[at + 1] \in V /\ step[at] \in [V -> V]
    BY <2>1, <2>2
  <2>4. step[at][f[at + 1]] \in V
    BY <2>3
  <2>5. g \in [at..(n + 1) -> V]
    <3>1. \A i \in at..(n + 1) : i # at => f[i] \in V
      BY <2>1, <2>2
    <3>2. QED BY <2>4, <3>1
  <2>6. g[n + 1] = last
    BY <2>1, <2>2
  <2>7. ASSUME NEW i \in at..n PROVE g[i] = step[i][g[i + 1]]
    <3>1. CASE i = at
      <4>1. g[i] = step[at][f[at + 1]] /\ g[i + 1] = f[at + 1]
        BY <2>2, <3>1
      <4>2. QED BY <3>1, <4>1
    <3>2. CASE i # at
      <4>1. i \in (n + 1 - m)..n /\ g[i] = f[i] /\ g[i + 1] = f[i + 1]
        BY <2>2, <3>2
      <4>2. f[i] = step[i][f[i + 1]]
        BY <2>1, <4>1
      <4>3. QED BY <4>1, <4>2
    <3>3. QED BY <3>1, <3>2
  <2>8. Good(m + 1, g)
    BY <2>2, <2>5, <2>6, <2>7
  <2>9. QED BY <2>8
<1>3. n \in P
  <2> HIDE DEF P
  <2>1. Nat \subseteq P
    BY <1>1, <1>2, SetInduction
  <2>2. QED BY <2>1
<1>4. PICK f : Good(n, f)
  BY <1>3
<1>5. n + 1 - n = 1
  OBVIOUS
<1>6. QED BY <1>4, <1>5 DEF Descends

\* f is defined from its first value up.
Ascends(f, V, n, first, next) ==
  /\ f \in [0..n -> V]
  /\ f[0] = first
  /\ \A i \in 1..n : f[i] = next[f[i - 1]]

\* There is such a function.
LEMMA UpwardRecursion ==
  ASSUME NEW V, NEW n \in Nat, NEW first \in V, NEW next \in [V -> V]
  PROVE  \E f : Ascends(f, V, n, first, next)
<1> DEFINE P == {m \in Nat : \E f : Ascends(f, V, m, first, next)}
<1>1. 0 \in P
  <2>1. Ascends([i \in 0..0 |-> first], V, 0, first, next)
    BY DEF Ascends
  <2>2. QED BY <2>1
<1>2. ASSUME NEW m \in Nat, m \in P PROVE m + 1 \in P
  <2>1. PICK f : Ascends(f, V, m, first, next)
    BY <1>2
  <2> DEFINE g == [i \in 0..(m + 1) |-> IF i = m + 1 THEN next[f[m]] ELSE f[i]]
  <2>2. f[m] \in V /\ next[f[m]] \in V
    BY <2>1 DEF Ascends
  <2>3. \A i \in 0..m : f[i] \in V /\ g[i] = f[i]
    BY <2>1 DEF Ascends
  <2>4. g \in [0..(m + 1) -> V] /\ g[0] = first
    BY <2>1, <2>2, <2>3 DEF Ascends
  <2>5. ASSUME NEW i \in 1..(m + 1) PROVE g[i] = next[g[i - 1]]
    <3>1. g[i - 1] = f[i - 1]
      BY <2>3
    <3>2. CASE i = m + 1
      BY <3>1, <3>2
    <3>3. CASE i # m + 1
      <4>1. i \in 1..m /\ g[i] = f[i] /\ f[i] = next[f[i - 1]]
        BY <2>1, <2>3, <3>3 DEF Ascends
      <4>2. QED BY <3>1, <4>1
    <3>4. QED BY <3>2, <3>3
  <2>6. Ascends(g, V, m + 1, first, next)
    BY <2>4, <2>5 DEF Ascends
  <2>7. QED BY <2>6
<1> HIDE DEF P
<1>3. Nat \subseteq P
  BY <1>1, <1>2, SetInduction
<1>4. QED BY <1>3 DEF P

-----------------------------------------------------------------------------
(* Values.                                                                 *)

\* An element before a sequence.
LEMMA PrependIs ==
  ASSUME NEW S, NEW s \in Seq(S), NEW e \in S
  PROVE  /\ <<e>> \o s \in Seq(S) /\ Len(<<e>> \o s) = Len(s) + 1 /\ (<<e>> \o s)[1] = e
         /\ \A j \in 1..Len(s) : (<<e>> \o s)[j + 1] = s[j]
<1>1. <<e>> \in Seq(S) /\ Len(<<e>>) = 1 /\ <<e>>[1] = e /\ Len(s) \in Nat
  OBVIOUS
<1>2. /\ <<e>> \o s \in Seq(S) /\ Len(<<e>> \o s) = 1 + Len(s)
      /\ \A j \in 1..(1 + Len(s)) : (<<e>> \o s)[j] = IF j <= 1 THEN <<e>>[j] ELSE s[j - 1]
  BY <1>1, ConcatProperties
<1>3. QED BY <1>1, <1>2

\* What is behind some of a value's steps.
LEMMA FromIs ==
  ASSUME NEW value \in Value, NEW i \in 1..(Len(value.steps) + 1)
  PROVE  /\ From(value, i) \in Value /\ From(value, i).leaf = value.leaf
         /\ Len(From(value, i).steps) = Len(value.steps) + 1 - i
         /\ From(value, i).steps = <<>> <=> i = Len(value.steps) + 1
         /\ i <= Len(value.steps) => From(value, i).steps[1] = value.steps[i]
<1> DEFINE s == value.steps
           n == Len(s)
           t == SubSeq(s, i, n)
<1>1. s \in Seq(Step) /\ n \in Nat /\ value.leaf \in Leaf
  BY DEF Value
<1>2. /\ t \in Seq(Step) /\ Len(t) = n + 1 - i
      /\ i <= n => t[1] = s[i]
  BY <1>1, SubSeqProperties
<1>3. From(value, i) = [value EXCEPT !.steps = t]
  BY DEF From
<1>4. t = <<>> <=> i = n + 1
  <2> HIDE DEF t, n
  <2>1. t = <<>> <=> Len(t) = 0
    BY <1>2, EmptySeq
  <2>2. QED BY <1>1, <1>2, <2>1 DEF n
<1> HIDE DEF t
<1>5. QED BY <1>1, <1>2, <1>3, <1>4 DEF Value

\* A value is its first step and what is behind it.
LEMMA FromSteps ==
  ASSUME NEW value \in Value, NEW i \in 1..Len(value.steps)
  PROVE  From(value, i).steps = <<value.steps[i]>> \o From(value, i + 1).steps
<1> DEFINE s == value.steps
           n == Len(s)
           t == SubSeq(s, i, n)
           u == SubSeq(s, i + 1, n)
<1>1. s \in Seq(Step) /\ n \in Nat /\ s[i] \in Step
  BY DEF Value
<1>2. /\ t \in Seq(Step) /\ Len(t) = n + 1 - i
      /\ \A j \in 1..(n + 1 - i) : t[j] = s[i + j - 1]
      /\ u \in Seq(Step) /\ Len(u) = n - i
      /\ \A j \in 1..(n - i) : u[j] = s[i + j]
  BY <1>1, SubSeqProperties
<1>3. From(value, i).steps = t /\ From(value, i + 1).steps = u
  BY DEF From, Value
<1> HIDE DEF t, u
<1>4. u \in Seq(Step) /\ s[i] \in Step
  BY <1>1, <1>2
<1> DEFINE e == s[i]
           r == <<e>> \o u
<1> HIDE DEF n, e
<1>5. /\ r \in Seq(Step) /\ Len(r) = (n - i) + 1 /\ r[1] = s[i]
      /\ \A j \in 1..(n - i) : r[j + 1] = u[j]
  <2>1. e \in Step /\ e = s[i] /\ Len(u) = n - i
    BY <1>2, <1>4 DEF e
  <2>2. /\ r \in Seq(Step) /\ Len(r) = Len(u) + 1 /\ r[1] = e
        /\ \A j \in 1..Len(u) : r[j + 1] = u[j]
    BY <1>4, <2>1, PrependIs
  <2>3. QED BY <2>1, <2>2
<1> HIDE DEF r
<1>6. ASSUME NEW j \in 1..(n + 1 - i) PROVE r[j] = t[j]
  <2>1. CASE j = 1
    BY <1>1, <1>2, <1>5, <2>1
  <2>2. CASE j # 1
    <3>1. j - 1 \in 1..(n - i) /\ i + (j - 1) = i + j - 1 /\ (j - 1) + 1 = j
      BY <1>1, <2>2
    <3>2. r[j] = u[j - 1] /\ u[j - 1] = s[i + j - 1]
      BY <1>2, <1>5, <3>1
    <3>3. QED BY <1>2, <3>2
  <2>3. QED BY <2>1, <2>2
<1>7. Len(r) = Len(t)
  BY <1>1, <1>2, <1>5
<1>8. t = r
  BY <1>2, <1>5, <1>6, <1>7, SeqEqual
<1>9. QED BY <1>3, <1>8 DEF r, e

\* A value below another step.
LEMMA UnderIs ==
  ASSUME NEW value \in Value, NEW step \in Step
  PROVE  /\ Under(step, value) \in Value /\ Under(step, value).leaf = value.leaf
         /\ Under(step, value).steps = <<step>> \o value.steps
         /\ Len(Under(step, value).steps) = Len(value.steps) + 1
         /\ Under(step, value).steps[1] = step
         /\ \A j \in 1..Len(value.steps) : Under(step, value).steps[j + 1] = value.steps[j]
<1> DEFINE s == value.steps
           t == <<step>> \o s
<1>1. s \in Seq(Step) /\ Len(s) \in Nat /\ value.leaf \in Leaf
  BY DEF Value
<1>2. /\ t \in Seq(Step) /\ Len(t) = Len(s) + 1 /\ t[1] = step
      /\ \A j \in 1..Len(s) : t[j + 1] = s[j]
  BY <1>1, PrependIs
<1>3. Under(step, value) = [value EXCEPT !.steps = t]
  BY DEF Under
<1> HIDE DEF t
<1>4. QED BY <1>1, <1>2, <1>3 DEF Value, t

\* What is shown of what is hidden.
LEMMA RedactedIs ==
  /\ Redacted \in Value /\ Redacted.steps = <<>> /\ Len(Redacted.steps) = 0
  /\ Redacted.leaf = "[REDACTED]"
BY DEF Redacted, Value, Leaf

\* A hidden value has one step.
LEMMA HiddenIs ==
  ASSUME NEW step \in Step
  PROVE  /\ Under(step, Redacted) \in Value /\ Len(Under(step, Redacted).steps) = 1
         /\ Under(step, Redacted).leaf = "[REDACTED]"
<1>1. /\ Under(step, Redacted) \in Value /\ Under(step, Redacted).leaf = Redacted.leaf
      /\ Len(Under(step, Redacted).steps) = Len(Redacted.steps) + 1
  BY RedactedIs, UnderIs
<1>2. QED BY <1>1, RedactedIs
-----------------------------------------------------------------------------
(* One step of redaction.                                                  *)

\* Headers become an object with the same field.
LEMMA HeadersIs ==
  ASSUME NEW sanitizer, NEW value \in Value, value.steps # <<>>, value.steps[1].in = "headers"
  PROVE  /\ Headers(sanitizer, value) \in Value
         /\ IsSensitive(sanitizer, value.steps[1].key)
              => /\ Len(Headers(sanitizer, value).steps) = 1
                 /\ Headers(sanitizer, value).leaf = "[REDACTED]"
         /\ ~IsSensitive(sanitizer, value.steps[1].key)
              => Headers(sanitizer, value).leaf = value.leaf
<1> DEFINE field == [in |-> "object", key |-> value.steps[1].key]
<1>1. value.steps[1] \in Step
  BY DEF Value
<1>2. field \in Step /\ field.key = value.steps[1].key
  BY <1>1 DEF Step, FieldStep
<1>3. Len(value.steps) \in Nat \ {0}
  BY DEF Value
<1>4. From(value, 2) \in Value /\ From(value, 2).leaf = value.leaf
  BY <1>3, FromIs
<1>5. Headers(sanitizer, value)
        = Under(field, IF IsSensitive(sanitizer, field.key) THEN Redacted ELSE From(value, 2))
  BY DEF Headers
<1> HIDE DEF field
<1>6. CASE IsSensitive(sanitizer, field.key)
  <2>1. Headers(sanitizer, value) = Under(field, Redacted)
    BY <1>5, <1>6
  <2>2. QED BY <1>2, <1>6, <2>1, HiddenIs
<1>7. CASE ~IsSensitive(sanitizer, field.key)
  <2>1. Headers(sanitizer, value) = Under(field, From(value, 2))
    BY <1>5, <1>7
  <2>2. Under(field, From(value, 2)) \in Value
        /\ Under(field, From(value, 2)).leaf = From(value, 2).leaf
    BY <1>2, <1>4, UnderIs
  <2>3. QED BY <1>2, <1>4, <1>7, <2>1, <2>2
<1>8. QED BY <1>6, <1>7

\* Whether a step is a field with a sensitive key.
Secret(sanitizer, step) == step.in \in {"object", "headers"} /\ IsSensitive(sanitizer, step.key)

\* What is not looked into is shown, but for dates.
Shown(r, value) ==
  /\ r \in Value /\ r.steps = value.steps
  /\ r.leaf = value.leaf \/ (value.leaf = "date" /\ r.leaf = "{}")

\* A leaf is shown, and so is a value at the limit.
LEMMA UntouchedIs ==
  ASSUME NEW value \in Value, NEW depth PROVE Shown(Untouched(value, depth), value)
<1> DEFINE empty == [steps |-> <<>>, leaf |-> "{}"]
<1>1. empty.steps = <<>> /\ empty.leaf = "{}" /\ empty \in Value
  <2>1. <<>> \in Seq(Step) /\ "{}" \in Leaf
    BY DEF Leaf
  <2>2. QED BY <2>1 DEF Value
<1>2. CASE depth < MaxDepth /\ value.steps = <<>> /\ value.leaf = "date"
  <2>1. Untouched(value, depth) = empty
    BY <1>2, Zenon DEF Untouched
  <2> HIDE DEF empty
  <2>2. QED BY <1>1, <1>2, <2>1 DEF Shown
<1>3. CASE ~(depth < MaxDepth /\ value.steps = <<>> /\ value.leaf = "date")
  <2>1. Untouched(value, depth) = value
    BY <1>3, Zenon DEF Untouched
  <2>2. QED BY <2>1 DEF Shown
<1>4. QED BY <1>2, <1>3

\* A hidden entry ends what is shown.
Ends(r) == r \in Value /\ Len(r.steps) = 1 /\ r.leaf = "[REDACTED]"

\* A field of Headers with a sensitive key is hidden.
LEMMA SecretHeader ==
  ASSUME NEW sanitizer, NEW value \in Value, value.steps # <<>>,
         value.steps[1].in = "headers", Secret(sanitizer, value.steps[1])
  PROVE  Ends(Headers(sanitizer, value))
BY HeadersIs DEF Secret, Ends

\* Another field of Headers keeps its value.
LEMMA OpenHeader ==
  ASSUME NEW sanitizer, NEW value \in Value, value.steps # <<>>,
         value.steps[1].in = "headers", ~Secret(sanitizer, value.steps[1])
  PROVE  Headers(sanitizer, value) \in Value /\ Headers(sanitizer, value).leaf = value.leaf
BY HeadersIs DEF Secret

\* A field of an object with a sensitive key is hidden as well.
LEMMA SecretEntry ==
  ASSUME NEW sanitizer, NEW step \in Step, NEW rest, step.in # "headers", Secret(sanitizer, step)
  PROVE  Ends(Entry(sanitizer, step, rest))
<1>1. Entry(sanitizer, step, rest) = Under(step, Redacted)
  BY DEF Entry, Secret
<1>2. QED BY <1>1, HiddenIs DEF Ends

\* Another entry has below it what redaction makes of the rest.
LEMMA OpenEntry ==
  ASSUME NEW sanitizer, NEW step \in Step, NEW rest, ~Secret(sanitizer, step)
  PROVE  Entry(sanitizer, step, rest) = Under(step, rest)
BY DEF Entry, Secret

\* A step of redaction makes a value.
LEMMA RedactedAtIs ==
  ASSUME NEW sanitizer, NEW value \in Value, NEW depth \in Nat, NEW rest \in Value
  PROVE  RedactedAt(sanitizer, value, depth, rest) \in Value
<1> DEFINE r == RedactedAt(sanitizer, value, depth, rest)
           step == value.steps[1]
<1>1. MaxDepth \in Nat /\ (value.steps # <<>> => step \in Step)
  BY DepthAssumption DEF Value
<1>2. CASE depth >= MaxDepth \/ value.steps = <<>>
  <2>1. r = Untouched(value, depth)
    BY <1>2, Zenon DEF RedactedAt
  <2>2. QED BY <2>1, UntouchedIs DEF Shown
<1>3. CASE ~(depth >= MaxDepth) /\ value.steps # <<>> /\ step.in = "headers"
  <2>1. r = Headers(sanitizer, value)
    BY <1>3, Zenon DEF RedactedAt
  <2>2. CASE Secret(sanitizer, step)
    BY <1>3, <2>1, <2>2, SecretHeader DEF Ends
  <2>3. CASE ~Secret(sanitizer, step)
    BY <1>3, <2>1, <2>3, OpenHeader
  <2>4. QED BY <2>2, <2>3
<1>4. CASE ~(depth >= MaxDepth) /\ value.steps # <<>> /\ step.in # "headers"
  <2>1. r = Entry(sanitizer, step, rest)
    BY <1>4, Zenon DEF RedactedAt
  <2> HIDE DEF step, r
  <2>2. r \in Value
    <3>1. CASE Secret(sanitizer, step)
      BY <1>1, <1>4, <2>1, <3>1, SecretEntry DEF Ends
    <3>2. CASE ~Secret(sanitizer, step)
      <4>1. r = Under(step, rest) /\ step \in Step
        BY <1>1, <1>4, <2>1, <3>2, OpenEntry
      <4>2. QED BY <4>1, UnderIs
    <3>3. QED BY <3>1, <3>2
  <2>3. QED BY <2>2 DEF r
<1>5. QED BY <1>2, <1>3, <1>4
-----------------------------------------------------------------------------
(* Redaction of a value.                                                   *)

\* f[i] is what redaction makes of a value from step i on.
Redacts(f, sanitizer, value, depth) ==
  /\ f \in [1..(Len(value.steps) + 1) -> Value]
  /\ \A i \in 1..(Len(value.steps) + 1) :
       f[i] = RedactedAt(sanitizer, From(value, i), depth + i - 1, f[i + 1])

\* The recursion of Redact is well-founded.
LEMMA RedactIs ==
  ASSUME NEW sanitizer, NEW value \in Value, NEW depth \in Nat
  PROVE  \E f : Redacts(f, sanitizer, value, depth) /\ Redact(sanitizer, value, depth) = f[1]
<1> DEFINE n == Len(value.steps)
           D == 1..(n + 1)
           At(i, rest) == RedactedAt(sanitizer, From(value, i), depth + i - 1, rest)
           redact == CHOOSE f : f = [i \in D |-> At(i, f[i + 1])]
<1>1. Redact(sanitizer, value, depth) = redact[1]
  BY DEF Redact
<1>2. n \in Nat
  BY DEF Value
<1>3. ASSUME NEW i \in D, NEW rest \in Value PROVE At(i, rest) \in Value
  <2>1. From(value, i) \in Value /\ depth + i - 1 \in Nat
    BY <1>2, FromIs
  <2>2. QED BY <2>1, RedactedAtIs
<1>4. ASSUME NEW rest PROVE At(n + 1, rest) = Untouched(From(value, n + 1), depth + n)
  <2>1. From(value, n + 1).steps = <<>> /\ depth + (n + 1) - 1 = depth + n
    BY <1>2, FromIs
  <2>2. QED BY <2>1, Zenon DEF RedactedAt
<1> DEFINE last == At(n + 1, value)
           step == [i \in 1..n |-> [v \in Value |-> At(i, v)]]
<1> HIDE DEF At
<1>5. last \in Value /\ step \in [1..n -> [Value -> Value]]
  BY <1>2, <1>3
<1>6. PICK f : Descends(f, Value, n, last, step)
  <2> HIDE DEF last, step, n
  <2>1. n \in Nat /\ last \in Value /\ step \in [1..n -> [Value -> Value]]
    BY <1>2, <1>5
  <2>2. QED BY <2>1, DownwardRecursion, Zenon
<1>7. f \in [D -> Value] /\ f[n + 1] = last /\ \A i \in 1..n : f[i] = step[i][f[i + 1]]
  BY <1>6 DEF Descends
<1>8. ASSUME NEW i \in D PROVE f[i] = At(i, f[i + 1])
  <2>1. CASE i = n + 1
    <3>1. At(n + 1, f[n + 2]) = At(n + 1, value)
      BY <1>4
    <3>2. i + 1 = n + 2
      BY <1>2, <2>1
    <3>3. QED BY <1>7, <2>1, <3>1, <3>2
  <2>2. CASE i \in 1..n
    <3>1. f[i + 1] \in Value
      BY <1>2, <1>7, <2>2
    <3>2. QED BY <1>7, <2>2, <3>1
  <2>3. QED BY <1>2, <2>1, <2>2
<1>9. f = [i \in D |-> At(i, f[i + 1])]
  BY <1>7, <1>8
<1>10. redact = [i \in D |-> At(i, redact[i + 1])]
  BY <1>9, Zenon
<1> HIDE DEF redact
<1>11. DOMAIN redact = D /\ \A i \in D : redact[i] = At(i, redact[i + 1])
  BY <1>10
<1>12. ASSUME NEW i \in D PROVE redact[i] \in Value
  <2> DEFINE P == {j \in 0..(n + 1) : j = 0 \/ redact[j] \in Value}
  <2>1. n + 1 \in P
    BY <1>2, <1>4, <1>5, <1>11
  <2>2. ASSUME NEW j \in Nat, j < n + 1, j + 1 \in P PROVE j \in P
    <3>1. CASE j = 0
      BY <1>2, <3>1
    <3>2. CASE j # 0
      <4>1. j \in D /\ redact[j + 1] \in Value
        BY <1>2, <2>2, <3>2
      <4>2. QED BY <1>3, <1>11, <4>1
    <3>3. QED BY <3>1, <3>2
  <2> HIDE DEF P
  <2>3. 0..(n + 1) \subseteq P
    <3>1. n + 1 \in Nat
      BY <1>2
    <3>2. QED BY <2>1, <2>2, <3>1, DownwardInduction
  <2>4. QED BY <1>2, <2>3 DEF P
<1>13. redact \in [D -> Value]
  BY <1>10, <1>12
<1>14. Redacts(redact, sanitizer, value, depth)
  BY <1>11, <1>13 DEF Redacts, At
<1>15. QED BY <1>1, <1>14

\* The steps of a value, from step i on, that redaction at this depth gets to.
Reaches(value, depth, i) ==
  {j \in i..Len(value.steps) :
     depth + j - 1 < MaxDepth /\ \A m \in i..(j - 1) : value.steps[m].in # "headers"}

\* A secret that redaction gets to ends what is shown.
HidesSecrets(shown, sanitizer, value, depth, i) ==
  \A j \in Reaches(value, depth, i) :
    Secret(sanitizer, value.steps[j]) => Len(shown.steps) <= j - i + 1 /\ shown.leaf = "[REDACTED]"

\* Without a secret and without Headers all is shown, but for dates.
ShowsOthers(shown, sanitizer, value, depth, i) ==
  /\ \A j \in i..Len(value.steps) : value.steps[j].in # "headers"
  /\ \A j \in Reaches(value, depth, i) : ~Secret(sanitizer, value.steps[j])
  => /\ shown.steps = From(value, i).steps
     /\ shown.leaf = value.leaf \/ (value.leaf = "date" /\ shown.leaf = "{}")

RedactsWell(shown, sanitizer, value, depth, i) ==
  /\ HidesSecrets(shown, sanitizer, value, depth, i)
  /\ ShowsOthers(shown, sanitizer, value, depth, i)
  /\ shown.leaf \in {value.leaf, "[REDACTED]", "{}"}

\* One step of redaction does so if what is made of the steps behind does.
LEMMA RedactsStep ==
  ASSUME NEW sanitizer, NEW value \in Value, NEW depth \in Nat,
         NEW f, Redacts(f, sanitizer, value, depth),
         NEW i \in 1..Len(value.steps), RedactsWell(f[i + 1], sanitizer, value, depth, i + 1)
  PROVE  RedactsWell(f[i], sanitizer, value, depth, i)
<1> DEFINE n == Len(value.steps)
           step == value.steps[i]
           rest == f[i + 1]
           d == depth + i - 1
           shown == f[i]
           behind == From(value, i)
<1>1. n \in Nat /\ d \in Nat /\ MaxDepth \in Nat /\ i + 1 \in 1..(n + 1) /\ i \in 1..(n + 1)
  BY DepthAssumption DEF Value
<1>2. rest \in Value /\ shown = RedactedAt(sanitizer, behind, d, rest)
  BY <1>1 DEF Redacts
<1>3. /\ behind \in Value /\ behind.leaf = value.leaf
      /\ behind.steps # <<>> /\ behind.steps[1] = step
      /\ behind.steps = <<step>> \o From(value, i + 1).steps
  <2>1. behind.steps = <<step>> \o From(value, i + 1).steps
    BY FromSteps
  <2>2. i # n + 1 /\ i <= n
    BY <1>1
  <2>3. QED BY <1>1, <2>1, <2>2, FromIs
<1>4. step \in Step
  BY DEF Value
<1> HIDE DEF rest, behind, step
<1> HIDE DEF d
<1>5. i \in Reaches(value, depth, i) <=> ~(d >= MaxDepth)
  BY <1>1 DEF Reaches, d
<1>6. CASE d >= MaxDepth
  <2>1. shown = Untouched(behind, d)
    BY <1>2, <1>6, Zenon DEF RedactedAt
  <2>2. Shown(shown, behind)
    BY <1>3, <2>1, UntouchedIs
  <2>3. Reaches(value, depth, i) = {}
    BY <1>1, <1>6 DEF Reaches, d
  <2>4. QED BY <1>3, <2>2, <2>3 DEF RedactsWell, HidesSecrets, ShowsOthers, Shown, behind
<1>7. CASE ~(d >= MaxDepth) /\ Secret(sanitizer, step)
  <2>1. Ends(shown)
    <3>1. CASE step.in = "headers"
      <4>1. shown = Headers(sanitizer, behind)
        BY <1>2, <1>7, <1>3, <3>1, Zenon DEF RedactedAt
      <4>2. QED BY <1>7, <1>3, <3>1, <4>1, SecretHeader
    <3>2. CASE step.in # "headers"
      <4>1. shown = Entry(sanitizer, step, rest)
        BY <1>2, <1>7, <1>3, <3>2, Zenon DEF RedactedAt
      <4>2. QED BY <1>7, <1>4, <3>2, <4>1, SecretEntry
    <3>3. QED BY <3>1, <3>2
  <2>2. i \in Reaches(value, depth, i)
    BY <1>7, <1>5
  <2>3. \A j \in Reaches(value, depth, i) : 1 <= j - i + 1
    BY <1>1 DEF Reaches
  <2>4. QED BY <1>7, <2>1, <2>2, <2>3 DEF RedactsWell, HidesSecrets, ShowsOthers, step, Ends
<1>8. CASE ~(d >= MaxDepth) /\ ~Secret(sanitizer, step) /\ step.in = "headers"
  <2>1. shown.leaf = value.leaf
    <3>1. shown = Headers(sanitizer, behind)
      BY <1>2, <1>8, <1>3, Zenon DEF RedactedAt
    <3>2. QED BY <1>8, <1>3, <3>1, OpenHeader
  <2>2. \A j \in Reaches(value, depth, i) : j = i
    <3>1. ASSUME NEW j \in Reaches(value, depth, i), j # i PROVE FALSE
      <4>1. j \in i..n /\ \A m \in i..(j - 1) : value.steps[m].in # "headers"
        BY <3>1 DEF Reaches
      <4>2. i \in i..(j - 1)
        BY <1>1, <3>1, <4>1
      <4>3. QED BY <1>8, <4>1, <4>2 DEF step
    <3>2. QED BY <3>1
  <2>3. i \in i..n
    BY <1>1
  <2>4. QED BY <1>8, <2>1, <2>2, <2>3 DEF RedactsWell, HidesSecrets, ShowsOthers, step
<1>9. CASE ~(d >= MaxDepth) /\ ~Secret(sanitizer, step) /\ step.in # "headers"
  <2>1. /\ shown.leaf = rest.leaf /\ shown.steps = <<step>> \o rest.steps
        /\ Len(shown.steps) = Len(rest.steps) + 1
    <3>1. shown = Entry(sanitizer, step, rest)
      BY <1>2, <1>9, <1>3, Zenon DEF RedactedAt
    <3>2. shown = Under(step, rest)
      BY <1>9, <1>4, <3>1, OpenEntry
    <3>3. QED BY <1>2, <1>4, <3>2, UnderIs
  <2>2. Len(rest.steps) \in Nat
    BY <1>2 DEF Value
  <2>3. ASSUME NEW j \in Reaches(value, depth, i)
        PROVE  j = i \/ j \in Reaches(value, depth, i + 1)
    BY <1>1, <2>3 DEF Reaches
  <2>4. ASSUME NEW j \in Reaches(value, depth, i + 1) PROVE j \in Reaches(value, depth, i)
    <3>1. j \in i..n /\ depth + j - 1 < MaxDepth
      BY <1>1 DEF Reaches
    <3>2. \A m \in i..(j - 1) : value.steps[m].in # "headers"
      BY <1>1, <1>9, <2>4 DEF Reaches, step
    <3>3. QED BY <3>1, <3>2 DEF Reaches
  <2>5. HidesSecrets(f[i], sanitizer, value, depth, i)
    <3>1. SUFFICES ASSUME NEW j \in Reaches(value, depth, i), Secret(sanitizer, value.steps[j])
                   PROVE  Len(f[i].steps) <= j - i + 1 /\ f[i].leaf = "[REDACTED]"
      BY DEF HidesSecrets
    <3>2. j \in Reaches(value, depth, i + 1)
      BY <1>9, <2>3, <3>1 DEF step
    <3>3. Len(rest.steps) <= j - (i + 1) + 1 /\ rest.leaf = "[REDACTED]"
      BY <3>1, <3>2 DEF RedactsWell, HidesSecrets, rest
    <3>4. j \in Nat
      BY <1>1 DEF Reaches
    <3>5. QED BY <1>1, <2>1, <2>2, <3>3, <3>4
  <2>6. ShowsOthers(f[i], sanitizer, value, depth, i)
    <3>1. SUFFICES ASSUME \A j \in i..n : value.steps[j].in # "headers",
                          \A j \in Reaches(value, depth, i) : ~Secret(sanitizer, value.steps[j])
                   PROVE  /\ f[i].steps = From(value, i).steps
                          /\ f[i].leaf = value.leaf \/ (value.leaf = "date" /\ f[i].leaf = "{}")
      BY DEF ShowsOthers
    <3>2. \A j \in (i + 1)..n : value.steps[j].in # "headers"
      BY <1>1, <3>1
    <3>3. \A j \in Reaches(value, depth, i + 1) : ~Secret(sanitizer, value.steps[j])
      BY <2>4, <3>1
    <3>4. /\ rest.steps = From(value, i + 1).steps
          /\ rest.leaf = value.leaf \/ (value.leaf = "date" /\ rest.leaf = "{}")
      BY <3>2, <3>3 DEF RedactsWell, ShowsOthers, rest
    <3>5. QED BY <1>3, <2>1, <3>4 DEF behind
  <2>7. QED BY <2>1, <2>5, <2>6 DEF RedactsWell, rest
<1>10. QED BY <1>1, <1>6, <1>7, <1>8, <1>9

(***************************************************************************)
(* Redaction of a whole value ends it at the first secret that it gets to, *)
(* and shows one without secrets and Headers as it was, but for dates: for *)
(* any number of steps, at any depth and whatever names are sensitive.     *)
(***************************************************************************)
THEOREM RedactionTells ==
  ASSUME NEW sanitizer, NEW value \in Value, NEW depth \in Nat
  PROVE  /\ Redact(sanitizer, value, depth) \in Value
         /\ RedactsWell(Redact(sanitizer, value, depth), sanitizer, value, depth, 1)
<1> DEFINE n == Len(value.steps)
<1>1. PICK f : Redacts(f, sanitizer, value, depth) /\ Redact(sanitizer, value, depth) = f[1]
  BY RedactIs
<1>2. n \in Nat
  BY DEF Value
<1> DEFINE P == {j \in 0..(n + 1) : j = 0 \/ RedactsWell(f[j], sanitizer, value, depth, j)}
<1>3. n + 1 \in P
  <2>1. f[n + 1] = RedactedAt(sanitizer, From(value, n + 1), depth + (n + 1) - 1, f[n + 2])
    BY <1>1, <1>2, SMTT(30) DEF Redacts
  <2>2. From(value, n + 1) \in Value /\ From(value, n + 1).leaf = value.leaf
        /\ From(value, n + 1).steps = <<>> /\ depth + (n + 1) - 1 \in Nat
    BY <1>2, FromIs
  <2> DEFINE behind == From(value, n + 1)
             d == depth + (n + 1) - 1
  <2>3. Shown(f[n + 1], behind)
    <3>1. f[n + 1] = RedactedAt(sanitizer, behind, d, f[n + 2]) /\ d \in Nat
      BY <2>1, <2>2
    <3>2. behind \in Value /\ behind.steps = <<>>
      BY <2>2
    <3> HIDE DEF behind, d
    <3>3. f[n + 1] = Untouched(behind, d)
      BY <3>1, <3>2, Zenon DEF RedactedAt
    <3>4. QED BY <3>2, <3>3, UntouchedIs
  <2>4. Reaches(value, depth, n + 1) = {}
    BY <1>2 DEF Reaches
  <2>5. RedactsWell(f[n + 1], sanitizer, value, depth, n + 1)
    BY <2>2, <2>3, <2>4 DEF RedactsWell, HidesSecrets, ShowsOthers, Shown
  <2>6. QED BY <1>2, <2>5
<1>4. ASSUME NEW j \in Nat, j < n + 1, j + 1 \in P PROVE j \in P
  <2>1. CASE j = 0
    BY <1>2, <2>1
  <2>2. CASE j # 0
    <3>1. j \in 1..n /\ RedactsWell(f[j + 1], sanitizer, value, depth, j + 1)
      BY <1>2, <1>4, <2>2
    <3>2. RedactsWell(f[j], sanitizer, value, depth, j)
      BY <1>1, <3>1, RedactsStep
    <3>3. QED BY <1>2, <3>1, <3>2
  <2>3. QED BY <2>1, <2>2
<1> HIDE DEF P
<1>5. 0..(n + 1) \subseteq P
  <2>1. n + 1 \in Nat
    BY <1>2
  <2>2. QED BY <1>3, <1>4, <2>1, DownwardInduction
<1>6. 1 \in P /\ f[1] \in Value
  BY <1>1, <1>2, <1>5 DEF Redacts
<1>7. QED BY <1>1, <1>6 DEF P
-----------------------------------------------------------------------------
(* Loggers.                                                                *)

\* Attributes of a logger: what it was given, or what was spread.
Attrs == BaseAttrs \cup UNION {[keys -> {v \in Value : WellFormed(v)}] : keys \in SUBSET Key}

Record == [parent : LoggerId, given : BaseAttrs, level : Level, sanitizer : Sanitizer, base : Attrs]

TypeOK ==
  /\ logger \in [LoggerId -> {None} \cup Record]
  /\ testMode \in BOOLEAN

\* base has what is above and, for the rest, what is below.
Overlays(base, above, below) ==
  /\ DOMAIN base = DOMAIN below \cup DOMAIN above
  /\ \A k \in DOMAIN above : base[k] = above[k]
  /\ \A k \in DOMAIN below : k \notin DOMAIN above => base[k] = below[k]

(***************************************************************************)
(* A logger has its own attributes over those of its parent, and that      *)
(* one's sanitizer.  The logger that initLogger made is its own parent.    *)
(***************************************************************************)
Inherits(m) ==
  /\ logger[m].parent \in Loggers
  /\ logger[m].sanitizer = logger[logger[m].parent].sanitizer
  /\ Overlays(logger[m].base, logger[m].given, logger[logger[m].parent].base)

\* rank[m] is the number of loggers between m and the one that initLogger made.
Ranks(rank) ==
  /\ rank \in [Loggers -> 0..(Cardinality(Loggers) - 1)]
  /\ \A m \in Loggers :
       /\ rank[m] = 0 => logger[m].parent = m /\ logger[m].base = logger[m].given
       /\ rank[m] # 0 => rank[logger[m].parent] = rank[m] - 1

IInv ==
  /\ TypeOK
  /\ \A m \in Loggers : Inherits(m)
  /\ \E rank : Ranks(rank)

\* What is in Attrs is attributes.
LEMMA AttrsAre ==
  ASSUME NEW attrs \in Attrs \cup CallAttrs
  PROVE  DOMAIN attrs \subseteq Key /\ \A k \in DOMAIN attrs : attrs[k] \in Value /\ WellFormed(attrs[k])
<1>1. CASE attrs \in BaseAttrs \cup CallAttrs
  <2>1. DOMAIN attrs \subseteq Key /\ \A k \in DOMAIN attrs : WellFormed(attrs[k])
    BY <1>1, AttrsAssumption
  <2>2. QED BY <2>1 DEF WellFormed
<1>2. CASE attrs \notin BaseAttrs \cup CallAttrs
  <2>1. PICK keys \in SUBSET Key : attrs \in [keys -> {v \in Value : WellFormed(v)}]
    BY <1>2 DEF Attrs
  <2> HIDE DEF WellFormed
  <2>2. QED BY <2>1
<1>3. QED BY <1>1, <1>2

\* Spreading attributes over others.
LEMMA SpreadIs ==
  ASSUME NEW base \in Attrs, NEW attrs \in BaseAttrs \cup CallAttrs
  PROVE  Spread(base, attrs) \in Attrs /\ Overlays(Spread(base, attrs), attrs, base)
<1> DEFINE s == Spread(base, attrs)
           keys == DOMAIN base \cup DOMAIN attrs
           Fit == {v \in Value : WellFormed(v)}
<1>1. DOMAIN s = keys
  BY DEF Spread
<1>2. \A k \in DOMAIN attrs : s[k] = attrs[k]
  BY DEF Spread
<1>3. \A k \in DOMAIN base : k \notin DOMAIN attrs => s[k] = base[k]
  BY DEF Spread
<1>4. /\ DOMAIN base \subseteq Key /\ \A k \in DOMAIN base : base[k] \in Fit
      /\ DOMAIN attrs \subseteq Key /\ \A k \in DOMAIN attrs : attrs[k] \in Fit
  BY AttrsAre DEF Attrs
<1>5. s = [k \in keys |-> s[k]]
  BY DEF Spread
<1> HIDE DEF s, Fit
<1>6. \A k \in keys : s[k] \in Fit
  BY <1>2, <1>3, <1>4
<1>7. s \in [keys -> Fit] /\ keys \in SUBSET Key
  BY <1>4, <1>5, <1>6
<1> HIDE DEF keys
<1>8. s \in Attrs
  BY <1>7 DEF Attrs, Fit
<1>9. QED BY <1>1, <1>2, <1>3, <1>8 DEF Overlays, s, keys

\* The invariant is about the loggers alone.
LEMMA Leaves ==
  ASSUME IInv, logger' = logger, testMode' \in BOOLEAN PROVE IInv'
<1>1. TypeOK'
  BY DEF IInv, TypeOK
<1>2. Loggers' = Loggers
  BY DEF Loggers
<1>3. ASSUME NEW m \in Loggers' PROVE Inherits(m)'
  BY <1>2, <1>3 DEF IInv, Inherits
<1>4. PICK rank : Ranks(rank)
  BY DEF IInv
<1>5. Ranks(rank)'
  BY <1>2, <1>4 DEF Ranks
<1>6. QED BY <1>1, <1>3, <1>5 DEF IInv

\* A new logger keeps the invariant.
LEMMA Adds ==
  ASSUME IInv, NEW m \in LoggerId, logger[m] = None, NEW record \in Record,
         \/ record.parent = m /\ record.base = record.given
         \/ /\ record.parent \in Loggers
            /\ record.sanitizer = logger[record.parent].sanitizer
            /\ Overlays(record.base, record.given, logger[record.parent].base),
         logger' = [logger EXCEPT ![m] = record], testMode' = testMode
  PROVE  IInv'
<1> DEFINE p == record.parent
<1>1. TypeOK'
  BY DEF IInv, TypeOK
<1>2. CASE record = None
  <2>1. logger' = logger /\ testMode' \in BOOLEAN
    BY <1>2 DEF IInv, TypeOK
  <2>2. QED BY <2>1, Leaves
<1>3. CASE record # None
  <2>1. DOMAIN logger = LoggerId /\ logger'[m] = record
    BY DEF IInv, TypeOK
  <2>2. \A x \in LoggerId : x # m => logger'[x] = logger[x]
    BY DEF IInv, TypeOK
  <2>3. Loggers' = Loggers \cup {m} /\ m \notin Loggers /\ Loggers \subseteq LoggerId
    BY <1>3, <2>1, <2>2 DEF Loggers
  <2>4. \A x \in Loggers : logger'[x] = logger[x]
    BY <2>2, <2>3
  <2>5. IsFiniteSet(Loggers) /\ Cardinality(Loggers) \in Nat /\ Cardinality(Loggers') = Cardinality(Loggers) + 1
    BY <2>3, LoggerAssumption, FS_Subset, FS_AddElement, FS_CardinalityType
  <2>6. PICK rank : Ranks(rank)
    BY DEF IInv
  <2>7. \A x \in Loggers : logger[x].parent \in Loggers
    BY DEF IInv, Inherits
  <2>8. ASSUME NEW x \in Loggers' PROVE Inherits(x)'
    <3>1. CASE x \in Loggers
      <4>1. Inherits(x) /\ logger[x].parent \in Loggers
        BY <3>1 DEF IInv, Inherits
      <4>2. QED BY <2>3, <2>4, <3>1, <4>1 DEF Inherits
    <3>2. CASE x = m /\ p = m
      <4>1. Overlays(record.base, record.given, record.base)
        <5>1. record.base = record.given
          BY <2>3, <3>2
        <5>2. QED BY <5>1 DEF Overlays
      <4>2. QED BY <2>1, <2>3, <3>2, <4>1 DEF Inherits
    <3>3. CASE x = m /\ p # m
      <4>1. /\ p \in Loggers /\ record.sanitizer = logger[p].sanitizer
            /\ Overlays(record.base, record.given, logger[p].base)
        BY <3>3
      <4>2. QED BY <2>1, <2>3, <2>4, <3>3, <4>1 DEF Inherits
    <3>4. QED BY <2>3, <3>1, <3>2, <3>3
  <2> DEFINE new == IF p = m THEN 0 ELSE rank[p] + 1
             next == [x \in Loggers \cup {m} |-> IF x = m THEN new ELSE rank[x]]
             top == Cardinality(Loggers)
  <2>9. \A x \in Loggers : rank[x] \in 0..(top - 1)
    BY <2>6 DEF Ranks
  <2>10. new \in 0..top
    <3>1. CASE p = m
      BY <2>5, <3>1
    <3>2. CASE p # m
      <4>1. rank[p] \in 0..(top - 1)
        BY <2>9, <3>2
      <4>2. QED BY <2>5, <3>2, <4>1
    <3>3. QED BY <3>1, <3>2
  <2>11. next \in [Loggers' -> 0..(Cardinality(Loggers') - 1)]
    <3>1. Cardinality(Loggers') - 1 = top
      BY <2>5
    <3> HIDE DEF new, top
    <3>2. \A x \in Loggers' : next[x] \in 0..top
      <4>1. ASSUME NEW x \in Loggers', x # m PROVE rank[x] \in 0..top
        <5>1. rank[x] \in 0..(top - 1)
          BY <2>3, <2>9, <4>1
        <5>2. QED BY <2>5, <5>1 DEF top
      <4>2. m \in Loggers' /\ next[m] = new
        BY <2>3
      <4>3. \A x \in Loggers' : x # m => next[x] = rank[x]
        BY <2>3
      <4> HIDE DEF next
      <4>4. QED BY <2>10, <4>1, <4>2, <4>3
    <3>3. next = [x \in Loggers' |-> next[x]]
      BY <2>3
    <3> HIDE DEF next
    <3>4. QED BY <3>1, <3>2, <3>3
  <2>12. ASSUME NEW x \in Loggers'
         PROVE  /\ next[x] = 0 => logger'[x].parent = x /\ logger'[x].base = logger'[x].given
                /\ next[x] # 0 => next[logger'[x].parent] = next[x] - 1
    <3>1. CASE x # m
      <4>1. x \in Loggers /\ next[x] = rank[x] /\ logger'[x] = logger[x]
        BY <2>3, <2>4, <3>1
      <4>2. next[logger[x].parent] = rank[logger[x].parent]
        BY <2>3, <2>7, <4>1
      <4>3. /\ rank[x] = 0 => logger[x].parent = x /\ logger[x].base = logger[x].given
            /\ rank[x] # 0 => rank[logger[x].parent] = rank[x] - 1
        BY <2>6, <4>1 DEF Ranks
      <4>4. QED BY <4>1, <4>2, <4>3
    <3>2. CASE x = m /\ p = m
      <4>1. next[x] = 0 /\ logger'[x] = record
        BY <2>1, <3>2
      <4>2. record.base = record.given
        BY <2>3, <3>2
      <4>3. QED BY <3>2, <4>1, <4>2
    <3>3. CASE x = m /\ p # m
      <4>1. p \in Loggers /\ next[x] = rank[p] + 1 /\ logger'[x] = record
        BY <2>1, <3>3
      <4>2. next[p] = rank[p] /\ rank[p] \in Nat
        BY <2>3, <2>9, <4>1
      <4>3. QED BY <4>1, <4>2
    <3>4. QED BY <3>1, <3>2, <3>3
  <2> HIDE DEF next
  <2>13. PICK ranks : ranks = next
    OBVIOUS
  <2>14. Ranks(ranks)'
    BY <2>11, <2>12, <2>13 DEF Ranks
  <2>15. QED BY <1>1, <2>8, <2>14 DEF IInv
<1>4. QED BY <1>2, <1>3

\* The invariant holds initially.
LEMMA Initially == Init => IInv
<1> SUFFICES ASSUME Init PROVE IInv
  OBVIOUS
<1>1. Loggers = {}
  BY DEF Init, Loggers
<1>2. Ranks([m \in Loggers |-> 0])
  BY <1>1 DEF Ranks
<1>3. TypeOK
  BY DEF Init, TypeOK
<1>4. QED BY <1>1, <1>2, <1>3 DEF IInv

\* Every step keeps it.
LEMMA Inductive == IInv /\ [Next]_vars => IInv'
<1> SUFFICES ASSUME IInv, [Next]_vars PROVE IInv'
  OBVIOUS
<1>1. ASSUME NEW l \in LoggerId, NEW level \in Level, NEW sanitizer \in Sanitizer,
             NEW base \in BaseAttrs, InitLogger(l, level, sanitizer, base)
      PROVE  IInv'
  <2> DEFINE record == [parent |-> l, given |-> base, level |-> level,
                        sanitizer |-> sanitizer, base |-> base]
  <2>1. record \in Record /\ record.parent = l /\ record.base = record.given
    BY DEF Record, Attrs
  <2>2. logger[l] = None /\ logger' = [logger EXCEPT ![l] = record] /\ testMode' = testMode
    BY <1>1 DEF InitLogger
  <2> HIDE DEF record
  <2>3. QED BY <2>1, <2>2, Adds
<1>2. ASSUME NEW l \in LoggerId, NEW child \in LoggerId, NEW attrs \in BaseAttrs,
             With(l, child, attrs)
      PROVE  IInv'
  <2> DEFINE old == logger[l]
             record == [old EXCEPT !.parent = l, !.given = attrs, !.base = Spread(@, attrs)]
  <2>1. l \in Loggers /\ old \in Record
    BY <1>2 DEF With, Loggers, IInv, TypeOK
  <2>2. Spread(old.base, attrs) \in Attrs /\ Overlays(Spread(old.base, attrs), attrs, old.base)
    BY <2>1, SpreadIs DEF Record
  <2>3. /\ record \in Record /\ record.parent = l /\ record.given = attrs
        /\ record.base = Spread(old.base, attrs) /\ record.sanitizer = old.sanitizer
    BY <2>1, <2>2 DEF Record
  <2>4. logger[child] = None /\ logger' = [logger EXCEPT ![child] = record] /\ testMode' = testMode
    BY <1>2 DEF With
  <2> HIDE DEF record
  <2>5. /\ record.parent \in Loggers /\ record.sanitizer = logger[record.parent].sanitizer
        /\ Overlays(record.base, record.given, logger[record.parent].base)
    BY <2>1, <2>2, <2>3
  <2>6. QED BY <2>3, <2>4, <2>5, Adds
<1>3. CASE \E on \in BOOLEAN : SetModeTest(on)
  <2>1. logger' = logger /\ testMode' \in BOOLEAN
    BY <1>3 DEF SetModeTest
  <2>2. QED BY <2>1, Leaves
<1>4. CASE UNCHANGED vars
  <2>1. logger' = logger /\ testMode' \in BOOLEAN
    BY <1>4 DEF vars, IInv, TypeOK
  <2>2. QED BY <2>1, Leaves
<1>5. QED BY <1>1, <1>2, <1>3, <1>4 DEF Next

\* Every logger inherits from one that initLogger made, in a number of steps: for any loggers.
THEOREM Invariance == Spec => []IInv
<1>1. QED BY Initially, Inductive, PTL DEF Spec
-----------------------------------------------------------------------------
(* What a logger has inherited.                                            *)

\* The loggers from l up.
IsLine(up, l) ==
  /\ up \in [0..Cardinality(LoggerId) -> Loggers]
  /\ up[0] = l
  /\ \A n \in 1..Cardinality(LoggerId) : up[n] = logger[up[n - 1]].parent

\* The recursion of Ancestors is well-founded.
LEMMA AncestorsAre ==
  ASSUME IInv, NEW l \in Loggers PROVE IsLine(Ancestors(l), l)
<1> DEFINE C == Cardinality(LoggerId)
           next == [m \in Loggers |-> logger[m].parent]
           At(up, n) == IF n = 0 THEN l ELSE logger[up[n - 1]].parent
           line == CHOOSE up : up = [n \in 0..C |-> At(up, n)]
<1>1. Ancestors(l) = line
  BY DEF Ancestors
<1>2. C \in Nat
  BY LoggerAssumption, FS_CardinalityType
<1>3. next \in [Loggers -> Loggers]
  BY DEF IInv, Inherits
<1>4. PICK f : Ascends(f, Loggers, C, l, next)
  <2> HIDE DEF C, next
  <2>1. QED BY <1>2, <1>3, UpwardRecursion, Zenon
<1>5. ASSUME NEW n \in 0..C PROVE f[n] = At(f, n)
  <2>1. CASE n = 0
    BY <1>4, <2>1 DEF Ascends
  <2>2. CASE n # 0
    <3>1. n \in 1..C /\ n - 1 \in 0..C
      BY <1>2, <2>2
    <3>2. f[n] = next[f[n - 1]] /\ f[n - 1] \in Loggers
      BY <1>4, <3>1 DEF Ascends
    <3>3. QED BY <2>2, <3>2
  <2>3. QED BY <2>1, <2>2
<1>6. f = [n \in 0..C |-> At(f, n)]
  <2> HIDE DEF At, C
  <2>1. QED BY <1>4, <1>5 DEF Ascends
<1>7. line = [n \in 0..C |-> At(line, n)]
  BY <1>6, Zenon
<1> HIDE DEF line
<1>8. line[0] = l /\ \A n \in 1..C : line[n] = logger[line[n - 1]].parent
  BY <1>2, <1>7
<1> DEFINE P == {n \in Nat : n <= C => line[n] \in Loggers}
<1>9. 0 \in P
  BY <1>8
<1>10. ASSUME NEW n \in Nat, n \in P PROVE n + 1 \in P
  <2> SUFFICES ASSUME n + 1 <= C PROVE line[n + 1] \in Loggers
    OBVIOUS
  <2>1. n + 1 \in 1..C /\ line[n] \in Loggers /\ (n + 1) - 1 = n
    BY <1>2, <1>10
  <2>2. line[n + 1] = logger[line[n]].parent
    BY <1>8, <2>1
  <2>3. QED BY <2>1, <2>2 DEF IInv, Inherits
<1> HIDE DEF P
<1>11. Nat \subseteq P
  BY <1>9, <1>10, SetInduction
<1>12. \A n \in 0..C : line[n] \in Loggers
  BY <1>2, <1>11 DEF P
<1>13. line \in [0..C -> Loggers]
  BY <1>7, <1>12
<1>14. QED BY <1>1, <1>8, <1>13 DEF IsLine

\* Every logger on the way up has the sanitizer of l; the last has no parent but itself.
LEMMA AlongLine ==
  ASSUME IInv, NEW l \in Loggers, NEW up, IsLine(up, l), NEW n \in 0..Cardinality(LoggerId)
  PROVE  /\ logger[up[n]].sanitizer = logger[l].sanitizer
         /\ n = Cardinality(LoggerId) => logger[up[n]].base = logger[up[n]].given
<1> DEFINE C == Cardinality(LoggerId)
<1>1. C \in Nat /\ Cardinality(Loggers) \in Nat /\ Cardinality(Loggers) <= C
  <2>1. Loggers \subseteq LoggerId
    BY DEF Loggers
  <2>2. QED BY <2>1, LoggerAssumption, FS_Subset, FS_CardinalityType
<1>2. PICK rank : Ranks(rank)
  BY DEF IInv
<1>3. \A m \in Loggers : rank[m] \in Nat /\ rank[m] < C
  <2>1. \A m \in Loggers : rank[m] \in 0..(Cardinality(Loggers) - 1)
    BY <1>2 DEF Ranks
  <2>2. QED BY <1>1, <2>1
<1>4. \A i \in 0..C : up[i] \in Loggers
  BY DEF IsLine
<1> DEFINE P == {i \in Nat : i <= C =>
                   /\ logger[up[i]].sanitizer = logger[l].sanitizer
                   /\ rank[up[i]] = 0 \/ rank[up[i]] + i = rank[l]}
<1>5. 0 \in P
  <2>1. up[0] = l
    BY DEF IsLine
  <2>2. QED BY <1>3, <2>1
<1>6. ASSUME NEW i \in Nat, i \in P PROVE i + 1 \in P
  <2> SUFFICES ASSUME i + 1 <= C
               PROVE  /\ logger[up[i + 1]].sanitizer = logger[l].sanitizer
                      /\ rank[up[i + 1]] = 0 \/ rank[up[i + 1]] + (i + 1) = rank[l]
    OBVIOUS
  <2>1. i \in 0..C /\ i + 1 \in 1..C /\ (i + 1) - 1 = i
    BY <1>1
  <2>2. /\ logger[up[i]].sanitizer = logger[l].sanitizer
        /\ rank[up[i]] = 0 \/ rank[up[i]] + i = rank[l]
    BY <1>6, <2>1
  <2> DEFINE m == up[i]
  <2>3. m \in Loggers /\ up[i + 1] = logger[m].parent
    BY <1>4, <2>1 DEF IsLine
  <2> HIDE DEF m
  <2>4. logger[m].sanitizer = logger[logger[m].parent].sanitizer
    BY <2>3 DEF IInv, Inherits
  <2>5. /\ rank[m] = 0 => logger[m].parent = m
        /\ rank[m] # 0 => rank[logger[m].parent] = rank[m] - 1
    BY <1>2, <2>3 DEF Ranks
  <2>6. rank[m] \in Nat /\ rank[l] \in Nat
    BY <1>3, <2>3
  <2>7. QED BY <2>2, <2>3, <2>4, <2>5, <2>6 DEF m
<1> HIDE DEF P
<1>7. Nat \subseteq P
  BY <1>5, <1>6, SetInduction
<1>8. /\ logger[up[n]].sanitizer = logger[l].sanitizer
      /\ rank[up[n]] = 0 \/ rank[up[n]] + n = rank[l]
  BY <1>1, <1>7 DEF P
<1>9. ASSUME n = C PROVE logger[up[n]].base = logger[up[n]].given
  <2>1. up[n] \in Loggers /\ rank[up[n]] \in Nat /\ rank[l] < C
    BY <1>1, <1>3, <1>4
  <2>2. rank[up[n]] = 0
    BY <1>1, <1>3, <1>8, <1>9, <2>1
  <2>3. QED BY <1>2, <2>1, <2>2 DEF Ranks
<1>10. QED BY <1>8, <1>9

\* An attribute that none of the first n loggers was given is that of the next one.
LEMMA Inherited ==
  ASSUME IInv, NEW l \in Loggers, NEW up, IsLine(up, l), NEW n \in 0..Cardinality(LoggerId),
         NEW k, \A i \in 0..(n - 1) : k \notin DOMAIN logger[up[i]].given
  PROVE  /\ k \in DOMAIN logger[l].base <=> k \in DOMAIN logger[up[n]].base
         /\ k \in DOMAIN logger[l].base => logger[l].base[k] = logger[up[n]].base[k]
<1> DEFINE Same(i) == /\ k \in DOMAIN logger[l].base <=> k \in DOMAIN logger[up[i]].base
                      /\ k \in DOMAIN logger[l].base => logger[l].base[k] = logger[up[i]].base[k]
           P == {i \in Nat : i <= n => Same(i)}
<1>1. 0 \in P
  BY DEF IsLine
<1>2. ASSUME NEW i \in Nat, i \in P PROVE i + 1 \in P
  <2> SUFFICES ASSUME i + 1 <= n PROVE Same(i + 1)
    OBVIOUS
  <2>1. Cardinality(LoggerId) \in Nat
    BY LoggerAssumption, FS_CardinalityType
  <2>2. /\ i \in 0..(n - 1) /\ i \in 0..Cardinality(LoggerId)
        /\ i + 1 \in 1..Cardinality(LoggerId) /\ (i + 1) - 1 = i
    BY <2>1
  <2>3. Same(i) /\ up[i] \in Loggers /\ up[i + 1] = logger[up[i]].parent
    BY <1>2, <2>2 DEF IsLine
  <2>4. Overlays(logger[up[i]].base, logger[up[i]].given, logger[up[i + 1]].base)
    BY <2>3 DEF IInv, Inherits
  <2>5. k \notin DOMAIN logger[up[i]].given
    BY <2>2
  <2>6. QED BY <2>3, <2>4, <2>5 DEF Overlays
<1> HIDE DEF P, Same
<1>3. Nat \subseteq P
  BY <1>1, <1>2, SetInduction
<1>4. Same(n)
  BY <1>3 DEF P
<1>5. QED BY <1>4 DEF Same

\* The attributes of a call, then those that each logger on the way up was given.
LEMMA SourcesAre ==
  ASSUME IInv, NEW l \in Loggers, NEW attrs
  PROVE  LET sources == Sources(l, attrs)
             C       == Cardinality(LoggerId)
         IN  /\ DOMAIN sources = 1..(C + 2) /\ sources[1] = attrs
             /\ \A n \in 0..C : sources[n + 2] = logger[Ancestors(l)[n]].given
<1> DEFINE C == Cardinality(LoggerId)
           up == Ancestors(l)
           Given(n) == logger[up[n - 1]].given
           given == [n \in 1..(C + 1) |-> Given(n)]
           S == {attrs} \cup {Given(n) : n \in 1..(C + 1)}
<1>1. C \in Nat
  BY LoggerAssumption, FS_CardinalityType
<1> HIDE DEF C
<1> HIDE DEF Given
<1>2. given \in Seq(S) /\ Len(given) = C + 1
  BY <1>1
<1>3. attrs \in S
  OBVIOUS
<1>4. /\ <<attrs>> \o given \in Seq(S) /\ Len(<<attrs>> \o given) = (C + 1) + 1
      /\ (<<attrs>> \o given)[1] = attrs
      /\ \A j \in 1..(C + 1) : (<<attrs>> \o given)[j + 1] = given[j]
  <2> HIDE DEF S, given
  <2>1. QED BY <1>2, <1>3, PrependIs
<1>5. Sources(l, attrs) = <<attrs>> \o given
  BY DEF Sources, C, Given
<1> DEFINE sources == Sources(l, attrs)
<1>6. sources \in Seq(S) /\ Len(sources) = C + 2
  BY <1>1, <1>4, <1>5
<1>7. ASSUME NEW n \in 0..C PROVE sources[n + 2] = logger[up[n]].given
  <2>1. n + 1 \in 1..(C + 1) /\ (n + 1) + 1 = n + 2 /\ (n + 1) - 1 = n
    BY <1>1
  <2>2. given[n + 1] = Given(n + 1)
    BY <2>1
  <2>3. Given(n + 1) = logger[up[n]].given
    BY <2>1 DEF Given
  <2>4. QED BY <1>4, <1>5, <2>1, <2>2, <2>3
<1>8. DOMAIN sources = 1..(C + 2) /\ sources[1] = attrs
  BY <1>1, <1>4, <1>5, <1>6
<1>9. QED BY <1>7, <1>8 DEF C

\* The nearest source that has an attribute.
IsNearest(n, sources, k) ==
  /\ n \in DOMAIN sources /\ k \in DOMAIN sources[n]
  /\ \A m \in 1..(n - 1) : k \notin DOMAIN sources[m]

\* There is one if any source has the attribute.
LEMMA NearestExists ==
  ASSUME NEW N \in Nat, NEW sources, DOMAIN sources = 1..N, NEW k \in Named(sources)
  PROVE  \E n \in 1..N : IsNearest(n, sources, k)
<1> DEFINE T == {n \in 1..N : k \in DOMAIN sources[n]}
<1>1. T # {} /\ T \subseteq Nat
  BY DEF Named
<1> HIDE DEF T
<1>2. PICK n \in T : \A m \in T : n <= m
  BY <1>1, LeastMember
<1>3. QED BY <1>2 DEF T, IsNearest

\* What is meant by an attribute is what the nearest source has.
LEMMA NearestIs ==
  ASSUME NEW N \in Nat, NEW sources, DOMAIN sources = 1..N, NEW k, NEW n \in 1..N,
         IsNearest(n, sources, k)
  PROVE  Meant(sources, k) = Attribute(k, sources[n][k])
<1> DEFINE nearest == CHOOSE i \in DOMAIN sources :
                        k \in DOMAIN sources[i] /\ \A m \in 1..(i - 1) : k \notin DOMAIN sources[m]
<1>1. nearest = CHOOSE i : IsNearest(i, sources, k)
  BY DEF IsNearest
<1>2. IsNearest(nearest, sources, k)
  BY <1>1
<1>3. nearest \in 1..N
  BY <1>2 DEF IsNearest
<1>4. Meant(sources, k) = Attribute(k, sources[nearest][k])
  BY DEF Meant
<1> HIDE DEF nearest
<1>5. ~(nearest < n) /\ ~(n < nearest)
  BY <1>2, <1>3 DEF IsNearest
<1>6. QED BY <1>3, <1>4, <1>5

\* What a call spreads is what its sources mean.
LEMMA MergedIs ==
  ASSUME IInv, NEW l \in Loggers, NEW attrs \in CallAttrs
  PROVE  LET merged  == Spread(logger[l].base, attrs)
             sources == Sources(l, attrs)
         IN  /\ DOMAIN merged = Named(sources)
             /\ \A k \in Named(sources) :
                  /\ k \in Key /\ merged[k] \in Value /\ WellFormed(merged[k])
                  /\ Meant(sources, k) = Attribute(k, merged[k])
<1> DEFINE merged  == Spread(logger[l].base, attrs)
           sources == Sources(l, attrs)
           base    == logger[l].base
           C       == Cardinality(LoggerId)
           up      == Ancestors(l)
<1>1. C \in Nat /\ C + 2 \in Nat
  BY LoggerAssumption, FS_CardinalityType
<1>2. IsLine(up, l)
  BY AncestorsAre
<1>3. /\ DOMAIN sources = 1..(C + 2) /\ sources[1] = attrs
      /\ \A n \in 0..C : sources[n + 2] = logger[up[n]].given
  BY SourcesAre
<1>4. base \in Attrs
  BY DEF Loggers, IInv, TypeOK, Record
<1>5. merged \in Attrs /\ Overlays(merged, attrs, base)
  BY <1>4, SpreadIs
<1>6. \A k \in DOMAIN merged : k \in Key /\ merged[k] \in Value /\ WellFormed(merged[k])
  BY <1>5, AttrsAre
<1>7. \A n \in 0..C : up[n] \in Loggers
  BY <1>2 DEF IsLine
<1> HIDE DEF merged, sources, C, up
<1>8. ASSUME NEW k \in DOMAIN base, k \notin DOMAIN attrs PROVE k \in Named(sources)
  <2> SUFFICES ASSUME k \notin Named(sources) PROVE FALSE
    OBVIOUS
  <2>1. ASSUME NEW n \in 0..C PROVE k \notin DOMAIN logger[up[n]].given
    <3>1. n + 2 \in DOMAIN sources
      BY <1>1, <1>3
    <3>2. QED BY <1>3, <3>1 DEF Named
  <2>2. C \in 0..C /\ \A i \in 0..(C - 1) : i \in 0..C
    BY <1>1
  <2>3. k \in DOMAIN logger[up[C]].base
    <3>1. \A i \in 0..(C - 1) : k \notin DOMAIN logger[up[i]].given
      BY <2>1, <2>2
    <3>2. QED BY <1>2, <2>2, <3>1, Inherited DEF C
  <2>4. logger[up[C]].base = logger[up[C]].given
    BY <1>2, <2>2, AlongLine DEF C
  <2>5. QED BY <2>1, <2>2, <2>3, <2>4
<1>9. ASSUME NEW k \in Named(sources)
      PROVE  k \in DOMAIN merged /\ Meant(sources, k) = Attribute(k, merged[k])
  <2>1. PICK n \in 1..(C + 2) : IsNearest(n, sources, k)
    BY <1>1, <1>3, NearestExists
  <2>2. Meant(sources, k) = Attribute(k, sources[n][k])
    BY <1>1, <1>3, <2>1, NearestIs
  <2>3. CASE n = 1
    <3>1. k \in DOMAIN attrs /\ sources[n] = attrs
      BY <1>3, <2>1, <2>3 DEF IsNearest
    <3>2. k \in DOMAIN merged /\ merged[k] = attrs[k]
      BY <1>5, <3>1 DEF Overlays
    <3>3. QED BY <2>2, <3>1, <3>2
  <2>4. CASE n # 1
    <3> DEFINE m == n - 2
    <3>1. m \in 0..C /\ m + 2 = n /\ 1 \in 1..(n - 1)
      BY <1>1, <2>4
    <3>2. \A i \in 0..(m - 1) : i \in 0..C /\ i + 2 \in 1..(n - 1)
      BY <1>1, <3>1
    <3>3. k \notin DOMAIN attrs
      BY <1>3, <2>1, <3>1 DEF IsNearest
    <3>4. sources[n] = logger[up[m]].given
      BY <1>3, <3>1
    <3> HIDE DEF m
    <3>5. \A i \in 0..(m - 1) : k \notin DOMAIN logger[up[i]].given
      BY <1>3, <2>1, <3>2 DEF IsNearest
    <3>6. k \in DOMAIN logger[up[m]].given
      BY <2>1, <3>4 DEF IsNearest
    <3>7. up[m] \in Loggers
      BY <1>7, <3>1
    <3>8. k \in DOMAIN logger[up[m]].base /\ logger[up[m]].base[k] = logger[up[m]].given[k]
      BY <3>6, <3>7 DEF IInv, Inherits, Overlays
    <3>9. k \in DOMAIN base /\ base[k] = logger[up[m]].base[k]
      BY <1>2, <3>1, <3>5, <3>8, Inherited DEF C
    <3>10. k \in DOMAIN merged /\ merged[k] = base[k]
      BY <1>5, <3>3, <3>9 DEF Overlays
    <3>11. QED BY <2>2, <3>4, <3>8, <3>9, <3>10
  <2>5. QED BY <2>3, <2>4
<1>10. ASSUME NEW k \in DOMAIN merged PROVE k \in Named(sources)
  <2>1. CASE k \in DOMAIN attrs
    BY <1>1, <1>3, <2>1 DEF Named
  <2>2. CASE k \notin DOMAIN attrs
    BY <1>5, <1>8, <2>2 DEF Overlays
  <2>3. QED BY <2>1, <2>2
<1>11. DOMAIN merged = Named(sources)
  BY <1>9, <1>10
<1>12. QED BY <1>6, <1>9, <1>11 DEF merged, sources

-----------------------------------------------------------------------------
(* Lines.                                                                  *)

\* What JSON.stringify makes of a value.
LEMMA RenderedIs ==
  ASSUME NEW value \in Value
  PROVE  /\ Rendered(value) \in Value /\ Len(Rendered(value).steps) <= Len(value.steps)
         /\ Rendered(value).leaf \in {value.leaf, "text", "{}"}
         /\ value.leaf # "date" => Rendered(value).leaf \in {value.leaf, "{}"}
         /\ (\A i \in 1..Len(value.steps) : value.steps[i].in # "headers")
              => /\ Rendered(value).steps = value.steps
                 /\ value.leaf # "date" => Rendered(value).leaf = value.leaf
<1> DEFINE s == value.steps
           hidden == {i \in DOMAIN s : s[i].in = "headers"}
           first == CHOOSE i \in hidden : \A j \in hidden : i <= j
           cut == SubSeq(s, 1, first - 1)
<1>1. s \in Seq(Step) /\ Len(s) \in Nat /\ DOMAIN s = 1..Len(s) /\ value.leaf \in Leaf
  BY DEF Value
<1>2. CASE hidden # {}
  <2>1. hidden \subseteq Nat
    BY <1>1
  <2>2. \E i \in hidden : \A j \in hidden : i <= j
    <3> HIDE DEF hidden
    <3>1. QED BY <1>2, <2>1, LeastMember
  <2>3. first \in 1..Len(s)
    <3>1. first \in hidden
      BY <2>2
    <3>2. QED BY <1>1, <3>1
  <2>4. Rendered(value) = [steps |-> cut, leaf |-> "{}"]
    BY <1>2 DEF Rendered
  <2> HIDE DEF first
  <2>5. cut \in Seq(Step) /\ Len(cut) = first - 1
    BY <1>1, <2>3, SubSeqProperties
  <2>6. ~(\A i \in 1..Len(s) : s[i].in # "headers")
    BY <1>1, <1>2
  <2> HIDE DEF cut, hidden
  <2>7. "{}" \in Leaf
    BY DEF Leaf
  <2>8. Len(cut) <= Len(s)
    BY <1>1, <2>3, <2>5
  <2> DEFINE rest == [steps |-> cut, leaf |-> "{}"]
  <2>9. rest \in Value /\ rest.steps = cut /\ rest.leaf = "{}"
    BY <2>5, <2>7 DEF Value
  <2> HIDE DEF rest
  <2>10. Rendered(value) = rest
    BY <2>4 DEF rest
  <2>11. QED BY <2>6, <2>8, <2>9, <2>10
<1>3. CASE hidden = {}
  <2>1. Rendered(value) = [value EXCEPT !.leaf = IF @ = "date" THEN "text" ELSE @]
    BY <1>3 DEF Rendered
  <2>2. CASE value.leaf = "date"
    <3>1. Rendered(value) = [value EXCEPT !.leaf = "text"]
      BY <2>1, <2>2 DEF Value
    <3>2. "text" \in Leaf
      BY DEF Leaf
    <3>3. QED BY <1>1, <2>2, <3>1, <3>2 DEF Value
  <2>3. CASE value.leaf # "date"
    <3>1. Rendered(value) = value
      BY <2>1, <2>3 DEF Value
    <3>2. QED BY <1>1, <2>3, <3>1
  <2>4. QED BY <2>2, <2>3
<1>4. QED BY <1>2, <1>3

\* What becomes of an attribute on its way to the line.
Detail(sanitizer, k, v) ==
  IF sanitizer = None THEN v
  ELSE IF IsSensitive(sanitizer, k) THEN Redacted ELSE Redact(sanitizer, v, 1)

LineOf(l, attrs) ==
  LET merged == Spread(logger[l].base, attrs)
  IN  [k \in DOMAIN merged |-> Rendered(Detail(logger[l].sanitizer, k, merged[k]))]

\* A call by its line.
LEMMA LogIs ==
  ASSUME NEW l, NEW level, NEW attrs
  PROVE  /\ ~Enabled(l, level) => Log(l, level, attrs).outcome = "silent"
         /\ Enabled(l, level) /\ (\E k \in DOMAIN LineOf(l, attrs) : LineOf(l, attrs)[k].leaf = "unprintable")
              => Log(l, level, attrs).outcome = "thrown"
         /\ Enabled(l, level) /\ ~(\E k \in DOMAIN LineOf(l, attrs) : LineOf(l, attrs)[k].leaf = "unprintable")
              => Log(l, level, attrs).outcome = "written" /\ Log(l, level, attrs).line = LineOf(l, attrs)
<1> DEFINE merged  == Spread(logger[l].base, attrs)
           s       == logger[l].sanitizer
           details == IF s = None THEN merged ELSE Details(s, merged)
           line    == [k \in DOMAIN details |-> Rendered(details[k])]
<1>1. DOMAIN details = DOMAIN merged /\ \A k \in DOMAIN merged : details[k] = Detail(s, k, merged[k])
  <2>1. CASE s = None
    BY <2>1 DEF Detail
  <2>2. CASE s # None
    <3>1. details = [k \in DOMAIN merged |->
                       IF IsSensitive(s, k) THEN Redacted ELSE Redact(s, merged[k], 1)]
      BY <2>2 DEF Details
    <3> HIDE DEF details, merged, s
    <3>2. QED BY <2>2, <3>1 DEF Detail
  <2>3. QED BY <2>1, <2>2
<1>2. line = LineOf(l, attrs)
  <2>1. LineOf(l, attrs) = [k \in DOMAIN merged |-> Rendered(Detail(s, k, merged[k]))]
    BY DEF LineOf
  <2> HIDE DEF details, merged, s
  <2>2. QED BY <1>1, <2>1
<1>3. Log(l, level, attrs) =
        IF ~Enabled(l, level) THEN [outcome |-> "silent"]
        ELSE IF \E k \in DOMAIN line : line[k].leaf = "unprintable" THEN [outcome |-> "thrown"]
        ELSE [outcome |-> "written", line |-> line]
  BY DEF Log
<1> HIDE DEF line
<1>4. QED BY <1>2, <1>3

-----------------------------------------------------------------------------
(* An attribute and what a line shows of it.                               *)

Field(k) == [in |-> "object", key |-> k]

\* A value under its key is one below a field.
LEMMA AttributeIs == ASSUME NEW k, NEW value PROVE Attribute(k, value) = Under(Field(k), value)
BY DEF Attribute, Field

\* A secret that redaction gets to, in an attribute under its key.
Hides(sanitizer, meant) ==
  sanitizer # None /\ \E i \in Reached(meant) : Secret(sanitizer, meant.steps[i])

\* The steps of an attribute that redaction gets to: its key, and those of its value.
LEMMA ReachedIs ==
  ASSUME NEW k \in Key, NEW v \in Value
  PROVE  LET meant == Under(Field(k), v)
         IN  /\ 1 \in Reached(meant) /\ meant.steps[1] = Field(k)
             /\ \A i \in Reached(meant) :
                  i = 1 \/ (i - 1 \in Reaches(v, 1, 1) /\ meant.steps[i] = v.steps[i - 1])
             /\ \A j \in Reaches(v, 1, 1) :
                  j + 1 \in Reached(meant) /\ meant.steps[j + 1] = v.steps[j]
<1> DEFINE meant == Under(Field(k), v)
           n == Len(v.steps)
<1>1. Field(k) \in Step /\ Field(k).in # "headers"
  BY DEF Field, Step, FieldStep
<1>2. /\ meant \in Value /\ Len(meant.steps) = n + 1 /\ meant.steps[1] = Field(k)
      /\ \A j \in 1..n : meant.steps[j + 1] = v.steps[j]
  BY <1>1, UnderIs
<1>3. n \in Nat /\ MaxDepth \in Nat /\ MaxDepth >= 1
  BY DepthAssumption DEF Value
<1>4. DOMAIN meant.steps = 1..(n + 1)
  BY <1>2 DEF Value
<1> HIDE DEF meant
<1>5. 1 \in Reached(meant)
  BY <1>3, <1>4 DEF Reached
<1>6. ASSUME NEW i \in Reached(meant), i # 1
      PROVE  i - 1 \in Reaches(v, 1, 1) /\ meant.steps[i] = v.steps[i - 1]
  <2>1. /\ i \in 1..(n + 1) /\ i <= MaxDepth
        /\ \A j \in 1..(i - 1) : meant.steps[j].in # "headers"
    BY <1>4 DEF Reached
  <2>2. i - 1 \in 1..n /\ (i - 1) + 1 = i /\ 1 + (i - 1) - 1 < MaxDepth
    BY <1>3, <1>6, <2>1
  <2>3. ASSUME NEW m \in 1..((i - 1) - 1) PROVE v.steps[m].in # "headers"
    <3>1. m \in 1..n /\ m + 1 \in 1..(i - 1)
      BY <1>3, <2>1
    <3>2. QED BY <1>2, <2>1, <3>1
  <2>4. QED BY <1>2, <2>2, <2>3 DEF Reaches
<1>7. ASSUME NEW j \in Reaches(v, 1, 1)
      PROVE  j + 1 \in Reached(meant) /\ meant.steps[j + 1] = v.steps[j]
  <2>1. /\ j \in 1..n /\ 1 + j - 1 < MaxDepth
        /\ \A m \in 1..(j - 1) : v.steps[m].in # "headers"
    BY DEF Reaches
  <2>2. j + 1 \in 1..(n + 1) /\ j + 1 <= MaxDepth
    BY <1>3, <2>1
  <2>3. ASSUME NEW m \in 1..((j + 1) - 1) PROVE meant.steps[m].in # "headers"
    <3>1. CASE m = 1
      BY <1>1, <1>2, <3>1
    <3>2. CASE m # 1
      <4>1. m - 1 \in 1..(j - 1) /\ m - 1 \in 1..n /\ (m - 1) + 1 = m
        BY <1>3, <2>1, <3>2
      <4>2. QED BY <1>2, <2>1, <4>1
    <3>3. QED BY <3>1, <3>2
  <2>4. QED BY <1>2, <1>4, <2>1, <2>2, <2>3 DEF Reached
<1>8. QED BY <1>2, <1>5, <1>6, <1>7 DEF meant

\* A value has a number of steps.
LEMMA LengthIs == ASSUME NEW value \in Value PROVE Len(value.steps) \in Nat
BY DEF Value

\* Redaction of an attribute's value.
LEMMA RedactOnce ==
  ASSUME NEW sanitizer, NEW v \in Value
  PROVE  /\ Redact(sanitizer, v, 1) \in Value
         /\ RedactsWell(Redact(sanitizer, v, 1), sanitizer, v, 1, 1)
<1>1. 1 \in Nat
  OBVIOUS
<1>2. QED BY <1>1, RedactionTells

\* A line shows nothing from a secret on.
LEMMA EntryHides ==
  ASSUME NEW sanitizer, sanitizer # None, NEW k \in Key, NEW v \in Value,
         NEW i \in Reached(Under(Field(k), v)), Secret(sanitizer, Under(Field(k), v).steps[i])
  PROVE  LET shown == Under(Field(k), Rendered(Detail(sanitizer, k, v)))
         IN  i >= Len(shown.steps) /\ shown.leaf \in {"[REDACTED]", "{}"}
<1> DEFINE meant == Under(Field(k), v)
           detail == Detail(sanitizer, k, v)
           entry == Rendered(detail)
<1>1. /\ 1 \in Reached(meant) /\ meant.steps[1] = Field(k)
      /\ i = 1 \/ (i - 1 \in Reaches(v, 1, 1) /\ meant.steps[i] = v.steps[i - 1])
  BY ReachedIs
<1>2. Field(k) \in Step
  BY DEF Field, Step, FieldStep
<1>3. i \in Nat /\ i >= 1
  <2>1. meant \in Value /\ i \in DOMAIN meant.steps
    BY <1>2, UnderIs DEF Reached
  <2> HIDE DEF meant
  <2>2. QED BY <2>1 DEF Value
<1>4. detail \in Value /\ Len(detail.steps) <= i - 1 /\ detail.leaf = "[REDACTED]"
  <2>1. CASE IsSensitive(sanitizer, k)
    <3>1. detail = Redacted
      BY <2>1 DEF Detail
    <3>2. QED BY <1>3, <3>1, RedactedIs
  <2>2. CASE ~IsSensitive(sanitizer, k)
    <3>1. detail = Redact(sanitizer, v, 1)
      BY <2>2 DEF Detail
    <3>2. ~Secret(sanitizer, Field(k))
      BY <2>2 DEF Secret, Field
    <3>3. i - 1 \in Reaches(v, 1, 1) /\ Secret(sanitizer, v.steps[i - 1])
      BY <1>1, <3>2
    <3>4. detail \in Value /\ HidesSecrets(detail, sanitizer, v, 1, 1)
      BY <3>1, RedactOnce DEF RedactsWell
    <3> HIDE DEF detail
    <3>5. Len(detail.steps) <= (i - 1) - 1 + 1 /\ detail.leaf = "[REDACTED]"
      BY <3>3, <3>4 DEF HidesSecrets
    <3>6. QED BY <1>3, <3>4, <3>5
  <2>3. QED BY <2>1, <2>2
<1> HIDE DEF detail
<1>5. entry \in Value /\ Len(entry.steps) <= i - 1 /\ entry.leaf \in {"[REDACTED]", "{}"}
  <2>1. entry \in Value /\ Len(entry.steps) <= Len(detail.steps) /\ entry.leaf \in {detail.leaf, "{}"}
    BY <1>4, RenderedIs
  <2> HIDE DEF entry
  <2>2. Len(entry.steps) \in Nat /\ Len(detail.steps) \in Nat
    BY <1>4, <2>1, LengthIs
  <2>3. Len(entry.steps) <= Len(detail.steps) /\ Len(detail.steps) <= i - 1
    BY <1>4, <2>1
  <2>4. \A a, b \in Nat : a <= b /\ b <= i - 1 => a <= i - 1
    BY <1>3
  <2>5. Len(entry.steps) <= i - 1
    BY <2>2, <2>3, <2>4
  <2>6. QED BY <1>4, <2>1, <2>5
<1> HIDE DEF entry
<1>6. Under(Field(k), entry).leaf = entry.leaf /\ Len(Under(Field(k), entry).steps) = Len(entry.steps) + 1
  BY <1>5, <1>2, UnderIs
<1>7. Len(entry.steps) \in Nat
  BY <1>5, LengthIs
<1>8. i >= Len(Under(Field(k), entry).steps)
  <2>1. Len(Under(Field(k), entry).steps) = Len(entry.steps) + 1 /\ Len(entry.steps) <= i - 1
    BY <1>5, <1>6
  <2>2. \A a \in Nat : a <= i - 1 => i >= a + 1
    BY <1>3
  <2>3. QED BY <1>7, <2>1, <2>2
<1>9. Under(Field(k), entry).leaf \in {"[REDACTED]", "{}"}
  BY <1>5, <1>6
<1>10. QED BY <1>8, <1>9 DEF entry, detail

\* A line shows the rest, but for Headers and dates.
LEMMA EntryShows ==
  ASSUME NEW sanitizer, NEW k \in Key, NEW v \in Value, ~Hides(sanitizer, Under(Field(k), v)),
         \A j \in 1..Len(v.steps) : v.steps[j].in # "headers"
  PROVE  LET entry == Rendered(Detail(sanitizer, k, v))
         IN  /\ entry \in Value /\ entry.steps = v.steps
             /\ entry.leaf = v.leaf \/ v.leaf = "date"
<1> DEFINE meant == Under(Field(k), v)
           detail == Detail(sanitizer, k, v)
<1>1. detail \in Value /\ detail.steps = v.steps /\ (detail.leaf = v.leaf \/ v.leaf = "date")
  <2>1. CASE sanitizer = None
    BY <2>1 DEF Detail
  <2>2. CASE sanitizer # None
    <3>1. \A i \in Reached(meant) : ~Secret(sanitizer, meant.steps[i])
      BY <2>2 DEF Hides
    <3>2. /\ 1 \in Reached(meant) /\ meant.steps[1] = Field(k)
          /\ \A j \in Reaches(v, 1, 1) :
               j + 1 \in Reached(meant) /\ meant.steps[j + 1] = v.steps[j]
      BY ReachedIs
    <3> HIDE DEF meant
    <3>3. ~IsSensitive(sanitizer, k)
      <4>1. ~Secret(sanitizer, Field(k))
        BY <3>1, <3>2
      <4>2. QED BY <4>1 DEF Secret, Field
    <3>4. \A j \in Reaches(v, 1, 1) : ~Secret(sanitizer, v.steps[j])
      BY <3>1, <3>2
    <3>5. detail = Redact(sanitizer, v, 1)
      BY <2>2, <3>3 DEF Detail
    <3>6. detail \in Value /\ ShowsOthers(detail, sanitizer, v, 1, 1)
      BY <3>5, RedactOnce DEF RedactsWell
    <3> HIDE DEF detail
    <3>7. detail.steps = From(v, 1).steps /\ (detail.leaf = v.leaf \/ v.leaf = "date")
      BY <3>4, <3>6 DEF ShowsOthers
    <3>8. From(v, 1).steps = v.steps
      <4>1. v.steps \in Seq(Step)
        BY DEF Value
      <4>2. From(v, 1).steps = SubSeq(v.steps, 1, Len(v.steps))
        BY DEF From, Value
      <4>3. QED BY <4>1, <4>2
    <3>9. QED BY <3>6, <3>7, <3>8
  <2>3. QED BY <2>1, <2>2
<1> HIDE DEF detail
<1>2. \A i \in 1..Len(detail.steps) : detail.steps[i].in # "headers"
  BY <1>1
<1>3. /\ Rendered(detail) \in Value /\ Rendered(detail).steps = detail.steps
      /\ detail.leaf # "date" => Rendered(detail).leaf = detail.leaf
  BY <1>1, <1>2, RenderedIs
<1>4. QED BY <1>1, <1>3 DEF detail

\* What makes a call throw is what JSON cannot express and is not hidden.
LEMMA EntryThrows ==
  ASSUME NEW sanitizer, NEW k \in Key, NEW v \in Value, WellFormed(v)
  PROVE  Rendered(Detail(sanitizer, k, v)).leaf = "unprintable"
           <=> v.leaf = "unprintable" /\ ~Hides(sanitizer, Under(Field(k), v))
<1> DEFINE meant == Under(Field(k), v)
           detail == Detail(sanitizer, k, v)
           entry == Rendered(detail)
<1>1. ASSUME entry.leaf = "unprintable" PROVE v.leaf = "unprintable" /\ ~Hides(sanitizer, meant)
  <2>1. detail \in Value /\ (detail.leaf = v.leaf \/ detail.leaf \in {"[REDACTED]", "{}"})
    <3>1. CASE sanitizer = None
      BY <3>1 DEF Detail
    <3>2. CASE sanitizer # None /\ IsSensitive(sanitizer, k)
      BY <3>2, RedactedIs DEF Detail
    <3>3. CASE sanitizer # None /\ ~IsSensitive(sanitizer, k)
      <4>1. detail = Redact(sanitizer, v, 1)
        BY <3>3 DEF Detail
      <4>2. QED BY <4>1, RedactOnce DEF RedactsWell
    <3>4. QED BY <3>1, <3>2, <3>3
  <2> HIDE DEF detail
  <2>2. entry.leaf \in {detail.leaf, "text", "{}"}
    BY <2>1, RenderedIs
  <2>3. detail.leaf = "unprintable"
    BY <1>1, <2>2
  <2>4. ASSUME Hides(sanitizer, meant) PROVE FALSE
    <3>1. PICK i \in Reached(meant) : Secret(sanitizer, meant.steps[i])
      BY <2>4 DEF Hides
    <3>2. sanitizer # None
      BY <2>4 DEF Hides
    <3>3. Under(Field(k), entry).leaf \in {"[REDACTED]", "{}"}
      BY <3>1, <3>2, EntryHides DEF detail
    <3>4. Under(Field(k), entry).leaf = entry.leaf
      <4>1. Field(k) \in Step /\ entry \in Value
        BY <2>1, RenderedIs DEF Field, Step, FieldStep
      <4>2. QED BY <4>1, UnderIs
    <3>5. QED BY <1>1, <3>3, <3>4
  <2>5. QED BY <2>1, <2>3, <2>4
<1>2. ASSUME v.leaf = "unprintable", ~Hides(sanitizer, meant) PROVE entry.leaf = "unprintable"
  <2>1. \A j \in 1..Len(v.steps) : v.steps[j].in # "headers"
    BY <1>2 DEF WellFormed, Value
  <2>2. entry.leaf = v.leaf \/ v.leaf = "date"
    BY <1>2, <2>1, EntryShows
  <2>3. QED BY <1>2, <2>2
<1>3. QED BY <1>1, <1>2

-----------------------------------------------------------------------------
(* The properties.                                                         *)

\* Whatever logger the sanitizer was given to.
LEMMA SensitiveIs ==
  ASSUME IInv, NEW l \in Loggers, NEW step
  PROVE  Sensitive(l, step) <=> logger[l].sanitizer # None /\ Secret(logger[l].sanitizer, step)
<1> DEFINE C == Cardinality(LoggerId)
<1>1. C \in 0..C
  BY LoggerAssumption, FS_CardinalityType
<1>2. logger[Ancestors(l)[C]].sanitizer = logger[l].sanitizer
  BY <1>1, AncestorsAre, AlongLine
<1>3. QED BY <1>2 DEF Sensitive, Secret

\* A call of a logger, attribute by attribute.
LEMMA CallIs ==
  ASSUME IInv, NEW l \in Loggers, NEW attrs \in CallAttrs
  PROVE  LET s       == logger[l].sanitizer
             sources == Sources(l, attrs)
             merged  == Spread(logger[l].base, attrs)
         IN  /\ DOMAIN LineOf(l, attrs) = Named(sources)
             /\ \A k \in Named(sources) :
                  /\ k \in Key /\ merged[k] \in Value /\ WellFormed(merged[k])
                  /\ LineOf(l, attrs)[k] = Rendered(Detail(s, k, merged[k]))
                  /\ Meant(sources, k) = Under(Field(k), merged[k])
<1> DEFINE merged  == Spread(logger[l].base, attrs)
           sources == Sources(l, attrs)
<1>1. /\ DOMAIN merged = Named(sources)
      /\ \A k \in Named(sources) :
           /\ k \in Key /\ merged[k] \in Value /\ WellFormed(merged[k])
           /\ Meant(sources, k) = Attribute(k, merged[k])
  BY MergedIs
<1>2. LineOf(l, attrs) = [k \in DOMAIN merged |-> Rendered(Detail(logger[l].sanitizer, k, merged[k]))]
  BY DEF LineOf
<1> HIDE DEF merged, sources
<1>3. QED BY <1>1, <1>2, AttributeIs DEF merged, sources

\* No line shows a secret.
LEMMA HidesAll == IInv => SecretsHidden
<1> SUFFICES ASSUME IInv, NEW l \in Loggers, NEW level \in Level, NEW attrs \in CallAttrs,
                    Log(l, level, attrs).outcome = "written",
                    NEW k \in Named(Sources(l, attrs)),
                    NEW i \in Reached(Meant(Sources(l, attrs), k)),
                    Sensitive(l, Meant(Sources(l, attrs), k).steps[i])
             PROVE  LET shown == Attribute(k, Log(l, level, attrs).line[k])
                    IN  i >= Len(shown.steps) /\ shown.leaf # "text"
  BY Zenon DEF SecretsHidden
<1> DEFINE s     == logger[l].sanitizer
           v     == Spread(logger[l].base, attrs)[k]
           meant == Under(Field(k), v)
<1>1. Log(l, level, attrs).line = LineOf(l, attrs)
  BY LogIs
<1>2. /\ k \in Key /\ v \in Value
      /\ LineOf(l, attrs)[k] = Rendered(Detail(s, k, v)) /\ Meant(Sources(l, attrs), k) = meant
  BY CallIs
<1>3. s # None /\ Secret(s, meant.steps[i]) /\ i \in Reached(meant)
  BY <1>2, SensitiveIs
<1> HIDE DEF s, v
<1> DEFINE shown == Under(Field(k), Rendered(Detail(s, k, v)))
<1>4. i >= Len(shown.steps) /\ shown.leaf \in {"[REDACTED]", "{}"}
  BY <1>2, <1>3, EntryHides
<1>5. Attribute(k, Log(l, level, attrs).line[k]) = shown
  BY <1>1, <1>2, AttributeIs
<1> HIDE DEF shown
<1>6. QED BY <1>4, <1>5

\* No line loses anything else.
LEMMA ShowsAll == IInv => NothingElseLost
<1> SUFFICES ASSUME IInv, NEW l \in Loggers, NEW level \in Level, NEW attrs \in CallAttrs
             PROVE  LET sources == Sources(l, attrs)
                        call    == Log(l, level, attrs)
                    IN  /\ call.outcome = "silent" \/
                             (call.outcome = "thrown" <=>
                                \E k \in Named(sources) :
                                  Meant(sources, k).leaf = "unprintable"
                                    /\ ~Hidden(l, Meant(sources, k)))
                        /\ call.outcome = "written" =>
                             /\ DOMAIN call.line = Named(sources)
                             /\ \A k \in Named(sources) :
                                  Preserves(l, Meant(sources, k), Attribute(k, call.line[k]))
  BY Zenon DEF NothingElseLost
<1> DEFINE s         == logger[l].sanitizer
           sources   == Sources(l, attrs)
           call      == Log(l, level, attrs)
           line      == LineOf(l, attrs)
           V(k)      == Spread(logger[l].base, attrs)[k]
<1>1. /\ ~Enabled(l, level) => call.outcome = "silent"
      /\ Enabled(l, level) /\ (\E k \in DOMAIN line : line[k].leaf = "unprintable")
           => call.outcome = "thrown"
      /\ Enabled(l, level) /\ ~(\E k \in DOMAIN line : line[k].leaf = "unprintable")
           => call.outcome = "written" /\ call.line = line
  BY LogIs
<1>2. DOMAIN line = Named(sources)
  BY CallIs
<1>3. ASSUME NEW k \in Named(sources)
      PROVE  /\ k \in Key /\ V(k) \in Value /\ WellFormed(V(k))
             /\ line[k] = Rendered(Detail(s, k, V(k))) /\ Meant(sources, k) = Under(Field(k), V(k))
  BY CallIs
<1> HIDE DEF V, line, call, sources
<1>4. ASSUME NEW meant PROVE Hidden(l, meant) <=> Hides(s, meant)
  <2> HIDE DEF sources
  <2>1. QED BY SensitiveIs DEF Hides, Hidden
<1>5. ASSUME NEW k \in Named(sources)
      PROVE  line[k].leaf = "unprintable" <=> Meant(sources, k).leaf = "unprintable" /\ ~Hidden(l, Meant(sources, k))
  <2>1. line[k].leaf = "unprintable" <=> V(k).leaf = "unprintable" /\ ~Hides(s, Under(Field(k), V(k)))
    BY <1>3, EntryThrows
  <2>2. Meant(sources, k).leaf = V(k).leaf
    <3>1. Field(k) \in Step
      BY <1>3 DEF Field, Step, FieldStep
    <3> DEFINE v == V(k)
    <3>2. v \in Value /\ Meant(sources, k) = Under(Field(k), v)
      BY <1>3
    <3> HIDE DEF v
    <3>3. Under(Field(k), v).leaf = v.leaf
      BY <3>1, <3>2, UnderIs
    <3>4. QED BY <3>2, <3>3 DEF v
  <2> HIDE DEF s
  <2>3. QED BY <1>3, <1>4, <2>1, <2>2
<1>6. ASSUME NEW k \in Named(sources), ~Hidden(l, Meant(sources, k)),
             \A i \in DOMAIN Meant(sources, k).steps : Meant(sources, k).steps[i].in # "headers"
      PROVE  LET shown == Attribute(k, line[k])
             IN  /\ shown.steps = Meant(sources, k).steps
                 /\ shown.leaf = Meant(sources, k).leaf \/ Meant(sources, k).leaf = "date"
  <2> DEFINE v == V(k)
             meant == Under(Field(k), v)
             entry == Rendered(Detail(s, k, v))
  <2>1. k \in Key /\ v \in Value /\ line[k] = entry /\ Meant(sources, k) = meant
    BY <1>3
  <2>2. Field(k) \in Step
    BY <2>1 DEF Field, Step, FieldStep
  <2>3. ~Hides(s, meant)
    BY <1>4, <1>6, <2>1
  <2> HIDE DEF s, v
  <2>4. /\ meant \in Value /\ meant.leaf = v.leaf /\ meant.steps = <<Field(k)>> \o v.steps
        /\ Len(meant.steps) = Len(v.steps) + 1
        /\ \A j \in 1..Len(v.steps) : meant.steps[j + 1] = v.steps[j]
    BY <2>1, <2>2, UnderIs
  <2>5. ASSUME NEW j \in 1..Len(v.steps) PROVE v.steps[j].in # "headers"
    <3>1. Len(v.steps) \in Nat /\ DOMAIN meant.steps = 1..(Len(v.steps) + 1)
      BY <2>1, <2>4 DEF Value
    <3>2. j + 1 \in DOMAIN meant.steps
      BY <3>1
    <3>3. meant.steps[j + 1].in # "headers"
      BY <1>6, <2>1, <3>2
    <3>4. QED BY <2>4, <3>3
  <2>6. entry \in Value /\ entry.steps = v.steps /\ (entry.leaf = v.leaf \/ v.leaf = "date")
    BY <2>1, <2>3, <2>5, EntryShows
  <2> HIDE DEF entry
  <2>7. /\ Under(Field(k), entry).leaf = entry.leaf
        /\ Under(Field(k), entry).steps = <<Field(k)>> \o entry.steps
    BY <2>2, <2>6, UnderIs
  <2>8. QED BY <2>1, <2>4, <2>6, <2>7, AttributeIs
<1>7. call.outcome = "silent" \/
        (call.outcome = "thrown" <=>
           \E k \in Named(sources) : Meant(sources, k).leaf = "unprintable" /\ ~Hidden(l, Meant(sources, k)))
  BY <1>1, <1>2, <1>5
<1>8. call.outcome = "written" => call.line = line
  BY <1>1
<1>9. ASSUME NEW k \in Named(sources)
      PROVE  Preserves(l, Meant(sources, k), Attribute(k, line[k]))
  BY <1>6 DEF Preserves
<1>10. QED BY <1>2, <1>7, <1>8, <1>9, Zenon DEF call, sources

(***************************************************************************)
(* No line that reaches the sink shows what is below a sensitive key, of   *)
(* the call or of any logger it inherits from: for any number of loggers,  *)
(* any limit and values of any depth.                                      *)
(***************************************************************************)
THEOREM Sanitized == Spec => []SecretsHidden
<1>1. QED BY Invariance, HidesAll, PTL

(***************************************************************************)
(* A line shows all the other attributes of the call and its loggers, but  *)
(* for the two losses, and a call throws only for what it would have to    *)
(* show: for any number of loggers, any limit and values of any depth.     *)
(***************************************************************************)
THEOREM Complete == Spec => []NothingElseLost
<1>1. QED BY Invariance, ShowsAll, PTL

-----------------------------------------------------------------------------
(* Command lines.                                                          *)

\* What parseArgs returns besides the command.
FlagValues == {<<>>} \cup {<<text>> : text \in Text}
FlagSets   == UNION {[names -> FlagValues] : names \in SUBSET Text}
ParsedArgs == [positionals : Seq(Text), flags : FlagSets]

\* The fields of a token.
LEMMA TokenIs ==
  ASSUME NEW argv \in Seq(Token), NEW i \in 1..Len(argv)
  PROVE  /\ argv[i].form \in {"word", "flag", "assign"}
         /\ argv[i].form \in {"word", "assign"} => argv[i].text \in Text
         /\ argv[i].form # "word" => argv[i].name \in Text
<1>1. argv[i] \in Token
  OBVIOUS
<1>2. QED BY <1>1 DEF Token, Word, Flag, Assign

\* A set of flags is a function on some names.
LEMMA FlagSetIs ==
  ASSUME NEW flags
  PROVE  flags \in FlagSets <=> DOMAIN flags \subseteq Text /\ flags \in [DOMAIN flags -> FlagValues]
BY DEF FlagSets

\* A flag is set before those that were set behind it, which stay.
LEMMA SetFlag ==
  ASSUME NEW flags \in FlagSets, NEW name \in Text, NEW value \in FlagValues,
         NEW more, more = SetBefore(flags, name, value)
  PROVE  /\ more \in FlagSets /\ DOMAIN more = DOMAIN flags \cup {name}
         /\ \A x \in DOMAIN flags : more[x] = flags[x]
         /\ name \notin DOMAIN flags => more[name] = value
<1> DEFINE D == DOMAIN flags \cup {name}
<1>1. more = [x \in D |-> IF x \in DOMAIN flags THEN flags[x] ELSE value]
  BY DEF SetBefore
<1>3. DOMAIN flags \subseteq Text /\ flags \in [DOMAIN flags -> FlagValues]
  BY FlagSetIs
<1>4. DOMAIN more = D /\ \A x \in DOMAIN flags : more[x] = flags[x]
  BY <1>1
<1>5. name \notin DOMAIN flags => more[name] = value
  BY <1>1
<1>6. more \in [D -> FlagValues]
  BY <1>1, <1>3, <1>4, <1>5
<1>7. QED BY <1>3, <1>4, <1>5, <1>6, FlagSetIs

\* The value of a flag is a text or none.
LEMMA FlagValueIs ==
  ASSUME NEW argv \in Seq(Token), NEW i \in 1..Len(argv)
  PROVE  FlagValue(argv, i) \in FlagValues
<1>1. CASE argv[i].form = "assign"
  <2>1. argv[i].text \in Text
    BY <1>1, TokenIs
  <2>2. FlagValue(argv, i) = <<argv[i].text>>
    BY <1>1 DEF FlagValue
  <2>3. QED BY <2>1, <2>2 DEF FlagValues
<1>2. CASE argv[i].form # "assign" /\ Valued(argv, i)
  <2>1. i + 1 \in 1..Len(argv) /\ argv[i + 1].form = "word"
    BY <1>2 DEF Valued
  <2>2. argv[i + 1].text \in Text
    BY <2>1, TokenIs
  <2>3. FlagValue(argv, i) = <<argv[i + 1].text>>
    BY <1>2 DEF FlagValue
  <2>4. QED BY <2>2, <2>3 DEF FlagValues
<1>3. CASE argv[i].form # "assign" /\ ~Valued(argv, i)
  BY <1>3 DEF FlagValue, FlagValues
<1>4. QED BY <1>1, <1>2, <1>3

\* What is parsed without tokens.
LEMMA NothingParsedIs == NothingParsed \in ParsedArgs /\ DOMAIN NothingParsed.flags = {}
<1>1. <<>> \in [{} -> FlagValues] /\ DOMAIN <<>> = {}
  OBVIOUS
<1>2. <<>> \in FlagSets
  BY <1>1 DEF FlagSets
<1>3. QED BY <1>1, <1>2 DEF NothingParsed, ParsedArgs

\* parsed has one positional more, before those behind.
WordBefore(parsed, text, behind) ==
  /\ parsed \in ParsedArgs /\ parsed.flags = behind.flags
  /\ Len(parsed.positionals) = Len(behind.positionals) + 1
  /\ parsed.positionals[1] = text
  /\ \A j \in 1..Len(behind.positionals) :
       parsed.positionals[j + 1] = behind.positionals[j]

\* A word is a positional before the others.
LEMMA AddedWord ==
  ASSUME NEW argv \in Seq(Token), NEW i \in 1..Len(argv), NEW behind \in ParsedArgs,
         argv[i].form = "word"
  PROVE  WordBefore(Added(argv, i, behind), argv[i].text, behind)
<1> DEFINE parsed == Added(argv, i, behind)
           s == behind.positionals
           t == <<argv[i].text>> \o s
<1>1. s \in Seq(Text) /\ argv[i].text \in Text
  BY TokenIs DEF ParsedArgs
<1>2. /\ t \in Seq(Text) /\ Len(t) = Len(s) + 1 /\ t[1] = argv[i].text
      /\ \A j \in 1..Len(s) : t[j + 1] = s[j]
  BY <1>1, PrependIs
<1>3. parsed = [behind EXCEPT !.positionals = t]
  BY DEF Added
<1> HIDE DEF t, parsed
<1>4. parsed \in ParsedArgs /\ parsed.flags = behind.flags /\ parsed.positionals = t
  BY <1>2, <1>3 DEF ParsedArgs
<1>5. WordBefore(parsed, argv[i].text, behind)
  BY <1>2, <1>4 DEF WordBefore
<1>6. QED BY <1>5 DEF parsed

\* parsed has a flag more, unless it is set behind.
FlagBefore(parsed, name, value, behind) ==
  /\ parsed \in ParsedArgs /\ parsed.positionals = behind.positionals
  /\ DOMAIN parsed.flags = DOMAIN behind.flags \cup {name}
  /\ \A x \in DOMAIN behind.flags : parsed.flags[x] = behind.flags[x]
  /\ name \notin DOMAIN behind.flags => parsed.flags[name] = value

\* A flag is set unless one behind it has its name.
LEMMA AddedFlag ==
  ASSUME NEW argv \in Seq(Token), NEW i \in 1..Len(argv), NEW behind \in ParsedArgs,
         argv[i].form # "word"
  PROVE  FlagBefore(Added(argv, i, behind), argv[i].name, FlagValue(argv, i), behind)
<1> DEFINE parsed == Added(argv, i, behind)
           name  == argv[i].name
           value == FlagValue(argv, i)
           f == behind.flags
           g == SetBefore(f, name, value)
<1>1. f \in FlagSets /\ name \in Text /\ value \in FlagValues
  BY TokenIs, FlagValueIs DEF ParsedArgs
<1>2. parsed = [behind EXCEPT !.flags = g]
  BY DEF Added
<1> HIDE DEF name, value, f
<1>3. /\ g \in FlagSets /\ DOMAIN g = DOMAIN f \cup {name}
      /\ \A x \in DOMAIN f : g[x] = f[x]
      /\ name \notin DOMAIN f => g[name] = value
  BY <1>1, SetFlag
<1> HIDE DEF g, parsed
<1>4. parsed \in ParsedArgs /\ parsed.flags = g /\ parsed.positionals = behind.positionals
  BY <1>2, <1>3 DEF ParsedArgs
<1>5. FlagBefore(parsed, name, value, behind)
  BY <1>3, <1>4 DEF f, FlagBefore
<1>6. QED BY <1>5 DEF parsed, name, value

-----------------------------------------------------------------------------
(* The recursion of Parse.                                                 *)

\* parse[i] is what the tokens from i on add.
Parses(parse, argv) ==
  /\ parse \in [1..(Len(argv) + 1) -> ParsedArgs]
  /\ parse[Len(argv) + 1] = NothingParsed
  /\ \A i \in 1..Len(argv) : parse[i] = Added(argv, i, parse[After(argv, i)])

\* The loop goes on behind token i, and at most behind the last one.
LEMMA AfterIs ==
  ASSUME NEW argv \in Seq(Token), NEW i \in 1..Len(argv)
  PROVE  /\ After(argv, i) \in (i + 1)..(Len(argv) + 1)
         /\ Valued(argv, i) => After(argv, i) = i + 2 /\ i + 2 <= Len(argv) + 1
         /\ ~Valued(argv, i) => After(argv, i) = i + 1
<1>1. CASE Valued(argv, i)
  <2>1. i < Len(argv) /\ After(argv, i) = i + 2
    BY <1>1 DEF Valued, After
  <2>2. QED BY <1>1, <2>1
<1>2. CASE ~Valued(argv, i)
  <2>1. After(argv, i) = i + 1
    BY <1>2 DEF After
  <2>2. QED BY <1>2, <2>1
<1>3. QED BY <1>1, <1>2

\* Each token adds to what is parsed.
LEMMA AddedIs ==
  ASSUME NEW argv \in Seq(Token), NEW i \in 1..Len(argv), NEW behind \in ParsedArgs
  PROVE  Added(argv, i, behind) \in ParsedArgs
<1>1. CASE argv[i].form = "word"
  BY <1>1, AddedWord DEF WordBefore
<1>2. CASE argv[i].form # "word"
  BY <1>2, AddedFlag DEF FlagBefore
<1>3. QED BY <1>1, <1>2

(***************************************************************************)
(* There is such a function.  It looks two tokens ahead, so that the       *)
(* recursion is one of pairs.                                              *)
(***************************************************************************)
LEMMA ParsesSome ==
  ASSUME NEW argv \in Seq(Token)
  PROVE  \E parse : Parses(parse, argv)
<1> DEFINE n == Len(argv)
           V == ParsedArgs \X ParsedArgs
           behind(i, v) == IF Valued(argv, i) THEN v[2] ELSE v[1]
           pair(i, v) == <<Added(argv, i, behind(i, v)), v[1]>>
           last == <<NothingParsed, NothingParsed>>
           step == [i \in 1..n |-> [v \in V |-> pair(i, v)]]
<1>1. n \in Nat
  OBVIOUS
<1>2. last \in V
  BY NothingParsedIs
<1>3. ASSUME NEW i \in 1..n, NEW v \in V PROVE pair(i, v) \in V
  <2>1. v[1] \in ParsedArgs /\ v[2] \in ParsedArgs
    OBVIOUS
  <2>2. behind(i, v) \in ParsedArgs
    BY <2>1
  <2> HIDE DEF behind
  <2>3. Added(argv, i, behind(i, v)) \in ParsedArgs
    BY <2>2, AddedIs
  <2>4. QED BY <2>1, <2>3
<1> HIDE DEF pair
<1>4. step \in [1..n -> [V -> V]]
  BY <1>3
<1>5. PICK f : Descends(f, V, n, last, step)
  <2> HIDE DEF n, V, last, step
  <2>1. QED BY <1>1, <1>2, <1>4, DownwardRecursion, Zenon
<1>6. f \in [1..(n + 1) -> V] /\ f[n + 1] = last /\ \A i \in 1..n : f[i] = step[i][f[i + 1]]
  BY <1>5 DEF Descends
<1> DEFINE parse == [i \in 1..(n + 1) |-> f[i][1]]
<1>7. parse \in [1..(n + 1) -> ParsedArgs]
  BY <1>6
<1>8. parse[n + 1] = NothingParsed
  <2>1. n + 1 \in 1..(n + 1)
    BY <1>1
  <2>2. parse[n + 1] = f[n + 1][1]
    BY <2>1
  <2>3. QED BY <1>6, <2>2
<1>9. ASSUME NEW i \in 1..n PROVE f[i] = pair(i, f[i + 1])
  <2>1. i + 1 \in 1..(n + 1)
    BY <1>1
  <2>2. f[i + 1] \in V
    BY <1>6, <2>1
  <2>3. QED BY <1>6, <2>2
<1>10. ASSUME NEW i \in 1..n PROVE parse[i] = Added(argv, i, parse[After(argv, i)])
  <2>1. f[i][1] = Added(argv, i, behind(i, f[i + 1]))
    BY <1>9 DEF pair
  <2>2. parse[i] = f[i][1] /\ parse[i + 1] = f[i + 1][1]
    BY <1>1
  <2>3. behind(i, f[i + 1]) = parse[After(argv, i)]
    <3>1. CASE Valued(argv, i)
      <4>1. After(argv, i) = i + 2 /\ i + 1 \in 1..n
        BY <1>1, <3>1, AfterIs
      <4>2. f[i + 1][2] = f[(i + 1) + 1][1]
        BY <1>9, <4>1 DEF pair
      <4>3. (i + 1) + 1 = i + 2 /\ i + 2 \in 1..(n + 1)
        BY <1>1, <4>1
      <4>4. parse[i + 2] = f[i + 2][1]
        BY <4>3
      <4>5. QED BY <3>1, <4>1, <4>2, <4>3, <4>4
    <3>2. CASE ~Valued(argv, i)
      <4>1. After(argv, i) = i + 1
        BY <1>1, <3>2, AfterIs
      <4>2. QED BY <2>2, <3>2, <4>1
    <3>3. QED BY <3>1, <3>2
  <2>4. QED BY <2>1, <2>2, <2>3, Zenon
<1>11. Parses(parse, argv)
  <2> HIDE DEF parse
  <2>1. QED BY <1>7, <1>8, <1>10 DEF Parses
<1>12. QED BY <1>11

\* Parse is given by it.
LEMMA ParseIs ==
  ASSUME NEW argv \in Seq(Token)
  PROVE  \E parse : /\ Parses(parse, argv)
                    /\ Parse(argv) = IF argv = <<>> THEN NothingParsed ELSE parse[2]
<1> DEFINE D == 1..(Len(argv) + 1)
           At(i, f) == IF i > Len(argv) THEN NothingParsed ELSE Added(argv, i, f[After(argv, i)])
           parse == CHOOSE f : f = [i \in D |-> At(i, f)]
<1>1. Parse(argv) = IF argv = <<>> THEN NothingParsed ELSE parse[2]
  BY DEF Parse
<1>2. PICK f : Parses(f, argv)
  BY ParsesSome
<1>3. f = [i \in D |-> At(i, f)]
  <2>1. ASSUME NEW i \in D PROVE f[i] = At(i, f)
    <3>1. CASE i > Len(argv)
      <4>1. i = Len(argv) + 1
        BY <3>1
      <4>2. QED BY <1>2, <3>1, <4>1 DEF Parses
    <3>2. CASE ~(i > Len(argv))
      <4>1. i \in 1..Len(argv)
        BY <3>2
      <4>2. f[i] = Added(argv, i, f[After(argv, i)])
        BY <1>2, <4>1 DEF Parses
      <4>3. QED BY <3>2, <4>2
    <3>3. QED BY <3>1, <3>2
  <2>2. f \in [D -> ParsedArgs]
    BY <1>2 DEF Parses
  <2> HIDE DEF At
  <2>3. QED BY <2>1, <2>2
<1> HIDE DEF At
<1>4. parse = [i \in D |-> At(i, parse)]
  BY <1>3, Zenon
<1> HIDE DEF parse
<1>5. \A i \in D : parse[i] = At(i, parse)
  BY <1>4
<1>6. DOMAIN parse = D
  BY <1>4
<1>7. parse[Len(argv) + 1] = NothingParsed
  BY <1>5 DEF At
<1>8. ASSUME NEW i \in 1..Len(argv) PROVE parse[i] = Added(argv, i, parse[After(argv, i)])
  <2>1. i \in D /\ ~(i > Len(argv))
    OBVIOUS
  <2>2. QED BY <1>5, <2>1 DEF At
<1>9. ASSUME NEW i \in D PROVE parse[i] \in ParsedArgs
  <2> DEFINE n == Len(argv) + 1
             P == {j \in 0..n : \A k \in j..n : k # 0 => parse[k] \in ParsedArgs}
  <2>0. n \in Nat
    OBVIOUS
  <2>1. n \in P
    BY <1>7, NothingParsedIs
  <2>2. ASSUME NEW j \in Nat, j < n, j + 1 \in P PROVE j \in P
    <3>1. \A k \in (j + 1)..n : parse[k] \in ParsedArgs
      BY <2>2
    <3>2. j # 0 => parse[j] \in ParsedArgs
      <4> SUFFICES ASSUME j # 0 PROVE parse[j] \in ParsedArgs
        OBVIOUS
      <4>1. j \in 1..Len(argv)
        BY <2>2
      <4>2. After(argv, j) \in (j + 1)..n
        BY <4>1, AfterIs
      <4>3. QED BY <1>8, <3>1, <4>1, <4>2, AddedIs
    <3>3. QED BY <2>2, <3>1, <3>2
  <2> HIDE DEF P, n
  <2>3. 0..n \subseteq P
    BY <2>0, <2>1, <2>2, DownwardInduction
  <2>4. i \in P /\ i # 0 /\ i \in i..n
    BY <2>3 DEF n
  <2>5. QED BY <2>4 DEF P
<1>10. Parses(parse, argv)
  <2>1. parse \in [D -> ParsedArgs]
    BY <1>4, <1>9
  <2>2. QED BY <1>7, <1>8, <2>1 DEF Parses
<1>11. QED BY <1>1, <1>10

-----------------------------------------------------------------------------
(* What the tokens say.                                                    *)

\* The positionals among the tokens from i on, where the loop comes to i.
Free(argv, i) ==
  {j \in i..Len(argv) : argv[j].form = "word" /\ ~(j > i /\ argv[j - 1].form = "flag")}

Setting(argv, i) == {j \in i..Len(argv) : argv[j].form # "word"}

Rank(S, j) == Cardinality({k \in S : k <= j})

\* Later mentions of a flag count.
ReadsFlags(parsed, argv, i) ==
  /\ DOMAIN parsed.flags = {argv[j].name : j \in Setting(argv, i)}
  /\ \A j \in Setting(argv, i) :
       (\A k \in Setting(argv, i) : k > j => argv[k].name # argv[j].name)
         => parsed.flags[argv[j].name] = FlagValue(argv, j)

ReadsWords(parsed, argv, i) ==
  /\ Len(parsed.positionals) = Cardinality(Free(argv, i))
  /\ \A j \in Free(argv, i) :
       parsed.positionals[Rank(Free(argv, i), j)] = argv[j].text

\* The members of a finite set are ranked from 1, and a new least one shifts the ranks.
LEMMA RankIs ==
  ASSUME NEW S, S \subseteq Nat, IsFiniteSet(S)
  PROVE  /\ Cardinality(S) \in Nat
         /\ \A j \in S : Rank(S, j) \in 1..Cardinality(S)
<1>1. Cardinality(S) \in Nat
  BY FS_CardinalityType
<1>2. ASSUME NEW j \in S PROVE Rank(S, j) \in 1..Cardinality(S)
  <2> DEFINE T == {k \in S : k <= j}
  <2>1. IsFiniteSet(T) /\ Cardinality(T) <= Cardinality(S)
    BY FS_Subset
  <2>2. Cardinality(T) \in Nat
    BY <2>1, FS_CardinalityType
  <2>3. j \in T
    OBVIOUS
  <2>4. Cardinality(T) # 0
    BY <2>1, <2>3, FS_EmptySet
  <2>5. Cardinality(T) \in 1..Cardinality(S)
    <3> HIDE DEF T
    <3>1. QED BY <1>1, <2>1, <2>2, <2>4
  <2>6. QED BY <2>5 DEF Rank
<1>3. QED BY <1>1, <1>2

Shifts(T, S, i) ==
  /\ Cardinality(T) = Cardinality(S) + 1 /\ Rank(T, i) = 1
  /\ \A j \in S : Rank(T, j) = Rank(S, j) + 1

\* The least member is the first.
LEMMA RankShifts ==
  ASSUME NEW S, S \subseteq Nat, IsFiniteSet(S), NEW i \in Nat, \A j \in S : j > i
  PROVE  Shifts({i} \cup S, S, i)
<1> DEFINE T == {i} \cup S
<1>1. i \notin S
  OBVIOUS
<1>2. Cardinality(T) = Cardinality(S) + 1
  <2>1. T = S \cup {i}
    OBVIOUS
  <2>2. QED BY <1>1, <2>1, FS_AddElement
<1>3. Rank(T, i) = 1
  <2>0. \A k \in T : k <= i <=> k = i
    OBVIOUS
  <2>1. {k \in T : k <= i} = {i}
    BY <2>0
  <2>2. Cardinality({i}) = 1
    BY FS_Singleton
  <2>3. QED BY <2>1, <2>2 DEF Rank
<1>4. ASSUME NEW j \in S PROVE Rank(T, j) = Rank(S, j) + 1
  <2> DEFINE A == {k \in S : k <= j}
             B == {k \in T : k <= j}
  <2>1. B = A \cup {i} /\ i \notin A
    OBVIOUS
  <2>2. IsFiniteSet(A)
    BY FS_Subset
  <2>3. Cardinality(B) = Cardinality(A) + 1
    <3> HIDE DEF A, B
    <3>1. QED BY <2>1, <2>2, FS_AddElement
  <2>4. QED BY <2>3 DEF Rank
<1>5. QED BY <1>2, <1>3, <1>4 DEF Shifts

\* The sets of tokens, one token further.
LEMMA FreeFinite ==
  ASSUME NEW argv \in Seq(Token), NEW i \in Nat
  PROVE  Free(argv, i) \subseteq Nat /\ IsFiniteSet(Free(argv, i))
<1>1. i \in Int /\ Len(argv) \in Int
  OBVIOUS
<1>2. IsFiniteSet(i..Len(argv))
  BY <1>1, FS_Interval
<1>3. Free(argv, i) \subseteq i..Len(argv)
  BY DEF Free
<1>4. QED BY <1>2, <1>3, FS_Subset

\* A word that is reached is a positional.
LEMMA FreeWord ==
  ASSUME NEW argv \in Seq(Token), NEW i \in 1..Len(argv), argv[i].form = "word"
  PROVE  /\ Free(argv, i) = {i} \cup Free(argv, i + 1)
         /\ \A j \in Free(argv, i + 1) : j > i
<1>1. ASSUME NEW j \in (i + 1)..Len(argv)
      PROVE  (j > i /\ argv[j - 1].form = "flag") <=> (j > i + 1 /\ argv[j - 1].form = "flag")
  <2>1. CASE j = i + 1
    BY <2>1
  <2>2. CASE j # i + 1
    BY <2>2
  <2>3. QED BY <2>1, <2>2
<1>2. QED BY <1>1 DEF Free

\* A flag, and its value, is none.
LEMMA FreeFlag ==
  ASSUME NEW argv \in Seq(Token), NEW i \in 1..Len(argv), argv[i].form # "word"
  PROVE  Free(argv, i) = Free(argv, After(argv, i))
<1> DEFINE taken(j, k) == j > k /\ argv[j - 1].form = "flag"
<1>1. CASE Valued(argv, i)
  <2>1. /\ argv[i].form = "flag" /\ i + 1 \in 1..Len(argv) /\ argv[i + 1].form = "word"
        /\ After(argv, i) = i + 2
    BY <1>1, AfterIs DEF Valued
  <2>2. i \notin Free(argv, i)
    BY DEF Free
  <2>3. i + 1 \notin Free(argv, i)
    <3>1. i + 1 > i /\ argv[(i + 1) - 1].form = "flag"
      BY <2>1
    <3>2. QED BY <3>1 DEF Free
  <2>4. ASSUME NEW j \in (i + 2)..Len(argv) PROVE taken(j, i) <=> taken(j, i + 2)
    <3>1. CASE j = i + 2
      <4>1. j - 1 = i + 1
        BY <3>1
      <4>2. QED BY <2>1, <3>1, <4>1
    <3>2. CASE j # i + 2
      BY <3>2
    <3>3. QED BY <3>1, <3>2
  <2>5. \A j \in (i + 2)..Len(argv) : j \in Free(argv, i) <=> j \in Free(argv, i + 2)
    BY <2>4 DEF Free
  <2>6. Free(argv, i) \subseteq i..Len(argv) /\ Free(argv, i + 2) \subseteq (i + 2)..Len(argv)
    BY DEF Free
  <2>7. \A j \in i..Len(argv) : j = i \/ j = i + 1 \/ j \in (i + 2)..Len(argv)
    OBVIOUS
  <2>8. ASSUME NEW j PROVE j \in Free(argv, i) <=> j \in Free(argv, i + 2)
    <3>1. CASE j \in (i + 2)..Len(argv)
      BY <2>5, <3>1
    <3>2. CASE ~(j \in (i + 2)..Len(argv))
      BY <2>2, <2>3, <2>6, <2>7, <3>2
    <3>3. QED BY <3>1, <3>2
  <2>9. Free(argv, i) = Free(argv, i + 2)
    BY <2>8
  <2>10. QED BY <2>1, <2>9
<1>2. CASE ~Valued(argv, i)
  <2>1. After(argv, i) = i + 1
    BY <1>2, AfterIs
  <2>2. ASSUME NEW j \in (i + 1)..Len(argv), argv[j].form = "word"
        PROVE  taken(j, i) <=> taken(j, i + 1)
    <3>1. CASE j = i + 1
      <4>1. j - 1 = i /\ i < Len(argv)
        BY <3>1
      <4>2. argv[i].form # "flag"
        BY <1>2, <2>2, <3>1, <4>1 DEF Valued
      <4>3. QED BY <3>1, <4>1, <4>2
    <3>2. CASE j # i + 1
      BY <3>2
    <3>3. QED BY <3>1, <3>2
  <2>3. \A j \in (i + 1)..Len(argv) : j \in Free(argv, i) <=> j \in Free(argv, i + 1)
    BY <2>2 DEF Free
  <2>4. /\ Free(argv, i) \subseteq i..Len(argv) /\ i \notin Free(argv, i)
        /\ Free(argv, i + 1) \subseteq (i + 1)..Len(argv)
    BY DEF Free
  <2>5. \A j \in i..Len(argv) : j = i \/ j \in (i + 1)..Len(argv)
    OBVIOUS
  <2>6. ASSUME NEW j PROVE j \in Free(argv, i) <=> j \in Free(argv, i + 1)
    <3>1. CASE j \in (i + 1)..Len(argv)
      BY <2>3, <3>1
    <3>2. CASE ~(j \in (i + 1)..Len(argv))
      BY <2>4, <2>5, <3>2
    <3>3. QED BY <3>1, <3>2
  <2>7. Free(argv, i) = Free(argv, i + 1)
    BY <2>6
  <2>8. QED BY <2>1, <2>7
<1>3. QED BY <1>1, <1>2

\* A word sets no flag.
LEMMA SettingWord ==
  ASSUME NEW argv \in Seq(Token), NEW i \in 1..Len(argv), argv[i].form = "word"
  PROVE  Setting(argv, i) = Setting(argv, i + 1)
BY DEF Setting

\* A flag or an assignment sets one, and its value none.
LEMMA SettingFlag ==
  ASSUME NEW argv \in Seq(Token), NEW i \in 1..Len(argv), argv[i].form # "word"
  PROVE  /\ Setting(argv, i) = {i} \cup Setting(argv, After(argv, i))
         /\ \A j \in Setting(argv, After(argv, i)) : j > i
<1>1. CASE Valued(argv, i)
  <2>1. argv[i + 1].form = "word" /\ After(argv, i) = i + 2
    BY <1>1, AfterIs DEF Valued
  <2>2. \A j \in i..Len(argv) : j = i \/ j = i + 1 \/ j \in (i + 2)..Len(argv)
    OBVIOUS
  <2>3. QED BY <2>1, <2>2 DEF Setting
<1>2. CASE ~Valued(argv, i)
  <2>1. After(argv, i) = i + 1
    BY <1>2, AfterIs
  <2>2. QED BY <2>1 DEF Setting
<1>3. QED BY <1>1, <1>2

-----------------------------------------------------------------------------
(* What is parsed is what the tokens say.                                  *)

Reads(parsed, argv, i) == ReadsFlags(parsed, argv, i) /\ ReadsWords(parsed, argv, i)

\* A word does not change the flags, and is the first of the positionals.
LEMMA ReadsWord ==
  ASSUME NEW argv \in Seq(Token), NEW i \in 1..Len(argv), argv[i].form = "word",
         NEW behind \in ParsedArgs, Reads(behind, argv, i + 1)
  PROVE  Reads(Added(argv, i, behind), argv, i)
<1> DEFINE parsed == Added(argv, i, behind)
           S == Free(argv, i + 1)
           T == Free(argv, i)
           s == behind.positionals
           t == parsed.positionals
<1>0. i \in Nat
  OBVIOUS
<1>1. /\ parsed.flags = behind.flags
      /\ Len(t) = Len(s) + 1 /\ t[1] = argv[i].text
      /\ \A j \in 1..Len(s) : t[j + 1] = s[j]
  BY AddedWord DEF WordBefore
<1>2. S \subseteq Nat /\ IsFiniteSet(S) /\ T = {i} \cup S /\ \A j \in S : j > i
  BY FreeWord, FreeFinite
<1>3. Len(s) = Cardinality(S) /\ \A j \in S : s[Rank(S, j)] = argv[j].text
  BY DEF Reads, ReadsWords
<1> HIDE DEF parsed, S, T
<1>4. ReadsFlags(parsed, argv, i)
  <2>1. Setting(argv, i) = Setting(argv, i + 1)
    BY SettingWord
  <2>2. ReadsFlags(behind, argv, i + 1)
    BY DEF Reads
  <2>3. QED BY <1>1, <2>1, <2>2 DEF ReadsFlags
<1> HIDE DEF s, t
<1>5. /\ Cardinality(T) = Cardinality(S) + 1 /\ Rank(T, i) = 1
      /\ \A j \in S : Rank(T, j) = Rank(S, j) + 1
  <2>1. Shifts({i} \cup S, S, i)
    BY <1>0, <1>2, RankShifts
  <2>2. QED BY <1>2, <2>1 DEF Shifts
<1>6. \A j \in S : Rank(S, j) \in 1..Len(s)
  BY <1>2, <1>3, RankIs
<1>7. \A j \in T : t[Rank(T, j)] = argv[j].text
  <2>1. \A j \in S : t[Rank(T, j)] = argv[j].text
    BY <1>1, <1>3, <1>5, <1>6
  <2>2. t[Rank(T, i)] = argv[i].text
    BY <1>1, <1>5
  <2>3. QED BY <1>2, <2>1, <2>2
<1>8. Len(t) = Cardinality(T)
  BY <1>1, <1>3, <1>5
<1>9. ReadsWords(parsed, argv, i)
  BY <1>7, <1>8 DEF ReadsWords, T, t
<1>10. QED BY <1>4, <1>9 DEF Reads, parsed

\* A flag leaves the positionals, and those that were set behind it.
LEMMA ReadsFlag ==
  ASSUME NEW argv \in Seq(Token), NEW i \in 1..Len(argv), argv[i].form # "word",
         NEW behind \in ParsedArgs, Reads(behind, argv, After(argv, i))
  PROVE  Reads(Added(argv, i, behind), argv, i)
<1> DEFINE parsed == Added(argv, i, behind)
           S == Setting(argv, After(argv, i))
           T == Setting(argv, i)
           f == behind.flags
           g == parsed.flags
<1>1. /\ parsed.positionals = behind.positionals
      /\ DOMAIN g = DOMAIN f \cup {argv[i].name}
      /\ \A name \in DOMAIN f : g[name] = f[name]
      /\ argv[i].name \notin DOMAIN f => g[argv[i].name] = FlagValue(argv, i)
  BY AddedFlag DEF FlagBefore
<1>2. T = {i} \cup S /\ \A j \in S : j > i
  BY SettingFlag
<1>3. /\ DOMAIN f = {argv[j].name : j \in S}
      /\ \A j \in S : (\A k \in S : k > j => argv[k].name # argv[j].name)
                        => f[argv[j].name] = FlagValue(argv, j)
  BY DEF Reads, ReadsFlags
<1>4. ReadsWords(parsed, argv, i)
  <2>1. Free(argv, i) = Free(argv, After(argv, i))
    BY FreeFlag
  <2>2. ReadsWords(behind, argv, After(argv, i))
    BY DEF Reads
  <2> HIDE DEF parsed
  <2>3. QED BY <1>1, <2>1, <2>2 DEF ReadsWords
<1> HIDE DEF parsed, S, T, f, g
<1>5. DOMAIN g = {argv[j].name : j \in T}
  BY <1>1, <1>2, <1>3
<1>6. ASSUME NEW j \in T, \A k \in T : k > j => argv[k].name # argv[j].name
      PROVE  g[argv[j].name] = FlagValue(argv, j)
  <2>1. CASE j = i
    <3>1. \A k \in S : argv[k].name # argv[i].name
      BY <1>2, <1>6, <2>1
    <3>2. argv[i].name \notin DOMAIN f
      BY <1>3, <3>1
    <3>3. QED BY <1>1, <2>1, <3>2
  <2>2. CASE j # i
    <3>1. j \in S /\ \A k \in S : k > j => argv[k].name # argv[j].name
      BY <1>2, <1>6, <2>2
    <3>2. argv[j].name \in DOMAIN f
      BY <1>3, <3>1
    <3>3. f[argv[j].name] = FlagValue(argv, j)
      BY <1>3, <3>1
    <3>4. QED BY <1>1, <3>2, <3>3
  <2>3. QED BY <2>1, <2>2
<1>7. ReadsFlags(parsed, argv, i)
  BY <1>5, <1>6 DEF ReadsFlags, T, g
<1>8. QED BY <1>4, <1>7 DEF Reads, parsed

\* Behind the last token there is nothing to say.
LEMMA ReadsNothing ==
  ASSUME NEW argv \in Seq(Token), NEW i \in Nat, i > Len(argv)
  PROVE  Reads(NothingParsed, argv, i)
<1>1. Setting(argv, i) = {} /\ Free(argv, i) = {}
  BY DEF Setting, Free
<1>2. NothingParsed.positionals = <<>> /\ Len(<<>>) = 0
  BY DEF NothingParsed
<1>3. Cardinality({}) = 0
  BY FS_EmptySet
<1>4. ReadsWords(NothingParsed, argv, i)
  BY <1>1, <1>2, <1>3 DEF ReadsWords
<1>5. ReadsFlags(NothingParsed, argv, i)
  BY <1>1, NothingParsedIs DEF ReadsFlags
<1>6. QED BY <1>4, <1>5 DEF Reads

(***************************************************************************)
(* Whatever the tokens and their order, the parser reads what they say: by *)
(* induction from the last token to the first, as the loop comes to each   *)
(* of them with what is behind it still to read.                           *)
(***************************************************************************)
THEOREM ParserReads ==
  ASSUME NEW argv \in Seq(Token)
  PROVE  Parse(argv) \in ParsedArgs /\ Reads(Parse(argv), argv, 2)
<1> DEFINE n == Len(argv)
<1>1. n \in Nat
  OBVIOUS
<1>2. PICK parse : /\ Parses(parse, argv)
                   /\ Parse(argv) = IF argv = <<>> THEN NothingParsed ELSE parse[2]
  BY ParseIs
<1>3. /\ \A i \in 1..(n + 1) : parse[i] \in ParsedArgs
      /\ parse[n + 1] = NothingParsed
      /\ \A i \in 1..n : parse[i] = Added(argv, i, parse[After(argv, i)])
  BY <1>2 DEF Parses
<1> DEFINE P == {j \in 0..(n + 1) : \A i \in j..(n + 1) : i # 0 => Reads(parse[i], argv, i)}
<1>4. n + 1 \in P
  <2>1. Reads(parse[n + 1], argv, n + 1)
    BY <1>1, <1>3, ReadsNothing
  <2>2. \A i \in (n + 1)..(n + 1) : i = n + 1
    BY <1>1
  <2>3. QED BY <1>1, <2>1, <2>2
<1>5. ASSUME NEW j \in Nat, j < n + 1, j + 1 \in P PROVE j \in P
  <2>1. \A i \in (j + 1)..(n + 1) : Reads(parse[i], argv, i)
    BY <1>5
  <2>2. ASSUME j # 0 PROVE Reads(parse[j], argv, j)
    <3>1. j \in 1..n
      BY <1>1, <1>5, <2>2
    <3>2. After(argv, j) \in (j + 1)..(n + 1) /\ (~Valued(argv, j) => After(argv, j) = j + 1)
      BY <3>1, AfterIs
    <3>3. parse[After(argv, j)] \in ParsedArgs /\ Reads(parse[After(argv, j)], argv, After(argv, j))
      BY <1>1, <1>3, <2>1, <3>1, <3>2
    <3>4. parse[j] = Added(argv, j, parse[After(argv, j)])
      BY <1>3, <3>1
    <3>5. CASE argv[j].form = "word"
      <4>1. After(argv, j) = j + 1
        BY <3>2, <3>5 DEF Valued
      <4>2. QED BY <3>1, <3>3, <3>4, <3>5, <4>1, ReadsWord
    <3>6. CASE argv[j].form # "word"
      BY <3>1, <3>3, <3>4, <3>6, ReadsFlag
    <3>7. QED BY <3>5, <3>6
  <2>3. \A i \in j..(n + 1) : i = j \/ i \in (j + 1)..(n + 1)
    BY <1>1
  <2>4. QED BY <1>1, <1>5, <2>1, <2>2, <2>3
<1> HIDE DEF P, n
<1>6. 0..(n + 1) \subseteq P
  <2>1. n + 1 \in Nat
    BY <1>1
  <2>2. QED BY <1>4, <1>5, <2>1, DownwardInduction
<1>7. CASE argv = <<>>
  <2>1. 2 \in Nat /\ 2 > Len(argv)
    BY <1>7
  <2>2. Parse(argv) = NothingParsed
    BY <1>2, <1>7
  <2>3. QED BY <2>1, <2>2, NothingParsedIs, ReadsNothing
<1>8. CASE argv # <<>>
  <2>1. 2 \in 1..(n + 1)
    BY <1>1, <1>8 DEF n
  <2>2. 2 \in P
    BY <1>1, <1>6, <2>1
  <2>3. Reads(parse[2], argv, 2)
    BY <2>1, <2>2 DEF P
  <2>4. QED BY <1>2, <1>3, <1>8, <2>1, <2>3
<1>9. QED BY <1>7, <1>8

\* The last mention of a flag, if there is one.
LEMMA LastSetIs ==
  ASSUME NEW argv \in Seq(Token), NEW name, name \in {argv[j].name : j \in Setting(argv, 2)}
  PROVE  LET i == LastSet(argv, name)
         IN  /\ i \in Setting(argv, 2) /\ argv[i].name = name
             /\ \A k \in Setting(argv, 2) : k > i => argv[k].name # name
<1> DEFINE sets == {i \in 2..Len(argv) : argv[i].form \in {"flag", "assign"} /\ argv[i].name = name}
           n == Len(argv)
           T == {n - i : i \in sets}
<1>1. sets = {i \in Setting(argv, 2) : argv[i].name = name}
  <2>1. \A i \in 2..Len(argv) : argv[i].form \in {"flag", "assign"} <=> argv[i].form # "word"
    BY TokenIs
  <2>2. QED BY <2>1 DEF Setting
<1>2. sets # {} /\ n \in Nat /\ sets \subseteq 2..n
  BY <1>1
<1> HIDE DEF sets, n
<1>3. T # {} /\ T \subseteq Nat
  <2>1. \A i \in sets : n - i \in Nat
    BY <1>2
  <2>2. PICK i \in sets : TRUE
    BY <1>2
  <2>3. QED BY <2>1, <2>2
<1>4. PICK m \in T : \A k \in T : m <= k
  <2> HIDE DEF T
  <2>1. QED BY <1>3, LeastMember
<1>5. PICK i \in sets : m = n - i
  BY <1>4
<1>6. \A j \in sets : j <= i
  <2>1. \A j \in sets : n - i <= n - j
    BY <1>4, <1>5
  <2>2. QED BY <1>2, <2>1
<1>7. LastSet(argv, name) = CHOOSE k \in sets \cup {0} : \A j \in sets : j <= k
  BY DEF LastSet, sets
<1>8. /\ LastSet(argv, name) \in sets \cup {0}
      /\ \A j \in sets : j <= LastSet(argv, name)
  BY <1>6, <1>7
<1>9. LastSet(argv, name) \in sets
  BY <1>2, <1>5, <1>8
<1>10. \A k \in Setting(argv, 2) : k > LastSet(argv, name) => k \notin sets
  <2>1. ASSUME NEW k \in sets PROVE ~(k > LastSet(argv, name))
    <3> DEFINE last == LastSet(argv, name)
    <3>1. k <= last
      BY <1>8
    <3>2. last \in 2..n /\ k \in 2..n
      BY <1>2, <1>9
    <3> HIDE DEF last
    <3>3. QED BY <1>2, <3>1, <3>2 DEF last
  <2>2. QED BY <2>1
<1>11. QED BY <1>1, <1>9, <1>10

\* What is parsed of a flag is what its last mention says.
LEMMA FlagsSay ==
  ASSUME NEW argv \in Seq(Token), NEW name \in DOMAIN Parse(argv).flags
  PROVE  /\ LastSet(argv, name) # 0
         /\ Parse(argv).flags[name] = Says(argv, name)
<1> DEFINE parsed == Parse(argv)
           i == LastSet(argv, name)
<1>1. ReadsFlags(parsed, argv, 2)
  BY ParserReads DEF Reads
<1>2. name \in {argv[j].name : j \in Setting(argv, 2)}
  BY <1>1 DEF ReadsFlags
<1>3. /\ i \in Setting(argv, 2) /\ argv[i].name = name
      /\ \A k \in Setting(argv, 2) : k > i => argv[k].name # name
  BY <1>2, LastSetIs
<1>4. Says(argv, name) = IF argv[i].form = "assign" THEN <<argv[i].text>>
                         ELSE IF i < Len(argv) /\ argv[i + 1].form = "word"
                              THEN <<argv[i + 1].text>> ELSE <<>>
  BY DEF Says
<1> HIDE DEF parsed, i
<1>5. parsed.flags[name] = FlagValue(argv, i)
  BY <1>1, <1>3 DEF ReadsFlags
<1>6. i \in 1..Len(argv) /\ i # 0 /\ argv[i].form # "word"
  BY <1>3 DEF Setting
<1>7. argv[i].form \in {"flag", "assign"}
  BY <1>6, TokenIs
<1>8. FlagValue(argv, i) = Says(argv, name)
  <2>1. CASE argv[i].form = "assign"
    BY <1>4, <2>1 DEF FlagValue
  <2>2. CASE argv[i].form = "flag"
    <3>1. Valued(argv, i) <=> i < Len(argv) /\ argv[i + 1].form = "word"
      BY <2>2 DEF Valued
    <3>2. argv[i].form # "assign"
      BY <2>2
    <3>3. QED BY <1>4, <3>1, <3>2 DEF FlagValue
  <2>3. QED BY <1>7, <2>1, <2>2
<1>9. QED BY <1>5, <1>6, <1>8 DEF parsed, i

(***************************************************************************)
(* The parser meets its reference on every command line.                   *)
(***************************************************************************)
THEOREM ParserMeetsReference == CliSpec => []ParseMeetsReference
<1>1. ASSUME NEW argv \in Parsed
      PROVE  LET parsed == Parse(argv)
                 free   == {i \in 2 .. Len(argv) : argv[i].form = "word" /\ ~Taken(argv, i)}
             IN  /\ DOMAIN parsed.flags =
                      {argv[i].name : i \in {j \in 2 .. Len(argv) : argv[j].form # "word"}}
                 /\ \A name \in DOMAIN parsed.flags : parsed.flags[name] = Says(argv, name)
                 /\ Len(parsed.positionals) = Cardinality(free)
                 /\ \A i \in free :
                      parsed.positionals[Cardinality({j \in free : j <= i})] = argv[i].text
  <2> DEFINE parsed == Parse(argv)
             free   == {i \in 2 .. Len(argv) : argv[i].form = "word" /\ ~Taken(argv, i)}
  <2>1. argv \in Seq(Token)
    BY ParsedAssumption
  <2>2. Reads(parsed, argv, 2)
    BY <2>1, ParserReads
  <2>3. free = Free(argv, 2)
    BY DEF Free, Taken
  <2>4. \A name \in DOMAIN parsed.flags : parsed.flags[name] = Says(argv, name)
    BY <2>1, FlagsSay
  <2> HIDE DEF parsed, free
  <2>5. DOMAIN parsed.flags = {argv[i].name : i \in {j \in 2 .. Len(argv) : argv[j].form # "word"}}
    BY <2>2 DEF Reads, ReadsFlags, Setting
  <2>6. /\ Len(parsed.positionals) = Cardinality(free)
        /\ \A i \in free : parsed.positionals[Cardinality({j \in free : j <= i})] = argv[i].text
    BY <2>2, <2>3 DEF Reads, ReadsWords, Rank
  <2>7. QED BY <2>4, <2>5, <2>6 DEF parsed, free
<1>2. ParseMeetsReference
  BY <1>1 DEF ParseMeetsReference
<1>3. QED BY <1>2, PTL

-----------------------------------------------------------------------------
(* What a command line asks for.                                           *)

Place == Text \cup {""}

PlanRecord ==
  [phase : {"ended", "checking", "making", "generating", "reading"}, exit : {0, 1},
   place : Place, todo : Seq(FileName)]

\* What holds of the plan of a command line.
Planned(line, plan) ==
  /\ plan \in PlanRecord
  /\ plan.phase = "ended" /\ plan.exit = 0 => plan.place = ""
  /\ plan.phase = "reading" => plan.todo = <<>>
  /\ plan.phase \in {"checking", "making", "generating"} => plan.todo # <<>>
  /\ plan.phase = "making" => Forced(Parse(line.argv))
  /\ line.tool = "qdeno" => plan.phase \notin {"generating", "reading"}
  /\ line.tool # "qdeno" =>
       /\ plan.phase \notin {"checking", "making"}
       /\ \A i \in DOMAIN plan.todo : plan.todo[i] \in PemFile

\* A flag's text is a text.
LEMMA FlagStringIs ==
  ASSUME NEW parsed \in ParsedArgs, NEW name, NEW fallback \in Place
  PROVE  FlagString(parsed, name, fallback) \in Place
<1>1. CASE name \in DOMAIN parsed.flags /\ parsed.flags[name] # <<>>
  <2>1. parsed.flags \in FlagSets
    BY DEF ParsedArgs
  <2>2. parsed.flags[name] \in FlagValues
    BY <1>1, <2>1, FlagSetIs
  <2>3. PICK text \in Text : parsed.flags[name] = <<text>>
    BY <1>1, <2>2 DEF FlagValues
  <2>4. parsed.flags[name][1] = text
    BY <2>3
  <2>5. FlagString(parsed, name, fallback) = text
    BY <1>1, <2>4 DEF FlagString
  <2>6. QED BY <2>5 DEF Place
<1>2. CASE ~(name \in DOMAIN parsed.flags /\ parsed.flags[name] # <<>>)
  BY <1>2, Zenon DEF FlagString
<1>3. QED BY <1>1, <1>2

\* A positional is a text.
LEMMA PositionalIs ==
  ASSUME NEW parsed \in ParsedArgs, NEW i \in Nat
  PROVE  Positional(parsed, i) \in Place
<1>1. parsed.positionals \in Seq(Text)
  BY DEF ParsedArgs
<1>2. i \in DOMAIN parsed.positionals => parsed.positionals[i] \in Text
  BY <1>1
<1>3. QED BY <1>2, Zenon DEF Positional, Place

\* The templates.
LEMMA TemplateFilesAre ==
  ASSUME NEW kind
  PROVE  TemplateFiles(kind) \in Seq(FileName) /\ TemplateFiles(kind) # <<>>
<1> DEFINE s == <<"deno.json", "README.md", "main.ts">>
<1>1. s \in Seq(FileName) /\ Len(s) = 3
  BY DEF FileName
<1>2. CASE kind = "grpc"
  <2> DEFINE t == <<"service.proto">>
  <2>1. t \in Seq(FileName) /\ Len(t) = 1
    BY DEF FileName
  <2> HIDE DEF s, t
  <2>2. s \o t \in Seq(FileName) /\ Len(s \o t) = Len(s) + Len(t)
    BY <1>1, <2>1, ConcatProperties
  <2>3. s \o t # <<>>
    BY <1>1, <2>1, <2>2
  <2>4. TemplateFiles(kind) = s \o t
    BY <1>2 DEF TemplateFiles, s, t
  <2>5. QED BY <2>2, <2>3, <2>4
<1>3. CASE kind # "grpc"
  <2> HIDE DEF s
  <2>1. s \o <<>> = s
    BY <1>1, ConcatEmptySeq
  <2>2. TemplateFiles(kind) = s \o <<>>
    BY <1>3 DEF TemplateFiles, s
  <2>3. QED BY <1>1, <2>1, <2>2
<1>4. QED BY <1>2, <1>3

\* A command line that is refused, or only asks for help.
LEMMA ExitIs ==
  ASSUME NEW line, NEW code \in {0, 1}
  PROVE  Planned(line, Exit(code))
<1> DEFINE plan == Exit(code)
<1>1. /\ plan \in PlanRecord /\ plan.phase = "ended" /\ plan.place = "" /\ plan.todo = <<>>
  BY DEF Exit, PlanRecord, Place
<1>0. DOMAIN <<>> = {}
  OBVIOUS
<1> HIDE DEF plan
<1>2. Planned(line, plan)
  <2>1. DOMAIN plan.todo = {}
    BY <1>0, <1>1
  <2>2. QED BY <1>1, <2>1 DEF Planned
<1>3. QED BY <1>2 DEF plan

\* What run of qdeno asks for.
LEMMA QdenoIs ==
  ASSUME NEW line \in Line, line.tool = "qdeno"
  PROVE  Planned(line, PlanQdeno(line.argv))
<1> DEFINE parsed == Parse(line.argv)
           kind   == Positional(parsed, 1)
           name   == Positional(parsed, 2)
           phase  == IF Forced(parsed) THEN "making" ELSE "checking"
           place  == FlagString(parsed, "dir", name)
           plan   == GoOn(phase, place, TemplateFiles(kind))
<1>1. line.argv \in Seq(Token)
  BY LineAssumption, ParsedAssumption
<1>2. parsed \in ParsedArgs
  BY <1>1, ParserReads
<1>3. place \in Place
  BY <1>2, PositionalIs, FlagStringIs
<1>4. TemplateFiles(kind) \in Seq(FileName) /\ TemplateFiles(kind) # <<>>
  BY TemplateFilesAre
<1>5. Planned(line, plan)
  <2>1. phase \in {"making", "checking"} /\ (phase = "making" => Forced(parsed))
    OBVIOUS
  <2> HIDE DEF phase, place, parsed
  <2>2. /\ plan \in PlanRecord /\ plan.phase = phase /\ plan.todo # <<>>
    BY <1>3, <1>4, <2>1 DEF GoOn, PlanRecord
  <2> HIDE DEF plan
  <2>3. QED BY <2>1, <2>2 DEF Planned, parsed
<1>6. PlanQdeno(line.argv) \in {Exit(0), Exit(1), plan}
  BY DEF PlanQdeno
<1>7. QED BY <1>5, <1>6, ExitIs

\* What run of deno-openssl asks for.
LEMMA OpensslIs ==
  ASSUME NEW line \in Line, line.tool # "qdeno"
  PROVE  Planned(line, PlanOpenssl(line.argv))
<1> DEFINE parsed == Parse(line.argv)
           out    == FlagString(parsed, "out", "")
           two    == GoOn("generating", out, <<"key.pem", "pub.pem">>)
           three  == GoOn("generating", out, <<"crt.pem", "key.pem", "pub.pem">>)
           reads  == GoOn("reading", Positional(parsed, 1), <<>>)
<1>1. line.argv \in Seq(Token)
  BY LineAssumption, ParsedAssumption
<1>2. parsed \in ParsedArgs
  BY <1>1, ParserReads
<1>3. out \in Place /\ Positional(parsed, 1) \in Place
  BY <1>2, PositionalIs, FlagStringIs DEF Place
<1>4. ASSUME NEW todo \in Seq(FileName), todo # <<>>, \A i \in DOMAIN todo : todo[i] \in PemFile
      PROVE  Planned(line, GoOn("generating", out, todo))
  <2> DEFINE plan == GoOn("generating", out, todo)
  <2> HIDE DEF out
  <2>1. plan \in PlanRecord /\ plan.phase = "generating" /\ plan.todo = todo
    BY <1>3 DEF GoOn, PlanRecord
  <2> HIDE DEF plan
  <2>2. Planned(line, plan)
    BY <1>4, <2>1 DEF Planned
  <2>3. QED BY <2>2 DEF plan
<1>5. Planned(line, two) /\ Planned(line, three)
  <2> DEFINE s == <<"key.pem", "pub.pem">>
             t == <<"crt.pem", "key.pem", "pub.pem">>
  <2>1. s \in Seq(FileName) /\ s # <<>> /\ \A i \in DOMAIN s : s[i] \in PemFile
    BY DEF FileName, PemFile
  <2>2. t \in Seq(FileName) /\ t # <<>> /\ \A i \in DOMAIN t : t[i] \in PemFile
    BY DEF FileName, PemFile
  <2>3. QED BY <1>4, <2>1, <2>2
<1>6. Planned(line, reads)
  <2> DEFINE text == Positional(parsed, 1)
  <2>0. text \in Place
    BY <1>3
  <2>1. <<>> \in Seq(FileName) /\ DOMAIN <<>> = {}
    OBVIOUS
  <2> HIDE DEF text
  <2>2. reads \in PlanRecord /\ reads.phase = "reading" /\ reads.todo = <<>>
    BY <2>0, <2>1 DEF GoOn, PlanRecord, text
  <2> HIDE DEF reads
  <2>3. DOMAIN reads.todo = {}
    BY <2>1, <2>2
  <2>4. QED BY <2>2, <2>3 DEF Planned
<1>7. PlanOpenssl(line.argv) \in {Exit(0), Exit(1), two, three, reads}
  BY DEF PlanOpenssl
<1>8. QED BY <1>5, <1>6, <1>7, ExitIs

\* What either tool is asked for.
LEMMA PlanIs ==
  ASSUME NEW line \in Line
  PROVE  Planned(line, Plan(line))
<1>1. CASE line.tool = "qdeno"
  BY <1>1, QdenoIs DEF Plan
<1>2. CASE line.tool # "qdeno"
  BY <1>2, OpensslIs DEF Plan
<1>3. QED BY <1>1, <1>2

-----------------------------------------------------------------------------
(* Runs of the tools.                                                      *)

RunRecord ==
  [phase : {"idle", "checking", "making", "generating", "reading", "opening", "filling", "ended"},
   exit : {0, 1, 137}, place : Place, todo : Seq(FileName), line : Line \cup {Nobody},
   found : BOOLEAN, touched : BOOLEAN, fault : BOOLEAN, alone : BOOLEAN]

Files(line) == LET todo == Plan(line).todo IN {todo[i] : i \in DOMAIN todo}

Left(r) == {r.todo[i] : i \in DOMAIN r.todo}

(***************************************************************************)
(* What holds of a run by itself: it does what its command line asks for,  *)
(* has touched nothing before it opens its first file, and in a directory  *)
(* that it found opens none without --force.                               *)
(***************************************************************************)
Obeys(r) ==
  /\ r.line \in Line /\ r.place = Plan(r.line).place /\ Left(r) \subseteq Files(r.line)
  /\ r.line.tool = "qdeno" => r.phase \notin {"generating", "reading"}
  /\ r.line.tool # "qdeno" => r.phase \notin {"checking", "making"}
  /\ r.phase \in {"checking", "making", "generating", "reading"} =>
       r.todo = Plan(r.line).todo /\ ~r.touched
  /\ r.phase = "reading" => r.todo = <<>>
  /\ r.phase \in {"checking", "making", "generating", "opening", "filling"} => r.todo # <<>>
  /\ r.touched /\ ~r.fault => r.phase \in {"opening", "filling"} \/ (r.phase = "ended" /\ r.exit = 0)
  /\ r.line.tool = "qdeno" /\ r.found /\ ~r.fault
       /\ (r.phase \in {"making", "opening", "filling"} \/ r.touched)
     => Forced(Parse(r.line.argv))

Sound(r) == r \in RunRecord /\ (r.phase # "idle" => Obeys(r))

Own(p, name) ==
  LET path == [at |-> run[p].place, name |-> name]
  IN  path \in DOMAIN file /\ file[path] = [by |-> p, holds |-> "whole"]

\* The files that a run has gone past are there, and the one it is at is empty.
WritesAll(p) ==
  /\ run[p].phase \in {"opening", "filling"} =>
       \A name \in Files(run[p].line) : name \in Left(run[p]) \/ Own(p, name)
  /\ run[p].phase = "filling" =>
       Current(p) \in DOMAIN file /\ file[Current(p)] = [by |-> p, holds |-> "empty"]
  /\ run[p].phase = "ended" /\ run[p].exit = 0 /\ run[p].place # "" =>
       \A name \in Files(run[p].line) : Own(p, name)

\* Only its files are in a directory that a run made.
Exclusive(p) ==
  ~run[p].found /\ run[p].place \in dir =>
    \A path \in DOMAIN file :
      path.at = run[p].place /\ path.name \notin PemFile => path.name \in Files(run[p].line)

\* What holds of a run and the file system.
Keeps(p) ==
  run[p].phase # "idle" =>
    /\ run[p].found => run[p].place \in dir
    /\ run[p].line.tool = "qdeno" /\ run[p].phase \in {"opening", "filling"} => run[p].place \in dir
    /\ run[p].alone => WritesAll(p) /\ Exclusive(p)

\* Whoever else has the place of a run that is alone there has ended.
Apart ==
  \A p, q \in Process :
    p # q /\ run[p].phase # "idle" /\ run[p].alone /\ Uses(q, run[p].place) => run[q].phase = "ended"

FilesInDirectories == \A path \in DOMAIN file : path.name \notin PemFile => path.at \in dir

CliInv ==
  /\ run \in [Process -> RunRecord]
  /\ \A p \in Process : Sound(run[p]) /\ Keeps(p)
  /\ Apart /\ FilesInDirectories

-----------------------------------------------------------------------------
(* A step of a run that is under way.                                      *)

\* The run stays what it is, and touches its own place only.
Steps(p, r) ==
  /\ p \in Live
  /\ run' = [run EXCEPT ![p] = r]
  /\ r.phase # "idle" /\ r.line = run[p].line /\ r.place = run[p].place
  /\ r.found = run[p].found /\ r.alone = run[p].alone
  /\ dir' = dir \/ dir' = dir \cup {run[p].place}
  /\ \/ file' = file
     \/ run[p].phase \in {"opening", "filling"} /\ \E content : Holds(Current(p), content)

\* What another run can see of it.
Elsewhere(p, r) ==
  /\ run'[p] = r /\ \A q \in Process : q # p => run'[q] = run[q]
  /\ dir \subseteq dir' /\ \A place \in dir' : place # run[p].place => place \in dir
  /\ DOMAIN file \subseteq DOMAIN file'
  /\ \A path \in DOMAIN file' : path # Current(p) => path \in DOMAIN file
  /\ \A path \in DOMAIN file : path # Current(p) => file'[path] = file[path]
  /\ \A path \in DOMAIN file' : path.at # run[p].place => path # Current(p)
  /\ run[p].phase \notin {"opening", "filling"} => file' = file

\* A step changes one run, its directory and the file it is at.
LEMMA StepsElsewhere ==
  ASSUME CliInv, NEW p \in Process, NEW r, Steps(p, r)
  PROVE  Elsewhere(p, r)
<1>1. run'[p] = r /\ \A q \in Process : q # p => run'[q] = run[q]
  BY DEF CliInv, Steps
<1>2. dir \subseteq dir' /\ \A place \in dir' : place # run[p].place => place \in dir
  BY DEF Steps
<1> DEFINE here == Current(p)
<1>3. here.at = run[p].place
  BY DEF Current
<1> HIDE DEF here
<1>4. /\ DOMAIN file \subseteq DOMAIN file'
      /\ \A path \in DOMAIN file' : path # here => path \in DOMAIN file
      /\ \A path \in DOMAIN file : path # here => file'[path] = file[path]
  <2>1. CASE file' = file
    BY <2>1
  <2>2. CASE file' # file
    <3>1. PICK content : Holds(here, content)
      BY <2>2 DEF Steps, here
    <3>2. file' = [other \in DOMAIN file \cup {here} |-> IF other = here THEN content ELSE file[other]]
      BY <3>1 DEF Holds
    <3>3. QED BY <3>2
  <2>3. QED BY <2>1, <2>2
<1>5. \A path \in DOMAIN file' : path.at # run[p].place => path # here
  BY <1>3
<1>6. run[p].phase \notin {"opening", "filling"} => file' = file
  BY DEF Steps
<1>7. QED BY <1>1, <1>2, <1>4, <1>5, <1>6 DEF Elsewhere, here

\* The run that takes it is what it comes to.
LEMMA StepsHere ==
  ASSUME CliInv, NEW p \in Process, NEW r, Steps(p, r)
  PROVE  run'[p] = r
<1>1. Elsewhere(p, r)
  BY StepsElsewhere
<1>2. QED BY <1>1 DEF Elsewhere

\* No other run that is alone shares the place of a run that is under way.
LEMMA AloneIsElsewhere ==
  ASSUME CliInv, NEW p \in Live, NEW q \in Process, q # p,
         run[q].phase # "idle", run[q].alone
  PROVE  run[q].place # run[p].place
<1>1. p \in Process /\ run[p].phase # "idle" /\ run[p].phase # "ended"
  BY DEF Live
<1>2. QED BY <1>1 DEF CliInv, Apart, Uses

\* It takes nothing from a run that is alone elsewhere, or shares its place.
LEMMA OthersKeep ==
  ASSUME CliInv, NEW p \in Process, NEW r, Steps(p, r), NEW q \in Process, q # p
  PROVE  Keeps(q)'
<1>0. p \in Live
  BY DEF Steps
<1>1. Elsewhere(p, r)
  BY StepsElsewhere
<1>2. run'[q] = run[q] /\ dir \subseteq dir'
  BY <1>1 DEF Elsewhere
<1> SUFFICES ASSUME run[q].phase # "idle"
             PROVE  /\ run[q].found => run[q].place \in dir'
                    /\ run[q].line.tool = "qdeno" /\ run[q].phase \in {"opening", "filling"}
                         => run[q].place \in dir'
                    /\ run[q].alone => WritesAll(q)' /\ Exclusive(q)'
  BY <1>2 DEF Keeps
<1>3. Keeps(q)
  BY DEF CliInv
<1>4. ASSUME run[q].alone PROVE WritesAll(q)' /\ Exclusive(q)'
  <2>1. run[q].place # run[p].place
    BY <1>0, <1>4, AloneIsElsewhere
  <2>2. WritesAll(q) /\ Exclusive(q)
    BY <1>3, <1>4 DEF Keeps
  <2>3. \A path : path.at = run[q].place => path # Current(p)
    BY <2>1 DEF Current
  <2>4. \A path : path.at = run[q].place =>
          /\ path \in DOMAIN file' <=> path \in DOMAIN file
          /\ path \in DOMAIN file => file'[path] = file[path]
    BY <1>1, <2>3 DEF Elsewhere
  <2>5. ASSUME NEW name, Own(q, name) PROVE Own(q, name)'
    <3> DEFINE path == [at |-> run[q].place, name |-> name]
    <3>1. path.at = run[q].place
      OBVIOUS
    <3>2. path \in DOMAIN file /\ file[path] = [by |-> q, holds |-> "whole"]
      BY <2>5 DEF Own
    <3> HIDE DEF path
    <3>3. path \in DOMAIN file' /\ file'[path] = [by |-> q, holds |-> "whole"]
      BY <2>4, <3>1, <3>2
    <3>4. QED BY <1>2, <3>3 DEF Own, path
  <2>6. run[q].phase = "filling" =>
          Current(q) \in DOMAIN file' /\ file'[Current(q)] = [by |-> q, holds |-> "empty"]
    <3> SUFFICES ASSUME run[q].phase = "filling"
                 PROVE  Current(q) \in DOMAIN file' /\ file'[Current(q)] = [by |-> q, holds |-> "empty"]
      OBVIOUS
    <3>1. Current(q).at = run[q].place
      BY DEF Current
    <3>2. Current(q) # Current(p)
      BY <2>3, <3>1
    <3>3. Current(q) \in DOMAIN file /\ file[Current(q)] = [by |-> q, holds |-> "empty"]
      BY <2>2 DEF WritesAll
    <3>4. QED BY <2>4, <3>1, <3>3
  <2>7. Current(q)' = Current(q)
    BY <1>2 DEF Current
  <2>8. WritesAll(q)'
    BY <1>2, <2>2, <2>5, <2>6, <2>7 DEF WritesAll
  <2>9. run[q].place \in dir' => run[q].place \in dir
    BY <1>1, <2>1 DEF Elsewhere
  <2>10. Exclusive(q)'
    BY <1>2, <2>2, <2>4, <2>9 DEF Exclusive
  <2>11. QED BY <2>8, <2>10
<1>5. QED BY <1>2, <1>3, <1>4 DEF Keeps

\* Nobody comes to a place by a step but a start.
LEMMA ApartStays ==
  ASSUME CliInv, NEW p \in Process, NEW r, Steps(p, r)
  PROVE  Apart'
<1>1. p \in Live /\ r.alone = run[p].alone /\ r.place = run[p].place
  BY DEF Steps
<1>2. run'[p] = r /\ \A q \in Process : q # p => run'[q] = run[q]
  BY StepsElsewhere DEF Elsewhere
<1>3. run[p].phase # "idle" /\ run[p].phase # "ended"
  BY <1>1 DEF Live
<1>4. Apart
  BY DEF CliInv
<1>5. ASSUME NEW a \in Process, NEW b \in Process, a # b,
             run'[a].phase # "idle", run'[a].alone, run'[b].phase # "idle", run'[b].place = run'[a].place
      PROVE  run'[b].phase = "ended"
  <2>1. CASE a = p
    <3>1. run'[b] = run[b] /\ run[a].alone /\ run[b].place = run[a].place
      BY <1>1, <1>2, <1>5, <2>1
    <3>2. QED BY <1>3, <1>4, <1>5, <2>1, <3>1 DEF Apart, Uses
  <2>2. CASE b = p
    <3>1. run'[a] = run[a] /\ run[b].place = run[a].place
      BY <1>1, <1>2, <1>5, <2>2
    <3>2. run[b].phase = "ended"
      BY <1>3, <1>4, <1>5, <2>2, <3>1 DEF Apart, Uses
    <3>3. QED BY <1>3, <2>2, <3>2
  <2>3. CASE a # p /\ b # p
    BY <1>2, <1>4, <1>5, <2>3 DEF Apart, Uses
  <2>4. QED BY <2>1, <2>2, <2>3
<1>6. QED BY <1>5 DEF Apart, Uses

\* What a run of deno-openssl writes is not in a directory.
LEMMA PemFilesOnly ==
  ASSUME NEW line \in Line, line.tool # "qdeno"
  PROVE  Files(line) \subseteq PemFile
BY PlanIs DEF Planned, Files

\* The file that a run is at is one of its files.
LEMMA CurrentIs ==
  ASSUME NEW p \in Process, Sound(run[p]), run[p].phase \in {"opening", "filling"}
  PROVE  /\ Head(run[p].todo) \in Left(run[p]) /\ Head(run[p].todo) \in Files(run[p].line)
         /\ Current(p).at = run[p].place /\ Current(p).name = Head(run[p].todo)
<1>1. run[p].todo \in Seq(FileName) /\ run[p].todo # <<>> /\ Left(run[p]) \subseteq Files(run[p].line)
  BY DEF Sound, Obeys, RunRecord
<1>2. 1 \in DOMAIN run[p].todo /\ Head(run[p].todo) = run[p].todo[1]
  BY <1>1
<1>3. QED BY <1>1, <1>2 DEF Left, Current

\* qdeno opens files in a directory that it found or made.
LEMMA FilesInDirectoriesStay ==
  ASSUME CliInv, NEW p \in Process, NEW r, Steps(p, r)
  PROVE  FilesInDirectories'
<1>1. Elsewhere(p, r)
  BY StepsElsewhere
<1>2. Sound(run[p]) /\ Keeps(p) /\ FilesInDirectories
  BY DEF CliInv
<1>3. ASSUME NEW path \in DOMAIN file', path.name \notin PemFile PROVE path.at \in dir'
  <2>1. CASE path \in DOMAIN file
    BY <1>1, <1>2, <1>3, <2>1 DEF FilesInDirectories, Elsewhere
  <2>2. CASE path \notin DOMAIN file
    <3>1. path = Current(p) /\ run[p].phase \in {"opening", "filling"}
      BY <1>1, <2>2 DEF Elsewhere
    <3>2. path.at = run[p].place /\ path.name \in Files(run[p].line)
      BY <1>2, <3>1, CurrentIs
    <3>3. run[p].line \in Line
      BY <1>2, <3>1 DEF Sound, Obeys
    <3>4. run[p].line.tool = "qdeno"
      BY <1>3, <3>2, <3>3, PemFilesOnly
    <3>5. run[p].place \in dir
      BY <1>2, <3>1, <3>4 DEF Keeps
    <3>6. QED BY <1>1, <3>2, <3>5 DEF Elsewhere
  <2>3. QED BY <2>1, <2>2
<1>4. QED BY <1>3 DEF FilesInDirectories

\* A run that is alone opens its own files only.
LEMMA ExclusiveStays ==
  ASSUME CliInv, NEW p \in Process, NEW r, Steps(p, r), run[p].alone
  PROVE  Exclusive(p)'
<1>1. Elsewhere(p, r)
  BY StepsElsewhere
<1>2. Sound(run[p]) /\ Keeps(p) /\ FilesInDirectories
  BY DEF CliInv
<1>3. /\ run[p].phase # "idle" /\ run'[p].line = run[p].line /\ run'[p].place = run[p].place
      /\ run'[p].found = run[p].found
  BY <1>1 DEF Steps, Live, Elsewhere
<1>4. Exclusive(p)
  BY <1>2, <1>3 DEF Keeps
<1>5. ASSUME ~run[p].found, NEW path \in DOMAIN file', path.at = run[p].place, path.name \notin PemFile
      PROVE  path.name \in Files(run[p].line)
  <2>1. CASE path \in DOMAIN file
    <3>1. run[p].place \in dir
      BY <1>2, <1>5, <2>1 DEF FilesInDirectories
    <3>2. QED BY <1>4, <1>5, <2>1, <3>1 DEF Exclusive
  <2>2. CASE path \notin DOMAIN file
    <3>1. path = Current(p) /\ run[p].phase \in {"opening", "filling"}
      BY <1>1, <2>2 DEF Elsewhere
    <3>2. QED BY <1>2, <3>1, CurrentIs
  <2>3. QED BY <2>1, <2>2
<1>6. QED BY <1>3, <1>5 DEF Exclusive

(***************************************************************************)
(* A step of a run that is under way keeps the invariant if what the run   *)
(* comes to is sound, and the files it has gone past are there.            *)
(***************************************************************************)
LEMMA StepKeeps ==
  ASSUME CliInv, NEW p \in Process, NEW r, Steps(p, r), Sound(r),
         r.line.tool = "qdeno" /\ r.phase \in {"opening", "filling"} => r.place \in dir',
         run[p].alone => WritesAll(p)'
  PROVE  CliInv'
<1>1. Elsewhere(p, r)
  BY StepsElsewhere
<1>2. run' \in [Process -> RunRecord]
  BY DEF CliInv, Steps, Sound
<1>3. \A q \in Process : Sound(run'[q])
  BY <1>1 DEF CliInv, Elsewhere
<1>4. Keeps(p)'
  <2>1. /\ run'[p] = r /\ r.found = run[p].found /\ r.place = run[p].place /\ r.alone = run[p].alone
        /\ dir \subseteq dir'
    BY <1>1 DEF Steps, Elsewhere
  <2>2. run[p].found => run[p].place \in dir
    BY DEF CliInv, Keeps, Steps, Live
  <2>3. r.alone => Exclusive(p)'
    BY <2>1, ExclusiveStays
  <2>4. QED BY <2>1, <2>2, <2>3 DEF Keeps
<1>5. \A q \in Process : Keeps(q)'
  BY <1>4, OthersKeep
<1>6. Apart' /\ FilesInDirectories'
  BY ApartStays, FilesInDirectoriesStay
<1>7. QED BY <1>2, <1>3, <1>5, <1>6 DEF CliInv, Sound

-----------------------------------------------------------------------------
(* The actions.                                                            *)

\* What ending changes.
EndsSo(e, r, code) ==
  /\ Sound(e) /\ e.phase = "ended" /\ e.exit = code
  /\ e.line = r.line /\ e.place = r.place /\ e.found = r.found /\ e.alone = r.alone

\* A run may end, with 1 only if it failed or has touched nothing.
LEMMA EndedIs ==
  ASSUME NEW r, Sound(r), r.phase # "idle", NEW code \in {0, 1, 137},
         r.fault \/ ~r.touched \/ code = 0
  PROVE  EndsSo(Ended(r, code), r, code)
<1> DEFINE e == Ended(r, code)
<1>1. r \in RunRecord /\ Obeys(r)
  BY DEF Sound
<1>2. /\ e \in RunRecord /\ e.phase = "ended" /\ e.exit = code /\ e.line = r.line /\ e.place = r.place
      /\ e.todo = r.todo /\ e.found = r.found /\ e.touched = r.touched /\ e.fault = r.fault
      /\ e.alone = r.alone
  BY <1>1 DEF Ended, RunRecord
<1> HIDE DEF e
<1>3. Left(e) = Left(r)
  BY <1>2 DEF Left
<1>4. Obeys(e)
  BY <1>1, <1>2, <1>3 DEF Obeys
<1>5. EndsSo(e, r, code)
  BY <1>2, <1>4 DEF EndsSo, Sound
<1>6. QED BY <1>5 DEF e

\* What a failure of the machine changes before the run ends.
FailsSo(f, r) ==
  /\ Sound(f) /\ f.fault /\ f.phase = r.phase
  /\ f.line = r.line /\ f.place = r.place /\ f.found = r.found /\ f.alone = r.alone

\* A failure of the machine takes nothing from a run.
LEMMA FaultIs ==
  ASSUME NEW r, Sound(r), r.phase # "idle"
  PROVE  FailsSo([r EXCEPT !.fault = TRUE], r)
<1> DEFINE f == [r EXCEPT !.fault = TRUE]
<1>1. r \in RunRecord /\ Obeys(r)
  BY DEF Sound
<1>2. /\ f \in RunRecord /\ f.phase = r.phase /\ f.exit = r.exit /\ f.line = r.line /\ f.place = r.place
      /\ f.todo = r.todo /\ f.found = r.found /\ f.touched = r.touched /\ f.fault
      /\ f.alone = r.alone
  BY <1>1 DEF RunRecord
<1> HIDE DEF f
<1>3. Left(f) = Left(r)
  BY <1>2 DEF Left
<1>4. Obeys(f)
  BY <1>1, <1>2, <1>3 DEF Obeys
<1>5. FailsSo(f, r)
  BY <1>2, <1>4 DEF FailsSo, Sound
<1>6. QED BY <1>5 DEF f

\* What the invariant says of a run that is under way.
LEMMA UnderWay ==
  ASSUME CliInv, NEW p \in Process, p \in Live
  PROVE  /\ Sound(run[p]) /\ Obeys(run[p]) /\ run[p] \in RunRecord /\ Keeps(p)
         /\ run[p].phase # "idle" /\ run[p].phase # "ended"
BY DEF CliInv, Live, Sound

\* A run that fails, or is killed, wherever it is.
LEMMA FailKeeps ==
  ASSUME CliInv, NEW p \in Process, p \in Live, NEW code \in {1, 137},
         run' = [run EXCEPT ![p] = Ended([run[p] EXCEPT !.fault = TRUE], code)],
         dir' = dir,
         \/ file' = file
         \/ run[p].phase \in {"opening", "filling"} /\ \E content : Holds(Current(p), content)
  PROVE  CliInv'
<1> DEFINE f == [run[p] EXCEPT !.fault = TRUE]
           r == Ended(f, code)
<1>1. Sound(run[p]) /\ run[p].phase # "idle"
  BY UnderWay
<1>2. FailsSo(f, run[p])
  BY <1>1, FaultIs
<1>3. run' = [run EXCEPT ![p] = r]
  OBVIOUS
<1> HIDE DEF f
<1>4. EndsSo(r, f, code)
  BY <1>1, <1>2, EndedIs DEF FailsSo
<1> HIDE DEF r
<1>5. Steps(p, r)
  BY <1>2, <1>3, <1>4 DEF Steps, FailsSo, EndsSo
<1>6. run'[p] = r /\ r.phase = "ended" /\ r.exit # 0
  <2>1. run'[p] = r
    BY <1>3 DEF CliInv
  <2>2. QED BY <1>4, <2>1 DEF EndsSo
<1>7. WritesAll(p)'
  BY <1>6 DEF WritesAll
<1>8. Sound(r)
  BY <1>4 DEF EndsSo
<1>9. QED BY <1>5, <1>6, <1>7, <1>8, StepKeeps

\* A run that ends without having touched anything.
LEMMA EndKeeps ==
  ASSUME CliInv, NEW p \in Process, p \in Live, NEW code \in {0, 1},
         run' = [run EXCEPT ![p] = Ended(run[p], code)], dir' = dir, file' = file,
         ~run[p].touched, code = 0 => run[p].place = "" \/ Files(run[p].line) = {}
  PROVE  CliInv'
<1> DEFINE r == Ended(run[p], code)
<1>1. Sound(run[p]) /\ run[p].phase # "idle"
  BY UnderWay
<1>2. EndsSo(r, run[p], code)
  BY <1>1, EndedIs
<1>3. run' = [run EXCEPT ![p] = r]
  OBVIOUS
<1> HIDE DEF r
<1>4. Steps(p, r)
  BY <1>2, <1>3 DEF Steps, EndsSo
<1>5. run'[p] = r
  BY <1>4, StepsHere
<1>6. WritesAll(p)'
  BY <1>2, <1>5 DEF WritesAll, EndsSo
<1>7. Sound(r) /\ r.phase = "ended"
  BY <1>2 DEF EndsSo
<1>8. QED BY <1>4, <1>6, <1>7, StepKeeps

\* exists.
LEMMA CheckKeeps ==
  ASSUME CliInv, NEW p \in Process, Check(p)
  PROVE  CliInv'
<1>0. p \in Live /\ run[p].phase = "checking" /\ dir' = dir /\ file' = file
  BY DEF Check, Live
<1>1. /\ run[p] \in RunRecord /\ Obeys(run[p]) /\ Keeps(p) /\ Sound(run[p])
  BY <1>0, UnderWay
<1>2. CASE run[p].place \in dir /\ run' = [run EXCEPT ![p] = Ended(@, 1)]
  <2>1. ~run[p].touched
    BY <1>0, <1>1 DEF Obeys
  <2>2. run' = [run EXCEPT ![p] = Ended(run[p], 1)] /\ 1 \in {0, 1} /\ 1 # 0
    BY <1>2
  <2>3. QED BY <1>0, <2>1, <2>2, EndKeeps
<1>3. ASSUME NEW r, run' = [run EXCEPT ![p] = r], r \in RunRecord, r.phase = "making",
             r.line = run[p].line, r.place = run[p].place, r.todo = run[p].todo,
             r.found = run[p].found, r.touched = run[p].touched, r.alone = run[p].alone,
             r.fault \/ run[p].place \notin dir
      PROVE  CliInv'
  <2>1. Left(r) = Left(run[p])
    BY <1>3 DEF Left
  <2>2. r.found => r.fault
    BY <1>0, <1>1, <1>3 DEF Keeps
  <2>3. Obeys(r)
    BY <1>0, <1>1, <1>3, <2>1, <2>2 DEF Obeys
  <2>4. Sound(r)
    BY <1>3, <2>3 DEF Sound
  <2>5. Steps(p, r)
    BY <1>0, <1>3 DEF Steps
  <2>6. run'[p] = r
    BY <2>5, StepsHere
  <2>7. WritesAll(p)'
    BY <1>3, <2>6 DEF WritesAll
  <2>8. QED BY <1>3, <2>4, <2>5, <2>7, StepKeeps
<1>4. CASE run[p].place \notin dir /\ run' = [run EXCEPT ![p].phase = "making"]
  <2> DEFINE r == [run[p] EXCEPT !.phase = "making"]
  <2>1. run' = [run EXCEPT ![p] = r]
    BY <1>4
  <2>2. /\ r \in RunRecord /\ r.phase = "making" /\ r.line = run[p].line
        /\ r.place = run[p].place /\ r.todo = run[p].todo /\ r.found = run[p].found
        /\ r.touched = run[p].touched /\ r.alone = run[p].alone
    BY <1>1 DEF RunRecord
  <2> HIDE DEF r
  <2>3. QED BY <1>3, <1>4, <2>1, <2>2
<1>5. CASE run' = [run EXCEPT ![p].phase = "making", ![p].fault = TRUE]
  <2> DEFINE r == [run[p] EXCEPT !.phase = "making", !.fault = TRUE]
  <2>1. run' = [run EXCEPT ![p] = r]
    BY <1>1, <1>5 DEF CliInv
  <2>2. /\ r \in RunRecord /\ r.phase = "making" /\ r.line = run[p].line
        /\ r.place = run[p].place /\ r.todo = run[p].todo /\ r.found = run[p].found
        /\ r.touched = run[p].touched /\ r.alone = run[p].alone /\ r.fault
    BY <1>1 DEF RunRecord
  <2> HIDE DEF r
  <2>3. QED BY <1>3, <2>1, <2>2
<1>6. QED BY <1>2, <1>4, <1>5 DEF Check

\* A run that goes on to open its first file.
LEMMA FirstOpening ==
  ASSUME CliInv, NEW p \in Process, run[p].phase \in {"making", "generating"}, NEW touched \in BOOLEAN,
         run' = [run EXCEPT ![p] = [run[p] EXCEPT !.phase = "opening", !.touched = touched]],
         file' = file, dir' = dir \/ dir' = dir \cup {run[p].place},
         run[p].phase = "making" => run[p].place \in dir'
  PROVE  CliInv'
<1> DEFINE r == [run[p] EXCEPT !.phase = "opening", !.touched = touched]
<1>0. p \in Live
  BY DEF Live
<1>1. run[p] \in RunRecord /\ Obeys(run[p])
  BY <1>0, UnderWay
<1>2. /\ r \in RunRecord /\ r.phase = "opening" /\ r.line = run[p].line
      /\ r.place = run[p].place /\ r.todo = run[p].todo /\ r.found = run[p].found
      /\ r.fault = run[p].fault /\ r.alone = run[p].alone
  BY <1>1 DEF RunRecord
<1>3. run' = [run EXCEPT ![p] = r]
  OBVIOUS
<1> HIDE DEF r
<1>4. Left(r) = Left(run[p])
  BY <1>2 DEF Left
<1>5. Obeys(r)
  BY <1>1, <1>2, <1>4 DEF Obeys
<1>6. Steps(p, r)
  BY <1>0, <1>2, <1>3 DEF Steps
<1>7. run'[p] = r
  BY <1>6, StepsHere
<1>8. Left(r) = Files(r.line)
  BY <1>1, <1>2 DEF Left, Files, Obeys
<1>9. WritesAll(p)'
  BY <1>2, <1>7, <1>8 DEF WritesAll
<1>10. r.line.tool = "qdeno" => r.place \in dir'
  BY <1>1, <1>2 DEF Obeys
<1>11. Sound(r)
  BY <1>2, <1>5 DEF Sound
<1>12. QED BY <1>6, <1>9, <1>10, <1>11, StepKeeps

\* mkdir.
LEMMA MakeKeeps ==
  ASSUME CliInv, NEW p \in Process, Make(p)
  PROVE  CliInv'
<1>0. p \in Live /\ run[p].phase = "making" /\ file' = file
  BY DEF Make, Live
<1>1. CASE /\ dir' = dir \cup {run[p].place}
           /\ run' = [run EXCEPT ![p].phase = "opening", ![p].touched = TRUE]
  <2>1. run' = [run EXCEPT ![p] = [run[p] EXCEPT !.phase = "opening", !.touched = TRUE]]
    BY <1>1 DEF CliInv
  <2>2. QED BY <1>0, <1>1, <2>1, FirstOpening
<1>2. CASE Failed(p) /\ dir' = dir
  BY <1>0, <1>2, FailKeeps DEF Failed
<1>3. QED BY <1>1, <1>2 DEF Make

\* The keys come, or do not.
LEMMA GenerateKeeps ==
  ASSUME CliInv, NEW p \in Process, Generate(p)
  PROVE  CliInv'
<1>0. p \in Live /\ run[p].phase = "generating" /\ file' = file /\ dir' = dir
  BY DEF Generate, Live
<1>1. run[p] \in RunRecord /\ ~run[p].touched
  BY <1>0, UnderWay DEF Obeys
<1>2. CASE run' = [run EXCEPT ![p].phase = "opening"]
  <2>1. [run[p] EXCEPT !.phase = "opening"] = [run[p] EXCEPT !.phase = "opening", !.touched = FALSE]
    BY <1>1 DEF RunRecord
  <2>2. run' = [run EXCEPT ![p] = [run[p] EXCEPT !.phase = "opening", !.touched = FALSE]]
    BY <1>2, <2>1
  <2>3. QED BY <1>0, <2>2, FirstOpening
<1>3. CASE run[p].place = "" /\ run' = [run EXCEPT ![p] = Ended(@, 0)]
  BY <1>0, <1>1, <1>3, EndKeeps
<1>4. CASE Failed(p)
  BY <1>0, <1>4, FailKeeps DEF Failed
<1>5. QED BY <1>2, <1>3, <1>4 DEF Generate

\* pem-info reads a file and changes none.
LEMMA ReadKeeps ==
  ASSUME CliInv, NEW p \in Process, Read(p)
  PROVE  CliInv'
<1>1. p \in Live /\ run[p].phase = "reading" /\ file' = file /\ dir' = dir
  BY DEF Read, Live
<1>2. ~run[p].touched /\ run[p].todo = <<>> /\ run[p].todo = Plan(run[p].line).todo
  BY <1>1, UnderWay DEF Obeys
<1>3. Files(run[p].line) = {}
  <2>1. DOMAIN <<>> = {}
    OBVIOUS
  <2>2. QED BY <1>2, <2>1 DEF Files
<1>4. \E code \in {0, 1} : run' = [run EXCEPT ![p] = Ended(run[p], code)]
  BY DEF Read
<1>5. QED BY <1>1, <1>2, <1>3, <1>4, EndKeeps

\* The file a run is at is not one that it has gone past.
LEMMA OpenKeeps ==
  ASSUME CliInv, NEW p \in Process, Open(p)
  PROVE  CliInv'
<1>0. p \in Live /\ run[p].phase = "opening" /\ dir' = dir
  BY DEF Open, Live
<1>1. Sound(run[p]) /\ run[p] \in RunRecord /\ Obeys(run[p]) /\ Keeps(p)
  BY <1>0, UnderWay
<1>2. CASE /\ Holds(Current(p), [by |-> p, holds |-> "empty"])
           /\ run' = [run EXCEPT ![p].phase = "filling", ![p].touched = TRUE]
  <2> DEFINE r == [run[p] EXCEPT !.phase = "filling", !.touched = TRUE]
             here == Current(p)
  <2>1. run' = [run EXCEPT ![p] = r]
    BY <1>2 DEF CliInv
  <2>2. /\ r \in RunRecord /\ r.phase = "filling" /\ r.line = run[p].line
        /\ r.place = run[p].place /\ r.todo = run[p].todo /\ r.found = run[p].found
        /\ r.fault = run[p].fault /\ r.alone = run[p].alone
    BY <1>1 DEF RunRecord
  <2> HIDE DEF r
  <2>3. Left(r) = Left(run[p])
    BY <2>2 DEF Left
  <2>4. Obeys(r)
    BY <1>0, <1>1, <2>2, <2>3 DEF Obeys
  <2>5. Steps(p, r)
    BY <1>0, <1>2, <2>1, <2>2 DEF Steps
  <2>6. Elsewhere(p, r)
    BY <2>5, StepsElsewhere
  <2>7. run'[p] = r
    BY <2>6 DEF Elsewhere
  <2>8. file' = [other \in DOMAIN file \cup {here} |->
                   IF other = here THEN [by |-> p, holds |-> "empty"] ELSE file[other]]
    BY <1>2 DEF Holds
  <2>9. Current(p)' = here
    BY <2>2, <2>7 DEF Current
  <2>10. here \in DOMAIN file' /\ file'[here] = [by |-> p, holds |-> "empty"]
    <3> HIDE DEF here
    <3>1. QED BY <2>8
  <2>11. ASSUME run[p].alone, NEW name \in Files(run[p].line), name \notin Left(run[p])
         PROVE  Own(p, name)'
    <3> DEFINE path == [at |-> run[p].place, name |-> name]
    <3>1. path \in DOMAIN file /\ file[path] = [by |-> p, holds |-> "whole"]
      BY <1>0, <1>1, <2>11 DEF Keeps, WritesAll, Own
    <3>2. path # here
      <4>1. path.name = name /\ here.name \in Left(run[p])
        BY <1>0, <1>1, CurrentIs
      <4>2. QED BY <2>11, <4>1
    <3> HIDE DEF path, here
    <3>3. path \in DOMAIN file' /\ file'[path] = [by |-> p, holds |-> "whole"]
      BY <2>8, <3>1, <3>2
    <3>4. QED BY <2>2, <2>7, <3>3 DEF Own, path
  <2>12. run[p].alone => WritesAll(p)'
    BY <2>2, <2>3, <2>7, <2>9, <2>10, <2>11 DEF WritesAll
  <2>13. r.line.tool = "qdeno" => r.place \in dir'
    BY <1>0, <1>1, <2>2 DEF Keeps
  <2>14. Sound(r)
    BY <2>2, <2>4 DEF Sound
  <2>15. QED BY <2>5, <2>12, <2>13, <2>14, StepKeeps
<1>3. CASE Failed(p) /\ file' = file
  BY <1>0, <1>3, FailKeeps DEF Failed
<1>4. QED BY <1>2, <1>3 DEF Open

\* What is left behind the first of some files.
LEMMA TailIs ==
  ASSUME NEW s \in Seq(FileName), s # <<>>
  PROVE  /\ Tail(s) \in Seq(FileName)
         /\ \A i \in DOMAIN s : s[i] = Head(s) \/ \E j \in DOMAIN Tail(s) : s[i] = Tail(s)[j]
         /\ \A j \in DOMAIN Tail(s) : \E i \in DOMAIN s : Tail(s)[j] = s[i]
<1> DEFINE t == Tail(s)
<1>1. /\ t \in Seq(FileName) /\ Len(t) = Len(s) - 1 /\ \A j \in 1..Len(t) : t[j] = s[j + 1]
      /\ Head(s) = s[1] /\ Len(s) \in Nat
  OBVIOUS
<1>2. DOMAIN s = 1..Len(s) /\ DOMAIN t = 1..Len(t)
  BY <1>1
<1> HIDE DEF t
<1>3. ASSUME NEW i \in DOMAIN s PROVE s[i] = Head(s) \/ \E j \in DOMAIN t : s[i] = t[j]
  <2>1. CASE i = 1
    BY <1>1, <2>1
  <2>2. CASE i # 1
    <3>1. i - 1 \in DOMAIN t /\ (i - 1) + 1 = i
      BY <1>1, <1>2, <2>2
    <3>2. t[i - 1] = s[i]
      BY <1>1, <1>2, <3>1
    <3>3. QED BY <3>1, <3>2
  <2>3. QED BY <2>1, <2>2
<1>4. ASSUME NEW j \in DOMAIN t PROVE \E i \in DOMAIN s : t[j] = s[i]
  <2>1. j + 1 \in DOMAIN s /\ t[j] = s[j + 1]
    BY <1>1, <1>2
  <2>2. QED BY <2>1
<1>5. QED BY <1>1, <1>3, <1>4 DEF t

\* A file that is written to the end.
LEMMA WrittenKeeps ==
  ASSUME CliInv, NEW p \in Process, run[p].phase = "filling", dir' = dir,
         run' = [run EXCEPT ![p] = IF Tail(run[p].todo) = <<>> THEN Ended(run[p], 0)
                                   ELSE [run[p] EXCEPT !.phase = "opening", !.todo = Tail(run[p].todo)]],
         NEW content, Holds(Current(p), content),
         run[p].alone => content = [by |-> p, holds |-> "whole"]
  PROVE  CliInv'
<1> DEFINE rest == Tail(run[p].todo)
           here == Current(p)
           head == Head(run[p].todo)
<1>0. p \in Live
  BY DEF Live
<1>1. Sound(run[p]) /\ run[p] \in RunRecord /\ Obeys(run[p]) /\ Keeps(p)
  BY <1>0, UnderWay
<1>2. run[p].todo \in Seq(FileName) /\ run[p].todo # <<>>
  BY <1>1 DEF RunRecord, Obeys
<1>3. /\ rest \in Seq(FileName)
      /\ \A name \in Left(run[p]) : name = head \/ name \in {rest[j] : j \in DOMAIN rest}
      /\ {rest[j] : j \in DOMAIN rest} \subseteq Left(run[p])
  BY <1>2, TailIs DEF Left
<1>4. file' = [other \in DOMAIN file \cup {here} |-> IF other = here THEN content ELSE file[other]]
  BY DEF Holds
<1>5. here = [at |-> run[p].place, name |-> head]
  BY DEF Current
<1>6. ASSUME run[p].alone, NEW name \in Files(run[p].line), name = head \/ name \notin Left(run[p])
      PROVE  LET path == [at |-> run[p].place, name |-> name]
             IN  path \in DOMAIN file' /\ file'[path] = [by |-> p, holds |-> "whole"]
  <2> DEFINE path == [at |-> run[p].place, name |-> name]
  <2>1. CASE path = here
    <3> HIDE DEF path, here
    <3>1. path \in DOMAIN file' /\ file'[path] = content
      BY <1>4, <2>1
    <3>2. QED BY <1>6, <3>1 DEF path
  <2>2. CASE path # here
    <3>1. name \notin Left(run[p])
      BY <1>5, <1>6, <2>2
    <3>2. path \in DOMAIN file /\ file[path] = [by |-> p, holds |-> "whole"]
      BY <1>1, <1>6, <3>1 DEF Keeps, WritesAll, Own
    <3> HIDE DEF path, here
    <3>3. path \in DOMAIN file' /\ file'[path] = [by |-> p, holds |-> "whole"]
      BY <1>4, <2>2, <3>2
    <3>4. QED BY <3>3 DEF path
  <2>3. QED BY <2>1, <2>2
<1>7. CASE rest = <<>>
  <2> DEFINE e == Ended(run[p], 0)
  <2>1. EndsSo(e, run[p], 0)
    BY <1>1, EndedIs
  <2>2. run' = [run EXCEPT ![p] = e]
    BY <1>7
  <2> HIDE DEF e
  <2>3. Steps(p, e)
    BY <1>0, <2>1, <2>2 DEF Steps, EndsSo
  <2>4. run'[p] = e
    BY <2>3, StepsHere
  <2>5. DOMAIN <<>> = {}
    OBVIOUS
  <2>6. \A name \in Left(run[p]) : name = head
    BY <1>3, <1>7, <2>5
  <2>7. run[p].alone => \A name \in Files(run[p].line) : Own(p, name)'
    BY <1>6, <2>1, <2>4, <2>6 DEF Own, EndsSo
  <2>8. run[p].alone => WritesAll(p)'
    BY <2>1, <2>4, <2>7 DEF WritesAll, EndsSo
  <2>9. Sound(e) /\ e.phase = "ended"
    BY <2>1 DEF EndsSo
  <2>10. QED BY <2>3, <2>8, <2>9, StepKeeps
<1>8. CASE rest # <<>>
  <2> DEFINE e == [run[p] EXCEPT !.phase = "opening", !.todo = rest]
  <2> HIDE DEF rest
  <2>1. /\ e \in RunRecord /\ e.phase = "opening" /\ e.line = run[p].line
        /\ e.place = run[p].place /\ e.todo = rest /\ e.found = run[p].found
        /\ e.fault = run[p].fault /\ e.touched = run[p].touched /\ e.alone = run[p].alone
    BY <1>1, <1>3 DEF RunRecord
  <2>2. run' = [run EXCEPT ![p] = e]
    BY <1>8 DEF rest
  <2> HIDE DEF e
  <2>3. Left(e) = {rest[j] : j \in DOMAIN rest}
    BY <2>1 DEF Left
  <2>4. Obeys(e)
    BY <1>1, <1>3, <1>8, <2>1, <2>3 DEF Obeys
  <2>5. Steps(p, e)
    BY <1>0, <2>1, <2>2 DEF Steps
  <2>6. run'[p] = e
    BY <2>5, StepsHere
  <2>7. run[p].alone => \A name \in Files(run[p].line) : name \in Left(e) \/ Own(p, name)'
    BY <1>3, <1>6, <2>1, <2>3, <2>6 DEF Own
  <2>8. run[p].alone => WritesAll(p)'
    BY <2>1, <2>6, <2>7 DEF WritesAll
  <2>9. e.line.tool = "qdeno" => e.place \in dir'
    BY <1>1, <2>1 DEF Keeps
  <2>10. Sound(e)
    BY <2>1, <2>4 DEF Sound
  <2>11. QED BY <2>5, <2>8, <2>9, <2>10, StepKeeps
<1>9. QED BY <1>7, <1>8

\* A run that is alone finds the file as it left it: empty.
LEMMA FillKeeps ==
  ASSUME CliInv, NEW p \in Process, Fill(p)
  PROVE  CliInv'
<1>0. p \in Live /\ run[p].phase = "filling" /\ dir' = dir
  BY DEF Fill, Live
<1>1. Keeps(p)
  BY <1>0, UnderWay
<1>2. CASE Failed(p) /\ (file' = file \/ Holds(Current(p), [by |-> p, holds |-> "part"]))
  BY <1>0, <1>2, FailKeeps DEF Failed
<1>3. CASE /\ run' = [run EXCEPT ![p] =
                        IF Tail(run[p].todo) = <<>> THEN Ended(@, 0)
                        ELSE [@ EXCEPT !.phase = "opening", !.todo = Tail(run[p].todo)]]
           /\ Holds(Current(p), [by |-> p, holds |-> "whole"])
  BY <1>0, <1>3, WrittenKeeps
<1>4. CASE /\ run' = [run EXCEPT ![p] =
                        IF Tail(run[p].todo) = <<>> THEN Ended(@, 0)
                        ELSE [@ EXCEPT !.phase = "opening", !.todo = Tail(run[p].todo)]]
           /\ file[Current(p)].holds # "empty" /\ Holds(Current(p), [by |-> p, holds |-> "part"])
  <2>1. ~run[p].alone
    BY <1>0, <1>1, <1>4 DEF Keeps, WritesAll
  <2>2. QED BY <1>0, <1>4, <2>1, WrittenKeeps
<1>5. QED BY <1>2, <1>3, <1>4 DEF Fill

\* A run is killed.
LEMMA KillKeeps ==
  ASSUME CliInv, NEW p \in Process, Kill(p)
  PROVE  CliInv'
<1>1. p \in Live /\ dir' = dir
  BY DEF Kill
<1>2. run' = [run EXCEPT ![p] = Ended([run[p] EXCEPT !.fault = TRUE], 137)] /\ 137 \in {1, 137}
  BY DEF Kill
<1>3. \/ file' = file
      \/ run[p].phase \in {"opening", "filling"} /\ \E content : Holds(Current(p), content)
  BY DEF Kill
<1>4. QED BY <1>1, <1>2, <1>3, FailKeeps

\* A run that is not under way yet is at nothing, and a run that begins is sound.
LEMMA BegunIs ==
  ASSUME NEW line \in Line
  PROVE  /\ Sound(Begun(line)) /\ Left(Begun(line)) = Files(line)
         /\ Begun(line).line = line /\ Begun(line).phase \notin {"idle", "opening", "filling"}
         /\ Begun(line).found = (Begun(line).place \in dir)
         /\ Begun(line).alone = \A q \in Live : ~Uses(q, Begun(line).place)
         /\ Begun(line).phase = "ended" /\ Begun(line).exit = 0 => Begun(line).place = ""
<1> DEFINE plan  == Plan(line)
           found == plan.place \in dir
           alone == \A q \in Live : ~Uses(q, plan.place)
           r == Begun(line)
<1>1. Planned(line, plan)
  BY PlanIs
<1>2. found \in BOOLEAN /\ alone \in BOOLEAN
  OBVIOUS
<1>3. r = [phase |-> plan.phase, exit |-> plan.exit, place |-> plan.place, todo |-> plan.todo,
           line |-> line, found |-> found, touched |-> FALSE, fault |-> FALSE, alone |-> alone]
  BY DEF Begun
<1>4. /\ r.phase = plan.phase /\ r.exit = plan.exit /\ r.place = plan.place /\ r.todo = plan.todo
      /\ r.line = line /\ r.found = found /\ ~r.touched /\ ~r.fault /\ r.alone = alone
  BY <1>3
<1>5. plan \in PlanRecord
  BY <1>1 DEF Planned
<1> HIDE DEF plan, found, alone
<1>6. r \in RunRecord
  BY <1>2, <1>3, <1>5 DEF RunRecord, PlanRecord
<1> HIDE DEF r
<1>7. Left(r) = Files(line)
  BY <1>4 DEF Left, Files, plan
<1>8. r.phase \in {"ended", "checking", "making", "generating", "reading"}
  BY <1>4, <1>5 DEF PlanRecord
<1>9. Obeys(r)
  BY <1>1, <1>4, <1>7, <1>8 DEF Obeys, Planned, plan
<1>10. r.phase = "ended" /\ r.exit = 0 => r.place = ""
  BY <1>1, <1>4 DEF Planned
<1>11. r.found = (r.place \in dir) /\ r.alone = \A q \in Live : ~Uses(q, r.place)
  BY <1>4 DEF found, alone
<1>12. Sound(r) /\ r.phase \notin {"idle", "opening", "filling"} /\ r.line = line
  BY <1>4, <1>6, <1>8, <1>9 DEF Sound
<1>13. QED BY <1>7, <1>10, <1>11, <1>12 DEF r

\* Losing its place to itself is all that another run's start does to a run.
Unaccompanied(r, s) ==
  /\ Sound(s) /\ s.phase = r.phase /\ s.exit = r.exit /\ s.place = r.place /\ s.todo = r.todo
  /\ s.line = r.line /\ s.found = r.found /\ s.touched = r.touched /\ s.fault = r.fault
  /\ s.alone => r.alone

\* It stays what it is.
LEMMA JoinedIs ==
  ASSUME NEW r, Sound(r)
  PROVE  Unaccompanied(r, [r EXCEPT !.alone = FALSE])
<1> DEFINE s == [r EXCEPT !.alone = FALSE]
<1>1. r \in RunRecord
  BY DEF Sound
<1>2. /\ s \in RunRecord /\ s.phase = r.phase /\ s.exit = r.exit /\ s.place = r.place
      /\ s.todo = r.todo /\ s.line = r.line /\ s.found = r.found /\ s.touched = r.touched
      /\ s.fault = r.fault /\ ~s.alone
  BY <1>1 DEF RunRecord
<1> HIDE DEF s
<1>3. Left(s) = Left(r)
  BY <1>2 DEF Left
<1>4. Sound(s)
  BY <1>2, <1>3 DEF Sound, Obeys
<1>5. Unaccompanied(r, s)
  BY <1>2, <1>4 DEF Unaccompanied
<1>6. QED BY <1>5 DEF s

\* A new run has its place to itself only if no run under way has it, and those lose it.
LEMMA StartKeeps ==
  ASSUME CliInv, NEW p \in Process, NEW line \in Line, Start(p, line)
  PROVE  CliInv'
<1> DEFINE begun == Begun(line)
<1>1. run[p].phase = "idle" /\ file' = file /\ dir' = dir
  BY DEF Start
<1>2. run' = [q \in Process |->
                IF q = p THEN begun
                ELSE IF Uses(q, begun.place) THEN [run[q] EXCEPT !.alone = FALSE] ELSE run[q]]
  BY DEF Start
<1>3. /\ Sound(begun) /\ Left(begun) = Files(line)
      /\ begun.line = line /\ begun.phase \notin {"idle", "opening", "filling"}
      /\ begun.found = (begun.place \in dir)
      /\ begun.alone = \A q \in Live : ~Uses(q, begun.place)
      /\ begun.phase = "ended" /\ begun.exit = 0 => begun.place = ""
  BY BegunIs
<1> HIDE DEF begun
<1>4. run'[p] = begun
  BY <1>2
<1>5. ASSUME NEW q \in Process, q # p
      PROVE  /\ Unaccompanied(run[q], run'[q])
             /\ run'[q].alone => run'[q] = run[q] /\ ~Uses(q, begun.place)
  <2>1. Sound(run[q])
    BY DEF CliInv
  <2>2. CASE Uses(q, begun.place)
    <3>1. run'[q] = [run[q] EXCEPT !.alone = FALSE]
      BY <1>2, <1>5, <2>2
    <3>2. Unaccompanied(run[q], run'[q])
      BY <2>1, <3>1, JoinedIs
    <3>3. ~run'[q].alone
      BY <2>1, <3>1 DEF Sound, RunRecord
    <3>4. QED BY <3>2, <3>3
  <2>3. CASE ~Uses(q, begun.place)
    <3>1. run'[q] = run[q]
      BY <1>2, <1>5, <2>3
    <3>2. QED BY <2>1, <2>3, <3>1 DEF Unaccompanied
  <2>4. QED BY <2>2, <2>3
<1>6. \A q \in Process : Sound(run'[q])
  BY <1>3, <1>4, <1>5 DEF Unaccompanied
<1>7. run' \in [Process -> RunRecord]
  <2>1. \A q \in Process : run'[q] \in RunRecord
    BY <1>6 DEF Sound
  <2>2. DOMAIN run' = Process /\ run' = [q \in Process |-> run'[q]]
    BY <1>2
  <2>3. QED BY <2>1, <2>2
<1>8. Keeps(p)'
  <2>1. WritesAll(p)'
    BY <1>3, <1>4 DEF WritesAll
  <2>2. Exclusive(p)'
    BY <1>1, <1>3, <1>4 DEF Exclusive
  <2>3. QED BY <1>1, <1>3, <1>4, <2>1, <2>2 DEF Keeps
<1>9. ASSUME NEW q \in Process, q # p PROVE Keeps(q)'
  <2>1. Keeps(q)
    BY DEF CliInv
  <2>2. CASE run'[q] = run[q]
    <3>1. WritesAll(q)' <=> WritesAll(q)
      BY <1>1, <2>2 DEF WritesAll, Own, Left, Current
    <3>2. Exclusive(q)' <=> Exclusive(q)
      BY <1>1, <2>2 DEF Exclusive
    <3>3. QED BY <1>1, <2>1, <2>2, <3>1, <3>2 DEF Keeps
  <2>3. CASE run'[q] # run[q]
    <3>1. ~run'[q].alone
      BY <1>5, <1>9, <2>3
    <3>2. Unaccompanied(run[q], run'[q])
      BY <1>5, <1>9
    <3>3. QED BY <1>1, <2>1, <3>1, <3>2 DEF Keeps, Unaccompanied
  <2>4. QED BY <2>2, <2>3
<1>10. Apart'
  <2>1. ASSUME NEW a \in Process, NEW b \in Process, a # b, run'[a].phase # "idle", run'[a].alone,
               run'[b].phase # "idle", run'[b].place = run'[a].place
        PROVE  run'[b].phase = "ended"
    <3>1. CASE a = p
      <4>1. /\ run[b].phase = run'[b].phase /\ run[b].place = begun.place
        BY <1>4, <1>5, <2>1, <3>1 DEF Unaccompanied
      <4>2. b \notin Live
        BY <1>3, <1>4, <2>1, <3>1, <4>1 DEF Uses
      <4>3. QED BY <2>1, <4>1, <4>2 DEF Live
    <3>2. CASE b = p
      <4>1. run'[a] = run[a] /\ ~Uses(a, begun.place)
        BY <1>5, <2>1, <3>2
      <4>2. QED BY <1>4, <2>1, <3>2, <4>1 DEF Uses
    <3>3. CASE a # p /\ b # p
      <4>1. run'[a] = run[a]
        BY <1>5, <2>1, <3>3
      <4>2. run[b].phase = run'[b].phase /\ run[b].place = run'[b].place
        BY <1>5, <2>1, <3>3 DEF Unaccompanied
      <4>3. QED BY <2>1, <4>1, <4>2 DEF CliInv, Apart, Uses
    <3>4. QED BY <3>1, <3>2, <3>3
  <2>2. QED BY <2>1 DEF Apart, Uses
<1>11. FilesInDirectories'
  BY <1>1 DEF CliInv, FilesInDirectories
<1>12. QED BY <1>6, <1>7, <1>8, <1>9, <1>10, <1>11 DEF CliInv

\* At first no run has begun, and what there is is in directories.
LEMMA InitKeeps == CliInit => CliInv
<1> SUFFICES ASSUME CliInit PROVE CliInv
  OBVIOUS
<1>1. Idle \in RunRecord /\ Idle.phase = "idle"
  <2>1. <<>> \in Seq(FileName)
    OBVIOUS
  <2>2. QED BY <2>1 DEF Idle, RunRecord, Place
<1>2. run \in [Process -> RunRecord] /\ \A p \in Process : run[p].phase = "idle"
  BY <1>1 DEF CliInit
<1>3. \A p \in Process : Sound(run[p]) /\ Keeps(p)
  BY <1>2 DEF Sound, Keeps
<1>4. Apart
  BY <1>2 DEF Apart
<1>5. FilesInDirectories
  BY DEF CliInit, FilesInDirectories
<1>6. QED BY <1>2, <1>3, <1>4, <1>5 DEF CliInv

(***************************************************************************)
(* The invariant of the tools' runs: each does what its command line asks  *)
(* for, and one that has its place to itself has written all it has gone   *)
(* past and finds nobody else's file in a directory it made.               *)
(***************************************************************************)
THEOREM CliInvariance == CliSpec => []CliInv
<1>1. CliInit => CliInv
  BY InitKeeps
<1>2. CliInv /\ [CliNext]_cliVars => CliInv'
  <2> SUFFICES ASSUME CliInv, [CliNext]_cliVars PROVE CliInv'
    OBVIOUS
  <2>1. CASE CliNext
    <3>1. PICK p \in Process :
            \/ \E line \in Line : Start(p, line)
            \/ Check(p) \/ Make(p) \/ Generate(p) \/ Read(p) \/ Open(p) \/ Fill(p) \/ Kill(p)
      BY <2>1 DEF CliNext
    <3>2. QED BY <3>1, StartKeeps, CheckKeeps, MakeKeeps, GenerateKeeps, ReadKeeps, OpenKeeps,
                 FillKeeps, KillKeeps
  <2>2. CASE UNCHANGED cliVars
    <3>1. run' = run /\ file' = file /\ dir' = dir
      BY <2>2 DEF cliVars
    <3>2. QED BY <3>1 DEF CliInv, Sound, Keeps, WritesAll, Exclusive, Own, Current,
                       Apart, Uses, FilesInDirectories
  <2>3. QED BY <2>1, <2>2
<1>3. QED BY <1>1, <1>2, PTL DEF CliSpec

(***************************************************************************)
(* The exit code tells what is there, however the runs meet.               *)
(***************************************************************************)
THEOREM ExitCodesTell == CliSpec => []ExitCodeTells
<1>1. CliInv => ExitCodeTells
  <2> SUFFICES ASSUME CliInv, NEW p \in Process, run[p].phase = "ended"
               PROVE  /\ run[p].exit = 0 /\ run[p].alone /\ run[p].place # "" =>
                           /\ Wanted(p) \subseteq Written(p)
                           /\ run[p].place \in dir /\ ~run[p].found =>
                                \A path \in DOMAIN file :
                                  path.at = run[p].place /\ path.name \notin PemFile
                                    => path.name \in Wanted(p)
                      /\ run[p].exit = 1 /\ ~run[p].fault => ~run[p].touched
    BY DEF ExitCodeTells
  <2>1. Sound(run[p]) /\ Obeys(run[p]) /\ Keeps(p) /\ run[p].line \in Line
    BY DEF CliInv, Sound, Obeys
  <2>2. Wanted(p) = Files(run[p].line)
    BY DEF Wanted, Files
  <2>3. Files(run[p].line) \subseteq FileName
    <3>1. Plan(run[p].line).todo \in Seq(FileName)
      BY <2>1, PlanIs DEF Planned, PlanRecord
    <3>2. QED BY <3>1 DEF Files
  <2>4. ASSUME run[p].exit = 0, run[p].alone, run[p].place # ""
        PROVE  Wanted(p) \subseteq Written(p)
    <3>1. \A name \in Files(run[p].line) : Own(p, name)
      BY <2>1, <2>4 DEF Keeps, WritesAll
    <3>2. QED BY <2>2, <2>3, <3>1 DEF Written, Own
  <2>5. ASSUME run[p].alone, run[p].place \in dir, ~run[p].found, NEW path \in DOMAIN file,
               path.at = run[p].place, path.name \notin PemFile
        PROVE  path.name \in Wanted(p)
    BY <2>1, <2>2, <2>5 DEF Keeps, Exclusive
  <2>6. run[p].exit = 1 /\ ~run[p].fault => ~run[p].touched
    BY <2>1 DEF Obeys
  <2>7. QED BY <2>4, <2>5, <2>6
<1>2. QED BY <1>1, CliInvariance, PTL

\* A run first touches something when it makes its directory or opens a file.
LEMMA TouchingIs ==
  ASSUME CliInv, [CliNext]_cliVars, NEW p \in Process, run[p].phase # "idle", run'[p].touched
  PROVE  run[p].touched \/ run[p].phase \in {"making", "opening"}
<1> SUFFICES ASSUME run[p].phase \notin {"making", "opening"}
             PROVE  run'[p].touched = run[p].touched
  OBVIOUS
<1>0. run \in [Process -> RunRecord]
  BY DEF CliInv
<1>1. CASE UNCHANGED cliVars
  BY <1>1 DEF cliVars
<1>2. ASSUME NEW q \in Process, NEW line \in Line, Start(q, line)
      PROVE  run'[p].touched = run[p].touched
  <2>1. q # p
    BY <1>2 DEF Start
  <2>2. run'[p] = run[p] \/ run'[p] = [run[p] EXCEPT !.alone = FALSE]
    BY <1>2, <2>1 DEF Start
  <2>3. run[p] \in RunRecord
    BY <1>0
  <2>4. [run[p] EXCEPT !.alone = FALSE].touched = run[p].touched
    BY <2>3 DEF RunRecord
  <2>5. QED BY <2>2, <2>4
<1>3. ASSUME NEW q \in Process, q # p,
             Check(q) \/ Make(q) \/ Generate(q) \/ Read(q) \/ Open(q) \/ Fill(q) \/ Kill(q)
      PROVE  run'[p].touched = run[p].touched
  <2>1. run'[p] = run[p]
    BY <1>0, <1>3 DEF Check, Make, Generate, Read, Open, Fill, Kill, Failed
  <2>2. QED BY <2>1
<1>4. ASSUME Check(p) \/ Generate(p) \/ Read(p) \/ Fill(p) \/ Kill(p)
      PROVE  run'[p].touched = run[p].touched
  <2> DEFINE r == run[p]
  <2>1. r \in RunRecord
    BY <1>0
  <2>2. \A code : /\ Ended(r, code).touched = r.touched
                  /\ Ended([r EXCEPT !.fault = TRUE], code).touched = r.touched
    BY <2>1 DEF Ended, RunRecord
  <2>3. \A phase : [r EXCEPT !.phase = phase].touched = r.touched
    BY <2>1 DEF RunRecord
  <2>4. \A phase, todo : [r EXCEPT !.phase = phase, !.todo = todo].touched = r.touched
    BY <2>1 DEF RunRecord
  <2>5. \A phase : [r EXCEPT !.phase = phase, !.fault = TRUE].touched = r.touched
    BY <2>1 DEF RunRecord
  <2>6. CASE Check(p)
    <3>1. \/ run'[p] = Ended(r, 1)
          \/ run'[p] = [r EXCEPT !.phase = "making"]
          \/ run'[p] = [r EXCEPT !.phase = "making", !.fault = TRUE]
      BY <1>0, <2>6 DEF Check
    <3>2. QED BY <2>2, <2>3, <2>5, <3>1
  <2>7. CASE Generate(p)
    <3>1. \/ run'[p] = [r EXCEPT !.phase = "opening"]
          \/ run'[p] = Ended(r, 0)
          \/ run'[p] = Ended([r EXCEPT !.fault = TRUE], 1)
      BY <1>0, <2>7 DEF Generate, Failed
    <3>2. QED BY <2>2, <2>3, <3>1
  <2>8. CASE Read(p)
    <3>1. run'[p] = Ended(r, 0) \/ run'[p] = Ended(r, 1)
      BY <1>0, <2>8 DEF Read
    <3>2. QED BY <2>2, <3>1
  <2>9. CASE Fill(p)
    <3>1. \/ run'[p] = Ended(r, 0)
          \/ run'[p] = [r EXCEPT !.phase = "opening", !.todo = Tail(r.todo)]
          \/ run'[p] = Ended([r EXCEPT !.fault = TRUE], 1)
      BY <1>0, <2>9 DEF Fill, Failed
    <3>2. [r EXCEPT !.phase = "opening", !.todo = Tail(r.todo)].touched = r.touched
      BY <2>4
    <3>3. QED BY <2>2, <3>1, <3>2
  <2>10. CASE Kill(p)
    <3>1. run'[p] = Ended([r EXCEPT !.fault = TRUE], 137)
      BY <1>0, <2>10 DEF Kill
    <3>2. QED BY <2>2, <3>1
  <2>11. QED BY <1>4, <2>6, <2>7, <2>8, <2>9, <2>10
<1>5. ~Make(p) /\ ~Open(p)
  BY DEF Make, Open
<1>6. QED BY <1>1, <1>2, <1>3, <1>4, <1>5 DEF CliNext

(***************************************************************************)
(* Without --force no run of qdeno whose stat did not fail touches a       *)
(* directory that was there when it began.                                 *)
(***************************************************************************)
THEOREM UnforcedKeeps == CliSpec => UnforcedKeepsWhatItFound
<1>1. ASSUME CliInv, [CliNext]_cliVars, NEW p \in Process,
             run[p].phase # "idle", run[p].line.tool = "qdeno", run[p].found,
             run'[p].touched, ~run[p].fault
      PROVE  LastSet(run[p].line.argv, "force") # 0 /\ Says(run[p].line.argv, "force") = <<>>
  <2> DEFINE argv == run[p].line.argv
  <2>1. Obeys(run[p])
    BY <1>1 DEF CliInv, Sound
  <2>2. run[p].touched \/ run[p].phase \in {"making", "opening"}
    BY <1>1, TouchingIs
  <2>3. Forced(Parse(argv))
    BY <1>1, <2>1, <2>2 DEF Obeys
  <2>4. argv \in Seq(Token)
    BY <2>1, LineAssumption, ParsedAssumption DEF Obeys
  <2>5. "force" \in DOMAIN Parse(argv).flags /\ Parse(argv).flags["force"] = <<>>
    BY <2>3 DEF Forced
  <2>6. QED BY <2>4, <2>5, FlagsSay
<1>2. CliInv /\ [CliNext]_cliVars =>
        [\A p \in Process :
           /\ run[p].phase # "idle" /\ run[p].line.tool = "qdeno" /\ run[p].found
           /\ run'[p].touched /\ ~run[p].fault
           => LastSet(run[p].line.argv, "force") # 0
                /\ Says(run[p].line.argv, "force") = <<>>]_cliVars
  BY <1>1
<1>3. QED BY <1>2, CliInvariance, PTL DEF CliSpec, UnforcedKeepsWhatItFound
=============================================================================
