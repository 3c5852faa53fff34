-------------------------- MODULE WorkerPoolProofs --------------------------
(***************************************************************************)
(* Proofs about the worker loop of tools/workers/workers.ts, for every     *)
(* finite set of entries, every set of limits and resets at any time.      *)
(***************************************************************************)
EXTENDS WorkerPool, FiniteSetTheorems, SequenceTheorems, TLAPS

-----------------------------------------------------------------------------
(* Sequences without repetitions.                                          *)

(***************************************************************************)
(* Cutting a repetition-free sequence in two cuts its range in two         *)
(* disjoint parts, the first of which has one element per position.  This  *)
(* is what pump() does to the queue.                                       *)
(***************************************************************************)
LEMMA CutSeq ==
  ASSUME NEW S, NEW q \in Seq(S), IsInjective(q), NEW n \in 0..Len(q)
  PROVE  /\ SubSeq(q, 1, n) \in Seq(S)
         /\ Len(SubSeq(q, 1, n)) = n
         /\ SubSeq(q, n + 1, Len(q)) \in Seq(S)
         /\ Len(SubSeq(q, n + 1, Len(q))) = Len(q) - n
         /\ IsInjective(SubSeq(q, 1, n))
         /\ IsInjective(SubSeq(q, n + 1, Len(q)))
         /\ ToSet(SubSeq(q, 1, n)) \cup ToSet(SubSeq(q, n + 1, Len(q))) = ToSet(q)
         /\ ToSet(SubSeq(q, 1, n)) \cap ToSet(SubSeq(q, n + 1, Len(q))) = {}
<1> DEFINE p == SubSeq(q, 1, n)
           r == SubSeq(q, n + 1, Len(q))
<1>0. Len(q) \in Nat /\ n \in Nat /\ (n < Len(q) \/ n = Len(q))
  BY LenProperties
<1>1. Len(q) \in Nat /\ n \in Nat /\ DOMAIN q = 1..Len(q) /\ \A i \in 1..Len(q) : q[i] \in S
  BY LenProperties, ElementOfSeq
<1>2. /\ p \in Seq(S) /\ Len(p) = n
      /\ \A i \in 1..n : p[i] = q[i]
  BY <1>1, SubSeqProperties
<1>3. /\ r \in Seq(S) /\ Len(r) = Len(q) - n
      /\ \A i \in 1..(Len(q) - n) : r[i] = q[n + i]
  <2>1. \A i \in (n + 1)..Len(q) : q[i] \in S
    BY <1>1
  <2>2. /\ r \in Seq(S)
        /\ Len(r) = IF n + 1 <= Len(q) THEN Len(q) - (n + 1) + 1 ELSE 0
        /\ \A i \in 1..(Len(q) - (n + 1) + 1) : r[i] = q[(n + 1) + i - 1]
    BY <1>1, <2>1, SubSeqProperties
  <2> HIDE DEF r
  <2>3. Len(r) = Len(q) - n
    <3>1. CASE n < Len(q)
      <4>1. n + 1 <= Len(q) /\ Len(q) - (n + 1) + 1 = Len(q) - n
        BY <3>1, <1>1
      <4>2. QED BY <4>1, <2>2
    <3>2. CASE n = Len(q)
      <4>1. ~(n + 1 <= Len(q)) /\ Len(q) - n = 0
        BY <3>2, <1>1
      <4>2. QED BY <4>1, <2>2
    <3>3. QED BY <3>1, <3>2, <1>0, Zenon
  <2>4. ASSUME NEW i \in 1..(Len(q) - n) PROVE r[i] = q[n + i]
    <3>1. (n + 1) + i - 1 = n + i /\ i \in 1..(Len(q) - (n + 1) + 1)
      BY <1>1
    <3>2. r[i] = q[(n + 1) + i - 1]
      BY <3>1, <2>2
    <3>3. QED BY <3>1, <3>2
  <2>5. QED BY <2>2, <2>3, <2>4
<1>4. DOMAIN p = 1..n /\ DOMAIN r = 1..(Len(q) - n)
  BY <1>2, <1>3, LenProperties
<1> HIDE DEF p, r
<1>5. IsInjective(p)
  BY <1>1, <1>2, <1>4 DEF IsInjective
<1>6. IsInjective(r)
  <2> SUFFICES ASSUME NEW i \in 1..(Len(q) - n), NEW j \in 1..(Len(q) - n), r[i] = r[j]
               PROVE  i = j
    BY <1>4 DEF IsInjective
  <2>1. n + i \in DOMAIN q /\ n + j \in DOMAIN q /\ q[n + i] = q[n + j]
    BY <1>1, <1>3
  <2>2. n + i = n + j
    BY <2>1 DEF IsInjective
  <2>3. QED BY <2>2, <1>1
<1>7. ToSet(p) \cup ToSet(r) = ToSet(q)
  <2>1. ToSet(p) \cup ToSet(r) \subseteq ToSet(q)
    <3>1. \A i \in 1..n : p[i] = q[i] /\ i \in DOMAIN q
      BY <1>1, <1>2
    <3>2. \A i \in 1..(Len(q) - n) : r[i] = q[n + i] /\ n + i \in DOMAIN q
      BY <1>1, <1>3
    <3>3. QED BY <3>1, <3>2, <1>4, Zenon DEF ToSet
  <2>2. ASSUME NEW i \in 1..Len(q) PROVE q[i] \in ToSet(p) \cup ToSet(r)
    <3>1. CASE i <= n
      BY <3>1, <1>1, <1>2, <1>4 DEF ToSet
    <3>2. CASE i > n
      <4>1. i - n \in 1..(Len(q) - n) /\ r[i - n] = q[i]
        BY <3>2, <1>1, <1>3
      <4>2. QED BY <4>1, <1>4 DEF ToSet
    <3>3. QED BY <3>1, <3>2, <1>1
  <2>3. QED BY <2>1, <2>2, <1>1 DEF ToSet
<1>8. ToSet(p) \cap ToSet(r) = {}
  <2>1. ASSUME NEW i \in 1..n, NEW j \in 1..(Len(q) - n) PROVE p[i] # r[j]
    <3>1. i \in DOMAIN q /\ n + j \in DOMAIN q /\ i # n + j
      BY <1>1
    <3>2. q[i] # q[n + j]
      BY <3>1 DEF IsInjective
    <3>3. QED BY <3>2, <1>2, <1>3
  <2>2. QED BY <2>1, <1>4 DEF ToSet
<1>9. QED BY <1>2, <1>3, <1>5, <1>6, <1>7, <1>8 DEF p, r

(***************************************************************************)
(* The range of a repetition-free sequence is as large as the sequence is  *)
(* long.                                                                   *)
(***************************************************************************)
LEMMA RangeSize ==
  ASSUME NEW S, NEW q \in Seq(S), IsInjective(q)
  PROVE  IsFiniteSet(ToSet(q)) /\ Cardinality(ToSet(q)) = Len(q)
<1>1. Len(q) \in Nat /\ DOMAIN q = 1..Len(q) /\ q \in [1..Len(q) -> S]
  BY LenProperties
<1>2. q \in [1..Len(q) -> ToSet(q)]
  BY <1>1 DEF ToSet
<1>3. q \in Bijection(1..Len(q), ToSet(q))
  BY <1>1, <1>2 DEF Bijection, Injection, Surjection, ToSet
<1>4. ExistsBijection(1..Len(q), ToSet(q))
  BY <1>3 DEF ExistsBijection
<1>5. IsFiniteSet(ToSet(q))
  BY <1>1, <1>4, FS_NatBijection
<1>6. QED BY <1>1, <1>4, <1>5, FS_CountingElements

(***************************************************************************)
(* Appending one repetition-free sequence to another that shares nothing   *)
(* with it repeats nothing.                                                *)
(***************************************************************************)
LEMMA JoinSeq ==
  ASSUME NEW S, NEW s \in Seq(S), NEW t \in Seq(S),
         IsInjective(s), IsInjective(t), ToSet(s) \cap ToSet(t) = {}
  PROVE  /\ s \o t \in Seq(S)
         /\ IsInjective(s \o t)
         /\ ToSet(s \o t) = ToSet(s) \cup ToSet(t)
<1> DEFINE u == s \o t
<1>1. /\ Len(s) \in Nat /\ DOMAIN s = 1..Len(s)
      /\ Len(t) \in Nat /\ DOMAIN t = 1..Len(t)
  BY LenProperties
<1>2. /\ u \in Seq(S) /\ Len(u) = Len(s) + Len(t)
      /\ \A i \in 1..(Len(s) + Len(t)) : u[i] = IF i <= Len(s) THEN s[i] ELSE t[i - Len(s)]
  BY ConcatProperties
<1>3. DOMAIN u = 1..(Len(s) + Len(t))
  BY <1>2, LenProperties
<1> HIDE DEF u
<1>4. \A i \in 1..Len(s) : s[i] \in ToSet(s)
  BY <1>1 DEF ToSet
<1>5. \A i \in 1..Len(t) : t[i] \in ToSet(t)
  BY <1>1 DEF ToSet
<1>6. IsInjective(u)
  <2> SUFFICES ASSUME NEW i \in 1..(Len(s) + Len(t)), NEW j \in 1..(Len(s) + Len(t)),
                      u[i] = u[j]
               PROVE  i = j
    BY <1>3 DEF IsInjective
  <2>1. CASE i <= Len(s) /\ j <= Len(s)
    BY SMTT(30), <2>1, <1>1, <1>2 DEF IsInjective
  <2>2. CASE i > Len(s) /\ j > Len(s)
    <3>1. t[i - Len(s)] = t[j - Len(s)] /\ i - Len(s) \in 1..Len(t) /\ j - Len(s) \in 1..Len(t)
      BY <2>2, <1>1, <1>2
    <3>2. i - Len(s) = j - Len(s)
      BY <3>1, <1>1 DEF IsInjective
    <3>3. QED BY <3>2, <1>1
  <2>3. CASE i <= Len(s) /\ j > Len(s)
    BY <2>3, <1>1, <1>2, <1>4, <1>5
  <2>4. CASE i > Len(s) /\ j <= Len(s)
    BY <2>4, <1>1, <1>2, <1>4, <1>5
  <2>5. QED BY <2>1, <2>2, <2>3, <2>4, <1>1
<1>7. ToSet(u) = ToSet(s) \cup ToSet(t)
  <2>1. ToSet(u) \subseteq ToSet(s) \cup ToSet(t)
    <3>1. ASSUME NEW i \in 1..(Len(s) + Len(t)) PROVE u[i] \in ToSet(s) \cup ToSet(t)
      <4>1. CASE i <= Len(s)
        BY <4>1, <1>1, <1>2, <1>4
      <4>2. CASE i > Len(s)
        <5>1. i - Len(s) \in 1..Len(t) /\ u[i] = t[i - Len(s)]
          BY <4>2, <1>1, <1>2
        <5>2. QED BY <5>1, <1>5
      <4>3. QED BY <4>1, <4>2, <1>1
    <3>2. ToSet(u) = {u[i] : i \in 1..(Len(s) + Len(t))}
      BY <1>3 DEF ToSet
    <3>3. QED BY <3>1, <3>2
  <2>2. ToSet(s) \subseteq ToSet(u)
    BY SMTT(30), <1>1, <1>2, <1>3 DEF ToSet
  <2>3. ASSUME NEW j \in 1..Len(t) PROVE t[j] \in ToSet(u)
    <3>1. j + Len(s) \in 1..(Len(s) + Len(t)) /\ u[j + Len(s)] = t[j]
      BY <1>1, <1>2
    <3>2. QED BY <3>1, <1>3 DEF ToSet
  <2>4. QED BY <2>1, <2>2, <2>3, <1>1 DEF ToSet
<1>8. QED BY <1>2, <1>6, <1>7 DEF u
(***************************************************************************)
(* The two ends of a queue: addTask appends a new element, StartTask takes *)
(* the first one.                                                          *)
(***************************************************************************)
LEMMA AppendFresh ==
  ASSUME NEW S, NEW q \in Seq(S), IsInjective(q), NEW t \in S, t \notin ToSet(q)
  PROVE  /\ Append(q, t) \in Seq(S)
         /\ IsInjective(Append(q, t))
         /\ ToSet(Append(q, t)) = ToSet(q) \cup {t}
<1> DEFINE one == <<t>>
<1>1. one \in Seq(S) /\ IsInjective(one) /\ ToSet(one) = {t}
  BY DEF IsInjective, ToSet
<1>2. Append(q, t) = q \o one
  BY AppendIsConcat
<1> HIDE DEF one
<1>3. ToSet(q) \cap ToSet(one) = {}
  BY <1>1
<1>4. QED BY <1>1, <1>2, <1>3, JoinSeq

\* Taking the head off a sequence without repetitions.
LEMMA TakeHead ==
  ASSUME NEW S, NEW q \in Seq(S), IsInjective(q), q # <<>>
  PROVE  /\ Tail(q) \in Seq(S)
         /\ IsInjective(Tail(q))
         /\ ToSet(Tail(q)) = ToSet(q) \ {Head(q)}
         /\ Head(q) \in ToSet(q)
<1> DEFINE m == 1
           p == SubSeq(q, 1, m)
           r == SubSeq(q, m + 1, Len(q))
<1>1. Len(q) \in Nat \ {0}
  BY EmptySeq
<1>2. m \in 0..Len(q)
  BY <1>1
<1>3. r = Tail(q)
  BY TailIsSubSeq
<1>4. Head(p) = q[1] /\ Head(q) = q[1]
  BY <1>1, HeadTailOfSubSeq
<1> HIDE DEF m
<1>5. /\ p \in Seq(S) /\ Len(p) = m
      /\ r \in Seq(S) /\ IsInjective(r)
      /\ ToSet(p) \cup ToSet(r) = ToSet(q)
      /\ ToSet(p) \cap ToSet(r) = {}
  BY <1>2, CutSeq
<1> HIDE DEF p, r
<1>6. ToSet(p) = {Head(q)}
  <2>1. DOMAIN p = {1}
    BY <1>5, LenProperties DEF m
  <2>2. ToSet(p) = {p[1]}
    BY <2>1 DEF ToSet
  <2>3. p[1] = Head(p)
    BY <1>5
  <2>4. QED BY <2>2, <2>3, <1>4
<1>7. QED BY <1>3, <1>5, <1>6

-----------------------------------------------------------------------------
(* What pump() does.                                                       *)

(***************************************************************************)
(* The number of rounds of pump()'s loop: it never takes more than there   *)
(* is, launches only up to the limit, and stops early only when the pool   *)
(* is stopped or full.                                                     *)
(***************************************************************************)
LEMMA LaunchesBounds ==
  ASSUME NEW run \in BOOLEAN, NEW q \in Seq(Task), NEW a \in Int, NEW l \in Int
  PROVE  /\ Launches(run, q, a, l) \in 0..Len(q)
         /\ Launches(run, q, a, l) # 0 => a + Launches(run, q, a, l) <= l
         /\ run /\ Launches(run, q, a, l) # Len(q) => a + Launches(run, q, a, l) >= l
<1>1. Len(q) \in Nat
  BY LenProperties
<1>2. QED BY <1>1 DEF Launches

\* The tasks in flight under a stage assignment st.
Flying(st) == {t \in Task : st[t] \in InFlightStage}

(***************************************************************************)
(* One pump from a state in which the queues match the stages: types and   *)
(* queues are kept, tasks launched are counted in active, the limit bounds *)
(* a launch, and nothing waits while a running pool has room.              *)
(***************************************************************************)
LEMMA PumpStep ==
  ASSUME NEW run \in BOOLEAN, NEW q \in Seq(Task), NEW a \in Int, NEW l \in Int,
         NEW st \in [Task -> Stage], ready \in Seq(Task),
         IsInjective(q), ToSet(q) = {t \in Task : st[t] = "queued"},
         IsInjective(ready), ToSet(ready) = {t \in Task : st[t] = "launched"},
         Pump(run, q, a, l, st)
  PROVE  /\ queue' \in Seq(Task) /\ ready' \in Seq(Task)
         /\ active' \in Int /\ stage' \in [Task -> Stage]
         /\ QueuesMatchStages'
         /\ Cardinality(InFlight') - active' = Cardinality(Flying(st)) - a
         /\ run /\ queue' # <<>> => active' >= l
         /\ InFlight' \subseteq Flying(st) \/ active' <= l
<1> DEFINE n == Launches(run, q, a, l)
           p == SubSeq(q, 1, n)
           r == SubSeq(q, n + 1, Len(q))
<1>1. /\ n \in 0..Len(q)
      /\ n # 0 => a + n <= l
      /\ run /\ n # Len(q) => a + n >= l
  BY LaunchesBounds
<1>2. /\ queue' = r
      /\ ready' = ready \o p
      /\ active' = a + n
      /\ stage' = [t \in Task |-> IF t \in ToSet(p) THEN "launched" ELSE st[t]]
  BY DEF Pump
<1> HIDE DEF n
<1>3. /\ p \in Seq(Task) /\ Len(p) = n /\ IsInjective(p)
      /\ r \in Seq(Task) /\ Len(r) = Len(q) - n /\ IsInjective(r)
      /\ ToSet(p) \cup ToSet(r) = ToSet(q) /\ ToSet(p) \cap ToSet(r) = {}
  BY <1>1, CutSeq
<1> HIDE DEF p, r
<1>4. IsFiniteSet(ToSet(p)) /\ Cardinality(ToSet(p)) = n
  BY <1>3, RangeSize
<1>5. Len(q) \in Nat /\ n \in Nat
  BY <1>1, LenProperties
<1>6. \A t \in ToSet(p) : t \in Task /\ st[t] = "queued"
  BY <1>3
<1>7. stage' \in [Task -> Stage]
  BY <1>2 DEF Stage
<1>8. /\ ready' \in Seq(Task) /\ IsInjective(ready')
      /\ ToSet(ready') = ToSet(ready) \cup ToSet(p)
  <2>1. ToSet(ready) \cap ToSet(p) = {}
    BY <1>6
  <2>2. QED BY <2>1, <1>2, <1>3, JoinSeq
<1>9. ToSet(ready') = {t \in Task : stage'[t] = "launched"}
  BY <1>2, <1>6, <1>8
<1>10. ToSet(queue') = {t \in Task : stage'[t] = "queued"}
  <2>1. \A t \in Task : stage'[t] = "queued" <=> t \notin ToSet(p) /\ st[t] = "queued"
    BY <1>2
  <2>2. QED BY <2>1, <1>2, <1>3
<1>11. QueuesMatchStages'
  BY <1>2, <1>3, <1>8, <1>9, <1>10 DEF QueuesMatchStages
<1>12. InFlight' = Flying(st) \cup ToSet(p)
  BY <1>2, <1>6 DEF InFlight, Flying, InFlightStage
<1>13. Cardinality(InFlight') = Cardinality(Flying(st)) + n /\ Cardinality(Flying(st)) \in Nat
  <2>1. IsFiniteSet(Flying(st)) /\ Cardinality(Flying(st)) \in Nat
    BY TaskAssumption, FS_Subset, FS_CardinalityType DEF Flying
  <2>2. Flying(st) \cap ToSet(p) = {}
    BY <1>6 DEF Flying, InFlightStage
  <2>3. Cardinality(Flying(st) \cap ToSet(p)) = 0
    BY <2>2, FS_EmptySet
  <2>4. Cardinality(Flying(st) \cup ToSet(p))
          = Cardinality(Flying(st)) + Cardinality(ToSet(p)) - Cardinality(Flying(st) \cap ToSet(p))
    BY <2>1, <1>4, FS_Union
  <2>5. QED BY <2>1, <2>3, <2>4, <1>4, <1>5, <1>12
<1>14. run /\ queue' # <<>> => active' >= l
  <2>1. SUFFICES ASSUME run, queue' # <<>> PROVE active' >= l
    OBVIOUS
  <2>2. Len(r) # 0
    BY <2>1, <1>2, <1>3, EmptySeq
  <2>3. n # Len(q)
    BY <2>2, <1>3, <1>5
  <2>4. QED BY <2>1, <2>3, <1>1, <1>2
<1>15. InFlight' \subseteq Flying(st) \/ active' <= l
  <2>1. CASE n = 0
    <3>1. ToSet(p) = {}
      BY <2>1, <1>4, FS_EmptySet
    <3>2. QED BY <3>1, <1>12
  <2>2. CASE n # 0
    BY <2>2, <1>1, <1>2
  <2>3. QED BY <2>1, <2>2
<1>16. active' \in Int /\ Cardinality(InFlight') - active' = Cardinality(Flying(st)) - a
  BY <1>2, <1>5, <1>13
<1>17. queue' \in Seq(Task)
  BY <1>2, <1>3
<1>18. QED BY <1>7, <1>8, <1>11, <1>14, <1>15, <1>16, <1>17
-----------------------------------------------------------------------------
(* The inductive invariant.                                                *)

IInv == TypeOK /\ QueuesMatchStages /\ Accounting /\ WorkConserving

\* What LaunchWithinLimit says of one step.
LaunchBound ==
  ~(InFlight' \subseteq InFlight) => Cardinality(InFlight') <= limit' + forgotten'

\* The pool is empty at the start.
LEMMA InitIInv == Init => IInv
<1> SUFFICES ASSUME Init PROVE IInv
  OBVIOUS
<1> USE DEF Init
<1>1. TypeOK
  <2>1. <<>> \in Seq(Task)
    BY EmptySeq
  <2>2. limit \in Nat \ {0} /\ active \in Int /\ forgotten \in Nat
    BY LimitAssumption
  <2>3. stage \in [Task -> Stage]
    BY DEF Stage
  <2>4. QED BY <2>1, <2>2, <2>3 DEF TypeOK
<1>2. ToSet(<<>>) = {} /\ IsInjective(<<>>)
  BY DEF ToSet, IsInjective
<1>3. QueuesMatchStages
  BY <1>2 DEF QueuesMatchStages
<1>4. InFlight = {}
  BY DEF InFlight, InFlightStage
<1>5. Accounting
  BY <1>4, FS_EmptySet DEF Accounting
<1>6. QED BY <1>1, <1>3, <1>5 DEF IInv, WorkConserving

(***************************************************************************)
(* Every action that pumps preserves the invariant, given that it hands    *)
(* pump a queue and stages that match and counts the tasks in flight.      *)
(***************************************************************************)
LEMMA PumpInvariant ==
  ASSUME IInv, limit' \in Nat \ {0}, running' \in BOOLEAN,
         NEW q \in Seq(Task), NEW a \in Int, NEW st \in [Task -> Stage],
         IsInjective(q), ToSet(q) = {t \in Task : st[t] = "queued"},
         \A t \in Task : st[t] = "launched" <=> stage[t] = "launched",
         a = Cardinality(Flying(st)) - forgotten, Flying(st) \subseteq InFlight,
         Pump(running', q, a, limit', st), UNCHANGED forgotten
  PROVE  IInv' /\ LaunchBound
<1>1. /\ ready \in Seq(Task) /\ IsInjective(ready)
      /\ ToSet(ready) = {t \in Task : st[t] = "launched"}
  BY DEF IInv, TypeOK, QueuesMatchStages
<1>2. /\ queue' \in Seq(Task) /\ ready' \in Seq(Task)
      /\ active' \in Int /\ stage' \in [Task -> Stage]
      /\ QueuesMatchStages'
      /\ Cardinality(InFlight') - active' = Cardinality(Flying(st)) - a
      /\ running' /\ queue' # <<>> => active' >= limit'
      /\ InFlight' \subseteq Flying(st) \/ active' <= limit'
  BY <1>1, PumpStep
<1>3. Cardinality(InFlight') \in Nat /\ Cardinality(Flying(st)) \in Nat
  <2>1. InFlight' \in SUBSET Task /\ Flying(st) \in SUBSET Task
    BY DEF InFlight, Flying
  <2>2. QED BY <2>1, TaskAssumption, FS_Subset, FS_CardinalityType
<1>4. forgotten \in Nat /\ forgotten' = forgotten
  BY DEF IInv, TypeOK
<1>5. active' = Cardinality(InFlight') - forgotten'
  BY SMTT(30), <1>2, <1>3, <1>4
<1>6. TypeOK'
  BY <1>2, <1>4 DEF TypeOK
<1>7. LaunchBound
  <2>1. SUFFICES ASSUME ~(InFlight' \subseteq InFlight)
                 PROVE  Cardinality(InFlight') <= limit' + forgotten'
    BY DEF LaunchBound
  <2>2. active' <= limit'
    BY <2>1, <1>2
  <2>3. QED BY SMTT(30), <2>2, <1>2, <1>3, <1>4, <1>5
<1>8. QED BY <1>2, <1>5, <1>6, <1>7 DEF IInv, Accounting, WorkConserving

\* Every step keeps the invariant and launches within the limit.
LEMMA NextIInv == IInv /\ [Next]_vars => IInv' /\ (LaunchBound \/ UNCHANGED vars)
<1> SUFFICES ASSUME IInv, [Next]_vars PROVE IInv' /\ (LaunchBound \/ UNCHANGED vars)
  OBVIOUS
<1> USE DEF Flying, InFlight
<1>1. /\ TypeOK
      /\ queue \in Seq(Task) /\ IsInjective(queue)
      /\ ToSet(queue) = {t \in Task : stage[t] = "queued"}
      /\ ready \in Seq(Task) /\ IsInjective(ready)
      /\ ToSet(ready) = {t \in Task : stage[t] = "launched"}
  BY DEF IInv, TypeOK, QueuesMatchStages
<1>2. /\ limit \in Nat \ {0} /\ active \in Int /\ running \in BOOLEAN
      /\ stage \in [Task -> Stage] /\ forgotten \in Nat
  BY DEF IInv, TypeOK
<1>3. IsFiniteSet(InFlight) /\ Cardinality(InFlight) \in Nat
  BY TaskAssumption, FS_Subset, FS_CardinalityType
<1>4. active = Cardinality(InFlight) - forgotten
  BY DEF IInv, Accounting
<1>5. active = Cardinality(Flying(stage)) - forgotten /\ Flying(stage) \subseteq InFlight
  BY <1>4
<1>6. ASSUME NEW t \in Task, AddTask(t) PROVE IInv' /\ LaunchBound
  <2> DEFINE st == [stage EXCEPT ![t] = "queued"]
  <2>1. /\ stage[t] = "idle"
        /\ Pump(running', Append(queue, t), active, limit', st)
        /\ UNCHANGED <<limit, running, forgotten>>
    BY <1>6 DEF AddTask
  <2>2. st \in [Task -> Stage] /\ Flying(st) = InFlight
    BY <1>2, <2>1 DEF Stage, InFlightStage
  <2>6. /\ Append(queue, t) \in Seq(Task) /\ IsInjective(Append(queue, t))
        /\ ToSet(Append(queue, t)) = ToSet(queue) \cup {t}
    <3>1. t \notin ToSet(queue)
      BY <1>1, <2>1
    <3> HIDE DEF st, Flying, InFlight
    <3>2. QED BY <1>1, <3>1, AppendFresh
  <2>7. ToSet(Append(queue, t)) = {u \in Task : st[u] = "queued"}
    BY <1>1, <1>2, <2>6
  <2>8. \A u \in Task : st[u] = "launched" <=> stage[u] = "launched"
    BY <1>2, <2>1
  <2> HIDE DEF st, Flying
  <2>9. QED BY <1>2, <1>4, <2>1, <2>2, <2>6, <2>7, <2>8, PumpInvariant
<1>7. ASSUME NEW v \in LimitArg, SetWorkersLimit(v) PROVE IInv' /\ LaunchBound
  <2>1. limit' \in Nat \ {0} /\ running' = running /\ UNCHANGED forgotten
    BY <1>7, LimitAssumption DEF SetWorkersLimit
  <2>2. Pump(running', queue, active, limit', stage)
    BY <1>7, <2>1 DEF SetWorkersLimit
  <2> HIDE DEF Flying
  <2>3. QED BY <1>1, <1>2, <1>5, <2>1, <2>2, PumpInvariant
<1>8. ASSUME RunWorkers \/ RestartWorkers PROVE IInv' /\ LaunchBound
  <2>1. running' = TRUE /\ UNCHANGED <<limit, forgotten>>
    BY <1>8 DEF RunWorkers, RestartWorkers
  <2>2. Pump(running', queue, active, limit', stage)
    BY <1>8, <2>1 DEF RunWorkers, RestartWorkers
  <2> HIDE DEF Flying
  <2>3. QED BY <1>1, <1>2, <1>5, <2>1, <2>2, PumpInvariant
<1>9. ASSUME StopWorkers PROVE IInv' /\ LaunchBound
  <2>1. InFlight' = InFlight
    BY <1>9 DEF StopWorkers
  <2>2. QED BY <1>9, <2>1 DEF StopWorkers, IInv, TypeOK, QueuesMatchStages, Accounting,
                              WorkConserving, LaunchBound
<1>10. ASSUME ResetWorkers PROVE IInv' /\ LaunchBound
  <2>1. /\ running' = FALSE /\ queue' = <<>> /\ active' = 0 /\ limit' = DefaultLimit
        /\ stage' = [t \in Task |-> IF stage[t] = "queued" THEN "idle" ELSE stage[t]]
        /\ forgotten' = Cardinality(InFlight) /\ ready' = ready
    BY <1>10 DEF ResetWorkers
  <2>2. InFlight' = InFlight
    BY <2>1 DEF InFlightStage
  <2> HIDE DEF Flying, InFlight
  <2>3. Accounting' /\ LaunchBound
    <3>1. Cardinality(InFlight') = Cardinality(InFlight)
      BY <2>2
    <3>2. active' = Cardinality(InFlight') - forgotten'
      BY <3>1, <2>1, <1>3
    <3>3. QED BY <2>2, <3>2 DEF Accounting, LaunchBound
  <2>4. TypeOK'
    <3>1. stage' \in [Task -> Stage]
      BY <1>2, <2>1 DEF Stage
    <3>2. limit' \in Nat \ {0} /\ running' \in BOOLEAN
      BY <2>1, LimitAssumption
    <3>3. active' \in Int /\ forgotten' \in Nat
      BY <1>3, <2>1
    <3>4. queue' \in Seq(Task) /\ ready' \in Seq(Task)
      BY <1>1, <2>1, EmptySeq
    <3>5. QED BY <3>1, <3>2, <3>3, <3>4 DEF TypeOK
  <2>5. ToSet(<<>>) = {} /\ IsInjective(<<>>)
    BY DEF ToSet, IsInjective
  <2>6. QueuesMatchStages'
    BY <1>1, <2>1, <2>5 DEF QueuesMatchStages
  <2>7. QED BY <2>1, <2>3, <2>4, <2>6 DEF IInv, WorkConserving
<1>11. ASSUME StartTask PROVE IInv' /\ LaunchBound
  <2>1. /\ ready # <<>> /\ stage' = [stage EXCEPT ![Head(ready)] = "executing"]
        /\ ready' = Tail(ready)
        /\ UNCHANGED <<limit, queue, active, running, forgotten>>
    BY <1>11 DEF StartTask
  <2>3. /\ Tail(ready) \in Seq(Task) /\ IsInjective(Tail(ready))
        /\ ToSet(Tail(ready)) = ToSet(ready) \ {Head(ready)}
        /\ Head(ready) \in ToSet(ready)
    <3> HIDE DEF Flying, InFlight
    <3>1. QED BY <1>1, <2>1, TakeHead
  <2>4. Head(ready) \in Task /\ stage[Head(ready)] = "launched"
    BY <1>1, <2>3
  <2>5. InFlight' = InFlight
    BY <1>2, <2>1, <2>4 DEF InFlightStage
  <2>6. Accounting' /\ LaunchBound
    BY <1>4, <2>1, <2>5 DEF Accounting, LaunchBound
  <2>7. TypeOK'
    BY <1>1, <1>2, <2>1, <2>3, <2>4 DEF TypeOK, Stage
  <2>8. /\ ToSet(queue') = {t \in Task : stage'[t] = "queued"}
        /\ ToSet(ready') = {t \in Task : stage'[t] = "launched"}
    BY <1>1, <1>2, <2>1, <2>3, <2>4
  <2>9. QueuesMatchStages'
    BY <1>1, <2>1, <2>3, <2>8 DEF QueuesMatchStages
  <2>10. QED BY <2>1, <2>6, <2>7, <2>9 DEF IInv, WorkConserving
<1>12. ASSUME NEW t \in Task, NEW outcome \in {"fulfilled", "rejected"},
              SettleTask(t, outcome)
       PROVE  IInv' /\ LaunchBound
  <2>1. /\ stage[t] = "executing" /\ stage' = [stage EXCEPT ![t] = outcome]
        /\ UNCHANGED <<limit, queue, active, running, ready, forgotten>>
    BY <1>12 DEF SettleTask
  <2>2. InFlight' = InFlight
    BY <1>2, <2>1 DEF InFlightStage
  <2>3. TypeOK'
    BY <1>1, <1>2, <2>1 DEF TypeOK, Stage
  <2>4. \A u \in Task : /\ stage'[u] = "queued" <=> stage[u] = "queued"
                        /\ stage'[u] = "launched" <=> stage[u] = "launched"
    BY <1>2, <2>1
  <2>5. QueuesMatchStages'
    BY <1>1, <2>1, <2>4 DEF QueuesMatchStages
  <2>6. QED BY <2>1, <2>2, <2>3, <2>5 DEF IInv, Accounting, WorkConserving, LaunchBound
<1>13. ASSUME NEW t \in Task, FinishTask(t) PROVE IInv' /\ LaunchBound
  <2> DEFINE st == [stage EXCEPT ![t] = "idle"]
  <2>1. /\ stage[t] \in {"fulfilled", "rejected"}
        /\ Pump(running', queue, active - 1, limit', st)
        /\ UNCHANGED <<limit, running, forgotten>>
    BY <1>13 DEF FinishTask
  <2>2. st \in [Task -> Stage] /\ t \in InFlight /\ Flying(st) = InFlight \ {t}
    BY <1>2, <2>1 DEF Stage, InFlightStage
  <2>3. Cardinality(Flying(st)) = Cardinality(InFlight) - 1
    <3> HIDE DEF Flying, InFlight, st
    <3>1. QED BY <1>3, <2>2, FS_RemoveElement
  <2>4. \A u \in Task : /\ st[u] = "queued" <=> stage[u] = "queued"
                        /\ st[u] = "launched" <=> stage[u] = "launched"
    BY <1>2, <2>1
  <2>5. active - 1 \in Int /\ active - 1 = Cardinality(Flying(st)) - forgotten
    BY <1>2, <1>3, <1>4, <2>3
  <2>6. ToSet(queue) = {u \in Task : st[u] = "queued"}
    BY <1>1, <2>4
  <2> HIDE DEF st, Flying
  <2>7. Flying(st) \subseteq InFlight
    BY <2>2
  <2>8. QED BY <1>1, <1>2, <2>1, <2>2, <2>4, <2>5, <2>6, <2>7, PumpInvariant
<1>14. CASE UNCHANGED vars
  <2>1. InFlight' = InFlight
    BY <1>14 DEF vars
  <2>2. QED BY <1>14, <2>1 DEF vars, IInv, TypeOK, QueuesMatchStages, Accounting,
                               WorkConserving
<1>15. QED BY <1>6, <1>7, <1>8, <1>9, <1>10, <1>11, <1>12, <1>13, <1>14 DEF Next

-----------------------------------------------------------------------------
(* The theorems.                                                           *)

(***************************************************************************)
(* The invariant holds in every reachable state.                           *)
(***************************************************************************)
THEOREM Invariance == Spec => []IInv
<1>1. QED BY InitIInv, NextIInv, PTL DEF Spec

(***************************************************************************)
(* workers.ts keeps its variables well typed; the limit stays positive.    *)
(***************************************************************************)
THEOREM TypeCorrect == Spec => []TypeOK
<1>1. IInv => TypeOK
  BY DEF IInv
<1>2. QED BY <1>1, Invariance, PTL

(***************************************************************************)
(* active is the number of tasks in flight less the ones resetWorkers      *)
(* forgot, at every moment and for any number of tasks.                    *)
(***************************************************************************)
THEOREM AccountingCorrect == Spec => []Accounting
<1>1. IInv => Accounting
  BY DEF IInv
<1>2. QED BY <1>1, Invariance, PTL

(***************************************************************************)
(* A running pool with a free slot has an empty queue.                     *)
(***************************************************************************)
THEOREM WorkConservation == Spec => []WorkConserving
<1>1. IInv => WorkConserving
  BY DEF IInv
<1>2. QED BY <1>1, Invariance, PTL

(***************************************************************************)
(* No entry is lost, duplicated, or both waiting and running.              *)
(***************************************************************************)
THEOREM QueuesConsistent == Spec => []QueuesMatchStages
<1>1. IInv => QueuesMatchStages
  BY DEF IInv
<1>2. QED BY <1>1, Invariance, PTL

(***************************************************************************)
(* A step that launches leaves at most limit tasks in flight, beside the   *)
(* ones the last reset forgot.                                             *)
(***************************************************************************)
THEOREM LaunchLimited == Spec => LaunchWithinLimit
<1>1. IInv /\ [Next]_vars => [LaunchBound]_vars
  BY NextIInv
<1>2. [LaunchBound]_vars
        => [~(InFlight' \subseteq InFlight)
              => Cardinality(InFlight') <= limit' + forgotten']_vars
  BY DEF LaunchBound
<1>3. QED BY <1>1, <1>2, Invariance, PTL DEF Spec, LaunchWithinLimit

-----------------------------------------------------------------------------
(* The refinement: the worker loop implements the bounded FIFO pool of     *)
(* TaskPool.                                                               *)

(***************************************************************************)
(* The library's operators as TaskPool sees them.                          *)
(***************************************************************************)
LEMMA SameOperators ==
  /\ \A S : Pool!Cardinality(S) = Cardinality(S)
  /\ \A s : Pool!ToSet(s) = ToSet(s)
<1>1. \A S : Pool!Cardinality(S) = Cardinality(S)
  BY DEF Pool!Cardinality, Cardinality, Pool!IsFiniteSet, IsFiniteSet
<1>2. \A s : Pool!ToSet(s) = ToSet(s)
  BY DEF Pool!ToSet, ToSet
<1>3. QED BY <1>1, <1>2

(***************************************************************************)
(* The loop of pump() is one admission of the abstract pool.               *)
(***************************************************************************)
LEMMA PumpAdmits ==
  ASSUME IInv, IInv', limit' \in Nat \ {0}, running' \in BOOLEAN,
         NEW q \in Seq(Task), NEW a \in Int, NEW st \in [Task -> Stage],
         IsInjective(q), ToSet(q) = {t \in Task : st[t] = "queued"},
         Pump(running', q, a, limit', st)
  PROVE  Pool!Admit(q, Flying(st))
<1> DEFINE n == Launches(running', q, a, limit')
           p == SubSeq(q, 1, n)
<1>1. /\ n \in 0..Len(q)
      /\ n # 0 => a + n <= limit'
  BY LaunchesBounds
<1>2. n # 0 => running'
  BY DEF Launches
<1>3. /\ queue' = SubSeq(q, n + 1, Len(q))
      /\ active' = a + n
      /\ stage' = [t \in Task |-> IF t \in ToSet(p) THEN "launched" ELSE st[t]]
  BY DEF Pump
<1> HIDE DEF n
<1>4. \A t \in ToSet(p) : t \in Task
  BY <1>1, CutSeq
<1>5. InFlight' = Flying(st) \cup ToSet(p)
  BY <1>3, <1>4 DEF InFlight, Flying, InFlightStage
<1>6. Cardinality(InFlight') \in Nat
  <2>1. InFlight' \in SUBSET Task
    BY DEF InFlight
  <2>2. QED BY <2>1, TaskAssumption, FS_Subset, FS_CardinalityType
<1>7. /\ active' = Cardinality(InFlight') - forgotten' /\ forgotten' \in Nat
      /\ running' /\ queue' # <<>> => active' >= limit'
  BY DEF IInv, TypeOK, Accounting, WorkConserving
<1>8. n > 0 => running' /\ Cardinality(InFlight') <= limit' + forgotten'
  BY <1>1, <1>2, <1>3, <1>6, <1>7
<1>9. running' /\ Cardinality(InFlight') < limit' + forgotten' => queue' = <<>>
  BY <1>6, <1>7
<1>10. /\ Pool!ToSet(SubSeq(q, 1, n)) = ToSet(p)
       /\ Pool!Cardinality(InFlight') = Cardinality(InFlight')
       /\ Pool!Room' = limit' + forgotten'
  BY SameOperators DEF Pool!Room
<1>11. /\ n \in 0..Len(q)
       /\ queue' = SubSeq(q, n + 1, Len(q))
       /\ InFlight' = Flying(st) \cup Pool!ToSet(SubSeq(q, 1, n))
       /\ n > 0 => running' /\ Pool!Cardinality(InFlight') <= Pool!Room'
       /\ running' /\ Pool!Cardinality(InFlight') < Pool!Room' => queue' = <<>>
  BY <1>1, <1>3, <1>5, <1>8, <1>9, <1>10, Zenon
<1>12. QED BY <1>11, Zenon DEF Pool!Admit

\* The first state of the pool is the first of the abstract one.
LEMMA InitImplements == Init => Pool!Init
  BY DEF Init, Pool!Init, InFlight, InFlightStage

(***************************************************************************)
(* Every step of the worker loop is a step of the abstract pool, or leaves *)
(* it alone: addTask submits, the finally callback retires, and a task     *)
(* that starts or settles is busy before and after.                        *)
(***************************************************************************)
LEMMA StepImplements == IInv /\ IInv' /\ [Next]_vars => [Pool!Next]_(Pool!vars)
<1> SUFFICES ASSUME IInv, IInv', [Next]_vars
             PROVE  Pool!Next \/ UNCHANGED <<queue, InFlight, limit, running, forgotten>>
  BY DEF Pool!vars
<1> USE DEF InFlight
<1>1. /\ queue \in Seq(Task) /\ IsInjective(queue)
      /\ ToSet(queue) = {t \in Task : stage[t] = "queued"}
      /\ ready \in Seq(Task) /\ ToSet(ready) = {t \in Task : stage[t] = "launched"}
      /\ IsInjective(ready)
  BY DEF IInv, TypeOK, QueuesMatchStages
<1>2. /\ limit \in Nat \ {0} /\ active \in Int /\ running \in BOOLEAN
      /\ limit' \in Nat \ {0} /\ running' \in BOOLEAN
      /\ stage \in [Task -> Stage]
  BY DEF IInv, TypeOK
<1>3. Flying(stage) = InFlight
  BY DEF Flying
<1>4. ASSUME NEW t \in Task, AddTask(t) PROVE Pool!Next
  <2> DEFINE st == [stage EXCEPT ![t] = "queued"]
  <2>1. /\ stage[t] = "idle"
        /\ Pump(running', Append(queue, t), active, limit', st)
        /\ UNCHANGED <<limit, running, forgotten>>
    BY <1>4 DEF AddTask
  <2>2. st \in [Task -> Stage] /\ Flying(st) = InFlight
    BY <1>2, <2>1 DEF Stage, InFlightStage, Flying
  <2>3. t \notin ToSet(queue) /\ t \notin InFlight
    BY <1>1, <2>1 DEF InFlightStage
  <2>4. /\ Append(queue, t) \in Seq(Task) /\ IsInjective(Append(queue, t))
        /\ ToSet(Append(queue, t)) = ToSet(queue) \cup {t}
    <3> HIDE DEF st, InFlight
    <3>1. QED BY <1>1, <2>3, AppendFresh
  <2>5. ToSet(Append(queue, t)) = {u \in Task : st[u] = "queued"}
    BY <1>1, <1>2, <2>4
  <2> HIDE DEF st, InFlight
  <2>6. Pool!Admit(Append(queue, t), InFlight)
    BY <1>2, <2>1, <2>2, <2>4, <2>5, PumpAdmits
  <2>7. Pool!Submit(t)
    <3>1. Pool!ToSet(queue) = ToSet(queue)
      BY SameOperators
    <3>2. QED BY <3>1, <2>1, <2>3, <2>6 DEF Pool!Submit
  <2>8. QED BY <2>7 DEF Pool!Next
<1>5. ASSUME NEW v \in LimitArg, SetWorkersLimit(v) PROVE Pool!Next
  <2>1. running' = running /\ UNCHANGED forgotten /\ Pump(running', queue, active, limit', stage)
    BY <1>5 DEF SetWorkersLimit
  <2> HIDE DEF InFlight
  <2>2. Pool!Admit(queue, InFlight)
    BY <1>1, <1>2, <1>3, <2>1, PumpAdmits
  <2>3. Pool!SetLimit
    BY <1>2, <2>1, <2>2 DEF Pool!SetLimit
  <2>4. QED BY <2>3 DEF Pool!Next
<1>6. ASSUME RunWorkers \/ RestartWorkers PROVE Pool!Next
  <2>1. running' = TRUE /\ UNCHANGED <<limit, forgotten>>
    BY <1>6 DEF RunWorkers, RestartWorkers
  <2>2. Pump(running', queue, active, limit', stage)
    BY <1>6, <2>1 DEF RunWorkers, RestartWorkers
  <2> HIDE DEF InFlight
  <2>3. Pool!Admit(queue, InFlight)
    BY <1>1, <1>2, <1>3, <2>1, <2>2, PumpAdmits
  <2>4. Pool!Open
    BY <2>1, <2>3 DEF Pool!Open
  <2>5. QED BY <2>4 DEF Pool!Next
<1>7. ASSUME StopWorkers PROVE Pool!Next
  <2>1. Pool!Close
    BY <1>7 DEF StopWorkers, Pool!Close
  <2>2. QED BY <2>1 DEF Pool!Next
<1>8. ASSUME ResetWorkers PROVE Pool!Next
  <2>1. /\ running' = FALSE /\ queue' = <<>> /\ limit' = DefaultLimit
        /\ stage' = [t \in Task |-> IF stage[t] = "queued" THEN "idle" ELSE stage[t]]
        /\ forgotten' = Cardinality(InFlight)
    BY <1>8 DEF ResetWorkers
  <2>2. InFlight' = InFlight
    BY <2>1 DEF InFlightStage
  <2> HIDE DEF InFlight
  <2>3. Pool!Cardinality(InFlight) = Cardinality(InFlight)
    BY SameOperators
  <2>4. Pool!Clear
    BY <2>1, <2>2, <2>3 DEF Pool!Clear
  <2>5. QED BY <2>4 DEF Pool!Next
<1>9. ASSUME StartTask
      PROVE  UNCHANGED <<queue, InFlight, limit, running, forgotten>>
  <2>1. ready # <<>> /\ stage' = [stage EXCEPT ![Head(ready)] = "executing"]
        /\ UNCHANGED <<limit, queue, running, forgotten>>
    BY <1>9 DEF StartTask
  <2>2. Head(ready) \in ToSet(ready)
    <3> HIDE DEF InFlight
    <3>1. QED BY <1>1, <2>1, TakeHead
  <2>3. Head(ready) \in Task /\ stage[Head(ready)] = "launched"
    BY <1>1, <2>2
  <2>4. QED BY <1>2, <2>1, <2>3 DEF InFlightStage
<1>10. ASSUME NEW t \in Task, NEW outcome \in {"fulfilled", "rejected"},
              SettleTask(t, outcome)
       PROVE  UNCHANGED <<queue, InFlight, limit, running, forgotten>>
  BY <1>2, <1>10 DEF SettleTask, InFlightStage
<1>11. ASSUME NEW t \in Task, FinishTask(t) PROVE Pool!Next
  <2> DEFINE st == [stage EXCEPT ![t] = "idle"]
  <2>1. /\ stage[t] \in {"fulfilled", "rejected"}
        /\ Pump(running', queue, active - 1, limit', st)
        /\ UNCHANGED <<limit, running, forgotten>>
    BY <1>11 DEF FinishTask
  <2>2. st \in [Task -> Stage] /\ t \in InFlight /\ Flying(st) = InFlight \ {t}
    BY <1>2, <2>1 DEF Stage, InFlightStage, Flying
  <2>3. ToSet(queue) = {u \in Task : st[u] = "queued"}
    BY <1>1, <1>2, <2>1
  <2>4. active - 1 \in Int
    BY <1>2
  <2> HIDE DEF st, InFlight
  <2>5. Pool!Admit(queue, InFlight \ {t})
    <3>1. limit' \in Nat \ {0} /\ running' \in BOOLEAN /\ queue \in Seq(Task)
          /\ IsInjective(queue) /\ st \in [Task -> Stage] /\ active - 1 \in Int
      BY <1>1, <1>2, <2>2, <2>4
    <3>2. Pool!Admit(queue, Flying(st))
      BY <2>1, <2>3, <3>1, PumpAdmits
    <3>3. QED BY <3>2, <2>2, Zenon
  <2>6. Pool!Retire(t)
    BY <2>1, <2>2, <2>5 DEF Pool!Retire
  <2>7. QED BY <2>6 DEF Pool!Next
<1>12. CASE UNCHANGED vars
  BY <1>12 DEF vars
<1>13. QED BY <1>4, <1>5, <1>6, <1>7, <1>8, <1>9, <1>10, <1>11, <1>12 DEF Next

(***************************************************************************)
(* The worker loop implements the abstract pool: first in, first out,      *)
(* never more admitted than the limit and the entries a reset forgot, and  *)
(* none waiting while there is room.                                       *)
(***************************************************************************)
THEOREM Refinement == Spec => ImplementsPool
<1>1. QED BY InitImplements, StepImplements, Invariance, PTL
          DEF Spec, ImplementsPool, Pool!Spec
=============================================================================
