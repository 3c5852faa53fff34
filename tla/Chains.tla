------------------------------- MODULE Chains -------------------------------
(***************************************************************************)
(* Facts about a chain of middlewares or interceptors and the request that *)
(* goes down it, as two sequences: what it has entered and what it has     *)
(* still to enter.                                                         *)
(***************************************************************************)
EXTENDS Integers, Sequences, FiniteSets, SequencesExt, SequenceTheorems, FiniteSetTheorems,
        TLAPS

\* Entering an element moves it from one sequence to the other.
LEMMA MovesOn ==
  ASSUME NEW S, NEW done \in Seq(S), NEW todo \in Seq(S), todo # <<>>
  PROVE  /\ Append(done, Head(todo)) \in Seq(S) /\ Tail(todo) \in Seq(S)
         /\ Append(done, Head(todo)) \o Tail(todo) = done \o todo
OBVIOUS

\* An element that is only at the end of a sequence is reached behind all the others.
LEMMA LastOfAll ==
  ASSUME NEW S, NEW chain \in Seq(S), NEW last, last \notin S,
         NEW done \in Seq(S), NEW todo \in Seq(S \cup {last}), todo # <<>>,
         done \o todo = Append(chain, last), Head(todo) = last
  PROVE  done = chain /\ todo = <<last>>
<1>1. /\ Len(done) \in Nat /\ Len(chain) \in Nat /\ Len(todo) \in Nat \ {0}
      /\ Len(done) + Len(todo) = Len(chain) + 1
      /\ Append(chain, last)[Len(done) + 1] = last
  <2>1. Len(done) \in Nat /\ Len(chain) \in Nat /\ Len(todo) \in Nat \ {0}
    OBVIOUS
  <2>2. Len(done \o todo) = Len(done) + Len(todo) /\ Len(Append(chain, last)) = Len(chain) + 1
    OBVIOUS
  <2>3. \A i \in 1..(Len(done) + Len(todo)) :
          (done \o todo)[i] = IF i <= Len(done) THEN done[i] ELSE todo[i - Len(done)]
    <3>1. done \in Seq(S \cup {last})
      BY SeqMonotonic
    <3>2. QED BY <3>1, ConcatProperties, ZenonT(40)
  <2>4. todo[1] = Head(todo)
    OBVIOUS
  <2>5. QED BY <2>1, <2>2, <2>3, <2>4
<1>2. Len(done) = Len(chain)
  <2>1. SUFFICES ASSUME Len(done) < Len(chain) PROVE FALSE
    BY <1>1
  <2>2. /\ Append(chain, last)[Len(done) + 1] = chain[Len(done) + 1]
        /\ chain[Len(done) + 1] \in S
    BY <1>1, <2>1
  <2>3. QED BY <1>1, <2>2
<1>3. ASSUME NEW i \in 1..Len(done) PROVE done[i] = chain[i]
  <2>1. (done \o todo)[i] = done[i]
    <3>1. done \in Seq(S \cup {last}) /\ Len(done) \in Nat /\ Len(todo) \in Nat
      BY SeqMonotonic
    <3>2. (done \o todo)[i] = IF i <= Len(done) THEN done[i] ELSE todo[i - Len(done)]
      <4>1. i \in 1..(Len(done) + Len(todo))
        BY <3>1
      <4>2. QED BY <3>1, <4>1, ConcatProperties, Zenon
    <3>3. QED BY <3>1, <3>2
  <2>2. Append(chain, last)[i] = chain[i]
    BY <1>2
  <2>3. QED BY <2>1, <2>2
<1>4. done = chain
  <2>1. \A i \in 1..Len(done) : done[i] = chain[i]
    BY <1>3, Zenon
  <2>2. QED BY <1>2, <2>1, SeqEqual, Zenon
<1>5. Len(todo) = 1 /\ todo[1] = last
  <2>1. Len(todo) = 1
    <3>1. \A a, b, c \in Nat : a + b = c + 1 /\ a = c => b = 1
      OBVIOUS
    <3>2. QED BY <1>1, <1>2, <3>1, Zenon
  <2>2. todo[1] = Head(todo)
    BY <2>1
  <2>3. QED BY <2>1, <2>2
<1>6. todo = <<last>>
  <2>1. <<last>> \in Seq(S \cup {last}) /\ Len(<<last>>) = 1 /\ <<last>>[1] = last
    OBVIOUS
  <2>2. Len(todo) = Len(<<last>>) /\ \A i \in 1..Len(todo) : todo[i] = <<last>>[i]
    BY <1>5, <2>1
  <2>3. todo \in Seq(S \cup {last})
    OBVIOUS
  <2>4. QED BY <2>1, <2>2, <2>3, SeqEqual, Zenon
<1>7. QED BY <1>4, <1>6

\* A sequence with one more element contains that element too.
LEMMA ContainsAppend ==
  ASSUME NEW S, NEW s \in Seq(S), NEW e \in S, NEW x
  PROVE  Contains(Append(s, e), x) <=> Contains(s, x) \/ x = e
<1>1. /\ Len(Append(s, e)) = Len(s) + 1 /\ Len(s) \in Nat
      /\ \A i \in 1..Len(s) : Append(s, e)[i] = s[i]
      /\ Append(s, e)[Len(s) + 1] = e
  BY AppendProperties, LenProperties
<1>2. QED BY <1>1 DEF Contains

\* A sequence contains only elements of its set.
LEMMA ContainsTyped ==
  ASSUME NEW S, NEW s \in Seq(S), NEW x, Contains(s, x)
  PROVE  x \in S
BY ElementOfSeq DEF Contains

\* Appending to the second of two sequences is appending to both.
AppendsToBoth(s, t, k) == Append(s \o t, k) = s \o Append(t, k)

\* Append moves through a concatenation.
LEMMA AppendConcat ==
  ASSUME NEW S, NEW s \in Seq(S), NEW t \in Seq(S), NEW k \in S
  PROVE  AppendsToBoth(s, t, k)
<1>1. /\ Append(s \o t, k) = (s \o t) \o <<k>> /\ Append(t, k) = t \o <<k>>
      /\ <<k>> \in Seq(S) /\ s \o t \in Seq(S)
  BY AppendIsConcat, ConcatProperties
<1>2. QED BY <1>1, ConcatAssociative DEF AppendsToBoth

\* Something is left behind an element that is not the last of a chain.
LEMMA Remains ==
  ASSUME NEW S, NEW chain \in Seq(S), NEW last, last \notin S,
         NEW done \in Seq(S), NEW todo \in Seq(S \cup {last}), todo # <<>>,
         done \o todo = Append(chain, last), Head(todo) \in S
  PROVE  Tail(todo) # <<>>
<1>1. done \in Seq(S \cup {last}) /\ chain \in Seq(S \cup {last}) /\ last \in S \cup {last}
  BY SeqMonotonic
<1>2. /\ Append(done, Head(todo)) \in Seq(S \cup {last}) /\ Tail(todo) \in Seq(S \cup {last})
      /\ Append(done, Head(todo)) \o Tail(todo) = done \o todo
  BY <1>1, MovesOn, Zenon
<1>3. Append(done, Head(todo)) \in Seq(S)
  BY AppendProperties
<1>4. SUFFICES ASSUME Tail(todo) = <<>> PROVE FALSE
  OBVIOUS
<1>5. Append(done, Head(todo)) = Append(chain, last)
  <2>1. Append(done, Head(todo)) \o <<>> = Append(done, Head(todo))
    BY <1>2, ConcatEmptySeq
  <2>2. QED BY <1>2, <1>4, <2>1
<1>6. Contains(Append(chain, last), last)
  BY <1>1, ContainsAppend, Zenon
<1>7. last \in S
  BY <1>3, <1>5, <1>6, ContainsTyped
<1>8. QED BY <1>7
-----------------------------------------------------------------------------
(* How often something occurs in a sequence.                               *)

Times(s, x) == Cardinality({i \in DOMAIN s : s[i] = x})

\* Nothing occurs in the empty sequence.
LEMMA TimesEmpty == ASSUME NEW x PROVE Times(<<>>, x) = 0
<1>1. {i \in DOMAIN <<>> : <<>>[i] = x} = {}
  OBVIOUS
<1>2. QED BY <1>1, FS_EmptySet DEF Times

\* The positions of a sequence at which something occurs are finite in number.
LEMMA TimesFinite ==
  ASSUME NEW S, NEW s \in Seq(S), NEW x
  PROVE  IsFiniteSet({i \in DOMAIN s : s[i] = x}) /\ Times(s, x) \in Nat
<1>1. Len(s) \in Nat /\ DOMAIN s = 1..Len(s)
  OBVIOUS
<1>2. IsFiniteSet(1..Len(s))
  BY <1>1, FS_Interval
<1>3. IsFiniteSet({i \in DOMAIN s : s[i] = x})
  BY <1>1, <1>2, FS_Subset
<1>4. QED BY <1>3, FS_CardinalityType DEF Times

\* A sequence with one more element has it once more, and all others as before.
LEMMA TimesAppend ==
  ASSUME NEW S, NEW s \in Seq(S), NEW e \in S, NEW x
  PROVE  /\ e = x => Times(Append(s, e), x) = Times(s, x) + 1
         /\ e # x => Times(Append(s, e), x) = Times(s, x)
<1> DEFINE at == {i \in DOMAIN s : s[i] = x}
           then == {i \in DOMAIN Append(s, e) : Append(s, e)[i] = x}
           last == Len(s) + 1
<1>1. /\ Len(s) \in Nat /\ DOMAIN s = 1..Len(s) /\ DOMAIN Append(s, e) = 1..last
      /\ \A i \in 1..Len(s) : Append(s, e)[i] = s[i]
      /\ Append(s, e)[last] = e
  <2>1. Len(s) \in Nat /\ Len(Append(s, e)) = last /\ Append(s, e) \in Seq(S)
    BY AppendProperties, LenProperties
  <2>2. DOMAIN s = 1..Len(s) /\ DOMAIN Append(s, e) = 1..last
    BY <2>1, LenProperties
  <2>3. QED BY <2>1, <2>2, AppendProperties
<1>2. IsFiniteSet(at) /\ last \notin at
  <2>1. IsFiniteSet(at)
    BY TimesFinite, Zenon
  <2>2. last \notin DOMAIN s
    BY <1>1
  <2>3. QED BY <2>1, <2>2
<1>3. CASE e = x
  <2>1. then = at \cup {last}
    BY <1>1, <1>3
  <2>2. Cardinality(at \cup {last}) = Cardinality(at) + 1
    BY <1>2, FS_AddElement
  <2>3. QED BY <1>3, <2>1, <2>2 DEF Times
<1>4. CASE e # x
  <2>1. then = at
    BY <1>1, <1>4
  <2>2. QED BY <1>4, <2>1 DEF Times
<1>5. QED BY <1>3, <1>4

\* A sequence that is not empty is all but its last element, and that one.
LEMMA FrontAndLast ==
  ASSUME NEW S, NEW s \in Seq(S), s # <<>>
  PROVE  /\ Front(s) \in Seq(S) /\ Last(s) \in S
         /\ s = Append(Front(s), Last(s))
<1>1. /\ Len(s) \in Nat \ {0} /\ DOMAIN s = 1..Len(s) /\ \A i \in 1..Len(s) : s[i] \in S
      /\ Front(s) = SubSeq(s, 1, Len(s) - 1)
  BY EmptySeq, LenProperties, ElementOfSeq DEF Front
<1>2. /\ Front(s) \in Seq(S) /\ Len(Front(s)) = Len(s) - 1
      /\ \A i \in 1..(Len(s) - 1) : Front(s)[i] = s[i]
  BY <1>1, SubSeqProperties
<1>3. Last(s) = s[Len(s)] /\ Last(s) \in S
  BY <1>1 DEF Last
<1>4. /\ Append(Front(s), Last(s)) \in Seq(S)
      /\ Len(Append(Front(s), Last(s))) = Len(s)
      /\ \A i \in 1..Len(s) : Append(Front(s), Last(s))[i] = s[i]
  <2> DEFINE f == Front(s)
             e == Last(s)
  <2> HIDE DEF f, e
  <2>1. f \in Seq(S) /\ e \in S /\ Len(f) = Len(s) - 1 /\ e = s[Len(s)]
        /\ \A i \in 1..(Len(s) - 1) : f[i] = s[i]
    BY <1>2, <1>3 DEF f, e
  <2>2. /\ Append(f, e) \in Seq(S) /\ Len(Append(f, e)) = Len(f) + 1
        /\ \A i \in 1..Len(f) : Append(f, e)[i] = f[i]
        /\ Append(f, e)[Len(f) + 1] = e
    BY <2>1, AppendProperties
  <2>3. \A i \in 1..Len(s) : Append(f, e)[i] = s[i]
    <3>1. ASSUME NEW i \in 1..Len(s) PROVE Append(f, e)[i] = s[i]
      <4>1. Len(s) \in Nat /\ Len(f) = Len(s) - 1
        BY <1>1, <2>1
      <4>2. CASE i = Len(s)
        <5>1. Len(f) + 1 = i
          BY <4>1, <4>2
        <5>2. QED BY <2>1, <2>2, <4>2, <5>1, Zenon
      <4>3. CASE i # Len(s)
        <5>1. i \in 1..Len(f)
          BY <4>1, <4>3
        <5>2. i \in 1..(Len(s) - 1)
          BY <4>1, <4>3
        <5>3. QED BY <2>1, <2>2, <5>1, <5>2, Zenon
      <4>4. QED BY <4>2, <4>3
    <3>2. QED BY <3>1
  <2>4. Len(Append(f, e)) = Len(s)
    BY <1>1, <2>1, <2>2
  <2>5. QED BY <2>2, <2>3, <2>4, Zenon DEF f, e
<1>5. s = Append(Front(s), Last(s))
  <2>1. Len(s) = Len(Append(Front(s), Last(s)))
        /\ \A i \in 1..Len(s) : s[i] = Append(Front(s), Last(s))[i]
    BY <1>4
  <2>2. QED BY <1>4, <2>1, SeqEqual, Zenon
<1>6. QED BY <1>2, <1>3, <1>5
=============================================================================
