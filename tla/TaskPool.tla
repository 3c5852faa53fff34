------------------------------ MODULE TaskPool ------------------------------
(***************************************************************************)
(* What a bounded FIFO task pool promises, with no counters, promises or   *)
(* callbacks: entries wait in the order they were submitted, at most limit *)
(* of them are admitted while the pool is open, and no entry waits while   *)
(* an open pool has room.  The entries that were busy when the pool was    *)
(* last cleared are beside the limit: the pool has room for as many more.  *)
(* WorkerPool implements this specification.                               *)
(***************************************************************************)
EXTENDS Integers, Sequences, FiniteSets, SequencesExt

CONSTANTS Task,          \* the entries that can be submitted
          DefaultLimit   \* the limit of a new or cleared pool

VARIABLES waiting,   \* submitted entries, oldest first
          busy,      \* admitted entries that have not retired
          limit,     \* how many entries may be busy when one is admitted
          open,      \* whether the pool admits
          extra      \* how many entries were busy when it was last cleared

vars == <<waiting, busy, limit, open, extra>>

\* How many entries may be busy.
Room == limit + extra

Init ==
  waiting = <<>> /\ busy = {} /\ limit = DefaultLimit /\ open = FALSE /\ extra = 0

-----------------------------------------------------------------------------
(***************************************************************************)
(* An event leaves the entries w waiting and the entries b busy; then the  *)
(* pool admits the n oldest waiting ones, never beyond its room, and only  *)
(* stops when it is full, closed or out of work.                           *)
(***************************************************************************)
Admit(w, b) ==
  \E n \in 0..Len(w) :
    /\ waiting' = SubSeq(w, n + 1, Len(w))
    /\ busy' = b \cup ToSet(SubSeq(w, 1, n))
    /\ n > 0 => open' /\ Cardinality(busy') <= Room'
    /\ open' /\ Cardinality(busy') < Room' => waiting' = <<>>

Submit(t) ==
  /\ t \notin ToSet(waiting) \cup busy
  /\ UNCHANGED <<limit, open, extra>>
  /\ Admit(Append(waiting, t), busy)

Retire(t) ==
  /\ t \in busy
  /\ UNCHANGED <<limit, open, extra>>
  /\ Admit(waiting, busy \ {t})

SetLimit ==
  /\ limit' \in Nat \ {0}
  /\ UNCHANGED <<open, extra>>
  /\ Admit(waiting, busy)

Open ==
  /\ open' = TRUE
  /\ UNCHANGED <<limit, extra>>
  /\ Admit(waiting, busy)

Close == open' = FALSE /\ UNCHANGED <<waiting, busy, limit, extra>>

Clear ==
  /\ waiting' = <<>>
  /\ open' = FALSE
  /\ limit' = DefaultLimit
  /\ extra' = Cardinality(busy)
  /\ UNCHANGED busy

Next ==
  \/ \E t \in Task : Submit(t) \/ Retire(t)
  \/ SetLimit \/ Open \/ Close \/ Clear

Spec == Init /\ [][Next]_vars
=============================================================================
