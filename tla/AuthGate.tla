------------------------------ MODULE AuthGate ------------------------------
(***************************************************************************)
(* What authentication promises, without keys, caches or awaits: each      *)
(* request gets one verdict, and the issued tokens and what it carries     *)
(* decide which.                                                           *)
(***************************************************************************)
EXTENDS Tokens

CONSTANT Request

VARIABLES issued,   \* tokens that some service has signed
          sent,     \* what each request carries
          verdict   \* what became of it

vars == <<issued, sent, verdict>>

Init ==
  /\ issued = {}
  /\ sent = [r \in Request |-> Absent]
  /\ verdict = [r \in Request |-> Pending]

Issue ==
  /\ issued \subseteq issued'
  /\ UNCHANGED <<sent, verdict>>

\* A request arrives; it may be refused in the same step.
Arrive(r) ==
  /\ sent[r] = Absent
  /\ \E what \in Requests(issued) :
       /\ sent' = [sent EXCEPT ![r] = what]
       /\ verdict' = verdict \/ verdict' = [verdict EXCEPT ![r] = Verdict(issued, what)]
  /\ UNCHANGED issued

Decide(r) ==
  /\ sent[r] # Absent /\ verdict[r] = Pending
  /\ verdict' = [verdict EXCEPT ![r] = Verdict(issued, sent[r])]
  /\ UNCHANGED <<issued, sent>>

Next == Issue \/ \E r \in Request : Arrive(r) \/ Decide(r)

Spec == Init /\ [][Next]_vars
=============================================================================
