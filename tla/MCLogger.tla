------------------------------ MODULE MCLogger ------------------------------
(* TLC instance of Logger: every value of up to three steps below a field. *)
EXTENDS Logger

CONSTANTS password, user, MaxSteps

MCMatching == [n \in Name |-> {password}]

MCSanitizer == {None, Name}

Values ==
  {value \in [steps : UNION {[1 .. n -> Step] : n \in 0 .. MaxSteps}, leaf : Leaf \ {"[REDACTED]"}] :
     WellFormed(value)}

Plain == [steps |-> <<>>, leaf |-> "text"]

MCBaseAttrs ==
  {<<>>, [k \in {user} |-> Plain],
   [k \in {password} |-> [steps |-> <<[in |-> "object", key |-> user]>>, leaf |-> "date"]]}

MCCallAttrs == {[k \in {key} |-> value] : key \in Key, value \in Values}
=============================================================================
