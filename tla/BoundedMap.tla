----------------------------- MODULE BoundedMap -----------------------------
(***************************************************************************)
(* What map promises (include/gestures/include/map.h): a finite function   *)
(* with at most MaxSize keys.  A key that there is no room for is not      *)
(* inserted; writing to it through [] writes to some other one.            *)
(***************************************************************************)
EXTENDS Integers, FiniteSets, Functions

CONSTANTS Keys, Data, MaxSize

VARIABLES
  m,
  call                  \* the last call

vars == <<m, call>>

With(key, data) == [k \in DOMAIN m \cup {key} |-> IF k = key THEN data ELSE m[k]]

Room(key) == key \in DOMAIN m \/ Cardinality(DOMAIN m) < MaxSize

Insert ==
  \E key \in Keys, data \in Data :
    /\ call' = <<"insert", key, data>>
    /\ m' = IF Room(key) THEN With(key, data) ELSE m

Assign ==
  \E key \in Keys, data \in Data :
    /\ call' = <<"assign", key, data>>
    /\ IF Room(key) THEN m' = With(key, data)
       ELSE \E other \in DOMAIN m : m' = With(other, data)

Erase ==
  \E keys \in SUBSET Keys :
    /\ call' = <<"erase", keys>>
    /\ m' = Restrict(m, DOMAIN m \ keys)

Init == m = <<>> /\ call = <<>>

Next == Insert \/ Assign \/ Erase

Spec == Init /\ [][Next]_vars
=============================================================================
