-------------------------------- MODULE Pool --------------------------------
(***************************************************************************)
(* What a memory manager promises (include/gestures/include/               *)
(* memory_manager.h): nothing is given to two users, and what is given     *)
(* back is there for others as long as it is not given back twice.         *)
(***************************************************************************)
CONSTANTS Slots, Other, Null

VARIABLES
  used,
  result                \* the last call and what it returned

vars == <<used, result>>

Allocate ==
  IF used = Slots THEN result' = <<"Allocate", Null>> /\ UNCHANGED used
  ELSE \E s \in Slots \ used : result' = <<"Allocate", s>> /\ used' = used \cup {s}

\* A pointer of another origin and a double free are refused.
Free ==
  \E p \in Slots \cup {Other} :
    /\ used' = used \ {p}
    /\ result' = <<"Free", p \in used>>

Init == used = {} /\ result = <<>>

Next == Allocate \/ Free

Spec == Init /\ [][Next]_vars
=============================================================================
