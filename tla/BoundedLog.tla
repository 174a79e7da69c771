----------------------------- MODULE BoundedLog -----------------------------
(***************************************************************************)
(* What the activity log promises: the last events logged, oldest first,   *)
(* each as it was when it was logged.                                      *)
(***************************************************************************)
EXTENDS Integers, Sequences, SequencesExt

CONSTANTS
  Capacity,             \* the events kept
  Events,
  Forgotten(_)          \* an event whose fingers are lost

VARIABLE log

-----------------------------------------------------------------------------
Newest(s) == IF Len(s) > Capacity THEN Tail(s) ELSE s

Record == \E e \in Events : log' = Newest(Append(log, e))

Clear == log' = <<>>

Reinitialize == log' = [i \in DOMAIN log |-> Forgotten(log[i])]

Init == log = <<>>

Next == Record \/ Clear \/ Reinitialize

Spec == Init /\ [][Next]_log
=============================================================================
