--------------------------- MODULE MemoryManager ---------------------------
(***************************************************************************)
(* The pool that nodes and histories come from                             *)
(* (include/gestures/include/memory_manager.h): a stack of the slots that  *)
(* are free, of which the first head are, and a mark on each used slot.    *)
(* Slots are numbered as they lie in the buffer; Other stands for pointers *)
(* outside of it and between two slots.                                    *)
(***************************************************************************)
EXTENDS Integers

CONSTANTS
  Size,                 \* max_size_
  Other,                \* a pointer that is no slot
  Null

\* Given by the module that has an instance of this one.
PoolSizeAssumption == Size \in Nat /\ Other \notin 0 .. Size - 1

VARIABLES
  free_slots, used_mark, head,
  result                \* history: the last call and what it returned

vars == <<free_slots, used_mark, head, result>>

Slots == 0 .. Size - 1

-----------------------------------------------------------------------------
Allocate ==
  IF head = 0
  THEN result' = <<"Allocate", Null>> /\ UNCHANGED <<free_slots, used_mark, head>>
  ELSE /\ head' = head - 1
       /\ result' = <<"Allocate", free_slots[head - 1]>>
       /\ used_mark' = [used_mark EXCEPT ![free_slots[head - 1]] = TRUE]
       /\ UNCHANGED free_slots

\* Mutant: with room on the stack a slot that is free is freed again.
AnySlot(p) == p \in Slots /\ head < Size

MayBeFreed(p) == p \in Slots /\ used_mark[p]

Free ==
  \E p \in Slots \cup {Other} :
    IF MayBeFreed(p)
    THEN /\ free_slots' = [free_slots EXCEPT ![head] = p]
         /\ head' = head + 1
         /\ used_mark' = [used_mark EXCEPT ![p] = FALSE]
         /\ result' = <<"Free", TRUE>>
    ELSE result' = <<"Free", FALSE>> /\ UNCHANGED <<free_slots, used_mark, head>>

Init ==
  /\ free_slots = [i \in Slots |-> i]
  /\ used_mark = [i \in Slots |-> FALSE]
  /\ head = Size
  /\ result = <<>>

Next == Allocate \/ Free

Spec == Init /\ [][Next]_vars

-----------------------------------------------------------------------------
TypeOK ==
  /\ free_slots \in [Slots -> Slots]
  /\ used_mark \in [Slots -> BOOLEAN]
  /\ head \in 0 .. Size

\* The stack holds every free slot once and none that is used, in whatever order slots
\* are taken and given back: it never runs over, and the next one taken is nobody's.
StackIsFree ==
  /\ \A i, j \in 0 .. head - 1 : free_slots[i] = free_slots[j] => i = j
  /\ \A i \in 0 .. head - 1 : ~used_mark[free_slots[i]]
  /\ \A s \in Slots : used_mark[s] \/ \E i \in 0 .. head - 1 : free_slots[i] = s

P == INSTANCE Pool WITH used <- {s \in Slots : used_mark[s]}

\* Seen from its users it is a set that slots are taken from and put back to.
ImplementsPool == P!Spec

=============================================================================
