---------------------------- MODULE ActivityLog ----------------------------
(***************************************************************************)
(* The ring of the last events, kept for error reports                     *)
(* (src/src/activity_log.cc).  The fingers of a hardware state are stored  *)
(* beside the ring, in the slot of its entry.  Of the fingers of a state   *)
(* their contents are told apart, of the other events nothing.             *)
(***************************************************************************)
EXTENDS Integers, FiniteSets

CONSTANTS
  BufferSize,           \* kBufferSize
  Fingers               \* the fingers of a hardware state, as one value

VARIABLES
  buffer,
  head_idx, size,
  finger_states,        \* the fingers stored in each slot
  allocated             \* finger_states_ is not null, and max_fingers_ not 0

vars == <<buffer, head_idx, size, finger_states, allocated>>

Slots == 0 .. BufferSize - 1
Other == [type |-> "other"]
HardwareState(fingers) == [type |-> "hwstate", fingers |-> fingers]

\* Where the fingers of an entry are: in a slot, nowhere, or in memory given back.
NoFingers == -1
Freed == -2

\* Given by the module that has an instance of this one.
SizeAssumption == BufferSize \in Nat \ {0} /\ NoFingers \notin Fingers

-----------------------------------------------------------------------------
\* Mutant: the slot of the last entry before this one.
TailIdxBefore(h, s) == (h + s + BufferSize - 2) % BufferSize

TailIdx(h, s) == (h + s - 1) % BufferSize

\* Mutant: a full ring keeps its head.
HeadStays(h) == h

HeadPast(h) == (h + 1) % BufferSize

\* PushBack(): where the ring is after it, and the slot it returns for the entry, which is
\* that of the oldest one when the ring is full.
HeadAfter == IF size = BufferSize THEN HeadPast(head_idx) ELSE head_idx
SizeAfter == IF size = BufferSize THEN size ELSE size + 1
Pushed == IF size = BufferSize THEN head_idx ELSE TailIdx(head_idx, size + 1)

PushBack(entry) ==
  /\ head_idx' = HeadAfter /\ size' = SizeAfter
  /\ buffer' = [buffer EXCEPT ![Pushed] = entry]

\* More fingers than there is room for are left out of the entry.
LogHardwareState ==
  \E fingers \in Fingers \cup {NoFingers}, fit \in BOOLEAN :
    /\ ~allocated /\ fingers # NoFingers => ~fit
    /\ IF fit /\ fingers # NoFingers
       THEN /\ PushBack(HardwareState(TailIdx(HeadAfter, SizeAfter)))
            /\ finger_states' = [finger_states EXCEPT ![TailIdx(HeadAfter, SizeAfter)] = fingers]
       ELSE /\ PushBack(HardwareState(NoFingers))
            /\ UNCHANGED finger_states
    /\ UNCHANGED allocated

\* Timer callbacks and requests for them, gestures and changes of properties.
LogOther == PushBack(Other) /\ UNCHANGED <<finger_states, allocated>>

Clear ==
  /\ head_idx' = 0 /\ size' = 0
  /\ UNCHANGED <<buffer, finger_states, allocated>>

\* The slots are allocated anew; entries still point to the old ones.
SetHardwareProperties ==
  /\ allocated' = TRUE
  /\ \E junk \in Fingers : finger_states' = [i \in Slots |-> junk]
  /\ buffer' = [i \in Slots |->
       IF buffer[i].type = "hwstate" /\ buffer[i].fingers \in Slots
       THEN HardwareState(Freed) ELSE buffer[i]]
  /\ UNCHANGED <<head_idx, size>>

Init ==
  /\ buffer = [i \in Slots |-> Other]
  /\ head_idx = 0 /\ size = 0
  /\ allocated = FALSE
  /\ finger_states \in [Slots -> {NoFingers}]

Next == LogHardwareState \/ LogOther \/ Clear \/ SetHardwareProperties

Spec == Init /\ [][Next]_vars

-----------------------------------------------------------------------------
\* Entry idx as it is encoded, from the oldest one on.
GetEntry(idx) ==
  LET entry == buffer[(head_idx + idx) % BufferSize]
  IN IF entry.type = "hwstate" /\ entry.fingers \in Slots
     THEN HardwareState(finger_states[entry.fingers]) ELSE entry

TypeOK ==
  /\ head_idx \in Slots /\ size \in 0 .. BufferSize
  /\ allocated \in BOOLEAN
  /\ finger_states \in [Slots -> Fingers \cup {NoFingers}]
  /\ buffer \in [Slots -> {Other} \cup
                          {HardwareState(f) : f \in Slots \cup {NoFingers, Freed}}]

\* No two entries share a slot for their fingers, and the slot is the entry's own.
FingersInOwnSlot ==
  \A i \in Slots : buffer[i].type = "hwstate" => buffer[i].fingers \in {i, NoFingers, Freed}

Forgotten(e) ==
  IF e.type = "hwstate" /\ e.fingers # NoFingers THEN HardwareState(Freed) ELSE e

BL == INSTANCE BoundedLog WITH
        Capacity <- BufferSize,
        Events <- {Other} \cup {HardwareState(f) : f \in Fingers \cup {NoFingers}},
        log <- [i \in 1 .. size |-> GetEntry(i - 1)]

\* The ring holds the last events with the fingers they had, however it has wrapped
\* around and been cleared.
ImplementsBoundedLog == BL!Spec

\* Every hardware state of the log still has its fingers.
NoFingersFreed == \A i \in 0 .. size - 1 : GetEntry(i) # HardwareState(Freed)
=============================================================================
