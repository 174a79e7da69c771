--------------------------- MODULE ProfileSensor ---------------------------
(***************************************************************************)
(* The filter for a pad that does not number its fingers                   *)
(* (src/src/cr48_profile_sensor_filter_interpreter.cc): it gives them ids, *)
(* out of a counter of IdSpace values that goes around, and flags what moves   *)
(* while their number changes.  A finger's id is the same bits with a      *)
(* sign.                                                                   *)
(*                                                                         *)
(* Positions are choices: which finger is nearest, which axis jumps.  What *)
(* corrects positions only is left out.                                    *)
(***************************************************************************)
EXTENDS Integers, Sequences, Functions

CONSTANTS
  IdSpace,              \* the values of last_id_, an unsigned short
  Axes                  \* x and y

\* Given by the module that has an instance of this one.
IdsAssumption == IdSpace \in Nat /\ IdSpace > 2 /\ IdSpace % 2 = 0 /\ Axes # {}

VARIABLES
  prev, prev2,          \* the ids of prev_hwstate_ and prev2_hwstate_
  last_id,
  jumps,                \* the axes whose one_finger_jump_distance_ is not 0
  warp                  \* history: the fingers of prev_hwstate_ are flagged

vars == <<prev, prev2, last_id, jumps, warp>>

-----------------------------------------------------------------------------
TrackingId(n) == IF n < IdSpace \div 2 THEN n ELSE n - IdSpace

After(n) == (n + 1) % IdSpace

\* Mutant: the next id may be one that is on the pad.
NextOfAll(id) == After(last_id)

\* while (++last_id_ == id), which compares a number without a sign to one with a sign.
NextBut(id) == IF After(last_id) = id THEN After(After(last_id)) ELSE After(last_id)

\* Without fingers before, all are new.
AssignNew(cnt) ==
  [ids |-> [i \in 1 .. cnt |-> TrackingId((last_id + i - 1) % IdSpace)],
   last |-> (last_id + cnt) % IdSpace]

\* A second finger: the old one is the nearest to where it was.
AssignSecond(old) ==
  [ids |-> [i \in 1 .. 2 |-> IF i = old THEN prev[1] ELSE TrackingId(last_id)],
   last |-> NextBut(prev[1])]

Keep(ids) == [ids |-> ids, last |-> last_id]

AssignTrackingId(cnt) ==
  IF cnt = 0 THEN {Keep(<<>>)}
  ELSE IF Len(prev) = 0 THEN {AssignNew(cnt)}
  ELSE IF Len(prev) < cnt THEN {AssignSecond(old) : old \in 1 .. 2}
  ELSE IF Len(prev) > cnt THEN {Keep(<<prev[i]>>) : i \in 1 .. 2}
  ELSE {Keep(prev)}

\* Mutant: the state before decides alone.
WarpsOnce(cnt) == cnt # 0 /\ Len(prev) = 3 - cnt

\* SuppressTwoToOneFingerJump(), SuppressOneToTwoFingerJump()
Warps(cnt) == cnt # 0 /\ (Len(prev) = 3 - cnt \/ Len(prev2) = 3 - cnt)

\* One finger stays: on an axis that jumped it may go on to, and is a new finger then; on
\* another it may jump.
SuppressOneFingerJump(a) ==
  \E on, new \in SUBSET Axes :
    /\ on \subseteq jumps /\ new \cap jumps = {}
    /\ jumps' = new
    /\ last_id' = IF on = Axes THEN After(After(a.last))
                  ELSE IF on # {} THEN After(a.last) ELSE a.last
    /\ prev' = IF on = {} THEN a.ids
               ELSE <<TrackingId(IF on = Axes THEN After(a.last) ELSE a.last)>>

SyncInterpret ==
  \E cnt \in 0 .. 2 :
   \E a \in AssignTrackingId(cnt) :
    /\ warp' = Warps(cnt)
    /\ prev2' = prev
    /\ IF cnt = 1 /\ Len(prev) = 1 THEN SuppressOneFingerJump(a)
       ELSE /\ prev' = a.ids
            /\ last_id' = a.last
            /\ jumps' = IF cnt = 1 THEN {} ELSE jumps

\* The filter is not enabled when a state comes.
ClearHistory ==
  /\ prev' = <<>> /\ prev2' = <<>> /\ warp' = FALSE
  /\ UNCHANGED <<last_id, jumps>>

Init == prev = <<>> /\ prev2 = <<>> /\ last_id = 0 /\ jumps = {} /\ warp = FALSE

Next == SyncInterpret \/ ClearHistory

Spec == Init /\ [][Next]_vars

-----------------------------------------------------------------------------
TypeOK ==
  /\ \A ids \in {prev, prev2} :
       ids \in Seq(-(IdSpace \div 2) .. IdSpace \div 2 - 1) /\ Len(ids) <= 2
  /\ last_id \in 0 .. IdSpace - 1
  /\ jumps \subseteq Axes /\ warp \in BOOLEAN

\* Two fingers have different ids, also when the counter has gone around while one of them
\* stayed; ids below 0 are not skipped.
IdsDiffer == Len(prev) = 2 => prev[1] # prev[2] \/ prev[1] < 0

\* The same of all ids, which the code does not keep.
AllIdsDiffer == Len(prev) = 2 => prev[1] # prev[2]

\* A finger that goes on by its id with no flag has had the company it has, or none at
\* all, for three states.
FlaggedWhileCountChanges ==
  [][\A i \in 1 .. Len(prev) :
       /\ ~warp' /\ prev # <<>> /\ prev2 # <<>> /\ prev' # <<>>
       /\ prev[i] \in Range(prev')
       => Len(prev') = Len(prev) /\ Len(prev) = Len(prev2)]_vars
=============================================================================
