---------------------------- MODULE FingerMerge ----------------------------
(***************************************************************************)
(* The filter that flags contacts which may be two fingers taken for one,  *)
(* so that they do not move the pointer                                    *)
(* (src/src/finger_merge_filter_interpreter.cc).  Distances, pressures and *)
(* widths are choices, ages are counted.  The order of the fingers in a    *)
(* state matters and is any.  The displacements of the two states before   *)
(* only decide one of the choices.                                         *)
(***************************************************************************)
EXTENDS Integers, FiniteSets

CONSTANTS
  Ids,                  \* tracking ids
  MaxAge,               \* max_age_
  MaxStep               \* bound: the time between two states

\* Given by the module that has an instance of this one.
TimesAssumption == MaxAge \in Nat /\ MaxStep \in Nat

VARIABLES
  start_info,           \* the age of each finger, MaxAge + 1 for more than MaxAge
  merge_tracking_ids,
  never_merge_ids,
  merge_flags           \* history: the fingers flagged in this state

vars == <<start_info, merge_tracking_ids, never_merge_ids, merge_flags>>

-----------------------------------------------------------------------------
Aged(age, dt) == IF age + dt > MaxAge THEN MaxAge + 1 ELSE age + dt

Orders(new) == {o \in [new -> 1 .. Cardinality(new)] : \A f, g \in new : o[f] = o[g] => f = g}

\* Pairs of close fingers, each with the one first in the array first.  The first one is
\* looked at for the second, so it must not be one that never merges; the second may.
ClosePairs(order) ==
  {p \in (DOMAIN order \ never_merge_ids) \X DOMAIN order : order[p[1]] < order[p[2]]}

FlagClose(close) == {p[1] : p \in close} \cup {p[2] : p \in close}

\* Mutant: only the fingers found close now are flagged.
CloseOnly(close) == FlagClose(close)

Flagged(close) == FlagClose(close) \cup (merge_tracking_ids \ never_merge_ids)

\* Mutant: a finger's age is not looked at.
Moved(new) == SUBSET (new \ never_merge_ids)

\* Fingers that moved too far, or in a jump, or are too old.
Exceeded(new) ==
  {s \in SUBSET (new \ never_merge_ids) :
     \A f \in new \ never_merge_ids : start_info'[f] > MaxAge => f \in s}

Flags(flagged, over, merged) == (flagged \ over) \cup merged

SyncInterpret ==
  \E new \in SUBSET Ids, dt \in 0 .. MaxStep :
    /\ start_info' =
         [f \in new |-> IF f \in DOMAIN start_info THEN Aged(start_info[f], dt) ELSE 0]
    /\ \E order \in Orders(new), over \in Exceeded(new) :
       \E close \in SUBSET ClosePairs(order) :
       \E merged \in SUBSET (new \ (never_merge_ids \cup over \cup Flagged(close))) :
         /\ merge_flags' = Flags(Flagged(close) \cap new, over, merged)
         /\ merge_tracking_ids' =
              (((merge_tracking_ids \cap new) \cup FlagClose(close)) \ over) \cup merged
         /\ never_merge_ids' = (never_merge_ids \cap new) \cup over

Init ==
  /\ start_info = <<>>
  /\ merge_tracking_ids = {} /\ never_merge_ids = {} /\ merge_flags = {}

Next == SyncInterpret

Spec == Init /\ [][Next]_vars

-----------------------------------------------------------------------------
TypeOK ==
  /\ DOMAIN start_info \subseteq Ids
  /\ start_info \in [DOMAIN start_info -> 0 .. MaxAge + 1]
  /\ merge_tracking_ids \cup never_merge_ids \cup merge_flags \subseteq DOMAIN start_info

\* What is recorded as merged and what is flagged agree, but for fingers that never merge.
FlagsAreRecorded ==
  merge_flags \ never_merge_ids = merge_tracking_ids \ never_merge_ids

\* Merging holds no finger for ever: on a pad whose fingers have all been there for
\* longer than max_age_ none is flagged.
MergingEnds ==
  [][(\A f \in DOMAIN start_info' :
        f \in DOMAIN start_info /\ start_info[f] > MaxAge) => merge_flags' = {}]_vars

\* "Fingers that should never merge, as we've determined they aren't a merge".
NeverMergedAgain == [][merge_flags' \cap never_merge_ids = {}]_vars
=============================================================================
