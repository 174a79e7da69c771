-------------------------- MODULE PalmClassifying --------------------------
(***************************************************************************)
(* The filter that finds palms among the contacts                          *)
(* (src/src/palm_classifying_filter_interpreter.cc).  Where a finger is    *)
(* and how far it has moved is a choice; of its pressure and width what    *)
(* the thresholds tell apart is kept, 0 for a finger's, 1 for a palm's     *)
(* that may be a fat finger's, 2 for more.  A fat finger has moved further *)
(* than a stationary one may.                                              *)
(*                                                                         *)
(* A finger's part of the state depends on the other fingers by how many   *)
(* there are and whether one is near, so some of them are only counted.    *)
(***************************************************************************)
EXTENDS Integers, FiniteSets

CONSTANTS
  Ids,                  \* tracking ids of the fingers that are followed
  MaxOthers,            \* bound: the other fingers
  EvalTimeout,          \* palm_eval_timeout_
  StationaryTime,       \* palm_stationary_time_
  MaxStep               \* bound: the time between two states

ASSUME TimesAssumption == {EvalTimeout, StationaryTime, MaxStep} \subseteq Nat
ASSUME IdsAssumption == IsFiniteSet(Ids) /\ MaxOthers \in Nat

VARIABLES
  present,              \* the ids in prev_fingerstates_ and the origin maps
  others,               \* how many more there are
  age,                  \* since origin_timestamps_, at prev_time_
  max_pressure,         \* and max_width_
  palm, pointing,       \* the reasons for pointing only choose a warp flag
  non_stationary_palm, was_near_other_fingers, fingers_not_in_edge,
  started,              \* prev_time_ has been written
  unjudged              \* history: fingers judged by a prev_time_ not yet written

sets == <<palm, pointing, non_stationary_palm, was_near_other_fingers, fingers_not_in_edge>>
vars == <<present, others, age, max_pressure, sets, started, unjudged>>

Pressures == 0 .. 2

-----------------------------------------------------------------------------
AgeCap == IF EvalTimeout > StationaryTime THEN EvalTimeout ELSE StationaryTime + 1

\* Ages beyond the last one told apart are one.
Older(a, dt) == IF a + dt > AgeCap THEN AgeCap ELSE a + dt

\* Mutant: the ids of fingers that have left stay.
IdsKept(new, dt) ==
  [f \in present \cup new |-> IF f \in present THEN Older(age[f], dt) ELSE 0]

FillOriginInfo(new, dt) == [f \in new |-> IF f \in present THEN Older(age[f], dt) ELSE 0]

FillMaxPressureWidthInfo(new, pressure) ==
  [f \in new |-> IF f \in present /\ max_pressure[f] > pressure[f] THEN max_pressure[f]
                 ELSE pressure[f]]

\* What a state says of where its fingers are: at the edge, away from where they began
\* (moved, or far), going one way, and near another finger.
Places(new) ==
  {p \in [edge : SUBSET new, moved : SUBSET new, far : SUBSET new,
          one_way : SUBSET (new \cap present), near : SUBSET new] :
     /\ p.far \subseteq p.moved /\ p.moved \subseteq present
     /\ Cardinality(new) + others' < 2 => p.near = {}}

\* The fingers that are palms whatever else they do.
Locked(palms, p) == {f \in palms : max_pressure'[f] = 2 \/ f \notin p.far}

\* A finger has to have a reason to point as long as it is young; later it keeps to it.
Pointing(free, before, p) ==
  {f \in free \cap before : age'[f] >= EvalTimeout} \cup
  {f \in free : f \in p.near \/ f \notin p.edge \/ f \in p.one_way}

\* Mutant: only a finger that has moved is no stationary palm.
MovedOnly(open, p) == open \cap p.moved

NonStationary(open, p) == {f \in open : f \in p.moved \/ f \notin p.edge}

\* Mutant: a finger at rest becomes a palm and goes on pointing.
StillPoints(points, stationary) == points

NoLongerPointing(points, stationary) == points \ stationary

\* reads: what prev_time_ holds leaves the fingers open to be stationary palms.
UpdatePalmState(new, pressure, p, reads) ==
  LET pressed == {f \in new : pressure[f] > 0}
      palms == (palm \cap new) \cup pressed
      free == new \ Locked(palms, p)
      open == {f \in free : /\ f \notin non_stationary_palm
                            /\ IF f \in present THEN age[f] <= StationaryTime ELSE reads}
      moving == NonStationary(open, p)
      stationary == {f \in open \ (moving \cup p.near) : age'[f] > StationaryTime}
  IN /\ palm' = Locked(palms, p) \cup stationary
     /\ pointing' =
          NoLongerPointing(Pointing(free, (pointing \cap new) \ pressed, p), stationary)
     /\ non_stationary_palm' = (non_stationary_palm \cap new) \cup moving
     /\ was_near_other_fingers' = (was_near_other_fingers \cap new) \cup (p.near \cap free)
     /\ fingers_not_in_edge' = (fingers_not_in_edge \cap new) \cup (new \ p.edge)

\* Some finger has left: the missing ids go, and nothing else is done.
SkipUpdate(new) ==
  /\ palm' = palm \cap new
  /\ pointing' = pointing \cap new
  /\ non_stationary_palm' = non_stationary_palm \cap new
  /\ was_near_other_fingers' = was_near_other_fingers \cap new
  /\ fingers_not_in_edge' = fingers_not_in_edge \cap new

SyncInterpret ==
  \E new \in SUBSET Ids, n \in 0 .. MaxOthers, dt \in 0 .. MaxStep :
   \E pressure \in [new -> Pressures], reads \in IF started THEN {TRUE} ELSE BOOLEAN :
    /\ present' = new /\ others' = n
    /\ age' = FillOriginInfo(new, dt)
    /\ max_pressure' = FillMaxPressureWidthInfo(new, pressure)
    /\ IF Cardinality(present) + others > Cardinality(new) + n THEN SkipUpdate(new)
       ELSE \E p \in Places(new) : UpdatePalmState(new, pressure, p, reads)
    /\ started' = TRUE
    /\ unjudged' = IF reads THEN unjudged \cap new ELSE new

Init ==
  /\ present = {} /\ others = 0 /\ age = [f \in {} |-> 0] /\ max_pressure = [f \in {} |-> 0]
  /\ palm = {} /\ pointing = {} /\ non_stationary_palm = {}
  /\ was_near_other_fingers = {} /\ fingers_not_in_edge = {}
  /\ started = FALSE /\ unjudged = {}

Next == SyncInterpret

Spec == Init /\ [][Next]_vars

-----------------------------------------------------------------------------
\* No set holds the id of a finger that has left.
TypeOK ==
  /\ present \subseteq Ids /\ others \in 0 .. MaxOthers
  /\ age \in [present -> 0 .. AgeCap]
  /\ max_pressure \in [present -> Pressures]
  /\ palm \cup pointing \cup non_stationary_palm \cup was_near_other_fingers \cup
     fingers_not_in_edge \cup unjudged \subseteq present
  /\ started \in BOOLEAN

\* No finger is a palm and pointing ("tracking ids of known fingers that are not palms").
PalmsDoNotPoint == palm \cap pointing = {}

\* Fingers that UpdatePalmFlags may flag as palms, where they are in the envelope.
MayBeFlagged == palm \cup (present \ (pointing \cup was_near_other_fingers))

\* A finger that pointed away from the edge is never flagged as a palm later on, when
\* it is back there and rests, unless its pressure has been a palm's.
PointingIsKept ==
  [][\A f \in (pointing \cap fingers_not_in_edge \cap present') \ unjudged :
       max_pressure'[f] = 0 /\ age'[f] >= EvalTimeout => f \notin MayBeFlagged']_vars

\* "A potential palm will be marked a palm if it travels less than
\* palm_stationary_distance_ mm after it's been on the pad for palm_stationary_time_".
StationaryIsPalm ==
  \A f \in present \ unjudged :
    /\ age[f] > StationaryTime
    /\ f \notin non_stationary_palm \cup was_near_other_fingers
    => f \in palm
=============================================================================
