-------------------------- MODULE StationaryWiggle --------------------------
(***************************************************************************)
(* The filter that tells wiggling fingers from moving ones by the energy   *)
(* of their last positions                                                 *)
(* (src/src/stationary_wiggle_filter_interpreter.cc).  Of a full history   *)
(* it is a choice whether its energy is over a threshold; positions and    *)
(* energies are left out.                                                  *)
(***************************************************************************)
EXTENDS Integers

CONSTANTS
  Ids,                  \* tracking ids
  MaxSize,              \* SIGNAL_SAMPLES
  IdleTime,             \* idle_time_
  MaxStep               \* bound: the time between two states

\* Given by the module that has an instance of this one.
WiggleAssumption == MaxSize \in Nat \ {0, 1} /\ {IdleTime, MaxStep} \subseteq Nat

VARIABLES
  histories,            \* of each finger: size_ and moving_
  flags,                \* history: of each finger "warp", "moving" or "none"
  samples               \* history: of each finger, the states since it came or was idle
                        \* while it moved

vars == <<histories, flags, samples>>

-----------------------------------------------------------------------------
\* Mutant: the history of a finger that rests is not reset.
NeverIdle(h, dt) == FALSE

Idle(h, dt) == h.moving /\ dt > IdleTime

\* PushFingerState()
Pushed(h, dt) ==
  IF Idle(h, dt) THEN [size |-> 1, moving |-> FALSE]
  ELSE [h EXCEPT !.size = IF @ < MaxSize THEN @ + 1 ELSE MaxSize]

\* IsFingerMoving() of a full history; above is whether its energy is above the threshold.
Judged(h, above) == IF h.size = MaxSize THEN [h EXCEPT !.moving = above] ELSE h

Flag(h) == IF h.size < MaxSize THEN "none" ELSE IF h.moving THEN "moving" ELSE "warp"

Counted(f, dt) ==
  IF histories[f].moving /\ dt > IdleTime THEN 1
  ELSE IF samples[f] < MaxSize THEN samples[f] + 1 ELSE MaxSize

\* UpdateStationaryFlags(); a new finger has one sample, and its history is not judged.
SyncInterpret ==
  \E new \in SUBSET Ids, dt \in 0 .. MaxStep :
   \E above \in SUBSET new :
    LET old == DOMAIN histories \cap new
    IN /\ histories' =
            [f \in new |-> IF f \in old THEN Judged(Pushed(histories[f], dt), f \in above)
                           ELSE [size |-> 1, moving |-> FALSE]]
       /\ flags' = [f \in new |-> IF f \in old THEN Flag(histories'[f]) ELSE "none"]
       /\ samples' = [f \in new |-> IF f \in old THEN Counted(f, dt) ELSE 1]

Init == histories = <<>> /\ flags = <<>> /\ samples = <<>>

Next == SyncInterpret

Spec == Init /\ [][Next]_vars

-----------------------------------------------------------------------------
TypeOK ==
  /\ DOMAIN histories \subseteq Ids
  /\ histories \in [DOMAIN histories -> [size : 1 .. MaxSize, moving : BOOLEAN]]
  /\ flags \in [DOMAIN histories -> {"warp", "moving", "none"}]
  /\ samples \in [DOMAIN histories -> 1 .. MaxSize]

\* What a finger is said to do is judged by positions of one movement: after a pause in
\* it, as after its arrival, there is no flag until the history is full again.
FlagsAreOfOneMovement == \A f \in DOMAIN flags : flags[f] # "none" => samples[f] = MaxSize
=============================================================================
