------------------------------ MODULE Metrics ------------------------------
(***************************************************************************)
(* The filter that reports what it sees of the device's use                *)
(* (src/src/metrics_filter_interpreter.cc): sessions of a mouse's          *)
(* movements, and fingers of a touchpad that go back and forth as on noisy *)
(* ground.  Positions and distances count big moves, one axis of two is    *)
(* modelled, and the memory for the histories suffices: it is that of      *)
(* TrendClassifying.                                                       *)
(***************************************************************************)
EXTENDS Integers, Sequences, SequencesExt

CONSTANTS
  Ids,                  \* tracking ids
  MaxHistorySize,       \* of a finger, 3
  MovingTime,           \* mouse_moving_time_threshold_
  NoisyTime,            \* noisy_ground_time_threshold_
  Warmup,               \* mouse_control_warmup_sessions_
  MaxPosition, MaxStep  \* bounds: positions, the time between two states

\* Given by the module that has an instance of this one.
MetricsAssumption ==
  /\ {MovingTime, NoisyTime, Warmup, MaxPosition, MaxStep} \subseteq Nat
  /\ MaxHistorySize = 3

VARIABLES
  devclass,
  session_index, length, since,  \* since: the time since mouse_movement_current_session_last
  histories,            \* of each finger: where it was, and how long before the next
  noisy,                \* history: the fingers reported in this state
  recent,               \* history: the last hardware states, the latest last
  pause                 \* history: the longest time between movements of the session

vars == <<devclass, session_index, length, since, histories, noisy, recent, pause>>

mouse_vars == <<session_index, length, since, pause>>
finger_vars == <<histories, noisy, recent>>

LastOf(s, n) == IF Len(s) > n THEN Tail(s) ELSE s

-----------------------------------------------------------------------------
\* Mutant: a session goes on when it is not reported.
EndsIfReported(time) == length >= 1 /\ time > MovingTime /\ session_index >= Warmup

EndsSession(time) == length >= 1 /\ time > MovingTime

\* UpdateMouseMovementState(); length is counted to 2, from which a session is
\* reported, session_index to Warmup.
UpdateMouseMovementState ==
  /\ devclass = "mouse"
  /\ \E dt \in 0 .. MaxStep, moves \in BOOLEAN :
       LET time == IF since + dt > MovingTime THEN MovingTime + 1 ELSE since + dt
           ends == EndsSession(time)
       IN IF moves
          THEN /\ since' = 0
               /\ length' = IF ends \/ length = 0 THEN 1 ELSE 2
               /\ session_index' =
                    IF ends /\ session_index < Warmup THEN session_index + 1
                    ELSE session_index
               /\ pause' = IF ends \/ length = 0 THEN 0 ELSE Max({pause, time})
          ELSE since' = time /\ UNCHANGED <<session_index, length, pause>>
  /\ UNCHANGED <<devclass, finger_vars>>

\* Mutant: the history of a finger that left is there when its id comes back.
EverKept(new) == histories

RemoveMissingIds(new) == Restrict(histories, DOMAIN histories \cap new)

\* AddNewStateToBuffer()
Added(history, at, dt) ==
  LET before == IF history = <<>> THEN <<>>
                ELSE Append(Front(history), [Last(history) EXCEPT !.time = dt])
  IN LastOf(Append(before, [at |-> at, time |-> 0]), MaxHistorySize)

\* Two big moves in opposite directions, in a short time.
BackAndForth(first, second, third, time) ==
  time <= NoisyTime /\ (second - first) * (third - second) < 0

DetectNoisyGround(h) ==
  Len(h) = 3 /\ BackAndForth(h[1].at, h[2].at, h[3].at, h[1].time + h[2].time)

UpdateFingerState ==
  /\ devclass = "touchpad"
  /\ \E new \in SUBSET Ids, dt \in 0 .. MaxStep :
     \E at \in [new -> 0 .. MaxPosition] :
       /\ LET kept == RemoveMissingIds(new)
              of(f) == IF f \in DOMAIN kept THEN kept[f] ELSE <<>>
          IN histories' = [f \in DOMAIN kept \cup new |->
                             IF f \in new THEN Added(of(f), at[f], dt) ELSE kept[f]]
       /\ noisy' = {f \in new : DetectNoisyGround(histories'[f])}
       /\ recent' = LastOf(Append(recent, [fingers |-> at, dt |-> dt]), 3)
  /\ UNCHANGED <<devclass, mouse_vars>>

Init ==
  /\ devclass \in {"mouse", "touchpad"}
  /\ session_index = 0 /\ length = 0 /\ since = 0 /\ pause = 0
  /\ histories = <<>> /\ noisy = {} /\ recent = <<>>

Next == UpdateMouseMovementState \/ UpdateFingerState

Spec == Init /\ [][Next]_vars

-----------------------------------------------------------------------------
TypeOK ==
  /\ session_index \in 0 .. Warmup /\ length \in 0 .. 2
  /\ since \in 0 .. MovingTime + 1
  /\ DOMAIN histories \subseteq Ids /\ noisy \subseteq DOMAIN histories
  /\ \A f \in DOMAIN histories :
       /\ Len(histories[f]) \in 1 .. MaxHistorySize
       /\ histories[f] \in Seq([at : 0 .. MaxPosition, time : 0 .. MaxStep])

\* What may be reported as one session has no pause in it, in the first sessions, which
\* are not reported, as in the others.
SessionWithoutPause == pause <= MovingTime

\* Fingers are reported for what they did in the last three states of the pad, and for
\* nothing that another finger did by the same id before.
NoisyGroundIsSeen ==
  noisy = {f \in Ids :
             /\ Len(recent) = 3 /\ \A i \in 1 .. 3 : f \in DOMAIN recent[i].fingers
             /\ BackAndForth(recent[1].fingers[f], recent[2].fingers[f],
                             recent[3].fingers[f], recent[2].dt + recent[3].dt)}
=============================================================================
