----------------------------- MODULE TapToClick -----------------------------
(***************************************************************************)
(* The buttons of the immediate interpreter                                *)
(* (src/src/immediate_interpreter.cc): tap to click and drag, with its     *)
(* TapRecord, and clicks of the physical button, which wait a moment for   *)
(* the fingers that tell a left click from a right one.  Both end in the   *)
(* one gesture a handler can send.                                         *)
(*                                                                         *)
(* A handler calls nothing that could call back: each is one step.  A      *)
(* hardware state is the set of its fingers, those of them that gesture,   *)
(* and the physical button.  Positions, pressures and ages are left out,   *)
(* and what they decide is a choice.  Time is counted in ticks, a deadline *)
(* as the ticks left and a start as the ticks since, up to AgeCap.  Pads   *)
(* that report more touches than fingers (T5R2) are not covered.           *)
(***************************************************************************)
EXTENDS Integers, FiniteSets

CONSTANTS
  Fingers,              \* tracking ids
  MaxFingers,           \* how many of them touch at once
  TapTimeout,           \* tap_timeout_
  InterTapTimeout,      \* inter_tap_timeout_
  ChangeTimeout,        \* change_timeout_
  TapDragTimeout,       \* tap_drag_timeout_
  TapDragDelay,         \* tap_drag_delay_
  EvaluationTimeout,    \* evaluation_timeout_
  TapDragEnable,        \* tap_drag_enable_
  DragLockEnable,       \* drag_lock_enable_
  ThreeFingerClick,     \* three_finger_click_enable_
  ButtonTimeout,        \* button_evaluation_timeout_
  ZeroFingerClick,      \* zero_finger_click_enable_
  HwButtons,            \* the physical buttons
  IsButtonPad,          \* is_button_pad of the hardware properties
  AgeCap, MaxLate       \* bounds: ages are not told apart beyond AgeCap, and
                        \* the host calls back at most MaxLate ticks late

None == "none"          \* GESTURES_BUTTON_NONE
Clicks == {"left", "middle", "right"}
NoTimer == -1 - MaxLate \* no HandleTimer is asked for

Ttc == {"Idle", "FirstTapBegan", "TapComplete", "TapUp", "SubsequentTapBegan",
        "Drag", "DragRelease", "DragRetouch"}

ASSUME FingersAssumption == MaxFingers \in Nat /\ IsFiniteSet(Fingers)
ASSUME TimeoutsAssumption ==
  /\ {TapTimeout, InterTapTimeout, ChangeTimeout, TapDragTimeout,
      EvaluationTimeout, ButtonTimeout} \subseteq Nat \ {0}
  /\ {TapDragDelay, AgeCap, MaxLate} \subseteq Nat
ASSUME SwitchesAssumption ==
  {TapDragEnable, DragLockEnable, ThreeFingerClick, ZeroFingerClick, IsButtonPad}
    \subseteq BOOLEAN
ASSUME ButtonsAssumption == HwButtons \subseteq Clicks

VARIABLES
  pad,                  \* the fingers of the last hardware state
  prev_tap_gs_fingers,
  tap_dead_fingers,
  tap_record,
  tap_to_click_state,
  age,                  \* ticks since tap_to_click_state_entered_
  prev_scroll,          \* prev_result_ is a scroll
  buttons,              \* the physical button of the last hardware state
  button_type,
  sent_button_down,
  wait,                 \* ticks left to button_down_timeout_
  finger_seen,          \* finger_seen_shortly_after_button_down_
  timer,                \* ticks left to the HandleTimer asked for
  tapped,               \* history: buttons that taps pressed and have to lift
  clicked,              \* history: buttons that clicks pressed and have to lift
  result,               \* history: the button change the last step sent
  retouched             \* history: a finger came while a tap's up was pending

tap_vars == <<prev_tap_gs_fingers, tap_dead_fingers, tap_record,
              tap_to_click_state, age>>
button_vars == <<buttons, button_type, sent_button_down, wait, finger_seen>>
vars == <<pad, tap_vars, prev_scroll, button_vars, timer,
          tapped, clicked, result, retouched>>

(***************************************************************************)
(* TapRecord                                                               *)
(***************************************************************************)
Record == [touched : SUBSET Fingers, released : SUBSET Fingers,
           hard : SUBSET Fingers,       \* min_tap_pressure_met_
           soft : SUBSET Fingers,       \* min_cotap_pressure_met_
           young : BOOLEAN]             \* fingers_below_max_age_

Cleared == [touched |-> {}, released |-> {}, hard |-> {}, soft |-> {},
            young |-> TRUE]

\* An argument c (or in, below) has the fingers now on the pad and those added,
\* removed and dead since the last state.

\* NoteTouch: the first finger is taken, another one if it is close enough.
Accepted(r, added) ==
  {a \in SUBSET added : r.touched = {} /\ added # {} => a # {}}

\* Remove, for every dead finger.
Live(r, dead) ==
  [touched |-> r.touched \ dead, released |-> r.released \ dead,
   hard |-> r.hard \ dead, soft |-> r.soft \ dead, young |-> r.young]

\* Every touched finger still on the pad may meet a pressure or turn out too old.
Seen(present) ==
  [hard : SUBSET present, soft : SUBSET present,
   young : IF present = {} THEN {TRUE} ELSE BOOLEAN]

Noted(live, removed, accepted, seen) ==
  LET touched == live.touched \cup accepted
  IN [touched |-> touched, released |-> live.released \cup (removed \cap touched),
      hard |-> live.hard \cup seen.hard, soft |-> live.soft \cup seen.soft,
      young |-> live.young /\ seen.young]

\* Update: dead fingers are forgotten, added and removed ones noted, then those that
\* touch are looked at.
Updated(r, c) ==
  LET live == Live(r, c.dead)
      Present(accepted) == (live.touched \cup accepted) \cap c.pad
  IN {u \in UNION {{Noted(live, c.removed, accepted, seen) : seen \in Seen(Present(accepted))} :
                     accepted \in Accepted(live, c.added)} :
        u.hard \subseteq u.soft}

TapBegan(r) == r.touched # {}
TapComplete(r) ==
  r.touched # {} /\ Cardinality(r.touched) = Cardinality(r.released)
MinTapPressureMet(r) == r.hard # {}
TapType(r) ==
  IF Cardinality(r.soft) = 3 /\ ThreeFingerClick THEN "middle"
  ELSE IF Cardinality(r.soft) > 1 THEN "right" ELSE "left"

\* Only a finger that has been pressed before and is still there can move.
MayMove(before, after, c) == before.soft \cap after.touched \cap c.pad # {}

(***************************************************************************)
(* The physical button                                                     *)
(***************************************************************************)
\* EvaluateButtonType: with two fingers or more that are no palms the fingers
\* decide, else the button does, or the place of the one finger on a button pad.
FingersDecide(p) ==
  IF Cardinality(p) < 2 THEN {}
  ELSE {"left", "right"} \cup IF Cardinality(p) >= 3 /\ ThreeFingerClick
                             THEN {"middle"} ELSE {}

ButtonDecides(p, b) ==
  IF IsButtonPad /\ b = "left" /\ Cardinality(p) = 1 THEN {"left", "right"}
  ELSE {b}

\* No button stands for the one that was down before, which UpdateButtons has
\* only as a Boolean.
EvaluateButtonType(p, b) ==
  {IF t = None THEN "left" ELSE t : t \in FingersDecide(p) \cup ButtonDecides(p, b)}

\* Mutant: the fingers decide again for the up.
EvaluatedAgain(sent, p, b) == EvaluateButtonType(p, b)

\* The type is settled once the down is sent.
TypesFor(sent, p, b) == IF sent THEN {button_type} ELSE EvaluateButtonType(p, b)

NoButtonEvent == [type |-> button_type, sent |-> sent_button_down, wait |-> wait,
                  seen |-> finger_seen, down |-> None, up |-> None, ask |-> NoTimer]

\* Mutant: no callback is asked for.
NeverAsked(sent, left) == NoTimer

AskedTimeout(sent, left) == IF sent THEN NoTimer ELSE left

\* Once a type is evaluated: the down is sent at the deadline or with the up.
ButtonEvent(type, sent, left, seen, up_edge) ==
  LET fire == ~sent /\ (left <= 0 \/ up_edge)
  IN [type |-> IF up_edge THEN None ELSE type,
      sent |-> (sent \/ fire) /\ ~up_edge,
      wait |-> IF up_edge THEN -1 ELSE left,
      seen |-> seen,
      down |-> IF fire THEN type ELSE None,
      up   |-> IF up_edge THEN type ELSE None,
      ask  |-> AskedTimeout(sent \/ fire, left)]

\* Mutant: every state with the button down puts the deadline off.
ExtendedDeadline(down_edge) == IF down_edge THEN ButtonTimeout ELSE wait + ButtonTimeout

\* Ticks left to button_down_timeout_.
ButtonDeadline(down_edge) == IF down_edge THEN ButtonTimeout ELSE wait

\* UpdateButtons, for a hardware state with fingers p and button b.
UpdateButtons(p, b) ==
  LET down_edge == b # None /\ buttons = None
      up_edge   == b = None /\ buttons # None
      left == ButtonDeadline(down_edge)
      sent == sent_button_down /\ ~down_edge
      seen0 == finger_seen /\ ~down_edge
      seen == seen0 \/ (left >= 0 /\ p # {})
  IN IF b = None /\ buttons = None THEN {NoButtonEvent}
     ELSE IF ~seen /\ ~ZeroFingerClick
     THEN {[NoButtonEvent EXCEPT !.sent = sent, !.wait = left, !.seen = seen]}
     ELSE {ButtonEvent(type, sent, left, seen, up_edge) :
             type \in TypesFor(sent, p, b)}

\* UpdateButtonsTimeout, for any timer callback.
UpdateButtonsTimeout ==
  IF sent_button_down \/ button_type = None THEN NoButtonEvent
  ELSE [NoButtonEvent EXCEPT !.sent = TRUE, !.down = button_type]

(***************************************************************************)
(* The tap-to-click state machine                                          *)
(*                                                                         *)
(* An event "in" is a hardware state, or a timer callback (~in.hw), with   *)
(* the changes of the fingers and what the button's part of the handler    *)
(* has come to.                                                            *)
(***************************************************************************)
TimeoutForTtcState(s) ==
  CASE s = "TapComplete" -> InterTapTimeout
    [] s = "TapUp"       -> ChangeTimeout
    [] s = "DragRelease" -> TapDragTimeout
    [] OTHER             -> TapTimeout

IsTimeout == age > TimeoutForTtcState(tap_to_click_state)

\* Mutant: no timer for the up of a tap.
NoTimerForUp == {"TapComplete", "DragRelease"}

\* The states that run a timer of their own, as no finger may be on the pad.
Timed == {"TapComplete", "TapUp", "DragRelease"}

NoChange == [down |-> None, up |-> None]

Pressed(held, down, up) == (held \cup ({down} \ {None})) \ {up}

\* What the button's part of the handler has put into result_ is sent.
SendClick(event) ==
  /\ clicked' = Pressed(clicked, event.down, event.up)
  /\ result' = [down |-> event.down, up |-> event.up]

\* A scroll takes two gesturing fingers and no button change in the same state.
MayScroll(in, changes) ==
  IF changes \/ Cardinality(in.gs) < 2 THEN {FALSE} ELSE BOOLEAN

ButtonChanges(event) == event.down # None \/ event.up # None

\* A tap's button change replaces the button's in result_.
Produce(in, down, up) ==
  LET tap == down # None \/ up # None
  IN /\ tapped' = Pressed(tapped, down, up)
     /\ IF tap THEN UNCHANGED clicked /\ result' = [down |-> down, up |-> up]
               ELSE SendClick(in.event)
     /\ IF in.hw THEN prev_scroll' \in MayScroll(in, tap \/ ButtonChanges(in.event))
                 ELSE UNCHANGED prev_scroll
     /\ retouched' = /\ tapped' # {}
                     /\ retouched \/ (tap_to_click_state = "TapUp" /\ in.added # {})

SetTapToClickState(s) ==
  /\ tap_to_click_state' = s
  /\ age' = IF s = tap_to_click_state THEN age ELSE 0

\* One way through UpdateTapState's switch.
Step(in, s, record, down, up) ==
  /\ SetTapToClickState(s)
  /\ tap_record' = record
  /\ Produce(in, down, up)
  /\ timer' = IF s \in Timed THEN TimeoutForTtcState(s) ELSE in.event.ask

Quiet(in, s, record)         == Step(in, s, record, None, None)
Click(in, s, record, button) == Step(in, s, record, button, button)
Press(in, s, record, button) == Step(in, s, record, button, None)
Lift(in, s, record, button)  == Step(in, s, record, None, button)

\* Mutant: the record is not kept up once the first tap is over.
StaleRecords(in) == {tap_record}

\* "if (hwstate) tap_record_.Update(...)"
Records(in) == IF in.hw THEN Updated(tap_record, in) ELSE {tap_record}

\* No tap begins soon after a movement.
Idle(in) ==
  \/ Quiet(in, "Idle", Cleared)
  \/ /\ in.hw
     /\ \E r \in Updated(Cleared, in) :
          Quiet(in, IF TapBegan(r) THEN "FirstTapBegan" ELSE "Idle", r)

FirstTapCompleted(in, r) ==
  IF ~MinTapPressureMet(r) \/ ~r.young THEN Quiet(in, "Idle", r)
  ELSE IF TapType(r) = "left" /\ TapDragEnable THEN Quiet(in, "TapComplete", r)
  ELSE Click(in, "Idle", r, TapType(r))

FirstTapBegan(in) ==
  \/ IsTimeout /\ Quiet(in, "Idle", tap_record)
  \/ ~IsTimeout /\ ~in.hw /\ Quiet(in, "FirstTapBegan", tap_record)
  \/ /\ ~IsTimeout /\ in.hw
     /\ \E r \in Updated(tap_record, in) :
          \/ TapComplete(r) /\ FirstTapCompleted(in, r)
          \/ ~TapComplete(r) /\ Quiet(in, "FirstTapBegan", r)
          \/ /\ ~TapComplete(r) /\ MayMove(tap_record, r, in)
             /\ Quiet(in, "Idle", r)

TapCompleteState(in) ==
  \/ /\ in.added # {}
     /\ \E r \in Updated(Cleared, in) :
          IF TapType(r) = "left" THEN Quiet(in, "SubsequentTapBegan", r)
          ELSE Click(in, "FirstTapBegan", r, "left")
  \/ /\ in.added = {} /\ IsTimeout
     /\ IF MinTapPressureMet(tap_record)
        THEN Press(in, "TapUp", tap_record, TapType(tap_record))
        ELSE Quiet(in, "Idle", tap_record)
  \/ /\ in.added = {} /\ ~IsTimeout
     /\ Quiet(in, "TapComplete", tap_record)

\* Mutant: no up at the end.
TapUpWithoutUp(in) ==
  Quiet(in, IF IsTimeout THEN "Idle" ELSE "TapUp", tap_record)

\* A finger that comes takes the record over, the pending up with it.
TapUp(in) ==
  \E r \in IF in.added = {} THEN {tap_record} ELSE Updated(Cleared, in) :
    IF IsTimeout THEN Lift(in, "Idle", r, TapType(tap_record))
    ELSE Quiet(in, "TapUp", r)

\* The second tap has gone on for too long or has begun to move.
SecondTapHeld(in, r) ==
  IF TapType(r) = "left"
  THEN IF IsTimeout \/ age > TapDragDelay THEN Press(in, "Drag", r, "left")
       ELSE Click(in, "Idle", r, "left")
  ELSE IF TapComplete(r) THEN Quiet(in, "SubsequentTapBegan", r)
  ELSE Click(in, "Idle", r, "left")

SecondTapGoesOn(in, r) ==
  IF TapComplete(r) THEN Click(in, "TapComplete", r, "left")
  ELSE IF TapType(r) # "left" THEN Click(in, "FirstTapBegan", r, "left")
  ELSE Quiet(in, "SubsequentTapBegan", r)

SubsequentTapBegan(in) ==
  \/ ~IsTimeout /\ ~in.hw /\ Quiet(in, "SubsequentTapBegan", tap_record)
  \/ IsTimeout /\ \E r \in Records(in) : SecondTapHeld(in, r)
  \/ /\ ~IsTimeout /\ in.hw
     /\ \E r \in Updated(tap_record, in) :
          \/ SecondTapGoesOn(in, r)
          \/ MayMove(tap_record, r, in) /\ SecondTapHeld(in, r)

\* Two fingers soon after the drag began were no drag.  The record a finished
\* drag leaves behind is empty, hence that of a left tap.
Drag(in) ==
  \E r \in Records(in) :
    IF TapComplete(r)
    THEN IF DragLockEnable THEN Quiet(in, "DragRelease", Cleared)
         ELSE Lift(in, "Idle", Cleared, "left")
    ELSE IF TapType(r) # "left" /\ age <= EvaluationTimeout
    THEN Lift(in, "Idle", r, "left")
    ELSE Quiet(in, "Drag", r)

DragRelease(in) ==
  \/ /\ in.added # {}
     /\ \E r \in Updated(tap_record, in) : Quiet(in, "DragRetouch", r)
  \/ in.added = {} /\ IsTimeout /\ Lift(in, "Idle", tap_record, "left")
  \/ in.added = {} /\ ~IsTimeout /\ Quiet(in, "DragRelease", tap_record)

DragRetouch(in) ==
  \E r \in Records(in) :
    \/ /\ TapComplete(r)
       /\ Lift(in, IF TapType(r) = "left" THEN "Idle" ELSE "TapComplete", r, "left")
    \/ /\ ~TapComplete(r)
       /\ Quiet(in, IF IsTimeout THEN "Drag" ELSE "DragRetouch", r)
    \/ /\ ~TapComplete(r) /\ in.hw /\ MayMove(tap_record, r, in)
       /\ Quiet(in, "Drag", r)

Switch(in) ==
  CASE tap_to_click_state = "Idle"               -> Idle(in)
    [] tap_to_click_state = "FirstTapBegan"      -> FirstTapBegan(in)
    [] tap_to_click_state = "TapComplete"        -> TapCompleteState(in)
    [] tap_to_click_state = "TapUp"              -> TapUp(in)
    [] tap_to_click_state = "SubsequentTapBegan" -> SubsequentTapBegan(in)
    [] tap_to_click_state = "Drag"               -> Drag(in)
    [] tap_to_click_state = "DragRelease"        -> DragRelease(in)
    [] tap_to_click_state = "DragRetouch"        -> DragRetouch(in)

\* A click in progress, typing, a scroll or a finger that may not tap ends
\* the tap.  What it holds down is not lifted: that is left to the stuck button
\* inhibitor (StuckButton).
ForcedToIdle(in) ==
  /\ SetTapToClickState("Idle")
  /\ SendClick(in.event)
  /\ prev_scroll' \in IF in.hw THEN MayScroll(in, ButtonChanges(in.event))
                              ELSE {prev_scroll}
  /\ tapped' = {} /\ retouched' = FALSE
  /\ timer' = in.event.ask
  /\ UNCHANGED tap_record

UpdateTapState(in) ==
  \/ ForcedToIdle(in)
  \/ ~in.click /\ ~prev_scroll /\ Switch(in)

(***************************************************************************)
(* The handlers                                                            *)
(***************************************************************************)
\* A finger that comes has an id that is not remembered any more.
Remembered ==
  pad \cup prev_tap_gs_fingers \cup tap_dead_fingers \cup tap_record.touched

Pads == {p \in SUBSET Fingers : /\ Cardinality(p) <= MaxFingers
                               /\ (p \ pad) \cap Remembered = {}}

SetButton(event) ==
  /\ button_type' = event.type
  /\ sent_button_down' = event.sent
  /\ wait' = event.wait
  /\ finger_seen' = event.seen

\* tap_paused_ or no tap_enable_: in Idle nothing of the tap is touched.
Paused(in) ==
  /\ tap_to_click_state = "Idle"
  /\ SendClick(in.event)
  /\ prev_scroll' \in IF in.hw THEN MayScroll(in, ButtonChanges(in.event))
                              ELSE {prev_scroll}
  /\ timer' = in.event.ask
  /\ UNCHANGED <<tap_vars, tapped, retouched>>

\* Mutant: the fingers of a click may tap.
AddedThoughDead(gs, dead) == gs \ prev_tap_gs_fingers

Added(gs, dead) == gs \ (prev_tap_gs_fingers \cup dead)

\* The changes since the last state; a finger too close to another is not added.
Changes(p, gs, dead, event, click) ==
  LET gone == prev_tap_gs_fingers \ gs
  IN {[hw |-> TRUE, pad |-> p, gs |-> gs, added |-> added, removed |-> gone \ p,
       dead |-> gone \cap p, event |-> event, click |-> click] :
         added \in SUBSET Added(gs, dead)}

PhysClickInProgress(b, event) == b # None /\ (ZeroFingerClick \/ event.seen)

\* The fingers of a click in progress never tap.
TapDeadFingers(p, click) == IF click THEN p ELSE tap_dead_fingers \cap p

SyncInterpret ==
  \E p \in Pads, b \in {None} \cup HwButtons :
    \E gs \in SUBSET p, event \in UpdateButtons(p, b) :
      LET click == PhysClickInProgress(b, event)
          dead  == TapDeadFingers(p, click)
      IN \E in \in Changes(p, gs, dead, event, click) :
           /\ pad' = p
           /\ buttons' = b
           /\ SetButton(event)
           /\ \/ Paused(in)
              \/ /\ prev_tap_gs_fingers' = gs
                 /\ tap_dead_fingers' = dead
                 /\ UpdateTapState(in)

HandleTimer ==
  LET event == UpdateButtonsTimeout
      in == [hw |-> FALSE, pad |-> pad, gs |-> {}, added |-> {}, removed |-> {},
             dead |-> {}, event |-> event, click |-> FALSE]
  IN /\ UNCHANGED <<pad, buttons>>
     /\ SetButton(event)
     /\ \/ Paused(in)
        \/ /\ prev_tap_gs_fingers' = {}
           /\ UNCHANGED tap_dead_fingers
           /\ UpdateTapState(in)

\* The host calls the timer it was last asked for, not early and not too late.
CallbackDue == timer # NoTimer /\ timer <= 0

HostCallsBack == CallbackDue /\ HandleTimer

Tick ==
  /\ timer # -MaxLate
  /\ timer' = IF timer = NoTimer THEN NoTimer ELSE timer - 1
  /\ age' = IF age < AgeCap THEN age + 1 ELSE AgeCap
  /\ wait' = IF wait < 0 THEN -1 ELSE wait - 1
  /\ result' = NoChange
  /\ UNCHANGED <<pad, prev_tap_gs_fingers, tap_dead_fingers, tap_record,
                 tap_to_click_state, prev_scroll, buttons, button_type,
                 sent_button_down, finger_seen, tapped, clicked, retouched>>

\* tap_to_click_state_entered_ starts at a time long past (0.0).
Init ==
  /\ pad = {} /\ prev_tap_gs_fingers = {} /\ tap_dead_fingers = {}
  /\ tap_record = Cleared
  /\ tap_to_click_state = "Idle" /\ age = AgeCap
  /\ prev_scroll = FALSE
  /\ buttons = None /\ button_type = None /\ sent_button_down = FALSE
  /\ wait = -1 /\ finger_seen = FALSE
  /\ timer = NoTimer
  /\ tapped = {} /\ clicked = {} /\ result = NoChange /\ retouched = FALSE

Next == SyncInterpret \/ HostCallsBack \/ Tick

\* Time passes and the host does call back.  Nothing makes fingers come or go.
Fairness == WF_vars(Tick) /\ WF_vars(HostCallsBack)

Spec == Init /\ [][Next]_vars /\ Fairness

-----------------------------------------------------------------------------
\* Every variable keeps its type; the button's deadline never runs longer than
\* its timeout.
TypeOK ==
  /\ pad \in SUBSET Fingers
  /\ prev_tap_gs_fingers \in SUBSET Fingers
  /\ tap_dead_fingers \in SUBSET Fingers
  /\ tap_record \in Record
  /\ tap_to_click_state \in Ttc
  /\ age \in 0..AgeCap
  /\ {prev_scroll, sent_button_down, finger_seen, retouched} \subseteq BOOLEAN
  /\ buttons \in HwButtons \cup {None}
  /\ {button_type, result.down, result.up} \subseteq Clicks \cup {None}
  /\ wait \in -1..ButtonTimeout
  /\ timer \in Int /\ timer >= NoTimer
  /\ tapped \subseteq Clicks /\ clicked \subseteq Clicks

(***************************************************************************)
(* Safety                                                                  *)
(***************************************************************************)
\* A tap holds a button down in the states of the diagram that say so, and it
\* is the one the record would lift again; unless a finger has taken the record
\* over (TapUpLiftsWhatWasPressed).
ButtonsFollowTaps ==
  ~retouched =>
    tapped = CASE tap_to_click_state \in {"Drag", "DragRelease", "DragRetouch"} ->
                    {"left"}
               [] tap_to_click_state = "TapUp" -> {TapType(tap_record)}
               [] OTHER -> {}

\* What is sent for the physical button is paired: a button is down for the
\* listener exactly while the code takes it for sent, and it is the one the up
\* will lift.  So no tap has replaced one half of a click in result_ ("Tap-to-
\* click always aborts when real button(s) are being used").
ClicksFollowButton ==
  clicked = IF sent_button_down THEN {button_type} ELSE {}

\* The states that wait for their fingers to be lifted.
Waiting == {"FirstTapBegan", "SubsequentTapBegan", "Drag", "DragRetouch"}

\* The fingers of a physical click never hold up a tap: none that is dead is
\* waited for.
DeadFingersDoNotTap ==
  tap_to_click_state \in Waiting =>
    (tap_record.touched \ tap_record.released) \cap tap_dead_fingers = {}

\* A tap waits for no finger that has left the pad: it would never complete.
LiftedAreReleased ==
  tap_to_click_state \in Waiting => tap_record.touched \ pad \subseteq tap_record.released

\* At the end of a pending up, what the tap pressed is lifted.
TapUpLiftsWhatWasPressed ==
  [][tap_to_click_state = "TapUp" /\ tap_to_click_state' = "Idle" => tapped' = {}]_vars

\* A click that was not sent yet when its button comes up is sent as the button
\* that was pressed.
QuickClickKeepsButton ==
  [][buttons # None /\ buttons' = None /\ ~sent_button_down /\ button_type # None
       /\ pad' = {} => result'.down = buttons]_vars

\* [Drag] "release all fingers" [DragRelease]: no drag goes on without fingers.
DragEndsWithItsFingers ==
  [][tap_to_click_state = "Drag" /\ pad # {} /\ pad' = {} =>
       tap_to_click_state' # "Drag"]_vars

(***************************************************************************)
(* Liveness                                                                *)
(***************************************************************************)
\* The states that run a timer come to an end though no finger comes, and the
\* tap with them: it is not passed on from one to the next for ever.
TimedStatesEnd ==
  []<>(tap_to_click_state \notin {"TapComplete", "TapUp", "DragRelease"})

\* A click that has been evaluated is sent, with the button still down or with
\* its up: none waits for ever.
ClickIsSent == []<>(button_type = None \/ sent_button_down \/ buttons = None)

\* The one timer serves taps and clicks alike: with the callbacks it brings, no
\* tap stays in a timed state and no evaluated click waits, whichever of the two
\* asked for it.
SharedTimerServesBoth == TimedStatesEnd /\ ClickIsSent

=============================================================================
