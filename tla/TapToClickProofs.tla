-------------------------- MODULE TapToClickProofs --------------------------
(***************************************************************************)
(* Proofs about TapToClick and FlingToScroll, for any fingers, timeouts,   *)
(* switches and physical buttons.  What is pressed is lifted: the taps'    *)
(* button and the physical one never get in each other's way, also when    *)
(* the fling filter calls back at times nobody asked for; and the fling    *)
(* filter never loses or delays a callback that was asked for.             *)
(***************************************************************************)
EXTENDS FlingToScroll, FiniteSetTheorems, TLAPS

(***************************************************************************)
(* The operators of TapToClick                                             *)
(***************************************************************************)
\* What UpdateButtons and UpdateButtonsTimeout may return.
Event == [type : Clicks \cup {None}, sent : BOOLEAN, wait : -1..ButtonTimeout,
          seen : BOOLEAN, down : Clicks \cup {None}, up : Clicks \cup {None},
          ask : {t \in Int : t >= NoTimer}]

\* What a handler may hand to UpdateTapState.
Input(in) ==
  /\ in.hw \in BOOLEAN /\ in.click \in BOOLEAN
  /\ in.pad \in SUBSET Fingers /\ in.added \in SUBSET Fingers
  /\ in.removed \in SUBSET Fingers /\ in.dead \in SUBSET Fingers
  /\ in.event \in Event
  /\ ~in.hw => in.added = {}

LEMMA TapTypes == \A r : TapType(r) \in Clicks
BY DEF TapType, Clicks

LEMMA ClearedType == Cleared \in Record
BY DEF Cleared, Record

LEMMA Timeouts == \A s : TimeoutForTtcState(s) \in Nat \ {0}
BY TimeoutsAssumption DEF TimeoutForTtcState

\* Update: of the touched fingers only dead ones go and only added ones come, and
\* those removed are noted as released.
LEMMA UpdatedRecord ==
  ASSUME NEW r \in Record, NEW c, Input(c), NEW u \in Updated(r, c)
  PROVE  /\ u \in Record
         /\ r.touched \ c.dead \subseteq u.touched
         /\ u.touched \subseteq (r.touched \ c.dead) \cup c.added
         /\ u.released = (r.released \ c.dead) \cup (c.removed \cap u.touched)
<1>a. PICK accepted \in Accepted(Live(r, c.dead), c.added) :
        \E seen \in Seen((Live(r, c.dead).touched \cup accepted) \cap c.pad) :
          u = Noted(Live(r, c.dead), c.removed, accepted, seen)
  BY DEF Updated
<1>1. PICK seen \in Seen((Live(r, c.dead).touched \cup accepted) \cap c.pad) :
        u = Noted(Live(r, c.dead), c.removed, accepted, seen)
  BY <1>a
<1>2. /\ seen.hard \subseteq Live(r, c.dead).touched \cup accepted
      /\ seen.soft \subseteq Live(r, c.dead).touched \cup accepted
      /\ seen.young \in BOOLEAN
  BY DEF Seen
<1>3. accepted \subseteq c.added
  BY DEF Accepted
<1> QED BY <1>1, <1>2, <1>3 DEF Noted, Live, Record, Input

(***************************************************************************)
(* The diagram of UpdateTapState                                           *)
(***************************************************************************)
\* The buttons a tap holds down, by the diagram.
Held(s, record) ==
  IF s \in {"Drag", "DragRelease", "DragRetouch"} THEN {"left"}
  ELSE IF s = "TapUp" THEN {TapType(record)} ELSE {}

\* A way through the switch changes buttons the way the two states' held buttons say,
\* unless a finger comes while the up of a tap is pending.
Holds(in, s, record, down, up) ==
  LET before == Held(tap_to_click_state, tap_record)
      after  == Held(s, record)
  IN \/ /\ down = None /\ up = None
        /\ before = after \/ (tap_to_click_state = "TapUp" /\ s = "TapUp" /\ in.added # {})
     \/ /\ down \in Clicks /\ up = down
        /\ before = {} /\ after = {}
     \/ /\ down \in Clicks /\ up = None
        /\ before = {} /\ after = {down}
     \/ /\ down = None /\ up \in Clicks
        /\ before = {up} /\ after = {}

\* A record with fingers to wait for is kept up with every hardware state.
KeepsUp(in, s, record) ==
  /\ s \in Waiting =>
       \/ in.hw /\ record \in Updated(Cleared, in)
       \/ in.hw /\ record \in Updated(tap_record, in)
          /\ tap_to_click_state \in Waiting \cup {"DragRelease"}
       \/ ~in.hw /\ record = tap_record /\ tap_to_click_state \in Waiting
  /\ s = "DragRelease" =>
       record = Cleared \/ (tap_to_click_state = "DragRelease" /\ record = tap_record)

\* Nothing is pressed or lifted where no tap has begun.
Begins(s, down, up) ==
  tap_to_click_state = "Idle" =>
    s \in {"Idle", "FirstTapBegan"} /\ down = None /\ up = None

Way(in, s, record, down, up) ==
  /\ s \in Ttc /\ record \in Record
  /\ Begins(s, down, up)
  /\ Holds(in, s, record, down, up)
  /\ KeepsUp(in, s, record)
  /\ Step(in, s, record, down, up)

LEMMA SwitchWays ==
  ASSUME TypeOK, NEW in, Input(in), Switch(in)
  PROVE  \E s, record, down, up : Way(in, s, record, down, up)
<1> USE DEF Way, Holds, KeepsUp, Begins, Held, Waiting, Quiet, Click, Press, Lift
<1>1. /\ tap_record \in Record /\ Cleared \in Record
      /\ \A r \in Updated(Cleared, in) : r \in Record
      /\ \A r \in Updated(tap_record, in) : r \in Record
      /\ \A r : TapType(r) \in {"left", "middle", "right"}
      /\ in.hw \in BOOLEAN /\ (~in.hw => in.added = {})
  BY ClearedType, UpdatedRecord, TapTypes DEF TypeOK, Clicks, Input
<1> USE DEF Ttc, Clicks, None
<1>2. CASE tap_to_click_state = "Idle"
  <2>1. Idle(in)
    BY <1>2 DEF Switch
  <2> QED BY <1>1, <1>2, <2>1 DEF Idle
<1>3. CASE tap_to_click_state = "FirstTapBegan"
  <2>1. FirstTapBegan(in)
    BY <1>3 DEF Switch
  <2> QED BY <1>1, <1>3, <2>1 DEF FirstTapBegan, FirstTapCompleted
<1>4. CASE tap_to_click_state = "TapComplete"
  <2>1. TapCompleteState(in)
    BY <1>4 DEF Switch
  <2> QED BY <1>1, <1>4, <2>1 DEF TapCompleteState
<1>5. CASE tap_to_click_state = "TapUp"
  <2>1. TapUp(in)
    BY <1>5 DEF Switch
  <2> QED BY <1>1, <1>5, <2>1 DEF TapUp
<1>6. CASE tap_to_click_state = "SubsequentTapBegan"
  <2>1. SubsequentTapBegan(in)
    BY <1>6 DEF Switch
  <2> QED BY <1>1, <1>6, <2>1 DEF SubsequentTapBegan, SecondTapHeld, SecondTapGoesOn, Records
<1>7. CASE tap_to_click_state = "Drag"
  <2>1. Drag(in)
    BY <1>7 DEF Switch
  <2> QED BY <1>1, <1>7, <2>1 DEF Drag, Records
<1>8. CASE tap_to_click_state = "DragRelease"
  <2>1. DragRelease(in)
    BY <1>8 DEF Switch
  <2> QED BY <1>1, <1>8, <2>1 DEF DragRelease
<1>9. CASE tap_to_click_state = "DragRetouch"
  <2>1. DragRetouch(in)
    BY <1>9 DEF Switch
  <2> QED BY <1>1, <1>9, <2>1 DEF DragRetouch, Records
<1> QED BY <1>2, <1>3, <1>4, <1>5, <1>6, <1>7, <1>8, <1>9 DEF TypeOK

(***************************************************************************)
(* The physical button                                                     *)
(***************************************************************************)
\* A click has a type from its evaluation to its up, and while it has one no tap is in
\* progress; so a tap's change never takes the place of one half of a click.
ButtonInv ==
  /\ buttons = None => button_type = None
  /\ button_type # None => /\ tap_to_click_state = "Idle"
                           /\ ZeroFingerClick \/ finger_seen
  /\ sent_button_down => button_type # None
  /\ ClicksFollowButton

\* What the button's part of a handler leaves behind.
Settled(event) ==
  /\ event \in Event
  /\ event.sent => event.type # None
  /\ event.type # None => ZeroFingerClick \/ event.seen
  /\ event.type = None => event.ask = NoTimer
  /\ Pressed(clicked, event.down, event.up) = IF event.sent THEN {event.type} ELSE {}

LEMMA ButtonUpdated ==
  ASSUME TypeOK, ButtonInv, NEW p, NEW b \in {None} \cup HwButtons,
         NEW event \in UpdateButtons(p, b)
  PROVE  Settled(event) /\ (b = None => event.type = None)
<1> DEFINE down_edge == b # None /\ buttons = None
           up_edge == b = None /\ buttons # None
           left == ButtonDeadline(down_edge)
           sent == sent_button_down /\ ~down_edge
           seen == (finger_seen /\ ~down_edge) \/ (left >= 0 /\ p # {})
<1>1. /\ ButtonTimeout \in Nat \ {0} /\ MaxLate \in Nat
      /\ wait \in -1..ButtonTimeout /\ sent_button_down \in BOOLEAN
      /\ finger_seen \in BOOLEAN /\ button_type \in Clicks \cup {None}
      /\ left \in -1..ButtonTimeout
  BY TimeoutsAssumption DEF TypeOK, ButtonDeadline
<1>2. NoTimer \in Int /\ \A t \in -1..ButtonTimeout : t \in Int /\ t >= NoTimer
  BY <1>1 DEF NoTimer
<1>3. None \notin Clicks /\ HwButtons \subseteq Clicks
  BY ButtonsAssumption DEF None, Clicks
<1>4. CASE b = None /\ buttons = None
  <2>1. event = NoButtonEvent /\ button_type = None
    BY <1>4 DEF UpdateButtons, ButtonInv
  <2> QED BY <1>1, <1>2, <1>3, <2>1
          DEF NoButtonEvent, Settled, Event, ButtonInv, ClicksFollowButton, Pressed
<1>5. CASE ~(b = None /\ buttons = None) /\ ~seen /\ ~ZeroFingerClick
  <2>1. event = [NoButtonEvent EXCEPT !.sent = sent, !.wait = left, !.seen = seen]
    BY <1>5 DEF UpdateButtons
  <2>2. button_type = None
    BY <1>5 DEF ButtonInv
  <2> HIDE DEF left, seen
  <2>3. event = [type |-> button_type, sent |-> sent, wait |-> left, seen |-> seen,
                 down |-> None, up |-> None, ask |-> NoTimer]
    BY <2>1 DEF NoButtonEvent
  <2>4. clicked = {} /\ sent = FALSE /\ seen = FALSE
    BY <1>5, <2>2 DEF ButtonInv, ClicksFollowButton, seen
  <2> HIDE DEF sent
  <2>5. event = [type |-> None, sent |-> FALSE, wait |-> left, seen |-> FALSE,
                 down |-> None, up |-> None, ask |-> NoTimer]
    BY <2>2, <2>3, <2>4
  <2> QED BY <1>1, <1>2, <2>4, <2>5 DEF Settled, Event, Pressed
<1>6. CASE ~(b = None /\ buttons = None) /\ (seen \/ ZeroFingerClick)
  <2>1. PICK type \in TypesFor(sent, p, b) :
          event = ButtonEvent(type, sent, left, seen, up_edge)
    BY <1>6 DEF UpdateButtons
  <2>2. type \in Clicks /\ (sent => type = button_type)
    <3>1. CASE sent
      BY <1>1, <3>1 DEF TypesFor, ButtonInv
    <3>2. CASE ~sent
      <4>1. FingersDecide(p) \cup ButtonDecides(p, b) \subseteq Clicks \cup {None}
        BY <1>3 DEF FingersDecide, ButtonDecides, Clicks
      <4>2. type \in EvaluateButtonType(p, b)
        BY <3>2 DEF TypesFor
      <4>3. "left" \in Clicks
        BY DEF Clicks
      <4> QED BY <3>2, <4>1, <4>2, <4>3 DEF EvaluateButtonType
    <3> QED BY <3>1, <3>2
  <2>3. clicked = IF sent_button_down THEN {button_type} ELSE {}
    BY DEF ButtonInv, ClicksFollowButton
  <2>4. sent = sent_button_down
    BY <1>1 DEF ButtonInv
  <2> DEFINE fire == ~sent /\ (left <= 0 \/ up_edge)
  <2>5. event = [type |-> IF up_edge THEN None ELSE type,
                 sent |-> (sent \/ fire) /\ ~up_edge,
                 wait |-> IF up_edge THEN -1 ELSE left,
                 seen |-> seen,
                 down |-> IF fire THEN type ELSE None,
                 up   |-> IF up_edge THEN type ELSE None,
                 ask  |-> AskedTimeout(sent \/ fire, left)]
    BY <2>1 DEF ButtonEvent
  <2>6. AskedTimeout(sent \/ fire, left) = IF sent \/ fire THEN NoTimer ELSE left
    BY DEF AskedTimeout
  <2>7. seen \in BOOLEAN /\ -1 \in -1..ButtonTimeout
    BY <1>1
  <2> HIDE DEF left, seen
  <2>8. event \in Event
    BY <1>1, <1>2, <2>2, <2>5, <2>6, <2>7 DEF Event
  <2>9. Pressed(clicked, event.down, event.up) = IF event.sent THEN {event.type} ELSE {}
    <3>1. CASE sent
      BY <1>3, <2>2, <2>3, <2>4, <2>5, <3>1 DEF Pressed
    <3>2. CASE ~sent
      BY <1>3, <2>2, <2>3, <2>4, <2>5, <3>2 DEF Pressed
    <3> QED BY <3>1, <3>2
  <2>10. /\ event.sent => event.type # None
         /\ event.type = None => event.ask = NoTimer
         /\ b = None => event.type = None
         /\ event.type # None => ZeroFingerClick \/ event.seen
    BY <1>3, <1>6, <2>2, <2>5, <2>6
  <2> QED BY <2>8, <2>9, <2>10 DEF Settled
<1> QED BY <1>4, <1>5, <1>6

LEMMA ButtonTimedOut ==
  ASSUME TypeOK, ButtonInv
  PROVE  /\ Settled(UpdateButtonsTimeout)
         /\ UpdateButtonsTimeout.type = button_type
         /\ UpdateButtonsTimeout.ask = NoTimer
<1>1. /\ wait \in -1..ButtonTimeout /\ sent_button_down \in BOOLEAN
      /\ finger_seen \in BOOLEAN /\ button_type \in Clicks \cup {None}
      /\ NoTimer \in Int
  BY TimeoutsAssumption DEF TypeOK, NoTimer
<1>2. None \notin Clicks
  BY DEF None, Clicks
<1>3. CASE sent_button_down \/ button_type = None
  <2>1. UpdateButtonsTimeout = NoButtonEvent
    BY <1>3 DEF UpdateButtonsTimeout
  <2> QED BY <1>1, <1>2, <2>1
          DEF NoButtonEvent, Settled, Event, ButtonInv, ClicksFollowButton, Pressed
<1>4. CASE ~(sent_button_down \/ button_type = None)
  <2>1. UpdateButtonsTimeout =
          [type |-> button_type, sent |-> TRUE, wait |-> wait, seen |-> finger_seen,
           down |-> button_type, up |-> None, ask |-> NoTimer]
    BY <1>4 DEF UpdateButtonsTimeout, NoButtonEvent
  <2> QED BY <1>1, <1>2, <1>4, <2>1
          DEF Settled, Event, ButtonInv, ClicksFollowButton, Pressed
<1> QED BY <1>3, <1>4

(***************************************************************************)
(* UpdateTapState                                                          *)
(***************************************************************************)
\* What ButtonsFollowTaps needs: a tap whose record was taken over still holds a button.
HeldInv ==
  /\ ButtonsFollowTaps
  /\ retouched => tapped # {}

LEMMA HeldIs ==
  ButtonsFollowTaps <=> (~retouched => tapped = Held(tap_to_click_state, tap_record))
BY DEF ButtonsFollowTaps, Held

\* The states an input may come in: a click with a type forces the tap to end, or its
\* timer finds no tap in progress.
Allowed(in) ==
  /\ Input(in) /\ Settled(in.event)
  /\ in.event.type # None => in.click \/ (tap_to_click_state = "Idle" /\ ~in.hw)

LEMMA PressedTypes ==
  ASSUME NEW held \in SUBSET Clicks, NEW down \in Clicks \cup {None}, NEW up
  PROVE  Pressed(held, down, up) \in SUBSET Clicks
BY DEF Pressed

LEMMA SendClickTypes ==
  ASSUME TypeOK, NEW event, Settled(event), SendClick(event)
  PROVE  /\ clicked' \subseteq Clicks
         /\ clicked' = IF event.sent THEN {event.type} ELSE {}
         /\ {result.down, result.up}' \subseteq Clicks \cup {None}
<1>1. /\ event.down \in Clicks \cup {None} /\ event.up \in Clicks \cup {None}
      /\ event.type \in Clicks \cup {None}
  BY DEF Settled, Event
<1>2. clicked' = IF event.sent THEN {event.type} ELSE {}
  BY DEF SendClick, Settled
<1> QED BY <1>1, <1>2 DEF SendClick, Settled

\* A step along one of the ways.
LEMMA WayKeeps ==
  ASSUME TypeOK, ButtonInv, HeldInv,
         NEW in, Allowed(in), ~in.click,
         NEW s, NEW record, NEW down, NEW up, Way(in, s, record, down, up)
  PROVE  /\ HeldInv'
         /\ clicked' = IF in.event.sent THEN {in.event.type} ELSE {}
         /\ in.event.type # None => tap_to_click_state' = "Idle"
         /\ tap_record' \in Record /\ tap_to_click_state' \in Ttc /\ age' \in 0..AgeCap
         /\ prev_scroll' \in BOOLEAN /\ retouched' \in BOOLEAN
         /\ timer' \in Int /\ timer' >= NoTimer
         /\ tapped' \subseteq Clicks /\ clicked' \subseteq Clicks
         /\ {result.down, result.up}' \subseteq Clicks \cup {None}
<1>1. /\ down \in Clicks \cup {None} /\ up \in Clicks \cup {None}
      /\ None \notin Clicks
  BY DEF Way, Holds, Clicks, None
<1>2. /\ tap_to_click_state' = s /\ tap_record' = record
      /\ age' = IF s = tap_to_click_state THEN age ELSE 0
      /\ Produce(in, down, up)
      /\ timer' = IF s \in Timed THEN TimeoutForTtcState(s) ELSE in.event.ask
  BY DEF Way, Step, SetTapToClickState
<1>3. /\ tapped' = Pressed(tapped, down, up)
      /\ retouched' = /\ tapped' # {}
                      /\ retouched \/ (tap_to_click_state = "TapUp" /\ in.added # {})
  BY <1>2 DEF Produce
<1>4. HeldInv'
  <2> DEFINE before == Held(tap_to_click_state, tap_record)
             after == Held(s, record)
  <2>1. ~retouched => tapped = before
    BY HeldIs DEF HeldInv
  <2>2. tapped \subseteq Clicks /\ (retouched => tapped # {}) /\ retouched \in BOOLEAN
    BY DEF TypeOK, HeldInv
  <2>3. Holds(in, s, record, down, up)
    BY DEF Way
  <2>4. ~retouched' => tapped' = after
    <3>1. CASE down = None /\ up = None
      <4>1. tapped' = tapped
        BY <1>1, <1>3, <2>2, <3>1 DEF Pressed
      <4>2. before = after \/ (tap_to_click_state = "TapUp" /\ s = "TapUp" /\ in.added # {})
        BY <1>1, <2>3, <3>1 DEF Holds
      <4>3. tap_to_click_state = "TapUp" => before # {}
        BY DEF Held
      <4> HIDE DEF before, after
      <4> QED BY <1>3, <2>1, <2>2, <4>1, <4>2, <4>3
    <3>2. CASE down \in Clicks /\ up = down
      <4>1. before = {} /\ after = {}
        BY <1>1, <2>3, <3>2 DEF Holds
      <4> HIDE DEF before, after
      <4> QED BY <1>1, <1>3, <2>1, <2>2, <3>2, <4>1 DEF Pressed
    <3>3. CASE down \in Clicks /\ up = None
      <4>1. before = {} /\ after = {down}
        BY <1>1, <2>3, <3>3 DEF Holds
      <4>2. tapped' = tapped \cup {down}
        BY <1>1, <1>3, <2>2, <3>3 DEF Pressed
      <4> HIDE DEF before, after
      <4> QED BY <1>3, <2>1, <2>2, <4>1, <4>2
    <3>4. CASE down = None /\ up \in Clicks
      <4>1. before = {up} /\ after = {}
        BY <1>1, <2>3, <3>4 DEF Holds
      <4> HIDE DEF before, after
      <4>2. tapped' = tapped \ {up}
        BY <1>1, <1>3, <3>4 DEF Pressed
      <4> QED BY <1>3, <2>1, <2>2, <4>1, <4>2
    <3> QED BY <2>3, <3>1, <3>2, <3>3, <3>4 DEF Holds
  <2>5. retouched' => tapped' # {}
    BY <1>3
  <2> QED BY <1>2, <2>4, <2>5, HeldIs DEF HeldInv, ButtonsFollowTaps, Held
<1>5. /\ clicked' = IF in.event.sent THEN {in.event.type} ELSE {}
      /\ clicked' \subseteq Clicks
      /\ {result.down, result.up}' \subseteq Clicks \cup {None}
  <2>1. CASE down = None /\ up = None
    <3>1. SendClick(in.event)
      BY <1>2, <2>1 DEF Produce
    <3> QED BY <3>1, SendClickTypes DEF Allowed
  <2>2. CASE ~(down = None /\ up = None)
    <3>1. clicked' = clicked /\ result' = [down |-> down, up |-> up]
      BY <1>2, <2>2 DEF Produce
    <3>2. tap_to_click_state # "Idle"
      BY <2>2 DEF Way, Begins
    <3>3. button_type = None /\ in.event.type = None
      BY <3>2 DEF ButtonInv, Allowed
    <3>4. clicked = {} /\ ~in.event.sent
      BY <3>3 DEF ButtonInv, ClicksFollowButton, Allowed, Settled
    <3> QED BY <1>1, <3>1, <3>4
  <2> QED BY <2>1, <2>2
<1>6. in.event.type # None => tap_to_click_state' = "Idle"
  <2> SUFFICES ASSUME in.event.type # None PROVE s = "Idle"
    BY <1>2
  <2>1. tap_to_click_state = "Idle" /\ ~in.hw
    BY DEF Allowed
  <2>2. s \in {"Idle", "FirstTapBegan"}
    BY <2>1 DEF Way, Begins
  <2>3. s \notin Waiting
    BY <2>1 DEF Way, KeepsUp, Waiting
  <2> QED BY <2>2, <2>3 DEF Waiting
<1>7. prev_scroll' \in BOOLEAN
  <2>1. \A i, c : MayScroll(i, c) \subseteq BOOLEAN
    BY DEF MayScroll
  <2>2. prev_scroll \in BOOLEAN
    BY DEF TypeOK
  <2> QED BY <1>2, <2>1, <2>2, Zenon DEF Produce
<1>8. timer' \in Int /\ timer' >= NoTimer
  <2>1. in.event.ask \in Int /\ in.event.ask >= NoTimer
    BY DEF Allowed, Settled, Event
  <2>2. TimeoutForTtcState(s) \in Nat
    BY Timeouts
  <2> QED BY <1>2, <2>1, <2>2, TimeoutsAssumption DEF NoTimer
<1>9. age' \in 0..AgeCap
  BY <1>2, TimeoutsAssumption DEF TypeOK
<1>10. tapped' \subseteq Clicks
  BY <1>1, <1>3, PressedTypes DEF TypeOK
<1>11. retouched' \in BOOLEAN
  BY <1>3
<1>12. tap_record' \in Record /\ tap_to_click_state' \in Ttc
  BY <1>2 DEF Way
<1> QED BY <1>4, <1>5, <1>6, <1>7, <1>8, <1>9, <1>10, <1>11, <1>12

(***************************************************************************)
(* What every handler keeps                                                *)
(***************************************************************************)
\* No finger that is dead is waited for; a released drag has an empty record.
DeadInv ==
  /\ DeadFingersDoNotTap
  /\ tap_to_click_state = "DragRelease" => tap_record = Cleared

TapInv == TypeOK /\ ButtonInv /\ HeldInv /\ DeadInv

\* The variables that a tap's part of a handler sets, and what it keeps about them.
TapPart(in) ==
  /\ HeldInv'
  /\ clicked' = IF in.event.sent THEN {in.event.type} ELSE {}
  /\ in.event.type # None => tap_to_click_state' = "Idle"
  /\ tap_record' \in Record /\ tap_to_click_state' \in Ttc /\ age' \in 0..AgeCap
  /\ prev_scroll' \in BOOLEAN /\ retouched' \in BOOLEAN
  /\ timer' \in Int /\ timer' >= NoTimer
  /\ tapped' \subseteq Clicks /\ clicked' \subseteq Clicks
  /\ {result.down, result.up}' \subseteq Clicks \cup {None}
  /\ KeepsUp(in, tap_to_click_state', tap_record')
  /\ tap_to_click_state' \notin Timed => timer' = in.event.ask

LEMMA ForcedKeeps ==
  ASSUME TypeOK, NEW in, Allowed(in), ForcedToIdle(in)
  PROVE  TapPart(in)
<1>1. /\ tap_to_click_state' = "Idle" /\ age' \in 0..AgeCap
      /\ tapped' = {} /\ retouched' = FALSE /\ timer' = in.event.ask
      /\ tap_record' = tap_record /\ tap_record \in Record
  BY TimeoutsAssumption DEF ForcedToIdle, SetTapToClickState, TypeOK
<1>2. HeldInv'
  BY <1>1 DEF HeldInv, ButtonsFollowTaps
<1>3. KeepsUp(in, tap_to_click_state', tap_record')
  BY <1>1 DEF KeepsUp, Waiting
<1>4. /\ clicked' \subseteq Clicks
      /\ clicked' = IF in.event.sent THEN {in.event.type} ELSE {}
      /\ {result.down, result.up}' \subseteq Clicks \cup {None}
  BY SendClickTypes DEF ForcedToIdle, Allowed
<1>5. timer' \in Int /\ timer' >= NoTimer
  BY <1>1 DEF Allowed, Settled, Event
<1>6. prev_scroll' \in BOOLEAN
  <2>1. \A i, c : MayScroll(i, c) \subseteq BOOLEAN
    BY DEF MayScroll
  <2> QED BY <2>1, Zenon DEF ForcedToIdle, TypeOK
<1> QED BY <1>1, <1>2, <1>3, <1>4, <1>5, <1>6 DEF TapPart, Ttc

LEMMA UpdateTapStateKeeps ==
  ASSUME TypeOK, ButtonInv, HeldInv, NEW in, Allowed(in), UpdateTapState(in)
  PROVE  TapPart(in)
<1>1. CASE ForcedToIdle(in)
  BY <1>1, ForcedKeeps
<1>2. CASE ~in.click /\ ~prev_scroll /\ Switch(in)
  <2>1. PICK s, record, down, up : Way(in, s, record, down, up)
    BY <1>2, SwitchWays DEF Allowed
  <2>2. /\ KeepsUp(in, s, record)
        /\ tap_to_click_state' = s /\ tap_record' = record
        /\ s \notin Timed => timer' = in.event.ask
    BY <2>1 DEF Way, Step, SetTapToClickState
  <2> QED BY <1>2, <2>1, <2>2, WayKeeps DEF TapPart
<1> QED BY <1>1, <1>2 DEF UpdateTapState

LEMMA PausedKeeps ==
  ASSUME TypeOK, HeldInv, DeadInv, NEW in, Allowed(in), Paused(in)
  PROVE  TapPart(in)
<1>1. /\ tap_to_click_state = "Idle" /\ tap_to_click_state' = "Idle"
      /\ age' = age /\ tapped' = tapped /\ retouched' = retouched
      /\ timer' = in.event.ask /\ tap_record' = tap_record
  BY DEF Paused, tap_vars
<1>2. HeldInv'
  BY <1>1 DEF HeldInv, ButtonsFollowTaps
<1>3. KeepsUp(in, tap_to_click_state', tap_record')
  BY <1>1 DEF KeepsUp, Waiting
<1>4. /\ clicked' \subseteq Clicks
      /\ clicked' = IF in.event.sent THEN {in.event.type} ELSE {}
      /\ {result.down, result.up}' \subseteq Clicks \cup {None}
  BY SendClickTypes DEF Paused, Allowed
<1>5. timer' \in Int /\ timer' >= NoTimer
  BY <1>1 DEF Allowed, Settled, Event
<1>6. prev_scroll' \in BOOLEAN
  <2>1. \A i, c : MayScroll(i, c) \subseteq BOOLEAN
    BY DEF MayScroll
  <2> QED BY <2>1, Zenon DEF Paused, TypeOK
<1> QED BY <1>1, <1>2, <1>3, <1>4, <1>5, <1>6 DEF TapPart, TypeOK

\* The fingers a record waits for after a hardware state.
LEMMA WaitedFor ==
  ASSUME TypeOK, DeadInv, NEW in, Input(in), in.hw, TapPart(in),
         tap_to_click_state' \in Waiting
  PROVE  \/ /\ tap_record'.touched \subseteq in.added
            /\ tap_record'.released = in.removed \cap tap_record'.touched
         \/ /\ tap_to_click_state \in Waiting
            /\ tap_record'.touched \subseteq (tap_record.touched \ in.dead) \cup in.added
            /\ tap_record'.released =
                 (tap_record.released \ in.dead) \cup (in.removed \cap tap_record'.touched)
<1>1. KeepsUp(in, tap_to_click_state', tap_record')
  BY DEF TapPart
<1>2. CASE tap_record' \in Updated(Cleared, in)
  BY <1>2, ClearedType, UpdatedRecord DEF Cleared
<1>3. CASE /\ tap_record' \in Updated(tap_record, in)
           /\ tap_to_click_state \in Waiting
  BY <1>3, UpdatedRecord DEF TypeOK
<1>4. CASE /\ tap_record' \in Updated(tap_record, in)
           /\ tap_to_click_state = "DragRelease"
  BY <1>2, <1>4 DEF DeadInv
<1> QED BY <1>1, <1>2, <1>3, <1>4 DEF KeepsUp

\* A handler keeps the tap's invariant if its tap's part does and it has set what the
\* button's part says.
LEMMA HandlerKeeps ==
  ASSUME TapInv, NEW in, Allowed(in), TapPart(in), SetButton(in.event),
         pad' \in SUBSET Fingers, prev_tap_gs_fingers' \in SUBSET Fingers,
         tap_dead_fingers' \in SUBSET Fingers, buttons' \in HwButtons \cup {None},
         buttons' = None => in.event.type = None,
         DeadFingersDoNotTap'
  PROVE  TapInv'
<1>1. /\ button_type' = in.event.type /\ sent_button_down' = in.event.sent
      /\ wait' = in.event.wait /\ finger_seen' = in.event.seen
  BY DEF SetButton
<1>2. /\ in.event.type \in Clicks \cup {None} /\ in.event.sent \in BOOLEAN
      /\ in.event.wait \in -1..ButtonTimeout /\ in.event.seen \in BOOLEAN
      /\ in.event.sent => in.event.type # None
      /\ in.event.type # None => ZeroFingerClick \/ in.event.seen
  BY DEF Allowed, Settled, Event
<1>3. TypeOK'
  BY <1>1, <1>2 DEF TapPart, TypeOK
<1>4. ButtonInv'
  BY <1>1, <1>2 DEF TapPart, ButtonInv, ClicksFollowButton
<1>5. DeadInv'
  BY DEF TapPart, KeepsUp, DeadInv, TapInv
<1> QED BY <1>3, <1>4, <1>5 DEF TapInv, TapPart

\* What a hardware state hands to the tap's part.
Synced(p, gs, in) ==
  /\ Allowed(in) /\ in.hw /\ in.pad = p
  /\ p \in Pads /\ gs \subseteq p
  /\ in.removed = (prev_tap_gs_fingers \ gs) \ p
  /\ in.dead = (prev_tap_gs_fingers \ gs) \cap p
  /\ pad' = p
  /\ SetButton(in.event)
  /\ buttons' \in HwButtons \cup {None}
  /\ buttons' = None => in.event.type = None
  /\ \/ Paused(in)
     \/ /\ prev_tap_gs_fingers' = gs
        /\ tap_dead_fingers' = TapDeadFingers(p, in.click)
        /\ in.added \subseteq Added(gs, tap_dead_fingers')
        /\ UpdateTapState(in)

LEMMA SyncInput ==
  ASSUME TapInv, SyncInterpret
  PROVE  \E p, gs, in : Synced(p, gs, in)
<1>1. PICK p \in Pads, b \in {None} \cup HwButtons :
        \E gs \in SUBSET p, event \in UpdateButtons(p, b) :
          LET click == PhysClickInProgress(b, event)
              dead  == TapDeadFingers(p, click)
          IN \E in \in Changes(p, gs, dead, event, click) :
               /\ pad' = p
               /\ buttons' = b
               /\ SetButton(event)
               /\ \/ Paused(in)
                  \/ /\ prev_tap_gs_fingers' = gs
                     /\ tap_dead_fingers' = dead
                     /\ UpdateTapState(in)
  BY DEF SyncInterpret
<1>2. PICK gs \in SUBSET p, event \in UpdateButtons(p, b) :
          \E in \in Changes(p, gs, TapDeadFingers(p, PhysClickInProgress(b, event)), event,
                            PhysClickInProgress(b, event)) :
               /\ pad' = p
               /\ buttons' = b
               /\ SetButton(event)
               /\ \/ Paused(in)
                  \/ /\ prev_tap_gs_fingers' = gs
                     /\ tap_dead_fingers' = TapDeadFingers(p, PhysClickInProgress(b, event))
                     /\ UpdateTapState(in)
  BY <1>1
<1> DEFINE click == PhysClickInProgress(b, event)
           dead  == TapDeadFingers(p, click)
<1>3. PICK in \in Changes(p, gs, dead, event, click) :
               /\ pad' = p
               /\ buttons' = b
               /\ SetButton(event)
               /\ \/ Paused(in)
                  \/ /\ prev_tap_gs_fingers' = gs
                     /\ tap_dead_fingers' = dead
                     /\ UpdateTapState(in)
  BY <1>2
<1>4. Settled(event) /\ (b = None => event.type = None)
  BY ButtonUpdated DEF TapInv
<1>5. PICK added \in SUBSET Added(gs, dead) :
        in = [hw |-> TRUE, pad |-> p, gs |-> gs, added |-> added,
              removed |-> (prev_tap_gs_fingers \ gs) \ p,
              dead |-> (prev_tap_gs_fingers \ gs) \cap p, event |-> event, click |-> click]
  BY <1>3 DEF Changes
<1> HIDE DEF click, dead
<1>6. /\ in.hw = TRUE /\ in.pad = p /\ in.added = added /\ in.event = event
      /\ in.click = click
      /\ in.removed = (prev_tap_gs_fingers \ gs) \ p
      /\ in.dead = (prev_tap_gs_fingers \ gs) \cap p
  BY <1>5
<1>7. p \in SUBSET Fingers /\ prev_tap_gs_fingers \in SUBSET Fingers
  BY DEF Pads, TapInv, TypeOK
<1>8. added \in SUBSET Fingers
  BY <1>7 DEF Added
<1>9. click \in BOOLEAN /\ (event.type # None => click)
  <2>1. event.seen \in BOOLEAN /\ ZeroFingerClick \in BOOLEAN
    BY <1>4, SwitchesAssumption DEF Settled, Event
  <2> QED BY <1>4, <2>1 DEF click, PhysClickInProgress, Settled
<1>10. Input(in)
  <2>1. in.removed \in SUBSET Fingers /\ in.dead \in SUBSET Fingers
    BY <1>6, <1>7
  <2> QED BY <1>4, <1>6, <1>7, <1>8, <1>9, <2>1 DEF Input, Settled
<1>11. Allowed(in)
  BY <1>4, <1>6, <1>9, <1>10 DEF Allowed
<1>12. \/ Paused(in)
       \/ /\ prev_tap_gs_fingers' = gs
          /\ tap_dead_fingers' = TapDeadFingers(p, in.click)
          /\ in.added \subseteq Added(gs, tap_dead_fingers')
          /\ UpdateTapState(in)
  BY <1>3, <1>6 DEF dead
<1> QED BY <1>3, <1>4, <1>6, <1>11, <1>12 DEF Synced

LEMMA SyncedTapPart ==
  ASSUME TapInv, NEW p, NEW gs, NEW in, Synced(p, gs, in)
  PROVE  TapPart(in)
BY UpdateTapStateKeeps, PausedKeeps DEF Synced, TapInv

\* SyncInterpret keeps the tap's invariant.
LEMMA SyncKeeps ==
  ASSUME TapInv, NEW p, NEW gs, NEW in, Synced(p, gs, in)
  PROVE  TapInv'
<1>1. TapPart(in)
  BY SyncedTapPart
<1>2. /\ p \in SUBSET Fingers /\ pad' = p
      /\ prev_tap_gs_fingers' \in SUBSET Fingers /\ tap_dead_fingers' \in SUBSET Fingers
  BY DEF Synced, Pads, TapInv, TypeOK, TapDeadFingers, Paused, tap_vars
<1>3. DeadFingersDoNotTap'
  <2> SUFFICES ASSUME tap_to_click_state' \in Waiting, NEW f \in tap_record'.touched,
                      f \notin tap_record'.released, f \in tap_dead_fingers'
               PROVE  FALSE
    BY DEF DeadFingersDoNotTap
  <2>1. ~Paused(in)
    BY DEF Paused, Waiting, tap_vars
  <2>2. /\ UpdateTapState(in)
        /\ tap_dead_fingers' = TapDeadFingers(p, in.click)
        /\ in.added \cap tap_dead_fingers' = {}
    BY <2>1 DEF Synced, Added
  <2>3. ~in.click
    BY <2>2 DEF UpdateTapState, ForcedToIdle, SetTapToClickState, Waiting
  <2>4. f \in tap_dead_fingers
    BY <2>2, <2>3 DEF TapDeadFingers
  <2>5. Input(in) /\ in.hw
    BY DEF Synced, Allowed
  <2>6. f \notin in.added
    BY <2>2
  <2>7. /\ tap_to_click_state \in Waiting
        /\ f \in tap_record.touched \ in.dead
        /\ f \notin tap_record.released \ in.dead
    BY <1>1, <2>5, <2>6, WaitedFor DEF TapInv
  <2> QED BY <2>4, <2>7 DEF TapInv, DeadInv, DeadFingersDoNotTap
<1> QED BY <1>1, <1>2, <1>3, HandlerKeeps DEF Synced

\* HandleTimer keeps the tap's invariant, whenever it is called.
LEMMA TimerKeeps ==
  ASSUME TapInv, HandleTimer
  PROVE  /\ TapInv'
         /\ tap_to_click_state' \in Waiting => tap_to_click_state \in Waiting
<1> DEFINE in == [hw |-> FALSE, pad |-> pad, gs |-> {}, added |-> {}, removed |-> {},
                  dead |-> {}, event |-> UpdateButtonsTimeout, click |-> FALSE]
<1>1. /\ UNCHANGED <<pad, buttons>>
      /\ SetButton(UpdateButtonsTimeout)
      /\ \/ Paused(in)
         \/ /\ prev_tap_gs_fingers' = {}
            /\ UNCHANGED tap_dead_fingers
            /\ UpdateTapState(in)
  BY DEF HandleTimer
<1>2. Settled(UpdateButtonsTimeout) /\ UpdateButtonsTimeout.type = button_type
  BY ButtonTimedOut DEF TapInv
<1>3. /\ in.hw = FALSE /\ in.pad = pad /\ in.added = {} /\ in.removed = {} /\ in.dead = {}
      /\ in.event = UpdateButtonsTimeout /\ in.click = FALSE
  OBVIOUS
<1> HIDE DEF in
<1>4. Input(in)
  BY <1>2, <1>3 DEF Input, Settled, TapInv, TypeOK
<1>5. Allowed(in)
  BY <1>2, <1>3, <1>4 DEF Allowed, TapInv, ButtonInv
<1>6. TapPart(in)
  BY <1>1, <1>5, UpdateTapStateKeeps, PausedKeeps DEF TapInv
<1>7. /\ pad' \in SUBSET Fingers /\ prev_tap_gs_fingers' \in SUBSET Fingers
      /\ tap_dead_fingers' = tap_dead_fingers /\ buttons' = buttons
      /\ tap_dead_fingers \in SUBSET Fingers /\ buttons \in HwButtons \cup {None}
  BY <1>1 DEF Paused, tap_vars, TapInv, TypeOK
<1>8. tap_to_click_state' \in Waiting =>
        tap_record' = tap_record /\ tap_to_click_state \in Waiting
  BY <1>3, <1>6 DEF TapPart, KeepsUp
<1>9. DeadFingersDoNotTap'
  BY <1>7, <1>8 DEF DeadFingersDoNotTap, TapInv, DeadInv
<1>10. buttons' = None => in.event.type = None
  BY <1>2, <1>3, <1>7 DEF TapInv, ButtonInv
<1> QED BY <1>1, <1>3, <1>5, <1>6, <1>7, <1>8, <1>9, <1>10, HandlerKeeps

LEMMA TickKeeps ==
  ASSUME TapInv, Tick
  PROVE  TapInv'
<1>1. TypeOK'
  <2>1. /\ AgeCap \in Nat /\ MaxLate \in Nat /\ ButtonTimeout \in Nat
        /\ timer \in Int /\ timer >= NoTimer
        /\ age \in 0..AgeCap /\ wait \in -1..ButtonTimeout
    BY TimeoutsAssumption DEF TapInv, TypeOK
  <2>2. timer' \in Int /\ timer' >= NoTimer
    BY <2>1 DEF Tick, NoTimer
  <2>3. age' \in 0..AgeCap /\ wait' \in -1..ButtonTimeout
    BY <2>1 DEF Tick
  <2>4. {result.down, result.up}' \subseteq {None}
    BY DEF Tick, NoChange
  <2> QED BY <2>2, <2>3, <2>4 DEF TapInv, TypeOK, Tick
<1>2. ButtonInv'
  BY DEF TapInv, ButtonInv, ClicksFollowButton, Tick
<1>3. HeldInv'
  BY DEF TapInv, HeldInv, ButtonsFollowTaps, Tick, TapType
<1>4. DeadInv'
  BY DEF TapInv, DeadInv, DeadFingersDoNotTap, Tick
<1> QED BY <1>1, <1>2, <1>3, <1>4 DEF TapInv

LEMMA InitTap == Init => TapInv
<1> SUFFICES ASSUME Init PROVE TapInv
  OBVIOUS
<1>1. /\ AgeCap \in 0..AgeCap /\ -1 \in -1..ButtonTimeout
      /\ NoTimer \in Int /\ NoTimer >= NoTimer
  BY TimeoutsAssumption DEF NoTimer
<1>2. TypeOK
  BY <1>1, ClearedType DEF Init, TypeOK, Ttc, NoChange
<1>3. ButtonInv /\ HeldInv /\ DeadInv
  BY DEF Init, ButtonInv, ClicksFollowButton, HeldInv, ButtonsFollowTaps, DeadInv,
         DeadFingersDoNotTap, Waiting, None
<1> QED BY <1>2, <1>3 DEF TapInv

LEMMA StutterTap == TapInv /\ UNCHANGED vars => TapInv'
BY DEF vars, tap_vars, button_vars, TapInv, TypeOK, ButtonInv, HeldInv, DeadInv,
       ClicksFollowButton, ButtonsFollowTaps, DeadFingersDoNotTap, TapType

(***************************************************************************)
(* The buttons, under either specification                                 *)
(***************************************************************************)
\* SyncInterpret and HandleTimer keep the tap's invariant.
LEMMA HandlersKeep ==
  ASSUME TapInv, SyncInterpret \/ HandleTimer
  PROVE  TapInv'
BY SyncInput, SyncKeeps, TimerKeeps

LEMMA TapInvariant == Spec => []TapInv
<1>1. TapInv /\ [Next]_vars => TapInv'
  BY HandlersKeep, TickKeeps, StutterTap DEF Next, HostCallsBack
<1> QED BY <1>1, InitTap, PTL DEF Spec

LEMMA FlingTapInvariant == FlingSpec => []TapInv
<1>1. FlingInit => TapInv
  BY InitTap DEF FlingInit
<1>2. TapInv /\ [FlingNext]_all_vars => TapInv'
  BY HandlersKeep, TickKeeps, StutterTap
     DEF FlingNext, FlingSyncInterpret, FlingHandleTimer, FlingTick, all_vars
<1> QED BY <1>1, <1>2, PTL DEF FlingSpec

\* Every variable keeps its type, and the button's deadline never runs longer than its
\* timeout: also when the fling filter calls back at times nobody asked for.
THEOREM TapTypesKept == (Spec => []TypeOK) /\ (FlingSpec => []TypeOK)
<1>1. TapInv => TypeOK
  BY DEF TapInv
<1> QED BY <1>1, TapInvariant, FlingTapInvariant, PTL

\* A tap holds down the button the diagram of UpdateTapState says, and it is the one the
\* record would lift again.
THEOREM TapsHoldTheirButtons ==
  (Spec => []ButtonsFollowTaps) /\ (FlingSpec => []ButtonsFollowTaps)
<1>1. TapInv => ButtonsFollowTaps
  BY DEF TapInv, HeldInv
<1> QED BY <1>1, TapInvariant, FlingTapInvariant, PTL

\* A physical click is paired for the listener: no tap replaces one half of it.
THEOREM ClicksArePaired ==
  (Spec => []ClicksFollowButton) /\ (FlingSpec => []ClicksFollowButton)
<1>1. TapInv => ClicksFollowButton
  BY DEF TapInv, ButtonInv
<1> QED BY <1>1, TapInvariant, FlingTapInvariant, PTL

\* No tap waits for a finger that a physical click has made dead.
THEOREM NoTapWaitsForDeadFingers ==
  (Spec => []DeadFingersDoNotTap) /\ (FlingSpec => []DeadFingersDoNotTap)
<1>1. TapInv => DeadFingersDoNotTap
  BY DEF TapInv, DeadInv
<1> QED BY <1>1, TapInvariant, FlingTapInvariant, PTL

(***************************************************************************)
(* A host that calls back only when it was asked                           *)
(***************************************************************************)
\* What LiftedAreReleased needs: while a tap waits for its fingers no callback can
\* come and clear prev_tap_gs_fingers_, so UpdateTapState sees each of them leave.
LiftInv ==
  tap_to_click_state \in Waiting =>
    /\ timer = NoTimer
    /\ tap_record.touched \cap pad \subseteq prev_tap_gs_fingers
    /\ tap_record.touched \ pad \subseteq tap_record.released

LEMMA SyncLifts ==
  ASSUME TapInv, LiftInv, NEW p, NEW gs, NEW in, Synced(p, gs, in)
  PROVE  LiftInv'
<1> SUFFICES ASSUME tap_to_click_state' \in Waiting
             PROVE  /\ timer' = NoTimer
                    /\ \A f \in tap_record'.touched :
                         /\ f \in pad' => f \in prev_tap_gs_fingers'
                         /\ f \notin pad' => f \in tap_record'.released
  BY DEF LiftInv
<1>1. TapPart(in)
  BY SyncedTapPart
<1>2. ~Paused(in)
  BY DEF Paused, Waiting, tap_vars
<1>3. /\ prev_tap_gs_fingers' = gs /\ pad' = p /\ gs \subseteq p
      /\ in.added \subseteq gs
      /\ in.removed = (prev_tap_gs_fingers \ gs) \ p
      /\ in.dead = (prev_tap_gs_fingers \ gs) \cap p
      /\ Input(in) /\ in.hw
  BY <1>2 DEF Synced, Allowed, Added
<1>4. timer' = NoTimer
  <2>1. tap_to_click_state' \notin Timed /\ tap_to_click_state' # "Idle"
    BY DEF Waiting, Timed
  <2> QED BY <1>1, <2>1 DEF TapPart, Synced, Allowed, Settled
<1>5. \/ tap_record'.touched \subseteq in.added
      \/ /\ tap_to_click_state \in Waiting
         /\ tap_record'.touched \subseteq (tap_record.touched \ in.dead) \cup in.added
         /\ tap_record'.released =
              (tap_record.released \ in.dead) \cup (in.removed \cap tap_record'.touched)
  BY <1>1, <1>3, WaitedFor DEF TapInv
<1>6. ASSUME NEW f \in tap_record'.touched
      PROVE  /\ f \in p => f \in gs
             /\ f \notin p => f \in tap_record'.released
  <2>1. CASE f \in in.added
    BY <1>3, <2>1
  <2>2. CASE f \notin in.added
    <3>1. /\ tap_to_click_state \in Waiting
          /\ f \in tap_record.touched /\ f \notin in.dead
          /\ tap_record'.released =
               (tap_record.released \ in.dead) \cup (in.removed \cap tap_record'.touched)
      BY <1>5, <2>2
    <3>2. CASE f \in p
      <4>1. f \in pad
        BY <3>1, <3>2 DEF Synced, Pads, Remembered
      <4>2. f \in prev_tap_gs_fingers
        BY <3>1, <4>1 DEF LiftInv
      <4> QED BY <1>3, <3>1, <3>2, <4>2
    <3>3. CASE f \notin p /\ f \in pad
      <4>1. f \in prev_tap_gs_fingers
        BY <3>1, <3>3 DEF LiftInv
      <4> QED BY <1>3, <3>1, <3>3, <4>1
    <3>4. CASE f \notin p /\ f \notin pad
      BY <3>1, <3>4 DEF LiftInv
    <3> QED BY <3>2, <3>3, <3>4
  <2> QED BY <2>1, <2>2
<1> QED BY <1>3, <1>4, <1>6

LEMMA LiftInvariant == Spec => []LiftInv
<1>1. Init => LiftInv
  BY DEF Init, LiftInv, Waiting
<1>2. TapInv /\ LiftInv /\ [Next]_vars => LiftInv'
  <2> SUFFICES ASSUME TapInv, LiftInv, [Next]_vars PROVE LiftInv'
    OBVIOUS
  <2>1. CASE SyncInterpret
    BY <2>1, SyncInput, SyncLifts
  <2>2. CASE HostCallsBack
    <3>1. tap_to_click_state \notin Waiting
      BY <2>2 DEF HostCallsBack, CallbackDue, LiftInv
    <3> QED BY <2>2, <3>1, TimerKeeps DEF HostCallsBack, LiftInv
  <2>3. CASE Tick
    BY <2>3 DEF Tick, LiftInv
  <2>4. CASE UNCHANGED vars
    BY <2>4 DEF vars, tap_vars, button_vars, LiftInv
  <2> QED BY <2>1, <2>2, <2>3, <2>4 DEF Next
<1> QED BY <1>1, <1>2, TapInvariant, PTL DEF Spec

\* A tap waits for no finger that has left the pad: it would never complete.
THEOREM NoTapWaitsForLiftedFingers == Spec => []LiftedAreReleased
<1>1. LiftInv => LiftedAreReleased
  BY DEF LiftInv, LiftedAreReleased
<1> QED BY <1>1, LiftInvariant, PTL

(***************************************************************************)
(* The callbacks of FlingToScroll                                          *)
(***************************************************************************)
\* The host is asked for the earlier of the two callbacks, and time does not run past
\* one that is due.
CallbackInv ==
  /\ host_timer \in Int /\ host_timer >= NoTimer
  /\ in_fling \in BOOLEAN
  /\ in_fling => host_timer # NoTimer /\ host_timer <= ScrollTimeout
  /\ NextTimerKept

LEMMA Finished ==
  ASSUME TypeOK', NEW after, after.in_fling \in BOOLEAN, Finish(after)
  PROVE  CallbackInv'
<1>1. /\ timer' \in Int /\ timer' >= NoTimer /\ NoTimer \in Int /\ NoTimer < 0
      /\ ScrollTimeout \in Nat
  BY FlingAssumption, TimeoutsAssumption DEF TypeOK, NoTimer
<1>2. /\ in_fling' = after.in_fling
      /\ host_timer' = IF after.in_fling /\ (timer' = NoTimer \/ timer' > ScrollTimeout)
                       THEN ScrollTimeout ELSE timer'
  BY DEF Finish, UpdateTimeouts
<1> QED BY <1>1, <1>2 DEF CallbackInv, NextTimerKept

LEMMA ConsumedFling ==
  ASSUME NEW g, NEW fling \in BOOLEAN, NEW two, NEW since,
         NEW after \in Consumed(g, fling, two, since)
  PROVE  after.in_fling \in BOOLEAN
<1> DEFINE Same == [in_fling |-> fling, two |-> two, since |-> since, curve |-> curve]
           Over == [Same EXCEPT !.in_fling = FALSE]
           Flings == [in_fling : {TRUE}, two : {Unset}, since : 0..ScrollTimeout,
                      curve : 0..MaxCurve]
<1>1. after \in {Same, Over} \cup Flings
  <2>1. CASE ~FlingToScrollEnabled
    BY <2>1 DEF Consumed
  <2>2. CASE FlingToScrollEnabled /\ g = "fling"
    BY <2>2 DEF Consumed
  <2>3. CASE FlingToScrollEnabled /\ g # "fling"
    BY <2>3 DEF Consumed
  <2> QED BY <2>1, <2>2, <2>3
<1>2. Same.in_fling \in BOOLEAN /\ Over.in_fling \in BOOLEAN
  OBVIOUS
<1>3. \A f \in Flings : f.in_fling \in BOOLEAN
  OBVIOUS
<1> QED BY <1>1, <1>2, <1>3

LEMMA CallbackInvariant == FlingSpec => [](TapInv /\ CallbackInv)
<1>1. FlingInit => CallbackInv
  <2>1. NoTimer \in Int /\ NoTimer >= NoTimer
    BY TimeoutsAssumption DEF NoTimer
  <2>2. FlingInit => host_timer = NoTimer /\ timer = NoTimer /\ in_fling = FALSE
    BY DEF FlingInit, Init
  <2> QED BY <2>1, <2>2 DEF CallbackInv, NextTimerKept
<1>2. TapInv /\ TapInv' /\ CallbackInv /\ [FlingNext]_all_vars => CallbackInv'
  <2> SUFFICES ASSUME TapInv, TapInv', CallbackInv, [FlingNext]_all_vars
               PROVE  CallbackInv'
    OBVIOUS
  <2>1. TypeOK' /\ in_fling \in BOOLEAN
    BY DEF TapInv, CallbackInv
  <2>2. CASE FlingSyncInterpret
    <3> DEFINE fling == in_fling /\ ~TwoFingersStop(pad')
    <3>1. PICK g \in GestureOf(ButtonsChanged, prev_scroll') :
            \E after \in Consumed(g, StillFlinging(fling), TwoFingers(pad'),
                                  SinceScroll(fling)) : Finish(after)
      BY <2>2 DEF FlingSyncInterpret
    <3>2. StillFlinging(fling) \in BOOLEAN
      BY <2>1 DEF StillFlinging
    <3> HIDE DEF fling
    <3> QED BY <2>1, <3>1, <3>2, ConsumedFling, Finished
  <2>3. CASE FlingHandleTimer
    <3>1. PICK g : \E after \in Consumed(g, StillFlinging(in_fling), two_fingers,
                                         SinceScroll(in_fling)) : Finish(after)
      BY <2>3 DEF FlingHandleTimer
    <3>2. StillFlinging(in_fling) \in BOOLEAN
      BY <2>1 DEF StillFlinging
    <3> QED BY <2>1, <3>1, <3>2, ConsumedFling, Finished
  <2>4. CASE FlingTick
    <3>1. /\ MaxLate \in Nat /\ timer \in Int /\ timer >= NoTimer
          /\ NoTimer = -1 - MaxLate /\ ScrollTimeout \in Nat
      BY TimeoutsAssumption, FlingAssumption DEF TapInv, TypeOK, NoTimer
    <3>2. /\ host_timer # -MaxLate /\ timer # -MaxLate /\ in_fling' = in_fling
          /\ timer' = IF timer = NoTimer THEN NoTimer ELSE timer - 1
          /\ host_timer' = IF host_timer = NoTimer THEN NoTimer ELSE host_timer - 1
      BY <2>4 DEF FlingTick, Tick
    <3> QED BY <3>1, <3>2 DEF CallbackInv, NextTimerKept
  <2>5. CASE UNCHANGED all_vars
    BY <2>5 DEF all_vars, fling_vars, vars, CallbackInv, NextTimerKept
  <2> QED BY <2>2, <2>3, <2>4, <2>5 DEF FlingNext
<1> QED BY <1>1, <1>2, FlingTapInvariant, PTL DEF FlingSpec

\* While a fling goes on the host has been asked to call back within scroll_timeout_.
THEOREM FlingsKeepRunning == FlingSpec => []FlingKeepsRunning
<1>1. CallbackInv => FlingKeepsRunning
  BY FlingAssumption, TimeoutsAssumption DEF CallbackInv, FlingKeepsRunning, NoTimer
<1> QED BY <1>1, CallbackInvariant, PTL

\* The callback next_ asked for is neither lost nor put off.
THEOREM NextTimersKept == FlingSpec => []NextTimerKept
<1>1. CallbackInv => NextTimerKept
  BY DEF CallbackInv
<1> QED BY <1>1, CallbackInvariant, PTL

=============================================================================
