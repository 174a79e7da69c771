----------------------------- MODULE FlingStop -----------------------------
(***************************************************************************)
(* The filter that stops a fling when fingers arrive on the pad            *)
(* (src/src/fling_stop_filter_interpreter.cc).  A new finger sets a        *)
(* deadline.  Until then a scroll or a button change stops the fling by    *)
(* the way; at the deadline the filter sends a stop of its own.  Its       *)
(* deadline and next_'s share the one timeout it may ask its caller for.   *)
(*                                                                         *)
(* Deadlines are ticks left, negative once passed.  The caller is the      *)
(* lookahead filter: an answer replaces what was asked for before, and it  *)
(* never calls early.  What next_ produces and asks for is arbitrary, but  *)
(* that it flings only after it has scrolled.                              *)
(***************************************************************************)
EXTENDS Integers, FiniteSets

CONSTANTS
  Fingers,              \* tracking ids
  MaxFingers,           \* how many of them touch at once
  StopTimeout,          \* fling_stop_timeout_
  ExtraDelay,           \* fling_stop_extra_delay_
  NextTimeouts,         \* what next_ may ask for
  Unset,                \* 0.0 for a deadline, -1.0 for a timeout
  MaxLate               \* bound: how late the caller may be

ASSUME FingersAssumption == IsFiniteSet(Fingers) /\ MaxFingers \in Nat
ASSUME TimesAssumption ==
  /\ StopTimeout \in Nat /\ ExtraDelay \in Nat /\ MaxLate \in Nat
  /\ NextTimeouts \subseteq Nat

ASSUME UnsetAssumption == Unset \notin Int

Deadline == Int \cup {Unset}

VARIABLES
  already_extended,
  fingers_present_for_last_fling,
  fingers_of_last_hwstate,
  prev_touch_cnt,
  fling_stop_deadline,
  next_timer_deadline,
  timer,                \* ticks left to the callback asked for
  next_scrolled,        \* next_ has scrolled since its last fling
  waiting,              \* history: how the last fingers came that no stop has
                        \* followed: "more" than before, in place of "other", "none"
  stops                 \* history: stops since fingers last came, up to 2

vars == <<already_extended, fingers_present_for_last_fling,
          fingers_of_last_hwstate, prev_touch_cnt, fling_stop_deadline,
          next_timer_deadline, timer, next_scrolled, waiting, stops>>

-----------------------------------------------------------------------------
\* The part of the state gestures change: the deadline, the fling's fingers,
\* whether the deadline was extended, whether a fling may follow, and whether a
\* stop was sent in this call.
Fling == [deadline : Deadline, present : SUBSET Fingers, extended : BOOLEAN,
          scrolled : BOOLEAN, sent : BOOLEAN]

Stop(fl) == [fl EXCEPT !.deadline = Unset, !.sent = TRUE]

\* Of next_'s gestures a fling is what a scroll turns into when a finger leaves; a
\* scroll so short that not one of its gestures was sent is not considered.
Gestures(fl) ==
  {"none", "scroll", "buttons", "other"} \cup IF fl.scrolled THEN {"fling"} ELSE {}

\* A gesture of next_ on its way out: a scroll carries the stop, a stop is put in
\* before a button change.
ConsumeGesture(fl, g, fingers) ==
  LET noted ==
        IF g = "fling"
        THEN [fl EXCEPT !.present = fingers, !.extended = FALSE, !.scrolled = FALSE]
        ELSE [fl EXCEPT !.scrolled = @ \/ g = "scroll"]
  IN IF noted.deadline # Unset /\ g \in {"scroll", "buttons"} THEN Stop(noted)
     ELSE noted

\* next_ produces up to two gestures: FlingToScroll one of its own and one of the
\* immediate interpreter's.
Outcomes(fl, fingers) ==
  LET After(fls) ==
        UNION {{ConsumeGesture(f, g, fingers) : g \in Gestures(f)} : f \in fls}
  IN After(After({fl}))

\* Mutant: the fling's timeout alone.
OnlyOwnTimeout(deadline, next) ==
  IF deadline = Unset THEN next ELSE IF deadline > 0 THEN deadline ELSE 0

\* What SetNextDeadlineAndReturnTimeoutVal returns: the earlier one, from now on.
ReturnTimeoutVal(deadline, next) ==
  LET local == IF deadline > 0 THEN deadline ELSE 0
  IN IF deadline = Unset THEN next
     ELSE IF next = Unset \/ local < next THEN local ELSE next

\* The end of a handler.
Return(fl, next_timeout) ==
  /\ fling_stop_deadline' = fl.deadline
  /\ fingers_present_for_last_fling' = fl.present
  /\ already_extended' = fl.extended
  /\ next_scrolled' = fl.scrolled
  /\ next_timer_deadline' = next_timeout
  /\ timer' = ReturnTimeoutVal(fl.deadline, next_timeout)

-----------------------------------------------------------------------------
\* UpdateFlingStopDeadline
FingerAdded(fingers) == Cardinality(fingers) > prev_touch_cnt

\* Mutant: a deadline that is set already is put off.
RestartDeadline(fingers) ==
  IF StopTimeout > 0 /\ FingerAdded(fingers) THEN StopTimeout ELSE fling_stop_deadline

UpdateFlingStopDeadline(fingers) ==
  IF StopTimeout > 0 /\ FingerAdded(fingers) /\ fling_stop_deadline = Unset
  THEN StopTimeout ELSE fling_stop_deadline

\* The count is left as it was when a deadline is set.
UpdateTouchCnt(fingers) ==
  IF StopTimeout = 0 \/ (FingerAdded(fingers) /\ fling_stop_deadline = Unset)
  THEN prev_touch_cnt ELSE Cardinality(fingers)

NeedsExtraTime(fingers) ==
  Cardinality(fingers \ fingers_present_for_last_fling) >= 2

\* Mutant: every hardware state extends the deadline.
ExtendsAgain(fingers) == NeedsExtraTime(fingers)

Extends(fingers) == ~already_extended /\ NeedsExtraTime(fingers)

\* The deadline when next_ is called for a hardware state.
Arrival(fingers) ==
  LET deadline == UpdateFlingStopDeadline(fingers)
      extend == deadline # Unset /\ Extends(fingers)
      fl == [deadline |-> IF extend THEN deadline + ExtraDelay ELSE deadline,
             present |-> fingers_present_for_last_fling,
             extended |-> already_extended \/ extend,
             scrolled |-> next_scrolled, sent |-> FALSE]
  IN IF fl.deadline # Unset /\ fl.deadline < 0 THEN Stop(fl) ELSE fl

\* The history: how the fingers of a hardware state came, and the stops after it.
Came(fingers) ==
  IF Cardinality(fingers) > Cardinality(fingers_of_last_hwstate) THEN "more"
  ELSE IF fingers \subseteq fingers_of_last_hwstate THEN "none" ELSE "other"

Count(came, fl) ==
  LET before == IF came = "none" THEN stops ELSE 0
  IN /\ stops' = IF fl.sent /\ before < 2 THEN before + 1 ELSE before
     /\ waiting' = IF fl.sent THEN "none"
                   ELSE IF came = "none" \/ waiting = "more" THEN waiting ELSE came

\* Ids are new when a finger comes.
SyncInterpret ==
  \E fingers \in {f \in SUBSET Fingers : Cardinality(f) <= MaxFingers} :
    /\ fingers_of_last_hwstate' = fingers
    /\ prev_touch_cnt' = UpdateTouchCnt(fingers)
    /\ \E fl \in Outcomes(Arrival(fingers), fingers), t \in NextTimeouts \cup {Unset} :
         Return(fl, t) /\ Count(Came(fingers), fl)

Current == [deadline |-> fling_stop_deadline,
            present |-> fingers_present_for_last_fling,
            extended |-> already_extended, scrolled |-> next_scrolled,
            sent |-> FALSE]

\* Mutant: next_'s deadline goes first, whichever is earlier.
NextFirst == next_timer_deadline # Unset

\* Which of the two deadlines a callback is for; of two equal ones the fling's.
ForNext ==
  next_timer_deadline # Unset /\
  (fling_stop_deadline = Unset \/ fling_stop_deadline > next_timer_deadline)

\* The callback came before its deadline: nothing is done, nothing asked for.
SpuriousCallback ==
  /\ timer' = Unset
  /\ UNCHANGED <<already_extended, fingers_present_for_last_fling,
                 fling_stop_deadline, next_timer_deadline, next_scrolled,
                 waiting, stops>>

StopFling ==
  LET next == IF next_timer_deadline # Unset /\ next_timer_deadline < 0 THEN 0
              ELSE next_timer_deadline
  IN Return(Stop(Current), next) /\ Count("none", Stop(Current))

CallNext ==
  \E fl \in Outcomes(Current, fingers_of_last_hwstate),
     t \in NextTimeouts \cup {Unset} :
    Return(fl, t) /\ Count("none", fl)

Early(deadline) == deadline # Unset /\ deadline > 0

CallbackDue == timer # Unset /\ timer <= 0

HandleTimer ==
  /\ CallbackDue
  /\ UNCHANGED <<fingers_of_last_hwstate, prev_touch_cnt>>
  /\ IF ForNext
     THEN IF Early(next_timer_deadline) THEN SpuriousCallback ELSE CallNext
     ELSE IF Early(fling_stop_deadline) THEN SpuriousCallback ELSE StopFling

Later(t) == IF t = Unset THEN Unset ELSE t - 1

Tick ==
  /\ timer # -MaxLate
  /\ timer' = Later(timer)
  /\ fling_stop_deadline' = Later(fling_stop_deadline)
  /\ next_timer_deadline' = Later(next_timer_deadline)
  /\ UNCHANGED <<already_extended, fingers_present_for_last_fling,
                 fingers_of_last_hwstate, prev_touch_cnt, next_scrolled,
                 waiting, stops>>

Init ==
  /\ already_extended = FALSE
  /\ fingers_present_for_last_fling = {} /\ fingers_of_last_hwstate = {}
  /\ prev_touch_cnt = 0
  /\ fling_stop_deadline = Unset /\ next_timer_deadline = Unset
  /\ timer = Unset
  /\ next_scrolled = FALSE
  /\ waiting = "none" /\ stops = 0

Next == SyncInterpret \/ HandleTimer \/ Tick

\* Time passes and the caller does call back; fingers need not come.
Fairness == WF_vars(Tick) /\ WF_vars(HandleTimer)

Spec == Init /\ [][Next]_vars /\ Fairness

-----------------------------------------------------------------------------
\* Every field keeps its type.
TypeOK ==
  /\ already_extended \in BOOLEAN /\ next_scrolled \in BOOLEAN
  /\ fingers_present_for_last_fling \in SUBSET Fingers
  /\ fingers_of_last_hwstate \in SUBSET Fingers
  /\ prev_touch_cnt \in 0..MaxFingers
  /\ fling_stop_deadline \in Deadline
  /\ next_timer_deadline \in Deadline
  /\ timer \in Deadline
  /\ waiting \in {"none", "more", "other"}
  /\ stops \in 0..2

\* No deadline, the filter's or next_'s, is left without a callback in time: the
\* one timeout both share never loses or outruns one of them.
Asked(deadline) == deadline # Unset => timer # Unset /\ (timer <= deadline \/ timer <= 0)

DeadlinesAreAsked == Asked(fling_stop_deadline) /\ Asked(next_timer_deadline)

\* The two "Spurious callback" returns, which would lose the timer, are not taken.
NoSpuriousCallback ==
  CallbackDue => ~Early(IF ForNext THEN next_timer_deadline ELSE fling_stop_deadline)

\* A deadline is extended once for the fingers that came and once more at most,
\* when a fling ended meanwhile: no fling runs on for longer.
DeadlineIsClose ==
  fling_stop_deadline # Unset =>
    fling_stop_deadline <= StopTimeout + 2 * ExtraDelay

\* Fingers that join others, or an empty pad, stop a fling.
ArrivalStopsFling == StopTimeout > 0 => (waiting = "more" ~> waiting = "none")

\* "generates the fling-stop messages when new fingers arrive on the pad", also
\* for a finger that comes in the same hardware state as another one leaves.
NewFingersStopFlings == StopTimeout > 0 => (waiting # "none" ~> waiting = "none")

\* A stop is sent once for the fingers that came: prev_touch_cnt_ is the "touch_cnt
\* from previously input HardwareState".
OneStopPerArrival == stops <= 1
=============================================================================
