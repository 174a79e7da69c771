-------------------------- MODULE FlingStopProofs --------------------------
(***************************************************************************)
(* Proofs about FlingStop: the one timeout that two deadlines share serves *)
(* both, for any fingers, timeouts and lateness of the caller.             *)
(*                                                                         *)
(* The inductive invariant says that the callback asked for is neither too *)
(* late for any deadline (DeadlinesAreAsked) nor for nothing (ServesOne),  *)
(* from which follows that the callback is never one of the "spurious"     *)
(* ones that would lose the timer.  A second one bounds the deadline.      *)
(***************************************************************************)
EXTENDS FlingStop, FiniteSetTheorems, TLAPS

Serves(t, deadline) == deadline # Unset /\ deadline <= t

\* The callback asked for is not before the earlier of the two deadlines.
ServesOne ==
  timer # Unset =>
    Serves(timer, fling_stop_deadline) \/ Serves(timer, next_timer_deadline)

Deadlines ==
  /\ fling_stop_deadline \in Deadline
  /\ next_timer_deadline \in Deadline
  /\ timer \in Deadline

IInv == Deadlines /\ DeadlinesAreAsked /\ ServesOne

-----------------------------------------------------------------------------
\* The value returned for two deadlines is in time for each and serves one.
LEMMA ReturnedTimeout ==
  ASSUME NEW d \in Deadline, NEW n \in Deadline
  PROVE  LET t == ReturnTimeoutVal(d, n)
         IN /\ t \in Deadline
            /\ d # Unset => t # Unset /\ (t <= d \/ t <= 0)
            /\ n # Unset => t # Unset /\ (t <= n \/ t <= 0)
            /\ t # Unset => Serves(t, d) \/ Serves(t, n)
  BY UnsetAssumption DEF ReturnTimeoutVal, Deadline, Serves

\* Whatever gestures next_ produces, the deadline stays one or is unset.
LEMMA ConsumedDeadline ==
  ASSUME NEW fl \in Fling, NEW g, NEW fingers \in SUBSET Fingers
  PROVE  ConsumeGesture(fl, g, fingers) \in Fling
  BY DEF ConsumeGesture, Stop, Fling, Deadline

LEMMA OutcomeDeadline ==
  ASSUME NEW fl \in Fling, NEW fingers \in SUBSET Fingers,
         NEW out \in Outcomes(fl, fingers)
  PROVE  out \in Fling
  <1>1. PICK g, h : out = ConsumeGesture(ConsumeGesture(fl, g, fingers), h, fingers)
    BY DEF Outcomes
  <1> QED BY <1>1, ConsumedDeadline

\* So it does when fingers arrive, before next_ is called.
LEMMA ArrivingFling ==
  ASSUME NEW fingers \in SUBSET Fingers,
         fling_stop_deadline \in Deadline,
         fingers_present_for_last_fling \in SUBSET Fingers,
         already_extended \in BOOLEAN, next_scrolled \in BOOLEAN
  PROVE  Arrival(fingers) \in Fling
  <1> DEFINE d == UpdateFlingStopDeadline(fingers)
             extend == d # Unset /\ Extends(fingers)
             e == IF extend THEN d + ExtraDelay ELSE d
             fl == [deadline |-> e, present |-> fingers_present_for_last_fling,
                    extended |-> already_extended \/ extend,
                    scrolled |-> next_scrolled, sent |-> FALSE]
  <1>1. d \in Deadline
    BY TimesAssumption DEF UpdateFlingStopDeadline, Deadline
  <1>2. e \in Deadline
    <2> HIDE DEF d
    <2> QED BY <1>1, TimesAssumption DEF Deadline
  <1>3. (already_extended \/ extend) \in BOOLEAN
    <2> HIDE DEF extend
    <2> QED OBVIOUS
  <1>4. fl \in Fling
    <2> HIDE DEF e, extend
    <2> QED BY <1>2, <1>3 DEF Fling
  <1>5. Stop(fl) \in Fling
    <2> HIDE DEF fl
    <2> QED BY <1>4 DEF Stop, Fling, Deadline
  <1>6. Arrival(fingers) = IF fl.deadline # Unset /\ fl.deadline < 0 THEN Stop(fl) ELSE fl
    BY DEF Arrival
  <1> HIDE DEF fl
  <1> QED BY <1>4, <1>5, <1>6

\* Every handler that returns normally asks for what both deadlines need.
LEMMA Returning ==
  ASSUME NEW fl \in Fling, NEW t \in Deadline, Return(fl, t)
  PROVE  IInv'
  <1>1. fl.deadline \in Deadline
    BY DEF Fling
  <1> QED
    BY <1>1, ReturnedTimeout, UnsetAssumption
    DEF Return, IInv, Deadlines, DeadlinesAreAsked, Asked, ServesOne

-----------------------------------------------------------------------------
\* Every field keeps its type, whatever fingers come and next_ produces.
THEOREM Typing == Spec => []TypeOK
<1>1. Init => TypeOK
  <2>1. 0 \in 0..MaxFingers /\ 0 \in 0..2 /\ Unset \in Deadline
    BY FingersAssumption DEF Deadline
  <2>2. {} \in SUBSET Fingers
    OBVIOUS
  <2> QED BY <2>1, <2>2 DEF Init, TypeOK
<1>2. TypeOK /\ [Next]_vars => TypeOK'
  <2> SUFFICES ASSUME TypeOK, [Next]_vars PROVE TypeOK'
    OBVIOUS
  <2> USE DEF TypeOK
  <2>0. Current \in Fling
    BY DEF Current, Fling
  <2>1. ASSUME NEW came, NEW fl \in Fling, NEW t \in Deadline,
               Return(fl, t), Count(came, fl), came \in {"none", "more", "other"}
        PROVE  /\ already_extended' \in BOOLEAN /\ next_scrolled' \in BOOLEAN
               /\ fingers_present_for_last_fling' \in SUBSET Fingers
               /\ fling_stop_deadline' \in Deadline
               /\ next_timer_deadline' \in Deadline
               /\ timer' \in Deadline
               /\ waiting' \in {"none", "more", "other"}
               /\ stops' \in 0..2
    <3>1. fl.deadline \in Deadline
      BY DEF Fling
    <3>2. timer' \in Deadline
      BY <2>1, <3>1, ReturnedTimeout DEF Return
    <3>3. stops' \in 0..2 /\ waiting' \in {"none", "more", "other"}
      BY <2>1 DEF Count
    <3> QED BY <2>1, <3>2, <3>3 DEF Return, Fling
  <2>2. CASE SyncInterpret
    <3>0. PICK fingers \in {f \in SUBSET Fingers : Cardinality(f) <= MaxFingers} :
            /\ fingers_of_last_hwstate' = fingers
            /\ prev_touch_cnt' = UpdateTouchCnt(fingers)
            /\ \E fl \in Outcomes(Arrival(fingers), fingers),
                  t \in NextTimeouts \cup {Unset} :
                 Return(fl, t) /\ Count(Came(fingers), fl)
      BY <2>2 DEF SyncInterpret
    <3>1. PICK fl \in Outcomes(Arrival(fingers), fingers),
               t \in NextTimeouts \cup {Unset} :
            Return(fl, t) /\ Count(Came(fingers), fl)
      BY <3>0
    <3>2. Cardinality(fingers) \in 0..MaxFingers
      BY FS_Subset, FS_CardinalityType, FingersAssumption
    <3>3. prev_touch_cnt' \in 0..MaxFingers
      BY <3>0, <3>2 DEF UpdateTouchCnt
    <3>4. Arrival(fingers) \in Fling
      BY ArrivingFling DEF TypeOK
    <3>5. fl \in Fling
      BY <3>4, OutcomeDeadline
    <3>6. t \in Deadline
      BY TimesAssumption DEF Deadline
    <3>7. Came(fingers) \in {"none", "more", "other"}
      BY DEF Came
    <3> QED BY <2>1, <3>0, <3>1, <3>3, <3>5, <3>6, <3>7
  <2>3. CASE HandleTimer
    <3>1. CASE SpuriousCallback
      BY <2>3, <3>1 DEF HandleTimer, SpuriousCallback, Deadline
    <3>2. CASE StopFling
      <4>1. Stop(Current) \in Fling
        BY <2>0 DEF Stop, Fling, Deadline
      <4>2. (IF next_timer_deadline # Unset /\ next_timer_deadline < 0 THEN 0
             ELSE next_timer_deadline) \in Deadline
        BY DEF Deadline
      <4> QED BY <2>1, <2>3, <3>2, <4>1, <4>2 DEF StopFling, HandleTimer
    <3>3. CASE CallNext
      <4>1. PICK fl \in Outcomes(Current, fingers_of_last_hwstate),
                 t \in NextTimeouts \cup {Unset} : Return(fl, t) /\ Count("none", fl)
        BY <3>3 DEF CallNext
      <4>2. fl \in Fling
        BY <2>0, OutcomeDeadline
      <4>3. t \in Deadline
        BY TimesAssumption DEF Deadline
      <4> QED BY <2>1, <2>3, <4>1, <4>2, <4>3 DEF HandleTimer
    <3> QED BY <2>3, <3>1, <3>2, <3>3 DEF HandleTimer
  <2>4. CASE Tick
    BY <2>4 DEF Tick, Later, Deadline
  <2>5. CASE UNCHANGED vars
    BY <2>5 DEF vars
  <2> QED BY <2>2, <2>3, <2>4, <2>5 DEF Next
<1> QED BY <1>1, <1>2, PTL DEF Spec

\* The invariant that makes one timeout enough for two deadlines.
THEOREM SharedTimeout == Spec => []IInv
<1>1. Init => IInv
  BY DEF Init, IInv, Deadlines, DeadlinesAreAsked, Asked, ServesOne, Deadline
<1>2. TypeOK /\ IInv /\ [Next]_vars => IInv'
  <2> SUFFICES ASSUME TypeOK, IInv, [Next]_vars PROVE IInv'
    OBVIOUS
  <2>0. Current \in Fling
    BY DEF Current, Fling, TypeOK
  <2>1. CASE SyncInterpret
    <3>0. PICK fingers \in SUBSET Fingers :
            \E fl \in Outcomes(Arrival(fingers), fingers),
               t \in NextTimeouts \cup {Unset} : Return(fl, t)
      BY <2>1 DEF SyncInterpret
    <3>1. PICK fl \in Outcomes(Arrival(fingers), fingers),
               t \in NextTimeouts \cup {Unset} : Return(fl, t)
      BY <3>0
    <3>2. Arrival(fingers) \in Fling
      BY ArrivingFling DEF TypeOK
    <3>3. t \in Deadline
      BY TimesAssumption DEF Deadline
    <3> QED BY <3>1, <3>2, <3>3, OutcomeDeadline, Returning
  <2>2. CASE HandleTimer
    <3>1. ~SpuriousCallback \/ ~HandleTimer \/ StopFling \/ CallNext
      BY <2>2, UnsetAssumption
      DEF HandleTimer, CallbackDue, ForNext, Early, IInv, ServesOne, Serves,
          Deadlines, Deadline
    <3>2. CASE StopFling
      <4>1. Stop(Current) \in Fling
        BY <2>0 DEF Stop, Fling, Deadline
      <4>2. (IF next_timer_deadline # Unset /\ next_timer_deadline < 0 THEN 0
             ELSE next_timer_deadline) \in Deadline
        BY DEF Deadline, TypeOK
      <4> QED BY <3>2, <4>1, <4>2, Returning DEF StopFling
    <3>3. CASE CallNext
      <4>1. PICK fl \in Outcomes(Current, fingers_of_last_hwstate),
                 t \in NextTimeouts \cup {Unset} : Return(fl, t)
        BY <3>3 DEF CallNext
      <4>2. t \in Deadline
        BY TimesAssumption DEF Deadline
      <4> QED BY <2>0, <4>1, <4>2, OutcomeDeadline, Returning DEF TypeOK
    <3> QED BY <2>2, <3>1, <3>2, <3>3 DEF HandleTimer
  <2>3. CASE Tick
    BY <2>3, UnsetAssumption
    DEF Tick, Later, IInv, Deadlines, DeadlinesAreAsked, Asked, ServesOne, Serves,
        Deadline
  <2>4. CASE UNCHANGED vars
    BY <2>4 DEF vars, IInv, Deadlines, DeadlinesAreAsked, Asked, ServesOne, Serves
  <2> QED BY <2>1, <2>2, <2>3, <2>4 DEF Next
<1> QED BY <1>1, <1>2, Typing, PTL DEF Spec

\* No deadline of the filter or of next_ is left without a callback in time.
THEOREM DeadlinesServed == Spec => []DeadlinesAreAsked
<1>1. IInv => DeadlinesAreAsked
  BY DEF IInv
<1> QED BY <1>1, SharedTimeout, PTL

\* A callback is never one of those that would lose the timer.
THEOREM NeverSpurious == Spec => []NoSpuriousCallback
<1>1. IInv => NoSpuriousCallback
  BY UnsetAssumption
  DEF IInv, NoSpuriousCallback, CallbackDue, ForNext, Early, ServesOne, Serves,
      Deadlines, Deadline
<1> QED BY <1>1, SharedTimeout, PTL

-----------------------------------------------------------------------------
(***************************************************************************)
(* How long a stop is put off.  The deadline is extended only while        *)
(* already_extended_ is FALSE, and only a fling makes it FALSE again.  A   *)
(* fling takes a scroll, and a scroll with a deadline set clears it: so    *)
(* one fling may come while a deadline runs, of a scroll before it.        *)
(***************************************************************************)
\* The extensions there may have been, by what is still possible.
Extensions(extended, scrolled) ==
  IF extended THEN IF scrolled THEN ExtraDelay ELSE 2 * ExtraDelay
  ELSE IF scrolled THEN 0 ELSE ExtraDelay

Bounded(deadline, extended, scrolled) ==
  deadline # Unset => deadline <= StopTimeout + Extensions(extended, scrolled)

Close(fl) == Bounded(fl.deadline, fl.extended, fl.scrolled)

CloseInv == Bounded(fling_stop_deadline, already_extended, next_scrolled)

\* A gesture of next_ keeps the bound.
LEMMA ConsumedIsClose ==
  ASSUME NEW fl \in Fling, Close(fl), NEW fingers \in SUBSET Fingers,
         NEW g \in Gestures(fl)
  PROVE  Close(ConsumeGesture(fl, g, fingers))
  <1> DEFINE flung == [fl EXCEPT !.present = fingers, !.extended = FALSE,
                                 !.scrolled = FALSE]
             noted == IF g = "fling" THEN flung
                      ELSE [fl EXCEPT !.scrolled = @ \/ g = "scroll"]
  <1>0. g = "fling" => fl.scrolled
    BY DEF Gestures
  <1>1. noted.deadline = fl.deadline /\ fl.deadline \in Deadline
    BY DEF Fling
  <1>2. ConsumeGesture(fl, g, fingers) =
          IF noted.deadline # Unset /\ g \in {"scroll", "buttons"} THEN Stop(noted)
          ELSE noted
    BY DEF ConsumeGesture
  <1>3. Stop(noted).deadline = Unset
    BY DEF Stop, Fling
  <1>4. CASE g = "fling"
    <2>1. noted = flung
      BY <1>4
    <2>2. flung.extended = FALSE /\ flung.scrolled = FALSE
      BY DEF Fling
    <2>3. fl.deadline # Unset => fl.deadline <= StopTimeout + ExtraDelay
      BY <1>0, <1>1, <1>4, TimesAssumption, UnsetAssumption
      DEF Close, Bounded, Extensions, Deadline
    <2> HIDE DEF flung, noted
    <2> QED BY <1>1, <1>2, <1>4, <2>1, <2>2, <2>3 DEF Close, Bounded, Extensions
  <1>5. CASE g \notin {"scroll", "fling"}
    <2>1. noted.extended = fl.extended /\ noted.scrolled = fl.scrolled
      BY <1>5 DEF Fling
    <2> HIDE DEF noted
    <2> QED BY <1>1, <1>2, <1>3, <2>1 DEF Close, Bounded
  <1>6. CASE g = "scroll"
    <2> HIDE DEF noted
    <2> QED BY <1>2, <1>3, <1>6 DEF Close, Bounded
  <1> QED BY <1>4, <1>5, <1>6

LEMMA OutcomeIsClose ==
  ASSUME NEW fl \in Fling, Close(fl), NEW fingers \in SUBSET Fingers,
         NEW out \in Outcomes(fl, fingers)
  PROVE  Close(out)
  <1>1. PICK g \in Gestures(fl) :
          \E h \in Gestures(ConsumeGesture(fl, g, fingers)) :
            out = ConsumeGesture(ConsumeGesture(fl, g, fingers), h, fingers)
    BY DEF Outcomes
  <1> DEFINE f == ConsumeGesture(fl, g, fingers)
  <1>2. f \in Fling /\ Close(f)
    BY ConsumedDeadline, ConsumedIsClose
  <1> HIDE DEF f
  <1>3. PICK h \in Gestures(f) : out = ConsumeGesture(f, h, fingers)
    BY <1>1 DEF f
  <1> QED BY <1>2, <1>3, ConsumedIsClose

\* So do fingers that come: a deadline extended is one that was not yet.
LEMMA ArrivalIsClose ==
  ASSUME NEW fingers \in SUBSET Fingers, TypeOK, CloseInv
  PROVE  Close(Arrival(fingers))
  <1> DEFINE d == UpdateFlingStopDeadline(fingers)
             extend == d # Unset /\ Extends(fingers)
             e == IF extend THEN d + ExtraDelay ELSE d
             x == already_extended \/ extend
             fl == [deadline |-> e, present |-> fingers_present_for_last_fling,
                    extended |-> x, scrolled |-> next_scrolled, sent |-> FALSE]
  <1>1. d \in Deadline
    BY TimesAssumption DEF UpdateFlingStopDeadline, Deadline, TypeOK
  <1>2. Bounded(d, already_extended, next_scrolled)
    <2>1. d = StopTimeout \/ d = fling_stop_deadline
      BY DEF UpdateFlingStopDeadline
    <2>2. Extensions(already_extended, next_scrolled) \in Nat
      BY TimesAssumption DEF Extensions
    <2> HIDE DEF d
    <2> QED BY <2>1, <2>2, TimesAssumption DEF CloseInv, Bounded
  <1>3. extend => ~already_extended /\ d # Unset
    BY DEF Extends
  <1>4. Bounded(e, x, next_scrolled)
    <2> HIDE DEF d, extend
    <2>1. CASE extend
      BY <1>1, <1>2, <1>3, <2>1, TimesAssumption, UnsetAssumption
      DEF Bounded, Extensions, Deadline, TypeOK
    <2>2. CASE ~extend
      BY <1>2, <2>2 DEF TypeOK
    <2> QED BY <2>1, <2>2
  <1>5. Close(fl)
    <2> HIDE DEF e, x
    <2> QED BY <1>4 DEF Close
  <1>6. Close(Stop(fl))
    <2>1. Stop(fl).deadline = Unset
      BY DEF Stop
    <2> HIDE DEF fl
    <2> QED BY <2>1 DEF Close, Bounded
  <1>7. Arrival(fingers) =
          IF fl.deadline # Unset /\ fl.deadline < 0 THEN Stop(fl) ELSE fl
    BY DEF Arrival
  <1> HIDE DEF fl
  <1> QED BY <1>5, <1>6, <1>7

\* The invariant of the bound: extensions still possible fit into it.
THEOREM CloseDeadline == Spec => []CloseInv
<1>1. Init => CloseInv
  BY DEF Init, CloseInv, Bounded
<1>2. TypeOK /\ CloseInv /\ [Next]_vars => CloseInv'
  <2> SUFFICES ASSUME TypeOK, CloseInv, [Next]_vars PROVE CloseInv'
    OBVIOUS
  <2>0. Current \in Fling /\ Close(Current)
    <3>1. Current \in Fling
      BY DEF Current, Fling, TypeOK
    <3>2. Close(Current)
      BY DEF Current, Close, CloseInv
    <3> QED BY <3>1, <3>2
  <2>1. ASSUME NEW fl \in Fling, NEW t, Return(fl, t), Close(fl)
        PROVE  CloseInv'
    BY <2>1 DEF Return, Close, CloseInv, Bounded, Extensions
  <2>2. CASE SyncInterpret
    <3>1. PICK fingers \in SUBSET Fingers :
            \E fl \in Outcomes(Arrival(fingers), fingers),
               t \in NextTimeouts \cup {Unset} : Return(fl, t)
      BY <2>2 DEF SyncInterpret
    <3>2. PICK fl \in Outcomes(Arrival(fingers), fingers),
               t \in NextTimeouts \cup {Unset} : Return(fl, t)
      BY <3>1
    <3>3. Arrival(fingers) \in Fling /\ Close(Arrival(fingers))
      BY ArrivingFling, ArrivalIsClose DEF TypeOK
    <3>4. fl \in Fling /\ Close(fl)
      BY <3>3, OutcomeDeadline, OutcomeIsClose
    <3> QED BY <2>1, <3>2, <3>4
  <2>3. CASE HandleTimer
    <3>1. CASE SpuriousCallback
      BY <3>1 DEF SpuriousCallback, CloseInv
    <3>2. CASE StopFling
      <4>1. fling_stop_deadline' = Stop(Current).deadline
        BY <3>2 DEF StopFling, Return
      <4>2. Stop(Current).deadline = Unset
        BY <2>0 DEF Stop, Fling
      <4> QED BY <4>1, <4>2 DEF CloseInv, Bounded
    <3>3. CASE CallNext
      <4>1. PICK fl \in Outcomes(Current, fingers_of_last_hwstate),
                 t \in NextTimeouts \cup {Unset} : Return(fl, t)
        BY <3>3 DEF CallNext
      <4>2. fl \in Fling /\ Close(fl)
        BY <2>0, OutcomeDeadline, OutcomeIsClose DEF TypeOK
      <4> QED BY <2>1, <4>1, <4>2
    <3> QED BY <2>3, <3>1, <3>2, <3>3 DEF HandleTimer
  <2>4. CASE Tick
    BY <2>4, TimesAssumption, UnsetAssumption
    DEF Tick, Later, CloseInv, Bounded, Extensions, TypeOK, Deadline
  <2>5. CASE UNCHANGED vars
    BY <2>5 DEF vars, CloseInv
  <2> QED BY <2>2, <2>3, <2>4, <2>5 DEF Next
<1> QED BY <1>1, <1>2, Typing, PTL DEF Spec

\* No stop is put off by more than two extensions.
THEOREM StopIsClose == Spec => []DeadlineIsClose
<1>1. TypeOK /\ CloseInv => DeadlineIsClose
  BY TimesAssumption, UnsetAssumption
  DEF CloseInv, Bounded, Extensions, DeadlineIsClose, TypeOK, Deadline
<1> QED BY <1>1, Typing, CloseDeadline, PTL
=============================================================================
