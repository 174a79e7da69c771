--------------------------- MODULE DevicesProofs ---------------------------
(***************************************************************************)
(* Proofs about the interpreters of the three kinds of devices, for any    *)
(* number of fingers: on a touchpad thumbs stay thumbs, flings carry on    *)
(* scrolls and a pinch is decided on once; of mice the client knows the    *)
(* buttons, and on a mouse with a touch surface a click does not scroll    *)
(* and a fling carries on a scroll the client has seen.                    *)
(***************************************************************************)
EXTENDS MCDevices, FiniteSetTheorems, TLAPS

\* What is in the buffer comes from the last scroll sent; and after a fling or a lift the
\* fingers that are left have not moved yet, so that their gesture is found anew.
BufferIsOfScroll == buffered => scrolled_last

LiftsEnd == gesture_type \in {"fling", "swipe_lift"} => still

\* Thumbs do not gesture, unless there are too many fingers.
ThumbsRest ==
  \A f \in DOMAIN thumb :
    f \notin prev_gs_fingers \/ Cardinality(present \ DOMAIN thumb) > MaxGesturing

Inv == prev_gs_fingers \subseteq present /\ BufferIsOfScroll /\ LiftsEnd /\ ThumbsRest

LEMMA InitInv == Init => Inv
BY DEF Init, Inv, BufferIsOfScroll, LiftsEnd, ThumbsRest

-----------------------------------------------------------------------------
\* The gesturing fingers are on the pad, and no thumbs unless there are too many.
LEMMA GesturingArePresent ==
  ASSUME NEW new, NEW pointing \in SUBSET new,
         NEW gesturing \in GesturingFingers(new, pointing)
  PROVE  /\ gesturing \subseteq new
         /\ Cardinality(pointing) <= MaxGesturing => gesturing = pointing
BY DEF GesturingFingers, kSubset

\* A gesture is decided on for some of the gesturing fingers, and it is no fling or lift
\* but where the type already was one and is not evaluated.
LEMMA Decided ==
  ASSUME NEW gs, NEW type, NEW evaluate, NEW d \in Decide(gs, type, evaluate)
  PROVE  \/ d[1] \in {"null", "move", "scroll", "swipe"}
         \/ d[1] = type /\ ~evaluate
<1>1. CASE gs = {} \/ Cardinality(gs) = 1
  BY <1>1 DEF Decide
<1>2. CASE ~(gs = {} \/ Cardinality(gs) = 1) /\ (evaluate \/ type = "null")
  <2>1. d \in Recognize(gs)
    BY <1>2 DEF Decide
  <2> QED BY <2>1 DEF Recognize, SortFingersByProximity, GetTwoFingerGestureType,
                      GetThreeFingerGestureType
<1>3. CASE ~(gs = {} \/ Cardinality(gs) = 1) /\ ~(evaluate \/ type = "null")
  <2>1. d = <<type, gs>>
    BY <1>3 DEF Decide
  <2> QED BY <2>1, <1>3
<1> QED BY <1>1, <1>2, <1>3

\* What a locked decision for or against a pinch leaves of the pinch state.
LEMMA LockedStays ==
  ASSUME NEW pin, NEW untouched, pin.locked, NEW q \in UpdatePinchState(pin, untouched)
  PROVE  q = pin
BY DEF UpdatePinchState, MayPinch

LEMMA TypeFound ==
  ASSUME NEW new, NEW gs, NEW untouched, NEW pin, NEW override, NEW evaluate,
         NEW d \in UpdateCurrentGestureType(new, gs, untouched, pin, override, evaluate)
  PROVE  /\ d[1] \in {"fling", "swipe_lift"} =>
              \/ Lifts(new)
              \/ gesture_type = d[1] /\ ~evaluate
         /\ d[1] = "fling" =>
              \/ gesture_type = "scroll" /\ buffered
              \/ gesture_type = "fling" /\ ~evaluate
         /\ pin.locked => d[3] = pin
         /\ pin.locked /\ gesture_type # "pinch" /\ d[1] = "pinch" => FALSE
<1> USE DEF UpdateCurrentGestureType
<1>1. CASE override
  BY <1>1
<1>2. CASE ~override /\ gesture_type = "pinch"
  BY <1>2
<1>3. CASE ~override /\ gesture_type # "pinch" /\ Lifts(new)
  BY <1>3 DEF Lifts
<1>4. CASE ~override /\ gesture_type # "pinch" /\ ~Lifts(new) /\ leaving'
  BY <1>4
<1>5. CASE ~override /\ gesture_type # "pinch" /\ ~Lifts(new) /\ ~leaving'
  <2>1. PICK e \in Decide(gs, gesture_type, evaluate) :
          d \in IF e[1] \in {"move", "null"} /\ PinchEnable
                THEN {<<IF Pinched(q, pin) THEN "pinch" ELSE e[1], e[2], q>> :
                        q \in UpdatePinchState(pin, untouched)}
                ELSE {<<e[1], e[2], pin>>}
    BY <1>5
  <2> HIDE DEF UpdateCurrentGestureType
  <2>2. e[1] \in {"null", "move", "scroll", "swipe"} \/ (e[1] = gesture_type /\ ~evaluate)
    BY Decided
  <2>3. CASE e[1] \in {"move", "null"} /\ PinchEnable
    <3>1. PICK q \in UpdatePinchState(pin, untouched) :
            d = <<IF Pinched(q, pin) THEN "pinch" ELSE e[1], e[2], q>>
      BY <2>1, <2>3
    <3>2. d[1] = (IF Pinched(q, pin) THEN "pinch" ELSE e[1]) /\ d[3] = q
      BY <3>1
    <3>3. pin.locked => q = pin /\ ~Pinched(q, pin)
      BY LockedStays DEF Pinched
    <3> QED BY <2>3, <3>2, <3>3
  <2>4. CASE ~(e[1] \in {"move", "null"} /\ PinchEnable)
    <3>1. d[1] = e[1] /\ d[3] = pin
      BY <2>1, <2>4
    <3> QED BY <1>5, <2>2, <3>1
  <2> QED BY <2>3, <2>4
<1> QED BY <1>1, <1>2, <1>3, <1>4, <1>5

-----------------------------------------------------------------------------
\* Only a scroll puts something into the buffer.
LEMMA ScrollComputed ==
  ASSUME NEW known, NEW free, NEW continues, NEW prev, NEW b,
         NEW c \in ComputeScroll(known, free, continues, prev, b)
  PROVE  c.scroll \/ (c.buffered => b)
<1>1. CASE ~known
  BY <1>1 DEF ComputeScroll
<1>2. CASE known
  <2>1. \/ c \in DeadReckon(prev, b)
        \/ c \in DeadReckon(FALSE, b)
        \/ \E moved : c = [scroll |-> moved, update |-> TRUE,
                           buffered |-> Insert(b, continues, moved)]
    BY <1>2, Zenon DEF ComputeScroll
  <2>2. ASSUME NEW q, c \in DeadReckon(q, b) PROVE c.buffered = b
    BY <2>2 DEF DeadReckon
  <2>3. ASSUME NEW moved, c = [scroll |-> moved, update |-> TRUE,
                               buffered |-> Insert(b, continues, moved)]
        PROVE  c.scroll \/ (c.buffered => b)
    <3>1. c.scroll = moved /\ c.buffered = (moved \/ (b /\ continues))
      BY <2>3 DEF Insert
    <3> QED BY <3>1
  <2> QED BY <2>1, <2>2, <2>3
<1> QED BY <1>1, <1>2

\* Whatever is sent, what is in the buffer afterwards is of the last scroll sent.
LEMMA FillKeepsBuffer ==
  ASSUME BufferIsOfScroll,
         NEW type, NEW active, NEW mover, NEW quiet, NEW tap,
         FillResultGesture(type, active, mover, quiet, tap),
         scrolled_last' = IF result' = "null" THEN scrolled_last ELSE result' = "scroll"
  PROVE  BufferIsOfScroll' /\ (result' = "fling" => type = "fling")
<1> USE DEF BufferIsOfScroll, UpdateBuffer, UpdateScrollEventBuffer
<1>1. CASE type = "move" /\ Move(active, mover, quiet)
  <2>1. \/ result' = "null" /\ (buffered' = buffered \/ ~buffered')
        \/ result' \in {"move", "null"} /\ ~buffered'
    BY <1>1 DEF Move
  <2>2. CASE result' = "null" /\ (buffered' = buffered \/ ~buffered')
    BY <2>2
  <2>3. CASE result' \in {"move", "null"} /\ ~buffered'
    BY <2>3
  <2> QED BY <2>1, <2>2, <2>3
<1>2. CASE result' = "null" /\ UNCHANGED buffered
  BY <1>2
<1>3. CASE type = "scroll" /\ Scroll(active)
  <2>1. PICK c \in ComputeScroll(active \subseteq present, active # {},
                       gesture_type = "scroll" /\ prev_active_gs_fingers = active,
                       prev_scrolled, buffered) :
          /\ result' = IF c.scroll THEN "scroll" ELSE "null"
          /\ buffered' = c.buffered
    BY <1>3 DEF Scroll
  <2>2. c.scroll \/ (c.buffered => buffered)
    BY ScrollComputed
  <2> QED BY <2>1, <2>2
<1>4. CASE type = "fling" /\ Fling
  BY <1>4 DEF Fling
<1>5. CASE Plain(type)
  BY <1>5 DEF Plain
<1> QED BY <1>1, <1>2, <1>3, <1>4, <1>5 DEF FillResultGesture

\* The times after a state in which a finger left, or one that began to move.
LEMMA TimesAfter ==
  ASSUME NEW same, NEW left, NEW started, NEW gs, UpdateTimes(same, left, started, gs)
  PROVE  /\ ~same /\ ~started => still'
         /\ still => still' \/ fresh'
BY DEF UpdateTimes, Stays

-----------------------------------------------------------------------------
\* What is a thumb after the state does not gesture in it.
LEMMA ThumbsDoNotGesture ==
  ASSUME NEW new \in SUBSET Ids, NEW palms \in SUBSET new, NEW thumbs,
         NEW gesturing \in GesturingFingers(new, (new \ palms) \ thumbs),
         NEW f \in thumbs
  PROVE  f \notin gesturing \/ Cardinality(new \ thumbs) > MaxGesturing
<1> DEFINE pointing == (new \ palms) \ thumbs
           others == new \ thumbs
<1>1. CASE Cardinality(pointing) <= MaxGesturing
  <2>1. gesturing = pointing
    BY <1>1, GesturingArePresent
  <2> QED BY <2>1
<1>2. CASE ~(Cardinality(pointing) <= MaxGesturing)
  <2>1. IsFiniteSet(others)
    BY IdsAssumption, FS_Subset
  <2>2. pointing \subseteq others
    OBVIOUS
  <2>3. /\ Cardinality(pointing) <= Cardinality(others)
        /\ Cardinality(pointing) \in Nat /\ Cardinality(others) \in Nat
    <3> HIDE DEF pointing, others
    <3> QED BY <2>1, <2>2, FS_Subset, FS_CardinalityType
  <2> QED BY <1>2, <2>3, TimeoutAssumption
<1> QED BY <1>1, <1>2

\* A finger that is a thumb for good is one after the state.
LEMMA ThumbStays ==
  ASSUME NEW new, NEW palms, NEW verdict, NEW f \in DOMAIN thumb, thumb[f] = 0, f \in new
  PROVE  f \in DOMAIN UpdateThumbState(new, palms, verdict)
BY DEF UpdateThumbState, JudgedNoThumb

\* What a state does, from the invariant.
LEMMA StateStep ==
  ASSUME Inv,
         NEW new \in SUBSET Ids, NEW down, NEW tap,
         NEW palms \in SUBSET new, NEW verdict,
         NEW newly, ~Same(new, down) => newly = {},
         UpdateState(new, down, palms, verdict, newly, tap)
  PROVE  /\ Inv'
         /\ result' = "fling" => scrolled_last /\ gesture_type = "scroll"
         /\ \A f \in DOMAIN thumb : thumb[f] = 0 /\ f \in present' =>
              /\ f \in DOMAIN thumb'
              /\ \/ f \notin prev_gs_fingers'
                 \/ Cardinality(present' \ DOMAIN thumb') > MaxGesturing
         /\ pinch_locked /\ present = present' /\ button = button' =>
              /\ pinch_locked' /\ guess' = guess
              /\ gesture_type # "pinch" => gesture_type' # "pinch"
<1>1. /\ thumb' = UpdateThumbState(new, palms, verdict)
      /\ present' = new /\ button' = down
  BY DEF UpdateState
<1>a. PICK gesturing \in GesturingFingers(new, (new \ palms) \ DOMAIN thumb') :
        \E gs, left :
          /\ gs = gesturing \ (non_gs_fingers \ moving')
          /\ UpdateTimes(Same(new, down), left, gs \cap newly # {}, gs)
          /\ prev_gs_fingers' = gs
          /\ Interpret(new, Same(new, down), gs, new \ palms, tap)
  BY Zenon DEF UpdateState
<1>2. PICK gs, left :
        /\ gs = gesturing \ (non_gs_fingers \ moving')
        /\ UpdateTimes(Same(new, down), left, gs \cap newly # {}, gs)
        /\ prev_gs_fingers' = gs
        /\ Interpret(new, Same(new, down), gs, new \ palms, tap)
  BY <1>a, Zenon
<1>3. gs \subseteq gesturing /\ gesturing \subseteq new
  BY <1>a, <1>2, GesturingArePresent
<1>4. PICK d \in UpdateCurrentGestureType(new, gs, new \ palms, PinchState(Same(new, down)),
                                          tap.override, still' \/ fresh') :
        /\ gesture_type' = d[1]
        /\ guess' = d[3].guess /\ pinch_locked' = d[3].locked
        /\ FillResultGesture(d[1], d[2], IF Same(new, down) THEN moving_finger_id ELSE None,
                             d[3].quiet, tap)
        /\ scrolled_last' = IF result' = "null" THEN scrolled_last ELSE result' = "scroll"
  BY <1>2, Zenon DEF Interpret
<1>5. /\ d[1] \in {"fling", "swipe_lift"} =>
           Lifts(new) \/ (gesture_type = d[1] /\ ~(still' \/ fresh'))
      /\ d[1] = "fling" =>
           \/ gesture_type = "scroll" /\ buffered
           \/ gesture_type = "fling" /\ ~(still' \/ fresh')
  <2> DEFINE evaluate == still' \/ fresh'
             pin == PinchState(Same(new, down))
             untouched == new \ palms
             override == tap.override
  <2>1. d \in UpdateCurrentGestureType(new, gs, untouched, pin, override, evaluate)
    BY <1>4
  <2> HIDE DEF evaluate, pin, untouched, override
  <2>2. /\ d[1] \in {"fling", "swipe_lift"} =>
             Lifts(new) \/ (gesture_type = d[1] /\ ~evaluate)
        /\ d[1] = "fling" =>
             \/ gesture_type = "scroll" /\ buffered
             \/ gesture_type = "fling" /\ ~evaluate
    BY <2>1, TypeFound
  <2> QED BY <2>2 DEF evaluate
<1>6. gesture_type \in {"fling", "swipe_lift"} => still' \/ fresh'
  BY <1>2, TimesAfter DEF Inv, LiftsEnd
<1>7. d[1] \in {"fling", "swipe_lift"} => still'
  <2> SUFFICES ASSUME d[1] \in {"fling", "swipe_lift"} PROVE still'
    OBVIOUS
  <2>1. ~(prev_gs_fingers \subseteq new)
    BY <1>5, <1>6 DEF Lifts, AnyGesturingFingerLeft
  <2>2. ~Same(new, down)
    BY <2>1 DEF Same, Inv
  <2>3. ~(gs \cap newly # {})
    BY <2>2
  <2>4. still' = (~(gs \cap newly # {}) /\ (still \/ ~Same(new, down)))
    BY <1>2, Zenon DEF UpdateTimes
  <2> QED BY <2>2, <2>3, <2>4
<1>8. BufferIsOfScroll' /\ (result' = "fling" => d[1] = "fling")
  BY <1>4, FillKeepsBuffer DEF Inv
<1>13. ThumbsRest'
  <2>1. ASSUME NEW f \in DOMAIN thumb'
        PROVE  f \notin gesturing \/ Cardinality(new \ DOMAIN thumb') > MaxGesturing
    BY <1>a, ThumbsDoNotGesture
  <2> QED BY <1>1, <1>2, <1>3, <2>1 DEF ThumbsRest
<1>9. Inv'
  BY <1>1, <1>2, <1>3, <1>4, <1>7, <1>8, <1>13 DEF Inv, LiftsEnd
<1>10. result' = "fling" => scrolled_last /\ gesture_type = "scroll"
  BY <1>5, <1>6, <1>8 DEF Inv, BufferIsOfScroll
<1>11. ASSUME NEW f \in DOMAIN thumb, thumb[f] = 0, f \in present'
       PROVE  /\ f \in DOMAIN thumb'
              /\ \/ f \notin prev_gs_fingers'
                 \/ Cardinality(present' \ DOMAIN thumb') > MaxGesturing
  <2>1. f \in DOMAIN thumb'
    BY <1>1, <1>11, ThumbStays
  <2> QED BY <2>1, <1>13 DEF ThumbsRest
<1>12. ASSUME pinch_locked, present = present', button = button'
       PROVE  /\ pinch_locked' /\ guess' = guess
              /\ gesture_type # "pinch" => gesture_type' # "pinch"
  <2>1. PinchState(Same(new, down)) = Remembered
    BY <1>1, <1>12 DEF PinchState, Same
  <2>2. Remembered.locked /\ Remembered.locked = pinch_locked /\ Remembered.guess = guess
    BY <1>12 DEF Remembered
  <2>3. d[3] = Remembered /\ (gesture_type # "pinch" => d[1] # "pinch")
    BY <2>1, <2>2, TypeFound
  <2> QED BY <1>4, <1>12, <2>2, <2>3
<1> QED BY <1>9, <1>10, <1>11, <1>12

LEMMA StepKeepsInv ==
  ASSUME Inv, SyncInterpret
  PROVE  /\ Inv'
         /\ result' = "fling" => scrolled_last /\ gesture_type = "scroll"
         /\ \A f \in DOMAIN thumb : thumb[f] = 0 /\ f \in present' =>
              /\ f \in DOMAIN thumb'
              /\ \/ f \notin prev_gs_fingers'
                 \/ Cardinality(present' \ DOMAIN thumb') > MaxGesturing
         /\ pinch_locked /\ present = present' /\ button = button' =>
              /\ pinch_locked' /\ guess' = guess
              /\ gesture_type # "pinch" => gesture_type' # "pinch"
<1>1. PICK new \in SUBSET Ids, down \in BOOLEAN, tap \in Taps :
      \E palms \in SUBSET new :
       \E verdict \in Verdicts(new, palms),
          newly \in IF Same(new, down) THEN SUBSET (new \ moving) ELSE {{}} :
         UpdateState(new, down, palms, verdict, newly, tap)
  BY Zenon DEF SyncInterpret
<1>2. PICK palms \in SUBSET new :
       \E verdict \in Verdicts(new, palms),
          newly \in IF Same(new, down) THEN SUBSET (new \ moving) ELSE {{}} :
         UpdateState(new, down, palms, verdict, newly, tap)
  BY <1>1, Zenon
<1>3. PICK verdict \in Verdicts(new, palms),
           newly \in IF Same(new, down) THEN SUBSET (new \ moving) ELSE {{}} :
        UpdateState(new, down, palms, verdict, newly, tap)
  BY <1>2, Zenon
<1>4. ~Same(new, down) => newly = {}
  BY <1>3
<1> QED BY <1>3, <1>4, StateStep

\* A timer of taps or buttons leaves what the fingers do alone.
LEMMA TimerKeepsInv ==
  ASSUME Inv, HandleTimer
  PROVE  /\ Inv'
         /\ result' # "fling"
         /\ UNCHANGED <<present, button, thumb, prev_gs_fingers, gesture_type, guess, pinch_locked>>
BY DEF HandleTimer, Inv, BufferIsOfScroll, LiftsEnd, ThumbsRest, times, pinch, scrolling

\* So it changes no thumb and takes no decision.
LEMMA TimerRests ==
  ASSUME Inv, HandleTimer
  PROVE  /\ \A f \in DOMAIN thumb : thumb[f] = 0 /\ f \in present' =>
              /\ f \in DOMAIN thumb'
              /\ \/ f \notin prev_gs_fingers'
                 \/ Cardinality(present' \ DOMAIN thumb') > MaxGesturing
         /\ pinch_locked /\ present = present' /\ button = button' =>
              /\ pinch_locked' /\ guess' = guess
              /\ gesture_type # "pinch" => gesture_type' # "pinch"
BY TimerKeepsInv DEF Inv, ThumbsRest

LEMMA StutterKeepsInv == Inv /\ UNCHANGED vars => Inv'
BY DEF Inv, BufferIsOfScroll, LiftsEnd, ThumbsRest, vars, times, pinch, scrolling

LEMMA NextKeepsInv == Inv /\ [Next]_vars => Inv'
BY StepKeepsInv, TimerKeepsInv, StutterKeepsInv DEF Next

-----------------------------------------------------------------------------
(* The types of the touchpad's variables *)

LEMMA ThumbTypes ==
  ASSUME TypeOK, NEW new \in SUBSET Ids, NEW palms \in SUBSET new, NEW verdict,
         thumb' = UpdateThumbState(new, palms, verdict)
  PROVE  DOMAIN thumb' \subseteq new /\ \A f \in DOMAIN thumb' : thumb'[f] \in 0 .. EvalTimeout
<1> DEFINE kept == DOMAIN thumb \cap new
           stay == {f \in kept : f \in palms \/ ~JudgedNoThumb(verdict, f)}
           found == {f \in new \ (palms \cup kept) : verdict[f] = "thumb"}
<1>1. /\ DOMAIN thumb' = stay \cup found
      /\ \A f \in stay \cup found :
           thumb'[f] = IF f \in palms THEN thumb[f] ELSE EvalTimer(verdict, f)
  BY DEF UpdateThumbState
<1>2. \A f \in stay \cup found : f \in new /\ (f \in palms => f \in DOMAIN thumb)
  OBVIOUS
<1>3. ASSUME NEW f \in new PROVE EvalTimer(verdict, f) \in 0 .. EvalTimeout
  <2>1. CASE f \notin DOMAIN thumb
    BY <2>1, TimeoutAssumption DEF EvalTimer
  <2>2. CASE f \in DOMAIN thumb
    <3>1. thumb[f] \in 0 .. EvalTimeout
      BY <2>2 DEF TypeOK
    <3>2. thumb[f] > 0 => thumb[f] - 1 \in 0 .. EvalTimeout
      BY <3>1, TimeoutAssumption
    <3> QED BY <2>2, <3>1, <3>2 DEF EvalTimer
  <2> QED BY <2>1, <2>2
<1> HIDE DEF stay, found
<1> QED BY <1>1, <1>2, <1>3 DEF TypeOK

\* The type that is found is one, and the fingers that make it are gesturing.
LEMMA FoundTypes ==
  ASSUME gesture_type \in Types, NEW new, NEW gs, NEW untouched, NEW pin, NEW override,
         NEW evaluate, pin.guess \in {"none", "yes", "no"},
         NEW d \in UpdateCurrentGestureType(new, gs, untouched, pin, override, evaluate)
  PROVE  d[1] \in Types /\ d[2] \subseteq gs /\ d[3].guess \in {"none", "yes", "no"}
<1> USE DEF UpdateCurrentGestureType
<1>1. CASE override
  BY <1>1 DEF Types
<1>2. CASE ~override /\ gesture_type = "pinch"
  BY <1>2 DEF Types
<1>3. CASE ~override /\ gesture_type # "pinch" /\ Lifts(new)
  BY <1>3 DEF Types
<1>4. CASE ~override /\ gesture_type # "pinch" /\ ~Lifts(new) /\ leaving'
  BY <1>4 DEF Types
<1>5. CASE ~override /\ gesture_type # "pinch" /\ ~Lifts(new) /\ ~leaving'
  <2>1. PICK e \in Decide(gs, gesture_type, evaluate) :
          d \in IF e[1] \in {"move", "null"} /\ PinchEnable
                THEN {<<IF Pinched(q, pin) THEN "pinch" ELSE e[1], e[2], q>> :
                        q \in UpdatePinchState(pin, untouched)}
                ELSE {<<e[1], e[2], pin>>}
    BY <1>5
  <2> HIDE DEF UpdateCurrentGestureType
  <2>2. e[1] \in Types /\ e[2] \subseteq gs
    <3>1. CASE gs = {} \/ Cardinality(gs) = 1
      BY <3>1 DEF Decide, Types
    <3>2. CASE ~(gs = {} \/ Cardinality(gs) = 1) /\ (evaluate \/ gesture_type = "null")
      <4>1. e \in Recognize(gs)
        BY <3>2 DEF Decide
      <4> QED BY <4>1 DEF Recognize, SortFingersByProximity, GetTwoFingerGestureType,
                         GetThreeFingerGestureType, Types
    <3>3. CASE ~(gs = {} \/ Cardinality(gs) = 1) /\ ~(evaluate \/ gesture_type = "null")
      <4>1. e = <<gesture_type, gs>>
        BY <3>3 DEF Decide
      <4> QED BY <4>1
    <3> QED BY <3>1, <3>2, <3>3
  <2>3. CASE e[1] \in {"move", "null"} /\ PinchEnable
    <3>1. PICK q \in UpdatePinchState(pin, untouched) :
            d = <<IF Pinched(q, pin) THEN "pinch" ELSE e[1], e[2], q>>
      BY <2>1, <2>3
    <3>2. q.guess \in {"none", "yes", "no"}
      <4>1. CASE ~MayPinch(pin, untouched)
        BY <4>1 DEF UpdatePinchState
      <4>2. CASE MayPinch(pin, untouched)
        <5>1. PICK o \in Guesses(pin.guess, untouched \subseteq present) :
                q = [guess |-> o.guess, locked |-> o.locked, distance |-> TRUE,
                     quiet |-> o.quiet]
          BY <4>2 DEF UpdatePinchState
        <5>2. o.guess \in {"none", "yes", "no"}
          BY DEF Guesses
        <5> QED BY <5>1, <5>2
      <4> QED BY <4>1, <4>2
    <3> QED BY <2>2, <3>1, <3>2 DEF Types
  <2>4. CASE ~(e[1] \in {"move", "null"} /\ PinchEnable)
    <3>1. d[1] = e[1] /\ d[2] = e[2] /\ d[3] = pin
      BY <2>1, <2>4
    <3> QED BY <2>2, <3>1
  <2> QED BY <2>3, <2>4
<1> QED BY <1>1, <1>2, <1>3, <1>4, <1>5

LEMMA StateKeepsTypes ==
  ASSUME TypeOK,
         NEW new \in SUBSET Ids, NEW down, NEW tap,
         NEW palms \in SUBSET new, NEW verdict, NEW newly \in SUBSET new,
         UpdateState(new, down, palms, verdict, newly, tap)
  PROVE  TypeOK'
<1>1. /\ thumb' = UpdateThumbState(new, palms, verdict)
      /\ present' = new /\ button' = down /\ moving' = (moving \cap new) \cup newly
  BY DEF UpdateState
<1>2. PICK gesturing \in GesturingFingers(new, (new \ palms) \ DOMAIN thumb') :
        \E gs :
          /\ gs = gesturing \ (non_gs_fingers \ moving')
          /\ prev_gs_fingers' = gs
          /\ Interpret(new, Same(new, down), gs, new \ palms, tap)
  BY Zenon DEF UpdateState
<1>3. PICK gs :
        /\ gs = gesturing \ (non_gs_fingers \ moving')
        /\ prev_gs_fingers' = gs
        /\ Interpret(new, Same(new, down), gs, new \ palms, tap)
  BY <1>2, Zenon
<1>4. gs \subseteq new
  BY <1>2, <1>3, GesturingArePresent
<1> DEFINE mover == IF Same(new, down) THEN moving_finger_id ELSE None
<1>5. PICK d \in UpdateCurrentGestureType(new, gs, new \ palms, PinchState(Same(new, down)),
                                          tap.override, still' \/ fresh') :
        /\ gesture_type' = d[1]
        /\ prev_active_gs_fingers' = d[2]
        /\ non_gs_fingers' = gs \ d[2]
        /\ guess' = d[3].guess
        /\ FillResultGesture(d[1], d[2], mover, d[3].quiet, tap)
  BY <1>3, Zenon DEF Interpret
<1>6. PinchState(Same(new, down)).guess \in {"none", "yes", "no"}
  BY DEF TypeOK, PinchState, Remembered, Reset
<1>7. d[1] \in Types /\ d[2] \subseteq gs /\ d[3].guess \in {"none", "yes", "no"}
  BY <1>6, FoundTypes DEF TypeOK
<1>8. moving_finger_id' \in new \cup {None}
  <2>1. mover \in new \cup {None}
    BY DEF Same, TypeOK
  <2> HIDE DEF mover
  <2>2. CASE moving_finger_id' = mover
    BY <2>1, <2>2
  <2>3. CASE Move(d[2], mover, d[3].quiet)
    BY <1>4, <1>7, <2>1, <2>3 DEF Move
  <2> QED BY <1>5, <2>2, <2>3 DEF FillResultGesture
<1>9. DOMAIN thumb' \subseteq new /\ \A f \in DOMAIN thumb' : thumb'[f] \in 0 .. EvalTimeout
  BY <1>1, ThumbTypes
<1> QED BY <1>1, <1>3, <1>4, <1>5, <1>7, <1>8, <1>9 DEF TypeOK

-----------------------------------------------------------------------------
(* The buttons of the mice *)

\* A release is sent by the state in which the button goes up, whoever owned the hold, so
\* the two parts are inductive together.
Agreement == X!ButtonsAgree /\ X!MiddleIsReleased

\* Once button changes are sent, what the client believes of a button the mouse has not
\* changed is what it believed; a click of the emulated wheel only takes back the button
\* whose release is sent a second time.
LEMMA ChangesAreTold ==
  ASSUME NEW buttons, NEW believed, believed = told \/ believed = told \ {Middle},
         believed = told \/ X!Falling(buttons)
  PROVE  /\ told = buttons_down => X!InterpretMouseButtonEvent(believed, buttons) = buttons
         /\ X!MiddleIsReleased /\ Middle \in X!InterpretMouseButtonEvent(believed, buttons)
              => Middle \in buttons
BY DEF X!InterpretMouseButtonEvent, X!Falling, X!MiddleIsReleased

\* No state and no write of the property makes the client hold a button that is up, or
\* miss one, other than through a wheel.
LEMMA AgreementKept ==
  ASSUME Agreement, X!MouseNext \/ UNCHANGED mouse_vars
  PROVE  Agreement'
<1>1. CASE X!MouseSyncInterpret
  <2> DEFINE click(b) == X!Emulates /\ X!Falling(b) /\ ~wheel_emulation_active
             Believed(b) == IF click(b) THEN told \ {Middle} ELSE told
  <2>1. PICK buttons \in SUBSET {Left, Middle, Right} :
          /\ told' = IF X!EmulateScrollWheel(buttons) THEN told
                     ELSE X!InterpretMouseButtonEvent(Believed(buttons), buttons)
          /\ buttons_down' = buttons
          /\ emulated' = (emulated \/ X!EmulateScrollWheel(buttons))
    BY <1>1, Zenon DEF X!MouseSyncInterpret
  <2>2. CASE X!EmulateScrollWheel(buttons)
    <3>1. Middle \in buttons
      BY <2>2 DEF X!EmulateScrollWheel
    <3>2. emulated'
      BY <2>1, <2>2
    <3> QED BY <2>1, <3>1, <3>2 DEF Agreement, X!ButtonsAgree, X!MiddleIsReleased
  <2>3. CASE ~X!EmulateScrollWheel(buttons)
    <3>1. /\ told = buttons_down => told' = buttons
          /\ Middle \in told' => Middle \in buttons
      <4>1. Believed(buttons) = told \/ Believed(buttons) = told \ {Middle}
        OBVIOUS
      <4>2. Believed(buttons) = told \/ X!Falling(buttons)
        OBVIOUS
      <4> QED BY <2>1, <2>3, <4>1, <4>2, ChangesAreTold DEF Agreement
    <3>2. ~emulated' => ~emulated
      BY <2>1, <2>3
    <3> QED BY <2>1, <3>1, <3>2 DEF Agreement, X!ButtonsAgree, X!MiddleIsReleased
  <2> QED BY <2>2, <2>3
<1>2. CASE X!SetProperty
  BY <1>2 DEF X!SetProperty, Agreement, X!ButtonsAgree, X!MiddleIsReleased, X!heard
<1>3. CASE UNCHANGED mouse_vars
  BY <1>3 DEF mouse_vars, Agreement, X!ButtonsAgree, X!MiddleIsReleased
<1> QED BY <1>1, <1>2, <1>3 DEF X!MouseNext

LEMMA MouseKeepsTypes ==
  ASSUME X!MouseTypeOK, X!MouseNext
  PROVE  X!MouseTypeOK'
<1>1. CASE X!MouseSyncInterpret
  <2> DEFINE click(b) == X!Emulates /\ X!Falling(b) /\ ~wheel_emulation_active
             Believed(b) == IF click(b) THEN told \ {Middle} ELSE told
  <2>1. PICK buttons \in SUBSET {Left, Middle, Right} :
          /\ IF X!Emulates THEN wheel_emulation_active' \in X!Activations(buttons)
             ELSE UNCHANGED wheel_emulation_active
          /\ told' = IF X!EmulateScrollWheel(buttons) THEN told
                     ELSE X!InterpretMouseButtonEvent(Believed(buttons), buttons)
          /\ buttons_down' = buttons
          /\ clicked' = (click(buttons) \/ (~X!EmulateScrollWheel(buttons)
                                            /\ X!Falling(buttons)))
          /\ scrolled' = (IF Middle \notin buttons THEN scrolled
                          ELSE X!EmulateScrollWheel(buttons) /\ wheel_emulation_active')
          /\ emulated' = (emulated \/ X!EmulateScrollWheel(buttons))
          /\ UNCHANGED <<has_wheel, force_scroll_wheel_emulation>>
    BY <1>1, Zenon DEF X!MouseSyncInterpret
  <2>2. wheel_emulation_active' \in BOOLEAN
    BY <2>1 DEF X!Activations, X!MouseTypeOK
  <2>3. told' \subseteq {Left, Middle, Right}
    BY <2>1 DEF X!InterpretMouseButtonEvent, X!MouseTypeOK
  <2>4. clicked' \in BOOLEAN /\ emulated' \in BOOLEAN /\ scrolled' \in BOOLEAN
    BY <2>1, <2>2, Zenon DEF X!MouseTypeOK, X!EmulateScrollWheel
  <2> QED BY <2>1, <2>2, <2>3, <2>4 DEF X!MouseTypeOK
<1>2. CASE X!SetProperty
  BY <1>2 DEF X!SetProperty, X!MouseTypeOK, X!heard
<1> QED BY <1>1, <1>2 DEF X!MouseNext

-----------------------------------------------------------------------------
(* The fingers on a multitouch mouse *)

\* What is left of a state's scroll or fling: the buffer only fills with a scroll that is
\* sent, a fling comes of the buffer, and nothing scrolls within a button's lead time.
Outcome(ages) ==
  /\ current_gesture_type' \in {"null", "scroll", "fling"}
  /\ should_fling' \in BOOLEAN /\ scroll_buffered' \in BOOLEAN /\ on_mouse_scrolled' \in BOOLEAN
  /\ scroll_buffered' => scroll_buffered \/ sent' = "scroll"
  /\ sent' = "fling" => scroll_buffered /\ ~scroll_buffered'
  /\ sent' = "scroll" => \A b \in {Left, Right} : ~(ages[b] < LeadTime[b])

LEMMA SameScroll ==
  ASSUME NEW known, NEW free, NEW continues, NEW prev, NEW b
  PROVE  X!ComputeScroll(known, free, continues, prev, b)
           = ComputeScroll(known, free, continues, prev, b)
BY DEF X!ComputeScroll, ComputeScroll, X!DeadReckon, DeadReckon, X!Insert, Insert

LEMMA ScrollTypes ==
  ASSUME NEW known, NEW free, NEW continues \in BOOLEAN, NEW prev \in BOOLEAN,
         NEW b \in BOOLEAN, NEW c \in ComputeScroll(known, free, continues, prev, b)
  PROVE  c.scroll \in BOOLEAN /\ c.buffered \in BOOLEAN /\ (~c.update => c.buffered = b)
<1>1. CASE ~known
  <2>1. c = [scroll |-> FALSE, update |-> FALSE, buffered |-> b]
    BY <1>1 DEF ComputeScroll
  <2> QED BY <2>1
<1>2. CASE known
  <2>1. \/ c \in DeadReckon(prev, b)
        \/ c \in DeadReckon(FALSE, b)
        \/ \E moved \in IF free THEN BOOLEAN ELSE {FALSE} :
             c = [scroll |-> moved, update |-> TRUE,
                  buffered |-> Insert(b, continues, moved)]
    BY <1>2, Zenon DEF ComputeScroll
  <2>a. (IF free THEN BOOLEAN ELSE {FALSE}) \subseteq BOOLEAN
    OBVIOUS
  <2>2. ASSUME NEW q \in BOOLEAN, c \in DeadReckon(q, b)
        PROVE  c.scroll \in BOOLEAN /\ c.buffered \in BOOLEAN /\ c.buffered = b
    BY <2>2 DEF DeadReckon
  <2>3. ASSUME NEW moved \in BOOLEAN, c = [scroll |-> moved, update |-> TRUE,
                                           buffered |-> Insert(b, continues, moved)]
        PROVE  c.scroll \in BOOLEAN /\ c.buffered \in BOOLEAN /\ c.update
    BY <2>3 DEF Insert
  <2> QED BY <2>1, <2>a, <2>2, <2>3
<1> QED BY <1>1, <1>2

LEMMA ScrollOutcome ==
  ASSUME X!TouchTypeOK, NEW new, NEW far, NEW buttons, NEW ages,
         X!Scroll(new, far, buttons, ages)
  PROVE  Outcome(ages)
<1>1. should_fling \in BOOLEAN /\ scroll_buffered \in BOOLEAN /\ on_mouse_scrolled \in BOOLEAN
  BY DEF X!TouchTypeOK
<1> DEFINE Scrolls == X!ComputeScroll(new \subseteq fingers, on_mouse_moving' # {},
                         current_gesture_type = "scroll" /\ fingers = new,
                         on_mouse_scrolled, scroll_buffered)
<1> DEFINE Scrolled(c, hold_off) ==
             /\ should_fling' = ((should_fling /\ ~far) \/ c.scroll)
             /\ current_gesture_type' = X!TypeOf(hold_off, c.scroll)
             /\ IF current_gesture_type' = "scroll" /\ ~c.update
                THEN /\ scroll_buffered' = c.buffered
                     /\ sent' = "none"
                     /\ UNCHANGED on_mouse_scrolled
                ELSE /\ scroll_buffered' =
                          X!UpdateScrollEventBuffer(current_gesture_type', c.buffered)
                     /\ on_mouse_scrolled' = (c.scroll /\ ~hold_off)
                     /\ sent' = IF on_mouse_scrolled' THEN "scroll" ELSE "none"
<1>a. PICK c \in Scrolls :
        \E hold_off \in X!HoldOffScroll(buttons, ages, c.buffered) : Scrolled(c, hold_off)
  BY Zenon DEF X!Scroll
<1>2. PICK hold_off \in X!HoldOffScroll(buttons, ages, c.buffered) : Scrolled(c, hold_off)
  BY <1>a
<1>3. c.scroll \in BOOLEAN /\ c.buffered \in BOOLEAN /\ (~c.update => c.buffered = scroll_buffered)
  <2> DEFINE continues == current_gesture_type = "scroll" /\ fingers = new
  <2>1. continues \in BOOLEAN
    OBVIOUS
  <2>2. c \in ComputeScroll(new \subseteq fingers, on_mouse_moving' # {}, continues,
                           on_mouse_scrolled, scroll_buffered)
    BY SameScroll
  <2> HIDE DEF continues
  <2> QED BY <1>1, <2>1, <2>2, ScrollTypes
<1> HIDE DEF Scrolls
<1>4. hold_off \in BOOLEAN /\ (~hold_off => \A b \in {Left, Right} : ~(ages[b] < LeadTime[b]))
  BY <1>2 DEF X!HoldOffScroll
<1>5. CASE current_gesture_type' = "scroll" /\ ~c.update
  BY <1>1, <1>2, <1>3, <1>5 DEF Outcome
<1>6. CASE ~(current_gesture_type' = "scroll" /\ ~c.update)
  <2>1. /\ scroll_buffered' = (current_gesture_type' = "scroll" /\ c.buffered)
        /\ on_mouse_scrolled' = (c.scroll /\ ~hold_off)
        /\ sent' = IF on_mouse_scrolled' THEN "scroll" ELSE "none"
    BY <1>2, <1>6 DEF X!UpdateScrollEventBuffer
  <2>2. current_gesture_type' = IF c.scroll /\ ~hold_off THEN "scroll" ELSE "null"
    BY <1>2 DEF X!TypeOf
  <2>3. sent' = "scroll" => ~hold_off
    BY <2>1
  <2>4. scroll_buffered' => sent' = "scroll"
    BY <2>1, <2>2
  <2>5. /\ current_gesture_type' \in {"null", "scroll", "fling"} /\ sent' # "fling"
        /\ should_fling' \in BOOLEAN /\ scroll_buffered' \in BOOLEAN
        /\ on_mouse_scrolled' \in BOOLEAN
    BY <1>2, <2>1, <2>2
  <2> QED BY <1>4, <2>3, <2>4, <2>5 DEF Outcome
<1> QED BY <1>5, <1>6

LEMMA TouchOutcome ==
  ASSUME X!TouchTypeOK, NEW new, NEW far, NEW buttons, NEW ages,
         X!InterpretMultitouchEvent(new, far, buttons, ages)
  PROVE  Outcome(ages)
<1>1. /\ should_fling \in BOOLEAN /\ scroll_buffered \in BOOLEAN
      /\ current_gesture_type \in {"null", "scroll", "fling"}
  BY DEF X!TouchTypeOK
<1>2. CASE X!Fling
  <2>1. PICK r \in X!ComputeFling(scroll_buffered) :
          sent' \in IF r = "fling" THEN {"fling", "none"} ELSE {"none"}
    BY <1>2 DEF X!Fling
  <2>2. sent' = "fling" => scroll_buffered
    BY <2>1 DEF X!ComputeFling
  <2>3. sent' # "scroll"
    BY <2>1
  <2> QED BY <1>2, <2>2, <2>3 DEF X!Fling, Outcome, X!UpdateScrollEventBuffer
<1>3. CASE X!Scroll(new, far, buttons, ages)
  BY <1>3, ScrollOutcome
<1>4. CASE X!NoFinger(far)
  BY <1>1, <1>4 DEF X!NoFinger, Outcome, X!UpdateScrollEventBuffer
<1> QED BY <1>2, <1>3, <1>4 DEF X!InterpretMultitouchEvent

\* A buffer that is not empty holds a scroll the client has seen.
TouchInv == X!TouchTypeOK /\ (scroll_buffered => going # "none")

LEMMA TouchStep ==
  ASSUME X!MouseTypeOK, TouchInv, told = buttons_down, X!TouchSyncInterpret
  PROVE  /\ X!MouseTypeOK' /\ TouchInv' /\ told' = buttons_down' /\ emulated' = emulated
         /\ sent' = "fling" => going # "none"
         /\ sent' = "scroll" => \A b \in {Left, Right} : b \in told => b \in told'
<1> DEFINE Synced(new, buttons, dt, far, rel, changed, added) ==
             /\ fingers' = new
             /\ on_mouse_moving' = X!Moving(new, far, added)
             /\ buttons_down' = buttons
             /\ told' = X!InterpretMouseButtonEvent(told, buttons)
             /\ up_age' = X!PushGesture(buttons, dt)
             /\ IF X!Interleaved(far, rel, new, changed)
                THEN /\ should_fling' = (should_fling /\ ~far)
                     /\ sent' = "none"
                     /\ UNCHANGED <<current_gesture_type, scroll_buffered, on_mouse_scrolled>>
                ELSE X!InterpretMultitouchEvent(new, far, buttons, up_age')
             /\ going' = X!Going(far)
             /\ UNCHANGED <<X!emulation, X!heard>>
<1>1. PICK new \in SUBSET TouchIds, buttons \in SUBSET {Left, Middle, Right},
           dt \in 0 .. MaxStep, far \in BOOLEAN, rel \in BOOLEAN, changed \in BOOLEAN :
        \E added \in SUBSET X!MayBeginToMove(new, far, changed) :
          Synced(new, buttons, dt, far, rel, changed, added)
  BY Zenon DEF X!TouchSyncInterpret
<1>2. PICK added \in SUBSET X!MayBeginToMove(new, far, changed) :
        Synced(new, buttons, dt, far, rel, changed, added)
  BY <1>1
<1>3. told' = buttons /\ buttons_down' = buttons
  BY <1>2, ChangesAreTold
<1>4. Outcome(up_age')
  <2>1. CASE X!Interleaved(far, rel, new, changed)
    BY <1>2, <2>1 DEF Outcome, TouchInv, X!TouchTypeOK
  <2>2. CASE ~X!Interleaved(far, rel, new, changed)
    BY <1>2, <2>2, TouchOutcome DEF TouchInv
  <2> QED BY <2>1, <2>2
<1>5. up_age' \in [{Left, Right} -> 0 .. AgeCap]
  <2>1. \A b \in {Left, Right} : X!Older(up_age[b], dt) \in 0 .. AgeCap
    BY LeadAssumption DEF X!Older, TouchInv, X!TouchTypeOK
  <2> QED BY <1>2, <2>1, LeadAssumption DEF X!PushGesture
<1>6. on_mouse_moving' \subseteq fingers' /\ fingers' \subseteq TouchIds
  BY <1>2 DEF X!Moving, X!MayBeginToMove
<1>7. going' # "none" \/ ~scroll_buffered'
  <2>1. CASE sent' = "scroll"
    BY <1>2, <2>1 DEF X!Going
  <2>2. CASE sent' # "scroll" /\ scroll_buffered'
    BY <1>2, <1>4, <2>2 DEF X!Going, Outcome, TouchInv
  <2> QED BY <2>1, <2>2
<1>8. TouchInv'
  BY <1>4, <1>5, <1>6, <1>7 DEF TouchInv, X!TouchTypeOK, Outcome
<1>9. X!MouseTypeOK' /\ emulated' = emulated
  BY <1>2, <1>3 DEF X!MouseTypeOK, X!emulation, X!heard
<1>10. sent' = "fling" => going # "none"
  BY <1>4 DEF Outcome, TouchInv
<1>11. ASSUME sent' = "scroll", NEW b \in {Left, Right}, b \in told
       PROVE  b \in told'
  <2> SUFFICES ASSUME b \notin buttons PROVE FALSE
    BY <1>3
  <2>1. up_age'[b] = 0
    BY <1>2, <1>11 DEF X!PushGesture
  <2>2. ~(up_age'[b] < LeadTime[b]) /\ LeadTime[b] \in Nat \ {0}
    BY <1>4, <1>11, LeadAssumption DEF Outcome
  <2> QED BY <2>1, <2>2
<1> QED BY <1>3, <1>8, <1>9, <1>10, <1>11

LEMMA SyncKeepsTypes ==
  ASSUME TypeOK, SyncInterpret
  PROVE  TypeOK'
<1>1. PICK new \in SUBSET Ids, down \in BOOLEAN, tap \in Taps :
      \E palms \in SUBSET new :
       \E verdict \in Verdicts(new, palms),
          newly \in IF Same(new, down) THEN SUBSET (new \ moving) ELSE {{}} :
         UpdateState(new, down, palms, verdict, newly, tap)
  BY Zenon DEF SyncInterpret
<1>2. PICK palms \in SUBSET new :
       \E verdict \in Verdicts(new, palms),
          newly \in IF Same(new, down) THEN SUBSET (new \ moving) ELSE {{}} :
         UpdateState(new, down, palms, verdict, newly, tap)
  BY <1>1, Zenon
<1>3. PICK verdict \in Verdicts(new, palms),
           newly \in IF Same(new, down) THEN SUBSET (new \ moving) ELSE {{}} :
        UpdateState(new, down, palms, verdict, newly, tap)
  BY <1>2, Zenon
<1>4. newly \in SUBSET new
  OBVIOUS
<1> QED BY <1>3, <1>4, StateKeepsTypes

-----------------------------------------------------------------------------
(* The three devices *)

DevicesInv ==
  /\ TypeOK /\ Inv
  /\ X!MouseTypeOK /\ Agreement /\ TouchInv
  /\ device = "multitouch_mouse" => ~emulated
  /\ device # "multitouch_mouse" => sent = "none"
  /\ device # "touchpad" => result = "null"

LEMMA InitDevicesInv == InitDevices => DevicesInv
<1> SUFFICES ASSUME InitDevices PROVE DevicesInv
  OBVIOUS
<1>1. Init /\ X!MouseInit /\ X!TouchInit
  BY DEF InitDevices
<1>2. TypeOK
  <2>1. DOMAIN thumb = {}
    BY <1>1 DEF Init
  <2> QED BY <1>1, <2>1 DEF Init, TypeOK, Types
<1>3. X!MouseTypeOK /\ Agreement
  BY <1>1 DEF X!MouseInit, X!MouseTypeOK, Agreement, X!ButtonsAgree, X!MiddleIsReleased
<1>4. TouchInv
  <2>1. up_age = [b \in {Left, Right} |-> AgeCap] /\ AgeCap \in 0 .. AgeCap
    BY <1>1, LeadAssumption DEF X!TouchInit
  <2>2. up_age \in [{Left, Right} -> 0 .. AgeCap]
    BY <2>1
  <2> QED BY <1>1, <2>2 DEF X!TouchInit, TouchInv, X!TouchTypeOK
<1> QED BY <1>1, <1>2, <1>3, <1>4, InitInv DEF DevicesInv, Init, X!MouseInit, X!TouchInit

LEMMA TimerKeepsTypes == TypeOK /\ HandleTimer => TypeOK'
BY DEF TypeOK, HandleTimer, times, pinch, scrolling

LEMMA TouchpadRests ==
  ASSUME TypeOK, Inv, UNCHANGED vars
  PROVE  TypeOK' /\ Inv' /\ result' = result
<1>1. TypeOK' /\ result' = result
  BY DEF TypeOK, vars, times, pinch, scrolling
<1> QED BY <1>1, StutterKeepsInv

LEMMA MouseRests ==
  ASSUME X!MouseTypeOK, Agreement, UNCHANGED mouse_vars
  PROVE  X!MouseTypeOK' /\ Agreement' /\ emulated' = emulated
<1>1. X!MouseTypeOK' /\ emulated' = emulated
  BY DEF X!MouseTypeOK, mouse_vars
<1> QED BY <1>1, AgreementKept

LEMMA TouchRests ==
  ASSUME TouchInv, UNCHANGED touch_vars
  PROVE  TouchInv' /\ sent' = sent
BY DEF TouchInv, X!TouchTypeOK, touch_vars

\* What a step of a device does, beyond the invariant, with the other two at rest.
DevicesStep ==
  /\ \/ /\ result' = "fling" => scrolled_last /\ gesture_type = "scroll"
        /\ sent' = "fling" => going # "none"
     \/ UNCHANGED <<vars, touch_vars>>
  /\ sent' = "scroll" => \/ \A b \in {Left, Right} : b \in told => b \in told'
                         \/ UNCHANGED <<mouse_vars, touch_vars>>
  /\ Next \/ UNCHANGED vars

LEMMA NextDevicesInv ==
  ASSUME DevicesInv, NextDevices \/ UNCHANGED <<device, vars, mouse_vars, touch_vars>>
  PROVE  DevicesInv' /\ DevicesStep
<1> USE DEF DevicesInv
<1>1. device' = device
  BY DEF NextDevices
<1>2. CASE device = "touchpad" /\ Next /\ UNCHANGED <<mouse_vars, touch_vars>>
  <2>1. TypeOK' /\ Inv' /\ (result' = "fling" => scrolled_last /\ gesture_type = "scroll")
    <3>1. CASE SyncInterpret
      BY <3>1, SyncKeepsTypes, StepKeepsInv
    <3>2. CASE HandleTimer
      BY <3>2, TimerKeepsTypes, TimerKeepsInv
    <3> QED BY <1>2, <3>1, <3>2 DEF Next
  <2>2. X!MouseTypeOK' /\ Agreement' /\ TouchInv' /\ sent' = sent /\ emulated' = emulated
    BY <1>2, MouseRests, TouchRests
  <2> QED BY <1>1, <1>2, <2>1, <2>2 DEF DevicesStep
<1>3. CASE device = "mouse" /\ X!MouseNext /\ UNCHANGED <<vars, touch_vars>>
  <2>1. TypeOK' /\ Inv' /\ result' = result /\ TouchInv' /\ sent' = sent
    BY <1>3, TouchpadRests, TouchRests
  <2>2. X!MouseTypeOK' /\ Agreement'
    BY <1>3, MouseKeepsTypes, AgreementKept
  <2> QED BY <1>1, <1>3, <2>1, <2>2 DEF DevicesStep
<1>4. CASE device = "multitouch_mouse" /\ X!TouchSyncInterpret /\ UNCHANGED vars
  <2>1. TypeOK' /\ Inv' /\ result' = result
    BY <1>4, TouchpadRests
  <2>2. told = buttons_down
    BY <1>4 DEF Agreement, X!ButtonsAgree
  <2>3. /\ X!MouseTypeOK' /\ TouchInv' /\ told' = buttons_down' /\ emulated' = emulated
        /\ sent' = "fling" => going # "none"
        /\ sent' = "scroll" => \A b \in {Left, Right} : b \in told => b \in told'
    BY <1>4, <2>2, TouchStep
  <2>4. Agreement'
    BY <2>3 DEF Agreement, X!ButtonsAgree, X!MiddleIsReleased
  <2> QED BY <1>1, <1>4, <2>1, <2>3, <2>4 DEF DevicesStep
<1>5. CASE UNCHANGED <<device, vars, mouse_vars, touch_vars>>
  BY <1>5, TouchpadRests, MouseRests, TouchRests DEF DevicesStep
<1> QED BY <1>2, <1>3, <1>4, <1>5 DEF NextDevices

LEMMA DevicesInvariant ==
  SpecDevices => []DevicesInv /\ [][NextDevices]_<<device, vars, mouse_vars, touch_vars>>
<1>1. DevicesInv /\ [NextDevices]_<<device, vars, mouse_vars, touch_vars>> => DevicesInv'
  BY NextDevicesInv
<1> QED BY <1>1, InitDevicesInv, PTL DEF SpecDevices

\* The fields of all three devices keep their types, for any fingers, timeouts and lead
\* times, and what is kept of fingers is of those that are there.
THEOREM DevicesTyping == SpecDevices => []DevicesTypeOK
<1>1. DevicesInv => DevicesTypeOK
  BY DEF DevicesInv, TouchInv, DevicesTypeOK
<1> QED BY <1>1, DevicesInvariant, PTL

\* Through any states and writes of the wheel's property the client's buttons are the
\* mouse's but for holds that stood for a wheel, and the middle button is never held longer
\* than it is down; on a multitouch mouse no scroll is sent in the state in which a button
\* goes up, however many fingers move.
THEOREM MiceTellTheirButtons == SpecDevices => ButtonsAreTheMouses
<1>1. DevicesInv => X!ButtonsAgree /\ X!MiddleIsReleased
  BY DEF DevicesInv, Agreement
<1>2. DevicesInv /\ [NextDevices]_<<device, vars, mouse_vars, touch_vars>> =>
        [sent' = "scroll" => \A b \in {Left, Right} : b \in told => b \in told']_
           <<X!mouse_vars, X!touch_vars>>
  <2>1. UNCHANGED <<mouse_vars, touch_vars>> => UNCHANGED <<X!mouse_vars, X!touch_vars>>
    BY DEF mouse_vars, touch_vars, X!mouse_vars, X!touch_vars, X!emulation, X!heard
  <2> QED BY <2>1, NextDevicesInv DEF DevicesStep
<1> QED BY <1>1, <1>2, DevicesInvariant, PTL DEF ButtonsAreTheMouses, X!ClicksDoNotScroll

\* On a touchpad and on a multitouch mouse a fling, also one of three fingers of which one
\* leaves, carries on a scroll the client has seen; on a touchpad taps and clicks may have
\* come between, but no other gesture of the fingers.
THEOREM FlingsOfScrolls == SpecDevices => FlingsFollowScrolls
<1>1. DevicesInv /\ [NextDevices]_<<device, vars, mouse_vars, touch_vars>> =>
        [/\ result' = "fling" => scrolled_last /\ gesture_type = "scroll"
         /\ sent' = "fling" => going # "none"]_<<vars, touch_vars>>
  BY NextDevicesInv DEF DevicesStep
<1> QED BY <1>1, DevicesInvariant, PTL DEF FlingsFollowScrolls

\* For any number of fingers, a finger that was taken for a thumb all through its
\* evaluation stays one and does not gesture while others may.
THEOREM ThumbsForGood == SpecDevices => ThumbsStay
<1>1. DevicesInv /\ [NextDevices]_<<device, vars, mouse_vars, touch_vars>> =>
        [\A f \in DOMAIN thumb :
           thumb[f] = 0 /\ f \in present' =>
             /\ f \in DOMAIN thumb'
             /\ \/ f \notin prev_gs_fingers'
                \/ Cardinality(present' \ DOMAIN thumb') > MaxGesturing]_vars
  BY NextDevicesInv, StepKeepsInv, TimerRests DEF DevicesStep, DevicesInv, Next
<1> QED BY <1>1, DevicesInvariant, PTL DEF ThumbsStay

\* The decision for or against a pinch is not taken back while the fingers stay.
THEOREM PinchOnce == SpecDevices => PinchDecidedOnce
<1>1. DevicesInv /\ [NextDevices]_<<device, vars, mouse_vars, touch_vars>> =>
        [pinch_locked /\ present = present' /\ button = button' =>
           /\ pinch_locked' /\ guess' = guess
           /\ gesture_type # "pinch" => gesture_type' # "pinch"]_vars
  BY NextDevicesInv, StepKeepsInv, TimerRests DEF DevicesStep, DevicesInv, Next
<1> QED BY <1>1, DevicesInvariant, PTL DEF PinchDecidedOnce
=============================================================================
