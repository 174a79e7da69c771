--------------------------- MODULE StuckButtonChain ---------------------------
(***************************************************************************)
(* GestureInterpreter, the stuck button inhibitor and the lookahead filter *)
(* as GestureInterpreter::InitializeTouchpad2 stacks them: the filters     *)
(* between these pass hardware states, timers and button changes on.  The  *)
(* interpreters below the lookahead filter are one unspecified interpreter *)
(* that may send any button change when it is called, and forget to take   *)
(* it back.                                                                *)
(***************************************************************************)
EXTENDS Integers, Sequences, TLAPS

CONSTANTS
  NumNodes, KMaxDelay, MinDelay, MaxDelay, SplitMinPeriod, Suppression, DelayOnLiftoff,
  Ids, Times,           \* as in Lookahead
  Buttons, TimeoutLength,
  StateAnswers,         \* timeouts asked for on a hardware state
  TimerAnswers,         \* timeouts asked for on a timer
  LastPush, MaxLate     \* as in HostedLookahead

VARIABLES
  queue, free, interpreter_due, last_interpreted_time, pc, now, timeout,
  next_timeout,         \* the lookahead filter
  incoming_button_must_be_up, sent_buttons_down, next_expects_timer, sb_pc,
  sb_timeout, pressed, told,    \* the inhibitor and its client
  clock, armed, last_hw, caller \* the host

LA == INSTANCE Lookahead WITH NextAnswers <- StateAnswers \cup TimerAnswers
SB == INSTANCE StuckButton WITH pc <- sb_pc, timeout <- sb_timeout,
                               NextAnswers <- StateAnswers \cup TimerAnswers
Timer == INSTANCE GestureTimer

la_vars == <<queue, free, interpreter_due, last_interpreted_time, pc, now,
             timeout, next_timeout>>
sb_vars == <<incoming_button_must_be_up, sent_buttons_down, next_expects_timer,
             sb_pc, sb_timeout, pressed, told>>
host_vars == <<clock, armed, last_hw, caller>>
vars == <<la_vars, sb_vars, host_vars>>

Epoch == CHOOSE t \in Times : \A u \in Times : t <= u

Init ==
  /\ LA!Init
  /\ SB!Init
  /\ clock = Epoch
  /\ armed = Timer!NotArmed
  /\ last_hw = 0
  /\ caller = "push"

Tick ==
  /\ sb_pc = "idle"
  /\ clock + 1 \in Times
  /\ armed # Timer!NotArmed => clock < armed + MaxLate
  /\ clock' = clock + 1
  /\ UNCHANGED <<la_vars, sb_vars, armed, last_hw, caller>>

\* A hardware state goes through the inhibitor into the queue.  It touches the
\* pad if and only if it has fingers.
PushHardwareState ==
  \E touching, clicking \in BOOLEAN :
    /\ last_hw < clock /\ clock <= LastPush
    /\ SB!SyncInterpret(touching, clicking)
    /\ LA!SyncInterpret(clock)
    /\ free > 0 => touching = (queue'[Len(queue')].fingers # {})
    /\ last_hw' = clock
    /\ caller' = "push"
    /\ UNCHANGED <<clock, armed>>

TimerCallback ==
  /\ armed # Timer!NotArmed
  /\ armed <= clock
  /\ SB!HandleTimer
  /\ IF sb_pc' = "next" THEN LA!HandleTimer(clock) ELSE UNCHANGED la_vars
  /\ armed' = Timer!NotArmed
  /\ caller' = "timer"
  /\ UNCHANGED <<clock, last_hw>>

\* The lowest interpreters are called, and perhaps change a button.
AskLowest ==
  /\ \/ \E answer \in StateAnswers : LA!PresentState(answer)
     \/ \E answer \in TimerAnswers : LA!CallNextTimer(answer)
  /\ \/ UNCHANGED sb_vars
     \/ \E b \in Buttons : \/ SB!ConsumeButtonsChange({b}, {})
                           \/ SB!ConsumeButtonsChange({}, {b})
                           \/ SB!ConsumeButtonsChange({b}, {b})
  /\ UNCHANGED host_vars

EndLoop ==
  /\ LA!SpuriousCallback \/ LA!NothingDue
  /\ UNCHANGED <<sb_vars, host_vars>>

\* The lookahead filter returns to the inhibitor ...
LookaheadReturns ==
  /\ LA!Return
  /\ SB!HandleTimeouts(timeout)
  /\ UNCHANGED host_vars

\* ... and the inhibitor to GestureInterpreter, which sets the timer.
InhibitorReturns ==
  /\ SB!Return
  /\ armed' = IF caller = "push" THEN Timer!ArmedByPush(sb_timeout, clock)
                                 ELSE Timer!ArmedByCallback(sb_timeout, clock)
  /\ UNCHANGED <<la_vars, clock, last_hw, caller>>

Next ==
  \/ Tick
  \/ PushHardwareState
  \/ TimerCallback
  \/ AskLowest
  \/ EndLoop
  \/ LookaheadReturns
  \/ InhibitorReturns

Spec == Init /\ [][Next]_vars

\* As in HostedLookahead: time passes, the provider calls back, handlers go on.
Fairness ==
  /\ SF_vars(Tick)
  /\ WF_vars(TimerCallback)
  /\ WF_vars(AskLowest)
  /\ WF_vars(EndLoop)
  /\ WF_vars(LookaheadReturns)
  /\ WF_vars(InhibitorReturns)

FairSpec == Spec /\ Fairness

(***************************************************************************)
(* Properties                                                              *)
(***************************************************************************)
\* The host never calls back an inhibitor that has nothing to do: the branch
\* that logs "Bug: got callback, but no gesture to send." is dead.
NoCallbackForNothing ==
  sb_pc = "idle" /\ armed # Timer!NotArmed =>
    next_expects_timer \/ sent_buttons_down # {}

\* The inhibitor never lifts a button while the hardware it has last seen is
\* touched or clicked: the host cancels its timer in time.
NeverLiftsHeldButton ==
  [][SB!LiftButtons => incoming_button_must_be_up]_vars

\* A client button is down only as long as the hardware is in use: "if all
\* fingers have left the touchpad and the physical button is up, that we don't
\* get in a situation where we've sent a button-down gesture, but never sent a
\* button-up gesture".
Stuck == incoming_button_must_be_up /\ pressed # {}
StuckButtonIsLifted == []<>~Stuck

(***************************************************************************)
(* Proofs, for any bounds, any buttons and any answers from below          *)
(***************************************************************************)
\* The answer to the host is nothing while a handler runs, and in the end it is next_'s,
\* or asks for a callback that has a button to lift.
ReasonToCall == next_expects_timer \/ (incoming_button_must_be_up /\ sent_buttons_down # {})

TimerInv ==
  /\ sb_pc \in {"idle", "next"} => sb_timeout = SB!NoTime
  /\ sb_pc = "return" => sb_timeout = SB!NoTime \/ ReasonToCall
  /\ sb_pc = "idle" => armed = Timer!NotArmed \/ ReasonToCall

LEMMA TimerInvInit == Init => TimerInv
BY DEF Init, SB!Init, SB!NoTime, TimerInv

\* A handler that starts owes an answer, and a callback leaves no other one behind.
LEMMA HandlersOwe ==
  ASSUME TimerInv, PushHardwareState \/ TimerCallback
  PROVE  TimerInv'
<1>1. CASE PushHardwareState
  <2>1. PICK touching, clicking \in BOOLEAN : SB!SyncInterpret(touching, clicking)
    BY <1>1 DEF PushHardwareState
  <2> QED BY <2>1 DEF SB!SyncInterpret, TimerInv, SB!NoTime
<1>2. CASE TimerCallback
  <2>1. SB!PassTimerOn \/ SB!LiftButtons \/ SB!CallbackForNothing
    BY <1>2 DEF TimerCallback, SB!HandleTimer
  <2> QED BY <2>1 DEF SB!PassTimerOn, SB!LiftButtons, SB!CallbackForNothing, TimerInv, SB!NoTime
<1> QED BY <1>1, <1>2

LEMMA TimerInvStep == TimerInv /\ [Next]_vars => TimerInv'
<1> SUFFICES ASSUME TimerInv, [Next]_vars PROVE TimerInv'
  OBVIOUS
<1>1. CASE Tick
  BY <1>1 DEF Tick, sb_vars, TimerInv, ReasonToCall
<1>2. CASE PushHardwareState \/ TimerCallback
  BY <1>2, HandlersOwe
<1>3. CASE AskLowest
  <2>1. CASE UNCHANGED sb_vars
    BY <1>3, <2>1 DEF AskLowest, sb_vars, host_vars, TimerInv, ReasonToCall
  <2>2. ASSUME NEW b \in Buttons, NEW down, NEW up, SB!ConsumeButtonsChange(down, up)
        PROVE  TimerInv'
    BY <2>2 DEF SB!ConsumeButtonsChange, TimerInv
  <2> QED BY <1>3, <2>1, <2>2 DEF AskLowest
<1>4. CASE EndLoop
  BY <1>4 DEF EndLoop, sb_vars, host_vars, TimerInv, ReasonToCall
<1>5. CASE LookaheadReturns
  <2>1. SB!HandleTimeouts(timeout) /\ sb_timeout = SB!NoTime
    BY <1>5 DEF LookaheadReturns, SB!HandleTimeouts, TimerInv
  <2>2. sb_pc' = "return"
    BY <2>1 DEF SB!HandleTimeouts
  <2>3. CASE timeout >= 0
    BY <2>1, <2>2, <2>3 DEF SB!HandleTimeouts, TimerInv, ReasonToCall
  <2>4. CASE ~(timeout >= 0)
    <3>1. sb_timeout' = SB!NoTime \/ (incoming_button_must_be_up /\ sent_buttons_down # {})
      BY <2>1, <2>4 DEF SB!HandleTimeouts
    <3>2. UNCHANGED <<incoming_button_must_be_up, sent_buttons_down>>
      BY <2>1 DEF SB!HandleTimeouts
    <3> QED BY <2>2, <3>1, <3>2 DEF TimerInv, ReasonToCall
  <2> QED BY <2>3, <2>4
<1>6. CASE InhibitorReturns
  <2>1. sb_pc' = "idle" /\ sb_timeout' = SB!NoTime
    BY <1>6 DEF InhibitorReturns, SB!Return
  <2>2. ReasonToCall' = ReasonToCall
    BY <1>6 DEF InhibitorReturns, SB!Return, ReasonToCall
  <2>3. sb_timeout = SB!NoTime => armed' = Timer!NotArmed
    BY <1>6 DEF InhibitorReturns, SB!NoTime, Timer!ArmedByPush, Timer!ArmedByCallback
  <2>4. sb_timeout = SB!NoTime \/ ReasonToCall
    BY <1>6 DEF InhibitorReturns, SB!Return, TimerInv
  <2> QED BY <2>1, <2>2, <2>3, <2>4 DEF TimerInv
<1>7. CASE UNCHANGED vars
  BY <1>7 DEF vars, sb_vars, host_vars, TimerInv, ReasonToCall
<1> QED BY <1>1, <1>2, <1>3, <1>4, <1>5, <1>6, <1>7 DEF Next

\* The inhibitor asks to be called back only for next_ or for a button it may lift, and no
\* change of the buttons comes between: the callback always finds something to do.
THEOREM CallbacksHaveAReason == Spec => []NoCallbackForNothing
<1>1. TimerInv => NoCallbackForNothing
  BY DEF TimerInv, ReasonToCall, NoCallbackForNothing
<1> QED BY <1>1, TimerInvInit, TimerInvStep, PTL DEF Spec

\* When the inhibitor lifts buttons, the last state it has seen was released, however the
\* states and the callback come one after another.
THEOREM HeldButtonsStay == Spec => NeverLiftsHeldButton
<1>1. TimerInv /\ [Next]_vars => [SB!LiftButtons => incoming_button_must_be_up]_vars
  <2> SUFFICES ASSUME TimerInv, Next, SB!LiftButtons PROVE incoming_button_must_be_up
    OBVIOUS
  <2>1. /\ sb_pc = "idle" /\ sb_pc' = "next" /\ ~next_expects_timer
        /\ sent_buttons_down # {} /\ sent_buttons_down' = {}
    BY DEF SB!LiftButtons
  <2>2. CASE TimerCallback
    BY <2>1, <2>2 DEF TimerCallback, TimerInv, ReasonToCall
  <2>3. ~(Tick \/ EndLoop)
    BY <2>1 DEF Tick, EndLoop, sb_vars
  <2>4. ~PushHardwareState
    BY <2>1 DEF PushHardwareState, SB!SyncInterpret
  <2>5. ~AskLowest
    BY <2>1 DEF AskLowest, sb_vars, SB!ConsumeButtonsChange
  <2>6. ~(LookaheadReturns \/ InhibitorReturns)
    BY <2>1 DEF LookaheadReturns, InhibitorReturns, SB!HandleTimeouts, SB!Return
  <2> QED BY <2>2, <2>3, <2>4, <2>5, <2>6 DEF Next
<1> QED BY <1>1, TimerInvInit, TimerInvStep, PTL DEF Spec, NeverLiftsHeldButton

==============================================================================
