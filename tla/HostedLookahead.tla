--------------------------- MODULE HostedLookahead ---------------------------
(***************************************************************************)
(* The lookahead filter under GestureInterpreter: hardware states are      *)
(* pushed in the order of their timestamps, each at or some time after its *)
(* timestamp, and the one timer is set from what the filter's handlers     *)
(* leave in *timeout.  The filters between the two pass the timeout on;    *)
(* the one that does not, the stuck button inhibitor, is in                *)
(* StuckButtonChain.                                                       *)
(***************************************************************************)
EXTENDS Lookahead

CONSTANTS
  LastPush,     \* no hardware state has a later timestamp
  MaxLag,       \* how long a hardware state takes to reach the library
  MaxLate,      \* how late the provider may call back
  MaxEarly      \* how early: providers round to their own unit

ASSUME HostAssumption ==
  /\ LastPush \in Nat /\ MaxLag \in Nat /\ MaxLate \in Nat /\ MaxEarly \in Nat
  /\ Times # {}

\* kMaxQNodes is 16: the two completed states that are kept back never fill the pool.
ASSUME PoolAssumption == NumNodes > 2

VARIABLES
  clock,        \* the host's clock
  armed,        \* the moment the timer is set for
  last_hw,      \* the newest timestamp pushed
  caller,       \* what the running handler returns to: "push" or "timer"
  wanted        \* history: the moment next_ last asked HandleTimer for

hvars == <<vars, clock, armed, last_hw, caller, wanted>>

Timer == INSTANCE GestureTimer

Epoch == CHOOSE t \in Times : \A u \in Times : t <= u

HInit ==
  /\ Init
  /\ clock = Epoch
  /\ armed = NoTime
  /\ last_hw = 0
  /\ caller = "push"
  /\ wanted = NoTime

Tick ==
  /\ pc = "idle"
  /\ clock + 1 \in Times
  /\ armed # NoTime => clock < armed + MaxLate
  /\ clock' = clock + 1
  /\ UNCHANGED <<vars, armed, last_hw, caller, wanted>>

PushHardwareState ==
  \E ts \in Times :
    /\ last_hw < ts /\ ts <= LastPush
    /\ ts <= clock /\ clock <= ts + MaxLag
    /\ SyncInterpret(ts)
    /\ last_hw' = ts
    /\ caller' = "push"
    /\ UNCHANGED <<clock, armed, wanted>>

TimerCallback ==
  /\ armed # NoTime
  /\ armed <= clock + MaxEarly
  /\ HandleTimer(clock)
  /\ armed' = NoTime
  /\ caller' = "timer"
  /\ UNCHANGED <<clock, last_hw, wanted>>

AskNext ==
  \E answer \in NextAnswers :
    /\ CallNextTimer(answer) \/ PresentState(answer)
    /\ wanted' = IF answer > 0 THEN now + answer ELSE NoTime
    /\ UNCHANGED <<clock, armed, last_hw, caller>>

EndLoop ==
  /\ SpuriousCallback \/ NothingDue
  /\ UNCHANGED <<clock, armed, last_hw, caller, wanted>>

HandlerReturns ==
  /\ Return
  /\ armed' = IF caller = "push" THEN Timer!ArmedByPush(timeout, clock)
                                 ELSE Timer!ArmedByCallback(timeout, clock)
  /\ UNCHANGED <<clock, last_hw, caller, wanted>>

HNext ==
  \/ Tick
  \/ PushHardwareState
  \/ TimerCallback
  \/ AskNext
  \/ EndLoop
  \/ HandlerReturns

HSpec == HInit /\ [][HNext]_hvars

\* The provider calls back, and a handler that runs goes on.  Time passes even
\* if the provider keeps calling back too early, hence strong fairness.
Fairness ==
  /\ SF_hvars(Tick)
  /\ WF_hvars(TimerCallback)
  /\ WF_hvars(AskNext)
  /\ WF_hvars(EndLoop)
  /\ WF_hvars(HandlerReturns)

FairHSpec == HSpec /\ Fairness

(***************************************************************************)
(* Properties                                                              *)
(***************************************************************************)
IsWaiting == Uncompleted(queue) # {}
FirstDue == queue[FirstUncompleted(queue)].due

\* The timestamps in the queue never go back when those of the device do not,
\* made-up states included.
QueueInOrder ==
  \A i, j \in 1..Len(queue) : i < j => queue[i].ts <= queue[j].ts

\* Bounded delay: while the pool has a node left, no state waits past its due
\* time for longer than its own way to the library and the timer's lateness.
\* The host timer is therefore never cancelled or overwritten under a state
\* that waits for it.
NeverLate ==
  pc = "idle" /\ IsWaiting /\ free > 0 =>
    /\ armed # NoTime
    /\ armed <= FirstDue + MaxLag
    /\ clock <= FirstDue + MaxLag + MaxLate

\* While no state waits, a timer the next interpreter asked for survives every
\* spurious callback, in interpreter_due_ and in the host's timer.
NextTimerKeptWhenQuiet ==
  pc = "idle" /\ wanted # NoTime /\ ~IsWaiting =>
    /\ interpreter_due = wanted
    /\ armed # NoTime
    /\ armed <= wanted + MaxLag

\* Interpreter::SyncInterpret's contract, which next_ relies on: "If *timeout
\* is set to >0.0, a timer will be setup to call HandleTimer after *timeout
\* time passes."  Either that call is still planned or a state comes first.
NextTimerKept ==
  pc = "idle" /\ wanted # NoTime =>
    \/ interpreter_due = wanted
    \/ IsWaiting /\ FirstDue <= wanted

\* "We want to present time to next_ in a monotonically increasing manner, so
\* this keeps track of the most recent timestamp we've given next_."
MonotonicTime == [][last_interpreted_time' >= last_interpreted_time]_hvars

\* "Mark current node completed. This should be the only completed node in the
\* queue."
OnlyOneCompleted ==
  \A i, j \in 1..Len(queue) :
    queue[i].completed /\ queue[j].completed => i = j

\* Every state that entered the queue reaches next_: once the device falls
\* silent the queue drains.
QueueDrains == []<>~IsWaiting

==============================================================================
