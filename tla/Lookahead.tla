------------------------------ MODULE Lookahead ------------------------------
(***************************************************************************)
(* The input queue of the lookahead filter                                 *)
(* (src/src/lookahead_filter_interpreter.cc).  A hardware state pushed     *)
(* into the filter waits in queue_ until it is due, so that the next       *)
(* interpreter never sees a state whose fingers a later one corrects.      *)
(*                                                                         *)
(* One handler runs at a time.  SyncInterpretImpl and HandleTimerImpl both *)
(* end in a loop that calls into the next interpreter, which may answer    *)
(* with any timeout; the loop is therefore cut at those calls, and pc says *)
(* where the filter is:                                                    *)
(*    "idle"    no handler is on the stack,                                *)
(*    "loop"    HandleTimerImpl's loop,                                    *)
(*    "return"  the handler is done and *timeout holds its answer.         *)
(* Nothing else may happen until the handler has returned.                 *)
(*                                                                         *)
(* Time is counted in ticks.  Fingers are the set of output tracking ids   *)
(* of a state; positions and pressures are left out, and what they decide  *)
(* (drumroll, quick move, liftoff) is a choice.                            *)
(***************************************************************************)
EXTENDS Integers, Sequences, FiniteSets

CONSTANTS
  NumNodes,         \* kMaxQNodes
  KMaxDelay,        \* kMaxDelay, the cap on "Input Queue Delay"
  MinDelay,         \* min_delay_, "Input Queue Delay"
  MaxDelay,         \* max_delay_, "Input Queue Max Delay"
  SplitMinPeriod,   \* split_min_period_, "Min Interpolate Period"
  Suppression,      \* drumroll_suppression_enable_, on a pad that is not semi-mt
  DelayOnLiftoff,   \* delay_on_possible_liftoff_
  Ids,              \* output tracking ids, a finite sample of 0..0x7fff
  Times,            \* the moments a handler can be called at
  NextAnswers       \* what the next interpreter may leave in *timeout

NoTime == -1        \* the -1.0 that stands for "no timeout"

ASSUME NodesAssumption == NumNodes \in Nat \ {0}
ASSUME DelayAssumption ==
  /\ KMaxDelay \in Nat /\ MinDelay \in Nat /\ MaxDelay \in Nat
  /\ SplitMinPeriod \in Nat /\ SplitMinPeriod >= 2
  /\ Suppression \in BOOLEAN /\ DelayOnLiftoff \in BOOLEAN
ASSUME TimesAssumption ==
  /\ Times \subseteq Nat \ {0}
  /\ NextAnswers \subseteq Nat \cup {NoTime}

VARIABLES
  queue,                  \* queue_, oldest first
  free,                   \* the number of nodes in free_list_
  interpreter_due,        \* interpreter_due_: when next_ wants HandleTimer
  last_interpreted_time,  \* last_interpreted_time_
  pc,
  now,                    \* the handler's argument
  timeout,                \* the caller's *timeout
  next_timeout            \* HandleTimerImpl's local

vars == <<queue, free, interpreter_due, last_interpreted_time,
          pc, now, timeout, next_timeout>>

Delay == IF MinDelay < KMaxDelay THEN MinDelay ELSE KMaxDelay
ExtraVariableDelay == IF MaxDelay > MinDelay THEN MaxDelay - MinDelay ELSE 0

(***************************************************************************)
(* The queue                                                               *)
(***************************************************************************)
Node == [ts : Nat, due : Int, completed : BOOLEAN, fingers : SUBSET Ids]

Uncompleted(q) == {i \in 1..Len(q) : ~q[i].completed}

\* Mutant: the newest uncompleted node instead of the oldest.
NewestUncompleted(q) ==
  CHOOSE i \in Uncompleted(q) : \A j \in Uncompleted(q) : j <= i

\* The index of the first uncompleted node of a queue that has one.
FirstUncompleted(q) ==
  CHOOSE i \in Uncompleted(q) : \A j \in Uncompleted(q) : i <= j

FingersInQueue(q) == UNION {q[i].fingers : i \in 1..Len(q)}

\* The fingers the newest state can come out with: some of those of the state
\* before it, and ids NextTrackingId() has just made, which no state has.
NewFingers(q, known) ==
  {(known \ gone) \cup fresh :
      gone \in SUBSET known, fresh \in SUBSET (Ids \ FingersInQueue(q))}

\* The fingers the state before the newest can be left with: a quick move gives
\* an id that a drumroll had replaced back to its finger.
Corrected(q) ==
  LET prev  == q[Len(q) - 1].fingers
      prev2 == q[Len(q) - 2].fingers
  IN IF Len(q) = 2 THEN {prev}
     ELSE {f \in SUBSET (prev \cup prev2) :
              prev \cap prev2 \subseteq f /\ Cardinality(f) = Cardinality(prev)}

Extra(b) == IF b THEN ExtraVariableDelay ELSE 0

Named(node, f, delay) == [ts |-> node.ts, due |-> node.due + delay,
                          completed |-> node.completed, fingers |-> f]

\* AssignTrackingIds: the possible queues once the tail has its output ids.
\* Without drumroll suppression they are the device's.  The fingers of the first
\* state are all new.  Later a finger that is new, or separated by the drumroll
\* detector, buys the tail the extra delay, and so may a possible liftoff.
DeviceIds(q) ==
  {[q EXCEPT ![Len(q)] = Named(q[Len(q)], f, 0)] : f \in SUBSET Ids}

FirstIds(q) ==
  {[q EXCEPT ![1] = Named(q[1], f, Extra(f # {}))] : f \in SUBSET Ids}

\* A finger that loses pressure and speeds up over the last three states
\* may be lifting.
LiftoffJumpStarting(q) == {b \in BOOLEAN : b => DelayOnLiftoff /\ Len(q) > 2}

LaterIds(q) ==
  LET n == Len(q)
  IN UNION {{[q EXCEPT ![n-1] = Named(q[n-1], p, 0),
                       ![n] = Named(q[n], f, Extra(late \/ ~(f \subseteq p)))] :
                f \in NewFingers(q, p),
                late \in LiftoffJumpStarting(q)}
            : p \in Corrected(q)}

AssignTrackingIds(q) ==
  IF ~Suppression THEN DeviceIds(q)
  ELSE IF Len(q) = 1 THEN FirstIds(q) ELSE LaterIds(q)

\* AttemptInterpolation: a state halfway between the two newest, when they are
\* far enough apart, have the same fingers and next_ has not seen a later time.
\* The same fingers have to be in the same slots as well, which is a choice.
Interpolable(q, nodes, last, same_slots) ==
  LET n == Len(q)
      mid == (q[n-1].ts + q[n].ts) \div 2
  IN /\ same_slots
     /\ n >= 2
     /\ q[n].ts - q[n-1].ts >= SplitMinPeriod
     /\ q[n-1].fingers = q[n].fingers
     /\ nodes > 0
     /\ mid > last

\* Mutant: the made-up state is due at once.
MidpointUndelayed(q) ==
  LET n == Len(q)
      mid == (q[n-1].ts + q[n].ts) \div 2
  IN [ts |-> mid, due |-> mid, completed |-> FALSE, fingers |-> q[n-1].fingers]

Midpoint(q) ==
  LET n == Len(q)
      mid == (q[n-1].ts + q[n].ts) \div 2
  IN [ts |-> mid, due |-> mid + Delay, completed |-> FALSE,
      fingers |-> q[n-1].fingers]

\* Mutants: the node stays in the free list; it goes in after the tail.
AttemptInterpolationKept(q, nodes, last, same_slots) ==
  IF Interpolable(q, nodes, last, same_slots)
  THEN [queue |-> SubSeq(q, 1, Len(q) - 1) \o <<Midpoint(q), q[Len(q)]>>,
        free  |-> nodes]
  ELSE [queue |-> q, free |-> nodes]

AttemptInterpolationAfter(q, nodes, last, same_slots) ==
  IF Interpolable(q, nodes, last, same_slots)
  THEN [queue |-> Append(q, Midpoint(q)), free |-> nodes - 1]
  ELSE [queue |-> q, free |-> nodes]

AttemptInterpolation(q, nodes, last, same_slots) ==
  IF Interpolable(q, nodes, last, same_slots)
  THEN [queue |-> SubSeq(q, 1, Len(q) - 1) \o <<Midpoint(q), q[Len(q)]>>,
        free  |-> nodes - 1]
  ELSE [queue |-> q, free |-> nodes]

\* Mutant: next_'s timer wins even if a state waits that is due before it.
UpdateInterpreterDueEager(q, new, t, old) ==
  LET waiting == Uncompleted(q) # {}
      hwstate == q[FirstUncompleted(q)].due - t
  IN IF new >= 0
     THEN [due |-> new + t, timeout |-> new]
     ELSE [due |-> NoTime, timeout |-> IF waiting THEN hwstate ELSE old]

\* UpdateInterpreterDue: whichever comes first, the timeout next_ asked for or
\* the first waiting state.  The caller's *timeout is left alone when there is
\* neither.
UpdateInterpreterDue(q, new, t, old) ==
  LET waiting == Uncompleted(q) # {}
      hwstate == q[FirstUncompleted(q)].due - t
  IN IF new >= 0 /\ (waiting => new < hwstate)
     THEN [due |-> new + t, timeout |-> new]
     ELSE [due |-> NoTime, timeout |-> IF waiting THEN hwstate ELSE old]

\* Mutant: three nodes are kept.
DroppableBut3(q) == {k \in 0..Len(q) : /\ k = 0 \/ Len(q) - k >= 3
                                       /\ \A i \in 1..k : q[i].completed}

\* "Clear previously completed nodes, but keep at least two nodes."
Droppable(q) == {k \in 0..Len(q) : /\ k = 0 \/ Len(q) - k >= 2
                                   /\ \A i \in 1..k : q[i].completed}
NumDropped(q) == CHOOSE k \in Droppable(q) : \A j \in Droppable(q) : j <= k

(***************************************************************************)
(* The handlers                                                            *)
(***************************************************************************)
Init ==
  /\ queue = <<>>
  /\ free = NumNodes
  /\ interpreter_due = NoTime
  /\ last_interpreted_time = 0
  /\ pc = "idle"
  /\ now = 0
  /\ timeout = NoTime
  /\ next_timeout = NoTime

\* SyncInterpretImpl with an empty free list: the state is dropped, and the
\* caller's *timeout is left as it was.
Refuse(ts) ==
  /\ pc = "idle"
  /\ free = 0
  /\ pc' = "return"
  /\ now' = ts
  /\ timeout' = NoTime
  /\ UNCHANGED <<queue, free, interpreter_due, last_interpreted_time, next_timeout>>

\* Mutant: the extra delay of the tail is not allowed for.
ClockBackwardsHasty(q, ts) ==
  q # <<>> /\ q[Len(q)].due - (ts + Delay) > 0

ClockBackwards(q, ts) ==
  q # <<>> /\ q[Len(q)].due - (ts + Delay) > ExtraVariableDelay

\* Mutant: a cleared queue's nodes are not given back.
CheckedLeaking(ts) ==
  IF ClockBackwards(queue, ts)
  THEN [queue |-> <<>>, free |-> free - 1, due |-> NoTime, last |-> 0]
  ELSE [queue |-> queue, free |-> free - 1,
        due |-> interpreter_due, last |-> last_interpreted_time]

\* What is left of queue_, free_list_, interpreter_due_ and
\* last_interpreted_time_ once the check for a clock that went back is done.
Checked(ts) ==
  IF ClockBackwards(queue, ts)
  THEN [queue |-> <<>>, free |-> free - 1 + Len(queue),
        due |-> NoTime, last |-> 0]
  ELSE [queue |-> queue, free |-> free - 1,
        due |-> interpreter_due, last |-> last_interpreted_time]

\* The first argument of SyncInterpretImpl's UpdateInterpreterDue: the sum of
\* two absolute times, where a remaining time would be their difference.
CarriedTimeout(due, ts) == IF due < 0 THEN due ELSE due + ts

\* SyncInterpretImpl up to the loop of HandleTimerImpl(hwstate->timestamp).
Accept(ts) ==
  /\ pc = "idle"
  /\ free > 0
  /\ LET c    == Checked(ts)
         node == [ts |-> ts, due |-> ts + Delay,
                  completed |-> FALSE, fingers |-> {}]
     IN \E q \in AssignTrackingIds(Append(c.queue, node)), same_slots \in BOOLEAN :
          LET a == AttemptInterpolation(q, c.free, c.last, same_slots)
              u == UpdateInterpreterDue(a.queue, CarriedTimeout(c.due, ts),
                                        ts, NoTime)
          IN /\ queue' = a.queue
             /\ free' = a.free
             /\ interpreter_due' = u.due
             /\ timeout' = u.timeout
             /\ last_interpreted_time' = c.last
  /\ pc' = "loop"
  /\ now' = ts
  /\ next_timeout' = NoTime

SyncInterpret(ts) == Accept(ts) \/ Refuse(ts)

\* HandleTimerImpl, called by the timer.
HandleTimer(t) ==
  /\ pc = "idle"
  /\ pc' = "loop"
  /\ now' = t
  /\ timeout' = NoTime
  /\ next_timeout' = NoTime
  /\ UNCHANGED <<queue, free, interpreter_due, last_interpreted_time>>

\* One turn of the loop: next_ wanted a timer, and its time has come.
CallNextTimer(answer) ==
  /\ pc = "loop"
  /\ interpreter_due > 0
  /\ interpreter_due <= now
  /\ last_interpreted_time' = now
  /\ LET u == UpdateInterpreterDue(queue, answer, now, timeout)
     IN interpreter_due' = u.due /\ timeout' = u.timeout
  /\ next_timeout' = answer
  /\ UNCHANGED <<queue, free, pc, now>>

Overdue == Uncompleted(queue) # {} /\ queue[FirstUncompleted(queue)].due <= now

\* One turn of the loop: the first uncompleted state is overdue.  next_ gets
\* it, then older nodes go back to the free list, then it counts as completed.
PresentState(answer) ==
  /\ pc = "loop"
  /\ interpreter_due <= 0
  /\ Overdue
  /\ LET i == FirstUncompleted(queue)
         k == NumDropped(queue)
         q == SubSeq([queue EXCEPT ![i].completed = TRUE], k + 1, Len(queue))
         u == UpdateInterpreterDue(q, answer, now, timeout)
     IN /\ last_interpreted_time' = queue[i].ts
        /\ queue' = q
        /\ free' = free + k
        /\ interpreter_due' = u.due
        /\ timeout' = u.timeout
  /\ next_timeout' = answer
  /\ UNCHANGED <<pc, now>>

\* The loop ends, because next_'s timer is still ahead (a spurious callback) or
\* because no state is due.
LeaveLoop(answer) ==
  /\ LET u == UpdateInterpreterDue(queue, answer, now, timeout)
     IN interpreter_due' = u.due /\ timeout' = u.timeout
  /\ pc' = "return"
  /\ next_timeout' = NoTime
  /\ UNCHANGED <<queue, free, last_interpreted_time, now>>

\* Mutant: the remaining time is not asked for again.
SpuriousCallbackForgets ==
  /\ pc = "loop"
  /\ interpreter_due > 0
  /\ interpreter_due > now
  /\ LeaveLoop(next_timeout)

SpuriousCallback ==
  /\ pc = "loop"
  /\ interpreter_due > 0
  /\ interpreter_due > now
  /\ LeaveLoop(interpreter_due - now)

NothingDue ==
  /\ pc = "loop"
  /\ interpreter_due <= 0
  /\ ~Overdue
  /\ LeaveLoop(next_timeout)

\* The handler's locals go out of scope; the caller takes *timeout.
Return ==
  /\ pc = "return"
  /\ pc' = "idle"
  /\ now' = 0
  /\ timeout' = NoTime
  /\ UNCHANGED <<queue, free, interpreter_due, last_interpreted_time, next_timeout>>

\* Initialize: new nodes; interpreter_due_ and last_interpreted_time_ stay.
Initialize ==
  /\ pc = "idle"
  /\ queue' = <<>>
  /\ free' = NumNodes
  /\ UNCHANGED <<interpreter_due, last_interpreted_time, pc, now, timeout, next_timeout>>

Loop ==
  \/ \E answer \in NextAnswers : CallNextTimer(answer) \/ PresentState(answer)
  \/ SpuriousCallback
  \/ NothingDue

Handlers ==
  \/ \E t \in Times : SyncInterpret(t) \/ HandleTimer(t)
  \/ Loop
  \/ Return

Next == Handlers \/ Initialize

Spec == Init /\ [][Next]_vars

(***************************************************************************)
(* Properties                                                              *)
(***************************************************************************)
\* The types of the filter's fields and of its handler's locals.
TypeOK ==
  /\ queue \in Seq(Node)
  /\ free \in 0..NumNodes
  /\ interpreter_due \in Int
  /\ last_interpreted_time \in Nat
  /\ pc \in {"idle", "loop", "return"}
  /\ now \in Nat
  /\ timeout \in Int
  /\ next_timeout \in Nat \cup {NoTime}

\* No node is lost or duplicated: every node Initialize made is in queue_ or in
\* free_list_, whatever was refused, interpolated, discarded or cleared.
NodesConserved == Len(queue) + free = NumNodes

\* The completed nodes are the oldest ones, so that a scan from the head
\* (HandleTimerImpl, UpdateInterpreterDue) stops at the right node.
CompletedFirst ==
  \A i, j \in 1..Len(queue) : i < j /\ queue[j].completed => queue[i].completed

\* The queue keeps the two states the next hardware state is compared with, and
\* no more: at most two completed nodes hold back the pool.
AtMostTwoCompleted ==
  \A i \in 1..Len(queue) : queue[i].completed => i <= 2

\* The two together: what next_ has seen is the front of the queue and short, so that a
\* state is presented once and the pool is not held back.
CompletedInFront == CompletedFirst /\ AtMostTwoCompleted

\* A state waits no longer than its delay and the one extra delay, so a clock
\* that seems to have gone back really has.
DueWithinDelay ==
  \A i \in 1..Len(queue) :
    /\ queue[i].due >= queue[i].ts + Delay
    /\ queue[i].due <= queue[i].ts + Delay + ExtraVariableDelay

\* Times, and the midpoints of two of them.
Stamps == {(a + b) \div 2 : a, b \in Times}

\* The timestamps of the states next_ has not seen.
Waiting ==
  LET c == IF Uncompleted(queue) = {} THEN Len(queue)
           ELSE FirstUncompleted(queue) - 1
  IN [i \in 1..(Len(queue) - c) |-> queue[c + i].ts]

Line == INSTANCE DelayLine WITH Stamps <- Stamps, waiting <- Waiting

\* The queue is a delay line, as long as Initialize does not make it anew: states
\* reach next_ one by one, in the order they came, none twice, and none is lost
\* but to a clock that went back.
ImplementsDelayLine == Line!Init /\ [][Handlers => [Line!Next]_Waiting]_vars

==============================================================================
