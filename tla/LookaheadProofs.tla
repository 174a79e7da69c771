--------------------------- MODULE LookaheadProofs ---------------------------
(***************************************************************************)
(* The queue of the lookahead filter, for any pool, delays, ids and        *)
(* answers of the next interpreter: its types, and that no node is lost,   *)
(* that the completed nodes are the oldest ones and that at most two of    *)
(* them are kept; that due times stay near timestamps, and that the queue  *)
(* is a delay line. Then the queue under its host, for any lag and         *)
(* lateness: its order, and that the timer is set in time for the first    *)
(* state that waits and for the next interpreter.                          *)
(***************************************************************************)
EXTENDS HostedLookahead, SequenceTheorems, WellFoundedInduction, TLAPS

(***************************************************************************)
(* Least and greatest elements, which the two CHOOSEs of Lookahead take.   *)
(***************************************************************************)
LEMMA LeastNat ==
  ASSUME NEW T \in SUBSET Nat, T # {}
  PROVE  \E x \in T : \A y \in T : x <= y
<1> DEFINE R == OpToRel(<, Nat)
<1>1. IsWellFoundedOn(R, Nat)
  BY NatLessThanWellFounded
<1>2. \E x \in T : \A y \in T : ~(<<y, x>> \in R)
  <2> HIDE DEF R
  <2> QED BY <1>1, WFMin
<1>3. \A x, y \in Nat : ~(<<y, x>> \in R) => x <= y
  BY DEF OpToRel
<1> QED BY <1>2, <1>3

LEMMA GreatestNat ==
  ASSUME NEW n \in Nat, NEW T \in SUBSET (0..n), T # {}
  PROVE  \E x \in T : \A y \in T : y <= x
<1> DEFINE U == {n - t : t \in T}
<1>1. U \in SUBSET Nat /\ U # {}
  <2>1. \A t \in T : n - t \in Nat
    OBVIOUS
  <2>2. PICK t0 \in T : TRUE
    OBVIOUS
  <2>3. n - t0 \in U
    OBVIOUS
  <2> QED BY <2>1, <2>3
<1>2. PICK x \in U : \A y \in U : x <= y
  BY <1>1, LeastNat
<1>3. PICK t \in T : x = n - t
  OBVIOUS
<1>4. \A y \in T : n - y \in U
  OBVIOUS
<1>5. \A y \in T : n - t <= n - y
  BY <1>2, <1>3, <1>4
<1> QED BY <1>5

LEMMA FirstUncompletedIsFirst ==
  ASSUME NEW q \in Seq(Node), Uncompleted(q) # {}
  PROVE  /\ FirstUncompleted(q) \in Uncompleted(q)
         /\ \A j \in Uncompleted(q) : FirstUncompleted(q) <= j
<1>1. Uncompleted(q) \in SUBSET Nat
  BY DEF Uncompleted
<1>2. \E i \in Uncompleted(q) : \A j \in Uncompleted(q) : i <= j
  BY <1>1, LeastNat
<1> QED BY <1>2 DEF FirstUncompleted

LEMMA NumDroppedIsMost ==
  ASSUME NEW q \in Seq(Node)
  PROVE  /\ NumDropped(q) \in Droppable(q)
         /\ \A j \in Droppable(q) : j <= NumDropped(q)
<1>1. Len(q) \in Nat /\ Droppable(q) \in SUBSET (0..Len(q))
  BY DEF Droppable
<1>2. 0 \in Droppable(q)
  BY <1>1 DEF Droppable
<1>3. \E k \in Droppable(q) : \A j \in Droppable(q) : j <= k
  BY <1>1, <1>2, GreatestNat
<1> QED BY <1>3 DEF NumDropped

(***************************************************************************)
(* What the parts of SyncInterpretImpl do to the queue.                    *)
(***************************************************************************)
LEMMA DelayTypes == Delay \in Nat /\ ExtraVariableDelay \in Nat
BY DelayAssumption DEF Delay, ExtraVariableDelay

LEMMA NamedType ==
  ASSUME NEW node \in Node, NEW f \in SUBSET Ids, NEW d \in Nat
  PROVE  /\ Named(node, f, d) \in Node
         /\ Named(node, f, d).ts = node.ts
         /\ Named(node, f, d).completed = node.completed
         /\ Named(node, f, d).due = node.due + d
BY DEF Named, Node

LEMMA TwoUpdates ==
  ASSUME NEW S, NEW s \in Seq(S), NEW a \in S, NEW b \in S,
         NEW i \in 1..Len(s), NEW j \in 1..Len(s)
  PROVE  /\ [s EXCEPT ![i] = a, ![j] = b] \in Seq(S)
         /\ Len([s EXCEPT ![i] = a, ![j] = b]) = Len(s)
         /\ \A k \in 1..Len(s) : [s EXCEPT ![i] = a, ![j] = b][k] =
               IF k = j THEN b ELSE IF k = i THEN a ELSE s[k]
<1> DEFINE t == [s EXCEPT ![i] = a]
<1>1. /\ t \in Seq(S) /\ Len(t) = Len(s)
      /\ \A k \in 1..Len(s) : t[k] = IF k = i THEN a ELSE s[k]
  OBVIOUS
<1> HIDE DEF t
<1>2. /\ [t EXCEPT ![j] = b] \in Seq(S) /\ Len([t EXCEPT ![j] = b]) = Len(t)
      /\ \A k \in 1..Len(s) : [t EXCEPT ![j] = b][k] = IF k = j THEN b ELSE t[k]
  BY <1>1
<1>3. [t EXCEPT ![j] = b] = [s EXCEPT ![i] = a, ![j] = b]
  BY DEF t
<1> QED BY <1>1, <1>2, <1>3

LEMMA CorrectedType ==
  ASSUME NEW q \in Seq(Node), Len(q) >= 2, NEW p \in Corrected(q)
  PROVE  p \in SUBSET Ids
<1>1. q[Len(q) - 1].fingers \in SUBSET Ids
  <2>1. q[Len(q) - 1] \in Node
    OBVIOUS
  <2> QED BY <2>1 DEF Node
<1>2. CASE Len(q) = 2
  BY <1>1, <1>2 DEF Corrected
<1>3. CASE Len(q) # 2
  <2>1. q[Len(q) - 2].fingers \in SUBSET Ids
    <3>0. PICK n \in Nat : n = Len(q)
      OBVIOUS
    <3>1. Len(q) - 2 \in 1..Len(q)
      BY <1>3, <3>0
    <3>2. q[Len(q) - 2] \in Node
      BY <3>1
    <3> QED BY <3>2 DEF Node
  <2> QED BY <1>1, <1>3, <2>1 DEF Corrected
<1> QED BY <1>2, <1>3

\* AssignTrackingIds renames fingers and delays the tail, and nothing else.
LEMMA AssignKeeps ==
  ASSUME NEW q \in Seq(Node), q # <<>>, NEW r \in AssignTrackingIds(q)
  PROVE  /\ r \in Seq(Node)
         /\ Len(r) = Len(q)
         /\ \A i \in 1..Len(q) : r[i].completed = q[i].completed
         /\ \A i \in 1..Len(q) : r[i].ts = q[i].ts
         /\ \A i \in 1..Len(q) : i # Len(q) => r[i].due = q[i].due
         /\ \E d \in 0..ExtraVariableDelay : r[Len(q)].due = q[Len(q)].due + d
<1>1. PICK n \in Nat \ {0} : n = Len(q)
  BY EmptySeq
<1>2. \A b \in BOOLEAN : Extra(b) \in Nat /\ Extra(b) \in 0..ExtraVariableDelay
  BY DelayTypes DEF Extra
<1>0. 0 \in 0..ExtraVariableDelay /\ \A x \in Node : x.due = x.due + 0
  BY DelayTypes DEF Node
<1>5. CASE ~Suppression
  <2>1. PICK f \in SUBSET Ids : r = [q EXCEPT ![n] = Named(q[n], f, 0)]
    BY <1>1, <1>5 DEF AssignTrackingIds, DeviceIds
  <2>2. q[n] \in Node
    BY <1>1
  <2> QED BY <1>0, <1>1, <2>1, <2>2, NamedType
<1>3. CASE Suppression /\ n = 1
  <2>0. r \in FirstIds(q)
    BY <1>1, <1>3 DEF AssignTrackingIds
  <2>1. PICK f \in SUBSET Ids : r = [q EXCEPT ![1] = Named(q[1], f, Extra(f # {}))]
    BY <2>0 DEF FirstIds
  <2>2. Extra(f # {}) \in Nat
    BY <1>2
  <2>3. q[1] \in Node
    BY <1>1
  <2> DEFINE a == Named(q[1], f, Extra(f # {}))
  <2>4. /\ a \in Node /\ a.ts = q[1].ts /\ a.completed = q[1].completed
        /\ \E d \in 0..ExtraVariableDelay : a.due = q[1].due + d
    BY <1>2, <2>2, <2>3, NamedType, ZenonT(60)
  <2> HIDE DEF a
  <2>5. r = [q EXCEPT ![1] = a]
    BY <2>1 DEF a
  <2>6. Len(q) = 1 /\ 1 \in 1..Len(q) /\ \A i \in 1..Len(q) : i = 1
    BY <1>1, <1>3
  <2>7. r \in Seq(Node) /\ Len(r) = Len(q) /\ r[1] = a
    BY <2>4, <2>5, <2>6
  <2> QED BY <2>4, <2>6, <2>7
<1>4. CASE Suppression /\ n # 1
  <2>9. n >= 2 /\ n \in 1..Len(q) /\ n - 1 \in 1..Len(q)
    BY <1>1, <1>4
  <2>0. PICK p \in Corrected(q) :
          \E f \in NewFingers(q, p), late \in BOOLEAN :
            r = [q EXCEPT ![n-1] = Named(q[n-1], p, 0),
                          ![n] = Named(q[n], f, Extra(late \/ ~(f \subseteq p)))]
    <3>1. r \in LaterIds(q)
      BY <1>1, <1>4 DEF AssignTrackingIds
    <3> QED BY <1>1, <3>1 DEF LaterIds, LiftoffJumpStarting
  <2>1. PICK f \in NewFingers(q, p), late \in BOOLEAN :
          r = [q EXCEPT ![n-1] = Named(q[n-1], p, 0),
                        ![n] = Named(q[n], f, Extra(late \/ ~(f \subseteq p)))]
    BY <2>0
  <2>2. p \in SUBSET Ids
    BY <2>9, CorrectedType
  <2>3. f \in SUBSET Ids
    BY <2>2 DEF NewFingers
  <2>4. Extra(late \/ ~(f \subseteq p)) \in Nat
    BY <1>2
  <2>5. q[n-1] \in Node /\ q[n] \in Node
    BY <2>9
  <2>6. /\ Named(q[n-1], p, 0) \in Node
        /\ Named(q[n-1], p, 0).due = q[n-1].due
        /\ Named(q[n-1], p, 0).ts = q[n-1].ts
        /\ Named(q[n-1], p, 0).completed = q[n-1].completed
    BY <1>0, <2>2, <2>5, NamedType
  <2>7. /\ Named(q[n], f, Extra(late \/ ~(f \subseteq p))) \in Node
        /\ Named(q[n], f, Extra(late \/ ~(f \subseteq p))).ts = q[n].ts
        /\ Named(q[n], f, Extra(late \/ ~(f \subseteq p))).completed = q[n].completed
        /\ Named(q[n], f, Extra(late \/ ~(f \subseteq p))).due =
             q[n].due + Extra(late \/ ~(f \subseteq p))
    BY <2>3, <2>4, <2>5, NamedType
  <2> DEFINE a == Named(q[n-1], p, 0)
             b == Named(q[n], f, Extra(late \/ ~(f \subseteq p)))
  <2> HIDE DEF a, b
  <2>8. /\ r = [q EXCEPT ![n-1] = a, ![n] = b]
        /\ a \in Node /\ a.ts = q[n-1].ts /\ a.completed = q[n-1].completed
        /\ b \in Node /\ b.ts = q[n].ts /\ b.completed = q[n].completed
        /\ a.due = q[n-1].due /\ \E d \in 0..ExtraVariableDelay : b.due = q[n].due + d
    BY <1>2, <2>1, <2>6, <2>7 DEF a, b
  <2>10. /\ r \in Seq(Node) /\ Len(r) = Len(q)
         /\ \A k \in 1..Len(q) : r[k] = IF k = n THEN b
                                        ELSE IF k = n-1 THEN a ELSE q[k]
    BY <2>8, <2>9, TwoUpdates
  <2> QED BY <1>1, <2>8, <2>10, SMTT(30)
<1> QED BY <1>3, <1>4, <1>5

LEMMA HalfNat == \A a, b \in Nat : (a + b) \div 2 \in Nat
OBVIOUS

\* AttemptInterpolation moves at most one node from the free list into the
\* queue, just before the tail, and completes none.
Interpolated(q, nodes, a) ==
  /\ a.queue \in Seq(Node)
  /\ a.queue # <<>>
  /\ a.free \in Nat
  /\ Len(a.queue) + a.free = Len(q) + nodes
  /\ \A i \in 1..Len(a.queue) :
       a.queue[i].completed => i <= Len(q) /\ q[i].completed
  /\ \A i \in 1..Len(q)-1 : a.queue[i] = q[i]
  /\ \/ a.queue = q
     \/ /\ Len(a.queue) = Len(q) + 1 /\ Len(q) >= 2
        /\ a.queue[Len(q)] = Midpoint(q)
        /\ a.queue[Len(q) + 1] = q[Len(q)]
        /\ q[Len(q)].ts - q[Len(q) - 1].ts >= SplitMinPeriod

LEMMA InterpolationKeeps ==
  ASSUME NEW q \in Seq(Node), q # <<>>, ~q[Len(q)].completed,
         NEW nodes \in Nat, NEW last \in Nat, NEW same,
         NEW a, a = AttemptInterpolation(q, nodes, last, same)
  PROVE  Interpolated(q, nodes, a)
<1> USE DEF Interpolated
<1>1. PICK n \in Nat \ {0} : n = Len(q)
  BY EmptySeq
<1>2. CASE ~Interpolable(q, nodes, last, same)
  <2>1. AttemptInterpolation(q, nodes, last, same) = [queue |-> q, free |-> nodes]
    BY <1>2 DEF AttemptInterpolation
  <2> QED BY <1>1, <2>1
<1>3. CASE Interpolable(q, nodes, last, same)
  <2> DEFINE m == Midpoint(q)
             front == SubSeq(q, 1, n - 1)
             back == <<m, q[n]>>
             new == front \o back
  <2>1. AttemptInterpolation(q, nodes, last, same) = [queue |-> new, free |-> nodes - 1]
    BY <1>1, <1>3 DEF AttemptInterpolation
  <2>2. n >= 2 /\ nodes > 0 /\ q[n].ts - q[n-1].ts >= SplitMinPeriod
    BY <1>1, <1>3 DEF Interpolable
  <2>3. q[n] \in Node /\ q[n-1] \in Node
    BY <1>1, <2>2
  <2>4. m \in Node /\ m.completed = FALSE
    <3>1. (q[n-1].ts + q[n].ts) \div 2 \in Nat
      BY <2>3, HalfNat DEF Node
    <3> DEFINE mid == (q[n-1].ts + q[n].ts) \div 2
    <3>2. m = [ts |-> mid, due |-> mid + Delay, completed |-> FALSE,
               fingers |-> q[n-1].fingers]
      BY <1>1 DEF Midpoint
    <3>3. q[n-1].fingers \in SUBSET Ids
      BY <2>3 DEF Node
    <3>4. mid \in Nat /\ mid + Delay \in Int
      BY <3>1, DelayTypes
    <3> HIDE DEF m, mid
    <3>5. m \in Node
      BY <3>2, <3>3, <3>4 DEF Node
    <3>6. m.completed = FALSE
      BY <3>2
    <3> QED BY <3>5, <3>6
  <2> HIDE DEF m
  <2>5. /\ front \in Seq(Node) /\ Len(front) = n - 1
        /\ \A i \in 1..(n-1) : front[i] = q[i]
    <3>1. \A i \in 1..(n-1) : q[i] \in Node
      BY <1>1
    <3> QED BY <1>1, <2>2, <3>1, SubSeqProperties
  <2>6. /\ back \in Seq(Node) /\ Len(back) = 2
        /\ back[1] = m /\ back[2] = q[n]
    BY <2>3, <2>4
  <2> HIDE DEF front, back
  <2>7. /\ new \in Seq(Node) /\ Len(new) = n + 1
        /\ \A i \in 1..(n-1) : new[i] = q[i]
        /\ new[n] = m /\ new[n+1] = q[n]
    <3>1. /\ new \in Seq(Node) /\ Len(new) = Len(front) + Len(back)
          /\ \A i \in 1..(Len(front) + Len(back)) :
               new[i] = IF i <= Len(front) THEN front[i] ELSE back[i - Len(front)]
      BY <2>5, <2>6, ConcatProperties
    <3>2. n \in 1..(n+1) /\ n + 1 \in 1..(n+1) /\ ~(n <= n-1) /\ ~(n+1 <= n-1)
          /\ n - (n - 1) = 1 /\ (n + 1) - (n - 1) = 2 /\ (n-1) + 2 = n + 1
      BY <1>1
    <3>3. \A i \in 1..(n-1) : i \in 1..(n+1) /\ i <= n-1
      BY <1>1
    <3>4. new[n] = m /\ new[n+1] = q[n]
      BY <3>1, <3>2, <2>5, <2>6
    <3>5. \A i \in 1..(n-1) : new[i] = q[i]
      BY <3>1, <3>2, <3>3, <2>5, <2>6
    <3> QED BY <3>1, <3>2, <3>4, <3>5, <2>5, <2>6
  <2> HIDE DEF new
  <2>8. new # <<>> /\ nodes - 1 \in Nat /\ Len(new) + (nodes - 1) = Len(q) + nodes
    BY <1>1, <2>2, <2>7
  <2>9. ASSUME NEW i \in 1..Len(new), new[i].completed
        PROVE  i <= Len(q) /\ q[i].completed
    <3>1. i \in 1..(n-1) \/ i = n \/ i = n + 1
      BY <1>1, <2>7
    <3> QED BY <1>1, <2>4, <2>7, <2>9, <3>1
  <2>10. \A i \in 1..Len(q)-1 : new[i] = q[i]
    BY <1>1, <2>7
  <2>11. \A i \in 1..Len(new) : new[i].completed => i <= Len(q) /\ q[i].completed
    BY <2>9
  <2>12. /\ AttemptInterpolation(q, nodes, last, same).queue = new
         /\ AttemptInterpolation(q, nodes, last, same).free = nodes - 1
    BY <2>1
  <2>13. /\ Len(new) = Len(q) + 1 /\ Len(q) >= 2
         /\ new[Len(q)] = Midpoint(q) /\ new[Len(q) + 1] = q[Len(q)]
         /\ q[Len(q)].ts - q[Len(q) - 1].ts >= SplitMinPeriod
    BY <1>1, <2>2, <2>7 DEF m
  <2> QED BY <2>7, <2>8, <2>10, <2>11, <2>12, <2>13
<1> QED BY <1>2, <1>3

LEMMA UpdateTypes ==
  ASSUME NEW q \in Seq(Node), NEW new \in Int, NEW t \in Int, NEW old \in Int
  PROVE  /\ UpdateInterpreterDue(q, new, t, old).due \in Int
         /\ UpdateInterpreterDue(q, new, t, old).timeout \in Int
<1>1. CASE Uncompleted(q) = {}
  BY <1>1 DEF UpdateInterpreterDue, NoTime
<1>2. CASE Uncompleted(q) # {}
  <2>1. q[FirstUncompleted(q)] \in Node
    BY <1>2, FirstUncompletedIsFirst DEF Uncompleted
  <2>2. q[FirstUncompleted(q)].due - t \in Int
    BY <2>1 DEF Node
  <2> QED BY <2>2 DEF UpdateInterpreterDue, NoTime
<1> QED BY <1>1, <1>2

(***************************************************************************)
(* The invariant                                                           *)
(***************************************************************************)
QueueInv == TypeOK /\ NodesConserved /\ CompletedFirst /\ AtMostTwoCompleted

\* What of it speaks of the queue alone.
GoodQueue(q) ==
  /\ q \in Seq(Node)
  /\ \A i, j \in 1..Len(q) : i < j /\ q[j].completed => q[i].completed
  /\ \A i \in 1..Len(q) : q[i].completed => i <= 2

\* What is left after the check for a clock that went back.
LEMMA CheckedIs ==
  ASSUME QueueInv, NEW ts, free > 0, NEW c, c = Checked(ts)
  PROVE  /\ GoodQueue(c.queue) /\ c.free \in Nat /\ c.due \in Int /\ c.last \in Nat
         /\ Len(c.queue) \in Nat /\ Len(c.queue) + c.free = NumNodes - 1
         /\ \/ ClockBackwards(queue, ts) /\ c.queue = <<>> /\ c.due = NoTime
            \/ /\ ~ClockBackwards(queue, ts) /\ c.queue = queue /\ c.due = interpreter_due
<1>1. free \in Nat \ {0} /\ Len(queue) \in Nat
  BY NodesAssumption DEF QueueInv, TypeOK
<1>2. CASE ClockBackwards(queue, ts)
  <2>1. c = [queue |-> <<>>, free |-> free - 1 + Len(queue),
             due |-> NoTime, last |-> 0]
    BY <1>2 DEF Checked
  <2>2. GoodQueue(<<>>) /\ Len(<<>>) = 0
    BY EmptySeq DEF GoodQueue
  <2>3. free - 1 + Len(queue) \in Nat /\ free - 1 + Len(queue) = NumNodes - 1
    BY <1>1, NodesAssumption DEF QueueInv, NodesConserved
  <2> QED BY <1>2, <2>1, <2>2, <2>3, NodesAssumption DEF NoTime
<1>3. CASE ~ClockBackwards(queue, ts)
  <2>1. c = [queue |-> queue, free |-> free - 1,
             due |-> interpreter_due, last |-> last_interpreted_time]
    BY <1>3 DEF Checked
  <2>2. GoodQueue(queue)
    BY DEF QueueInv, TypeOK, CompletedFirst, AtMostTwoCompleted, GoodQueue
  <2> QED BY <1>1, <1>3, <2>1, <2>2, NodesAssumption DEF QueueInv, TypeOK, NodesConserved
<1> QED BY <1>2, <1>3

\* q is the queue p with a state of time ts at its end, and perhaps a made-up one
\* between that and the last of p.
Extended(p, ts, q) ==
  LET n == Len(p)
  IN /\ q \in Seq(Node) /\ Len(q) \in {n + 1, n + 2}
     /\ \A i \in 1..n : /\ q[i].ts = p[i].ts /\ q[i].due = p[i].due
                        /\ q[i].completed = p[i].completed
     /\ ~q[n + 1].completed
     /\ q[Len(q)].ts = ts /\ ~q[Len(q)].completed
     /\ \E d \in 0..ExtraVariableDelay : q[Len(q)].due = ts + Delay + d
     /\ Len(q) = n + 2 => /\ n >= 1 /\ ts - p[n].ts >= SplitMinPeriod
                          /\ q[n + 1].ts = (p[n].ts + ts) \div 2
                          /\ q[n + 1].due = q[n + 1].ts + Delay

LEMMA AcceptIs ==
  ASSUME QueueInv, NEW ts \in Times, Accept(ts), NEW c, c = Checked(ts)
  PROVE  /\ Extended(c.queue, ts, queue')
         /\ free' \in Nat /\ Len(queue') + free' = NumNodes
         /\ last_interpreted_time' = c.last
         /\ interpreter_due' =
              UpdateInterpreterDue(queue', CarriedTimeout(c.due, ts), ts, NoTime).due
         /\ timeout' =
              UpdateInterpreterDue(queue', CarriedTimeout(c.due, ts), ts, NoTime).timeout
<1>1. ts \in Nat /\ free > 0
  BY TimesAssumption DEF Accept
<1> DEFINE node == [ts |-> ts, due |-> ts + Delay,
                    completed |-> FALSE, fingers |-> {}]
<1>2. /\ c.queue \in Seq(Node) /\ c.free \in Nat /\ c.last \in Nat
      /\ Len(c.queue) + c.free = NumNodes - 1
  BY <1>1, CheckedIs DEF GoodQueue
<1>3. /\ node \in Node /\ ~node.completed /\ node.ts = ts /\ node.due = ts + Delay
  BY <1>1, DelayTypes DEF Node
<1>4. PICK q \in AssignTrackingIds(Append(c.queue, node)), same \in BOOLEAN :
        LET a == AttemptInterpolation(q, c.free, c.last, same)
            u == UpdateInterpreterDue(a.queue, CarriedTimeout(c.due, ts), ts, NoTime)
        IN /\ queue' = a.queue
           /\ free' = a.free
           /\ interpreter_due' = u.due
           /\ timeout' = u.timeout
           /\ last_interpreted_time' = c.last
  BY DEF Accept
<1> HIDE DEF node
<1>5. PICK n \in Nat : n = Len(c.queue)
  BY <1>2
<1> DEFINE p == Append(c.queue, node)
<1>6. /\ p \in Seq(Node) /\ p # <<>> /\ Len(p) = n + 1
      /\ p[n + 1] = node
      /\ \A i \in 1..n : p[i] = c.queue[i]
  BY <1>2, <1>3, <1>5, AppendProperties
<1> HIDE DEF p
<1>7. /\ q \in Seq(Node) /\ Len(q) = n + 1 /\ q # <<>>
      /\ \A i \in 1..n : /\ q[i].ts = c.queue[i].ts /\ q[i].due = c.queue[i].due
                         /\ q[i].completed = c.queue[i].completed
      /\ ~q[n + 1].completed /\ q[n + 1].ts = ts
      /\ \E d \in 0..ExtraVariableDelay : q[n + 1].due = ts + Delay + d
  <2>1. q \in AssignTrackingIds(p)
    BY <1>4 DEF p
  <2>2. /\ q \in Seq(Node) /\ Len(q) = Len(p)
        /\ \A i \in 1..Len(p) : q[i].completed = p[i].completed
        /\ \A i \in 1..Len(p) : q[i].ts = p[i].ts
        /\ \A i \in 1..Len(p) : i # Len(p) => q[i].due = p[i].due
        /\ \E d \in 0..ExtraVariableDelay : q[Len(p)].due = p[Len(p)].due + d
    BY <1>6, <2>1, AssignKeeps
  <2>3. n + 1 \in 1..(n+1) /\ \A i \in 1..n : i \in 1..(n+1) /\ i # n + 1
    BY <1>5
  <2> QED BY <1>3, <1>6, <2>2, <2>3
<1> DEFINE a == AttemptInterpolation(q, c.free, c.last, same)
<1>8. /\ queue' = a.queue /\ free' = a.free /\ last_interpreted_time' = c.last
      /\ interpreter_due' =
           UpdateInterpreterDue(a.queue, CarriedTimeout(c.due, ts), ts, NoTime).due
      /\ timeout' =
           UpdateInterpreterDue(a.queue, CarriedTimeout(c.due, ts), ts, NoTime).timeout
  BY <1>4
<1> HIDE DEF a
<1>9. /\ a.queue \in Seq(Node) /\ a.free \in Nat
      /\ Len(a.queue) + a.free = n + 1 + c.free
      /\ \A i \in 1..n : a.queue[i] = q[i]
      /\ \A i \in 1..Len(a.queue) :
           a.queue[i].completed => i <= n + 1 /\ q[i].completed
      /\ \/ a.queue = q
         \/ /\ Len(a.queue) = n + 2 /\ n + 1 >= 2
            /\ a.queue[n + 1] = Midpoint(q) /\ a.queue[n + 2] = q[n + 1]
            /\ q[n + 1].ts - q[n].ts >= SplitMinPeriod
  <2>1. a = AttemptInterpolation(q, c.free, c.last, same)
    BY DEF a
  <2>2. ~q[Len(q)].completed
    BY <1>7
  <2>5. \A nodes, last \in Nat : \A x, b :
          b = AttemptInterpolation(q, nodes, last, x) => Interpolated(q, nodes, b)
    BY <1>7, <2>2, InterpolationKeeps
  <2>6. Interpolated(q, c.free, a)
    BY <1>2, <2>1, <2>5
  <2>3. /\ a.queue \in Seq(Node) /\ a.free \in Nat
        /\ Len(a.queue) + a.free = Len(q) + c.free
        /\ \A i \in 1..Len(a.queue) : a.queue[i].completed => i <= Len(q) /\ q[i].completed
        /\ \A i \in 1..Len(q)-1 : a.queue[i] = q[i]
        /\ \/ a.queue = q
           \/ /\ Len(a.queue) = Len(q) + 1 /\ Len(q) >= 2
              /\ a.queue[Len(q)] = Midpoint(q)
              /\ a.queue[Len(q) + 1] = q[Len(q)]
              /\ q[Len(q)].ts - q[Len(q) - 1].ts >= SplitMinPeriod
    BY <2>6 DEF Interpolated
  <2>4. Len(q) - 1 = n /\ Len(q) + 1 = n + 2
    BY <1>5, <1>7
  <2> QED BY <1>7, <2>3, <2>4
<1>10. Len(a.queue) + a.free = NumNodes
  <2>1. Len(a.queue) \in Nat /\ a.free \in Nat /\ Len(a.queue) + a.free = n + 1 + c.free
    BY <1>9
  <2>2. c.free \in Nat /\ n + c.free = NumNodes - 1
    BY <1>2, <1>5
  <2> QED BY <1>5, <2>1, <2>2, NodesAssumption
<1>11. Extended(c.queue, ts, a.queue)
  <2>1. CASE a.queue = q
    BY <1>5, <1>7, <2>1 DEF Extended
  <2>2. CASE /\ Len(a.queue) = n + 2 /\ n + 1 >= 2
             /\ a.queue[n + 1] = Midpoint(q) /\ a.queue[n + 2] = q[n + 1]
             /\ q[n + 1].ts - q[n].ts >= SplitMinPeriod
    <3> DEFINE mid == (q[n].ts + q[n + 1].ts) \div 2
    <3>1. Midpoint(q) = [ts |-> mid, due |-> mid + Delay, completed |-> FALSE,
                         fingers |-> q[n].fingers]
      <4>1. Len(q) = n + 1 /\ (n + 1) - 1 = n
        BY <1>5, <1>7
      <4> QED BY <4>1 DEF Midpoint
    <3> HIDE DEF mid
    <3>2. /\ a.queue[n + 1].ts = mid /\ a.queue[n + 1].due = mid + Delay
          /\ ~a.queue[n + 1].completed
      BY <2>2, <3>1
    <3>3. n \in 1..n /\ q[n].ts = c.queue[n].ts
      BY <1>5, <1>7, <2>2
    <3>4. /\ n + 2 # n + 1 /\ n >= 1
          /\ \A i \in 1..n : a.queue[i] = q[i]
      BY <1>5, <1>9, <2>2
    <3>5. /\ ts - c.queue[n].ts >= SplitMinPeriod
          /\ a.queue[n + 1].ts = (c.queue[n].ts + ts) \div 2
          /\ a.queue[n + 1].due = a.queue[n + 1].ts + Delay
      BY <1>7, <2>2, <3>2, <3>3 DEF mid
    <3>6. /\ a.queue[n + 2].ts = ts /\ ~a.queue[n + 2].completed
          /\ \E d \in 0..ExtraVariableDelay : a.queue[n + 2].due = ts + Delay + d
      BY <1>7, <2>2
    <3>7. a.queue \in Seq(Node) /\ Len(a.queue) = n + 2
      BY <1>9, <2>2
    <3> QED BY <1>5, <1>7, <3>2, <3>4, <3>5, <3>6, <3>7, ZenonT(60) DEF Extended
  <2> QED BY <1>9, <2>1, <2>2
<1> QED BY <1>8, <1>9, <1>10, <1>11

LEMMA AcceptKeeps ==
  ASSUME QueueInv, NEW ts \in Times, Accept(ts)
  PROVE  QueueInv'
<1> DEFINE c == Checked(ts)
<1>1. /\ GoodQueue(c.queue) /\ c.due \in Int /\ c.last \in Nat /\ Len(c.queue) \in Nat
  BY CheckedIs DEF Accept
<1>2. /\ Extended(c.queue, ts, queue')
      /\ free' \in Nat /\ Len(queue') + free' = NumNodes
      /\ last_interpreted_time' = c.last
      /\ interpreter_due' =
           UpdateInterpreterDue(queue', CarriedTimeout(c.due, ts), ts, NoTime).due
      /\ timeout' =
           UpdateInterpreterDue(queue', CarriedTimeout(c.due, ts), ts, NoTime).timeout
  BY AcceptIs
<1> HIDE DEF c
<1>3. PICK n \in Nat : n = Len(c.queue)
  BY <1>1
<1>4. /\ queue' \in Seq(Node) /\ Len(queue') \in {n + 1, n + 2}
      /\ \A i \in 1..n : queue'[i].completed = c.queue[i].completed
      /\ \A i \in 1..Len(queue') : queue'[i].completed => i \in 1..n
  <2>1. /\ queue' \in Seq(Node) /\ Len(queue') \in {n + 1, n + 2}
        /\ \A i \in 1..n : queue'[i].completed = c.queue[i].completed
        /\ ~queue'[n + 1].completed /\ ~queue'[Len(queue')].completed
    BY <1>2, <1>3 DEF Extended
  <2>2. \A i \in 1..Len(queue') : i \in 1..n \/ i = n + 1 \/ i = Len(queue')
    BY <1>3, <2>1
  <2> QED BY <2>1, <2>2
<1>5. NodesConserved' /\ free' \in 0..NumNodes
  BY <1>2, <1>3, <1>4, NodesAssumption DEF NodesConserved
<1>6. CompletedFirst' /\ AtMostTwoCompleted'
  <2>1. \A i, j \in 1..n : i < j /\ c.queue[j].completed => c.queue[i].completed
    BY <1>1, <1>3 DEF GoodQueue
  <2>2. \A i \in 1..n : c.queue[i].completed => i <= 2
    BY <1>1, <1>3 DEF GoodQueue
  <2>3. ASSUME NEW i \in 1..Len(queue'), NEW j \in 1..Len(queue'),
               i < j, queue'[j].completed
        PROVE  queue'[i].completed
    <3>1. j \in 1..n /\ i \in 1..n
      BY <1>3, <1>4, <2>3
    <3> QED BY <1>4, <2>1, <2>3, <3>1
  <2>4. \A i \in 1..Len(queue') : queue'[i].completed => i <= 2
    BY <1>4, <2>2
  <2> QED BY <2>3, <2>4 DEF CompletedFirst, AtMostTwoCompleted
<1>7. interpreter_due' \in Int /\ timeout' \in Int
  <2>1. CarriedTimeout(c.due, ts) \in Int /\ ts \in Int
    BY <1>1, TimesAssumption DEF CarriedTimeout
  <2> QED BY <1>2, <1>4, <2>1, UpdateTypes DEF NoTime
<1>8. TypeOK'
  BY <1>1, <1>2, <1>4, <1>5, <1>7, TimesAssumption DEF TypeOK, Accept, NoTime
<1> QED BY <1>5, <1>6, <1>8 DEF QueueInv

\* PresentState: the first k nodes go back to the pool, and the first f of the old queue
\* are now completed.
Presented(f, k, answer) ==
  LET n == Len(queue)
      u == UpdateInterpreterDue(queue', answer, now, timeout)
  IN /\ f \in 1..n /\ ~queue[f].completed
     /\ \A i \in 1..n : i < f <=> queue[i].completed
     /\ k \in 0..n /\ k < f /\ f - k <= 2
     /\ k = 0 \/ n - k >= 2
     /\ queue' \in Seq(Node) /\ Len(queue') = n - k
     /\ \A i \in 1..(n-k) : /\ queue'[i].ts = queue[k + i].ts
                            /\ queue'[i].due = queue[k + i].due
                            /\ queue'[i].completed <=> k + i <= f
     /\ free' = free + k
     /\ last_interpreted_time' = queue[f].ts
     /\ interpreter_due' = u.due /\ timeout' = u.timeout
     /\ next_timeout' = answer /\ pc' = pc /\ now' = now

LEMMA PresentIs ==
  ASSUME QueueInv, NEW answer, PresentState(answer)
  PROVE  \E f, k : Presented(f, k, answer)
<1>1. PICK n \in Nat : n = Len(queue)
  BY DEF QueueInv, TypeOK
<1>2. PICK f \in 1..n : /\ f = FirstUncompleted(queue)
                        /\ ~queue[f].completed
                        /\ \A i \in 1..n : ~queue[i].completed => f <= i
  <2>1. Uncompleted(queue) # {} /\ queue \in Seq(Node)
    BY DEF PresentState, Overdue, QueueInv, TypeOK
  <2> QED BY <1>1, <2>1, FirstUncompletedIsFirst DEF Uncompleted
<1>3. PICK k \in 0..n : /\ k = NumDropped(queue)
                        /\ k = 0 \/ n - k >= 2
                        /\ \A i \in 1..k : queue[i].completed
                        /\ \A j \in Droppable(queue) : j <= k
  <2>1. queue \in Seq(Node)
    BY DEF QueueInv, TypeOK
  <2> QED BY <1>1, <2>1, NumDroppedIsMost DEF Droppable
<1>4. k < f
  <2>1. ~(f \in 1..k)
    BY <1>2, <1>3
  <2> QED BY <1>2, <1>3, <2>1
<1>5. f - k <= 2
  <2>1. CASE f <= 2
    BY <1>2, <1>3, <2>1
  <2>2. CASE f > 2
    <3>1. f - 1 \in 1..n /\ 1 \in 1..n
      BY <1>2, <2>2
    <3>2. queue[f - 1].completed /\ queue[1].completed
      BY <1>2, <2>2, <3>1
    <3>3. f - 1 <= 2
      BY <1>1, <3>1, <3>2 DEF QueueInv, AtMostTwoCompleted
    <3>4. 1 \in Droppable(queue)
      <4>1. \A i \in 1..1 : queue[i].completed
        BY <3>2
      <4> QED BY <1>1, <1>2, <2>2, <4>1 DEF Droppable
    <3>5. k >= 1
      BY <1>3, <3>4
    <3> QED BY <1>2, <1>3, <3>3, <3>5
  <2> QED BY <1>2, <2>1, <2>2
<1> DEFINE marked == [queue EXCEPT ![f].completed = TRUE]
           q == SubSeq(marked, k + 1, n)
<1>6. /\ marked \in Seq(Node) /\ Len(marked) = n
      /\ \A i \in 1..n : marked[i].ts = queue[i].ts /\ marked[i].due = queue[i].due
      /\ \A i \in 1..n : marked[i].completed => i <= f
      /\ \A i \in 1..f : marked[i].completed
  <2> DEFINE done == [queue[f] EXCEPT !.completed = TRUE]
  <2>1. queue \in Seq(Node) /\ queue[f] \in Node
    BY <1>1, <1>2 DEF QueueInv, TypeOK
  <2>2. /\ done \in Node /\ done.completed
        /\ done.ts = queue[f].ts /\ done.due = queue[f].due
    BY <2>1 DEF Node
  <2>3. marked = [queue EXCEPT ![f] = done]
    BY <1>1, <1>2, <2>1
  <2> HIDE DEF done, marked
  <2>4. /\ marked \in Seq(Node) /\ Len(marked) = n
        /\ \A i \in 1..n : marked[i] = IF i = f THEN done ELSE queue[i]
    BY <1>1, <1>2, <2>1, <2>2, <2>3
  <2>5. \A i \in 1..n : queue[i].completed => i <= f
    <3>1. \A i, j \in 1..n : i < j /\ queue[j].completed => queue[i].completed
      BY <1>1 DEF QueueInv, CompletedFirst
    <3> QED BY <1>2, <3>1
  <2>6. \A i \in 1..n : i < f => queue[i].completed
    BY <1>2
  <2>7. \A i \in 1..n : marked[i].completed => i <= f
    BY <1>2, <2>4, <2>5
  <2>8. \A i \in 1..f : marked[i].completed
    <3>1. \A i \in 1..f : i \in 1..n /\ (i = f \/ i < f)
      BY <1>2
    <3> QED BY <2>2, <2>4, <2>6, <3>1
  <2> QED BY <2>2, <2>4, <2>7, <2>8
<1> HIDE DEF marked
<1>7. /\ q \in Seq(Node) /\ Len(q) = n - k
      /\ \A i \in 1..(n-k) : q[i] = marked[k + i]
  <2>1. \A i \in (k+1)..n : marked[i] \in Node
    BY <1>3, <1>6
  <2>2. k + 1 \in Int /\ n \in Int /\ k + 1 <= n /\ n - (k + 1) + 1 = n - k
    BY <1>2, <1>3, <1>4
  <2>3. /\ q \in Seq(Node)
        /\ Len(q) = IF k + 1 <= n THEN n - (k+1) + 1 ELSE 0
        /\ \A i \in 1..(n - (k+1) + 1) : q[i] = marked[k + 1 + i - 1]
    BY <2>1, <2>2, SubSeqProperties
  <2>4. \A i \in 1..(n-k) : k + 1 + i - 1 = k + i
    BY <1>3
  <2> QED BY <2>2, <2>3, <2>4
<1>8. queue' = q
  BY <1>1, <1>2, <1>3 DEF PresentState, marked
<1>9. /\ last_interpreted_time' = queue[f].ts
      /\ free' = free + k
      /\ interpreter_due' = UpdateInterpreterDue(q, answer, now, timeout).due
      /\ timeout' = UpdateInterpreterDue(q, answer, now, timeout).timeout
      /\ next_timeout' = answer /\ pc' = pc /\ now' = now
  BY <1>1, <1>2, <1>3 DEF PresentState, marked
<1> HIDE DEF q
<1>10. \A i \in 1..(n-k) : /\ q[i].ts = queue[k + i].ts /\ q[i].due = queue[k + i].due
                           /\ q[i].completed <=> k + i <= f
  <2> SUFFICES ASSUME NEW i \in 1..(n-k) 
               PROVE  /\ q[i].ts = queue[k + i].ts /\ q[i].due = queue[k + i].due
                      /\ q[i].completed <=> k + i <= f
    OBVIOUS
  <2>1. k + i \in 1..n
    BY <1>3
  <2>2. k + i <= f => k + i \in 1..f
    BY <1>2, <2>1
  <2> QED BY <1>6, <1>7, <2>1, <2>2
<1>11. \A i \in 1..n : i < f <=> queue[i].completed
  <2>1. \A i, j \in 1..n : i < j /\ queue[j].completed => queue[i].completed
    BY <1>1 DEF QueueInv, CompletedFirst
  <2>2. ASSUME NEW i \in 1..n PROVE i < f <=> queue[i].completed
    <3>1. CASE i < f
      BY <1>2, <3>1
    <3>2. CASE i = f
      BY <1>2, <3>2
    <3>3. CASE f < i
      BY <1>2, <2>1, <3>3
    <3> QED BY <1>2, <3>1, <3>2, <3>3
  <2> QED BY <2>2
<1> QED BY <1>1, <1>2, <1>3, <1>4, <1>5, <1>7, <1>8, <1>9, <1>10, <1>11, ZenonT(60) DEF Presented

LEMMA PresentKeeps ==
  ASSUME QueueInv, NEW answer \in NextAnswers, PresentState(answer)
  PROVE  QueueInv'
<1>1. PICK f, k : Presented(f, k, answer)
  BY PresentIs
<1>2. PICK n \in Nat : n = Len(queue)
  BY DEF QueueInv, TypeOK
<1>3. /\ f \in 1..n /\ k \in 0..n /\ k < f /\ f - k <= 2
      /\ queue' \in Seq(Node) /\ Len(queue') = n - k /\ free' = free + k
      /\ \A i \in 1..(n-k) : queue'[i].completed <=> k + i <= f
      /\ last_interpreted_time' = queue[f].ts
      /\ interpreter_due' = UpdateInterpreterDue(queue', answer, now, timeout).due
      /\ timeout' = UpdateInterpreterDue(queue', answer, now, timeout).timeout
      /\ next_timeout' = answer /\ pc' = pc /\ now' = now
  BY <1>1, <1>2 DEF Presented
<1>4. NodesConserved' /\ free' \in 0..NumNodes
  <2>1. n + free = NumNodes /\ free \in Nat
    BY <1>2 DEF QueueInv, NodesConserved, TypeOK
  <2>2. (n - k) + (free + k) = NumNodes /\ free + k \in 0..NumNodes
    BY <1>3, <2>1, NodesAssumption
  <2> QED BY <1>3, <2>2 DEF NodesConserved
<1>5. CompletedFirst' /\ AtMostTwoCompleted'
  <2>1. \A i, j \in 1..(n-k) : i < j /\ k + j <= f => k + i <= f
    BY <1>3
  <2>2. \A i \in 1..(n-k) : k + i <= f => i <= 2
    BY <1>3
  <2>3. \A i, j \in 1..(n-k) : i < j /\ queue'[j].completed => queue'[i].completed
    BY <1>3, <2>1
  <2>4. \A i \in 1..(n-k) : queue'[i].completed => i <= 2
    BY <1>3, <2>2
  <2> QED BY <1>3, <2>3, <2>4 DEF CompletedFirst, AtMostTwoCompleted
<1>6. TypeOK'
  <2>1. answer \in Nat \cup {NoTime} /\ answer \in Int /\ now \in Int /\ timeout \in Int
    BY TimesAssumption DEF QueueInv, TypeOK, NoTime
  <2>2. interpreter_due' \in Int /\ timeout' \in Int
    BY <1>3, <2>1, UpdateTypes
  <2>3. queue[f].ts \in Nat
    <3>1. queue[f] \in Node
      BY <1>2, <1>3 DEF QueueInv, TypeOK
    <3> QED BY <3>1 DEF Node
  <2> QED BY <1>3, <1>4, <2>1, <2>2, <2>3 DEF QueueInv, TypeOK
<1> QED BY <1>4, <1>5, <1>6 DEF QueueInv

LEMMA QueueKept ==
  ASSUME QueueInv, queue' = queue, free' = free, TypeOK'
  PROVE  QueueInv'
BY DEF QueueInv, NodesConserved, CompletedFirst, AtMostTwoCompleted

LEMMA LeaveLoopType ==
  ASSUME TypeOK, NEW answer \in Int, LeaveLoop(answer)
  PROVE  TypeOK'
<1>1. interpreter_due' \in Int /\ timeout' \in Int
  BY UpdateTypes DEF TypeOK, LeaveLoop
<1> QED BY <1>1 DEF TypeOK, LeaveLoop, NoTime

LEMMA QueueInvInit ==
  ASSUME Init
  PROVE  QueueInv
<1>1. queue \in Seq(Node) /\ Len(queue) = 0
  BY EmptySeq DEF Init
<1>2. TypeOK
  BY <1>1, NodesAssumption DEF Init, TypeOK, NoTime
<1>3. NodesConserved /\ CompletedFirst /\ AtMostTwoCompleted
  BY <1>1, NodesAssumption DEF Init, NodesConserved, CompletedFirst, AtMostTwoCompleted
<1> QED BY <1>2, <1>3 DEF QueueInv

LEMMA QueueInvStep ==
  ASSUME QueueInv, [Next]_vars
  PROVE  QueueInv'
<1>1. ASSUME NEW t \in Times, Accept(t) PROVE QueueInv'
  BY <1>1, AcceptKeeps
<1>2. ASSUME NEW t \in Times, Refuse(t) PROVE QueueInv'
  <2>1. TypeOK'
    BY <1>2, TimesAssumption DEF QueueInv, TypeOK, Refuse, NoTime
  <2> QED BY <1>2, <2>1, QueueKept DEF Refuse
<1>3. ASSUME NEW t \in Times, HandleTimer(t) PROVE QueueInv'
  <2>1. TypeOK'
    BY <1>3, TimesAssumption DEF QueueInv, TypeOK, HandleTimer, NoTime
  <2> QED BY <1>3, <2>1, QueueKept DEF HandleTimer
<1>4. ASSUME NEW answer \in NextAnswers, CallNextTimer(answer) PROVE QueueInv'
  <2>1. answer \in Int /\ answer \in Nat \cup {NoTime}
    BY TimesAssumption DEF NoTime
  <2>2. interpreter_due' \in Int /\ timeout' \in Int
    BY <1>4, <2>1, UpdateTypes DEF QueueInv, TypeOK, CallNextTimer
  <2>3. TypeOK'
    BY <1>4, <2>1, <2>2 DEF QueueInv, TypeOK, CallNextTimer
  <2> QED BY <1>4, <2>3, QueueKept DEF CallNextTimer
<1>5. ASSUME NEW answer \in NextAnswers, PresentState(answer) PROVE QueueInv'
  BY <1>5, PresentKeeps
<1>6. CASE SpuriousCallback
  <2>1. interpreter_due - now \in Int
    BY DEF QueueInv, TypeOK
  <2>2. TypeOK'
    BY <1>6, <2>1, LeaveLoopType DEF QueueInv, SpuriousCallback
  <2> QED BY <1>6, <2>2, QueueKept DEF SpuriousCallback, LeaveLoop
<1>7. CASE NothingDue
  <2>1. next_timeout \in Int
    BY DEF QueueInv, TypeOK, NoTime
  <2>2. TypeOK'
    BY <1>7, <2>1, LeaveLoopType DEF QueueInv, NothingDue
  <2> QED BY <1>7, <2>2, QueueKept DEF NothingDue, LeaveLoop
<1>8. CASE Return
  <2>1. TypeOK'
    BY <1>8 DEF QueueInv, TypeOK, Return, NoTime
  <2> QED BY <1>8, <2>1, QueueKept DEF Return
<1>9. CASE Initialize
  <2>1. queue' \in Seq(Node) /\ Len(queue') = 0
    BY <1>9, EmptySeq DEF Initialize
  <2>2. TypeOK'
    BY <1>9, <2>1, NodesAssumption DEF QueueInv, TypeOK, Initialize
  <2>3. NodesConserved' /\ CompletedFirst' /\ AtMostTwoCompleted'
    BY <1>9, <2>1, NodesAssumption
       DEF Initialize, NodesConserved, CompletedFirst, AtMostTwoCompleted
  <2> QED BY <2>2, <2>3 DEF QueueInv
<1>10. CASE UNCHANGED vars
  <2>1. TypeOK'
    BY <1>10 DEF QueueInv, TypeOK, vars
  <2> QED BY <1>10, <2>1, QueueKept DEF vars
<1> QED BY <1>1, <1>2, <1>3, <1>4, <1>5, <1>6, <1>7, <1>8, <1>9, <1>10
        DEF Next, Handlers, SyncInterpret, Loop

\* Every step of the filter, Initialize included, keeps the types of its fields
\* and the books of its node pool: no node is lost, the completed ones are the
\* oldest, and no more than two of them are held back.
THEOREM QueueInvariant == Spec => []QueueInv
<1>1. Init => QueueInv
  BY QueueInvInit
<1>2. QueueInv /\ [Next]_vars => QueueInv'
  BY QueueInvStep
<1> QED BY <1>1, <1>2, PTL DEF Spec

(* The fields of the lookahead filter keep their types. *)
THEOREM Typing == Spec => []TypeOK
<1>1. QueueInv => TypeOK
  BY DEF QueueInv
<1> QED BY <1>1, QueueInvariant, PTL

(* No node of the pool is lost or duplicated, so the filter can run out of nodes
   only by holding NumNodes states. *)
THEOREM PoolConserved == Spec => []NodesConserved
<1>1. QueueInv => NodesConserved
  BY DEF QueueInv
<1> QED BY <1>1, QueueInvariant, PTL

(* The nodes that next_ has seen come before those it has not, and at most two
   of them are kept. *)
THEOREM CompletedPrefix == Spec => []CompletedInFront
<1>1. QueueInv => CompletedInFront
  BY DEF QueueInv, CompletedInFront
<1> QED BY <1>1, QueueInvariant, PTL

(***************************************************************************)
(* Due times                                                               *)
(***************************************************************************)
LEMMA AcceptDue ==
  ASSUME QueueInv, DueWithinDelay, NEW ts \in Times, Accept(ts)
  PROVE  DueWithinDelay'
<1> DEFINE c == Checked(ts)
<1>1. /\ GoodQueue(c.queue) /\ c.queue \in {<<>>, queue}
      /\ Len(c.queue) \in Nat
  BY CheckedIs DEF Accept
<1>2. Extended(c.queue, ts, queue')
  BY AcceptIs
<1> HIDE DEF c
<1>3. PICK n \in Nat : n = Len(c.queue)
  BY <1>1
<1>4. \A i \in 1..n : /\ c.queue[i].due >= c.queue[i].ts + Delay
                      /\ c.queue[i].due <= c.queue[i].ts + Delay + ExtraVariableDelay
  BY <1>1, <1>3, EmptySeq DEF DueWithinDelay
<1>5. /\ queue' \in Seq(Node) /\ Len(queue') \in {n + 1, n + 2}
      /\ \A i \in 1..n : /\ queue'[i].ts = c.queue[i].ts /\ queue'[i].due = c.queue[i].due
      /\ queue'[Len(queue')].ts = ts
      /\ \E d \in 0..ExtraVariableDelay : queue'[Len(queue')].due = ts + Delay + d
      /\ Len(queue') = n + 2 => queue'[n + 1].due = queue'[n + 1].ts + Delay
  BY <1>2, <1>3 DEF Extended
<1>6. Delay \in Nat /\ ExtraVariableDelay \in Nat /\ ts \in Nat
  BY DelayTypes, TimesAssumption
<1> SUFFICES ASSUME NEW i \in 1..Len(queue')
             PROVE  /\ queue'[i].due >= queue'[i].ts + Delay
                    /\ queue'[i].due <= queue'[i].ts + Delay + ExtraVariableDelay
  BY DEF DueWithinDelay
<1>7. i \in 1..n \/ i = Len(queue') \/ (i = n + 1 /\ Len(queue') = n + 2)
  BY <1>3, <1>5
<1>8. queue'[i].ts \in Nat
  <2>1. queue'[i] \in Node
    BY <1>5
  <2> QED BY <2>1 DEF Node
<1>9. CASE i \in 1..n
  BY <1>4, <1>5, <1>9
<1>10. CASE i = Len(queue')
  <2>1. PICK d \in 0..ExtraVariableDelay : queue'[i].due = ts + Delay + d
    BY <1>5, <1>10
  <2>2. queue'[i].ts = ts
    BY <1>5, <1>10
  <2> QED BY <1>6, <2>1, <2>2
<1>11. CASE i = n + 1 /\ Len(queue') = n + 2
  BY <1>5, <1>6, <1>8, <1>11
<1> QED BY <1>7, <1>9, <1>10, <1>11

LEMMA PresentDue ==
  ASSUME QueueInv, DueWithinDelay, NEW answer, PresentState(answer)
  PROVE  DueWithinDelay'
<1>1. PICK f, k : Presented(f, k, answer)
  BY PresentIs
<1>2. PICK n \in Nat : n = Len(queue)
  BY DEF QueueInv, TypeOK
<1>3. /\ k \in 0..n /\ Len(queue') = n - k
      /\ \A i \in 1..(n-k) : /\ queue'[i].ts = queue[k + i].ts
                             /\ queue'[i].due = queue[k + i].due
  BY <1>1, <1>2 DEF Presented
<1>4. \A i \in 1..(n-k) : k + i \in 1..n
  BY <1>3
<1> QED BY <1>2, <1>3, <1>4 DEF DueWithinDelay

\* The steps that leave the queue as it is.
LEMMA QueueUnchanged ==
  ASSUME [Next]_vars,
         \A t \in Times : ~Accept(t), \A answer \in NextAnswers : ~PresentState(answer),
         ~Initialize
  PROVE  queue' = queue
BY DEF Next, Handlers, Loop, SyncInterpret, Refuse, HandleTimer, CallNextTimer,
       SpuriousCallback, NothingDue, LeaveLoop, Return, vars

LEMMA DueInit ==
  ASSUME Init
  PROVE  DueWithinDelay
BY EmptySeq DEF Init, DueWithinDelay

LEMMA DueStep ==
  ASSUME QueueInv, DueWithinDelay, [Next]_vars
  PROVE  DueWithinDelay'
<1>1. CASE \E t \in Times : Accept(t)
  BY <1>1, AcceptDue
<1>2. CASE \E answer \in NextAnswers : PresentState(answer)
  BY <1>2, PresentDue
<1>3. CASE Initialize
  BY <1>3, EmptySeq DEF Initialize, DueWithinDelay
<1>4. CASE queue' = queue
  BY <1>4 DEF DueWithinDelay
<1> QED BY <1>1, <1>2, <1>3, <1>4, QueueUnchanged

\* A state waits no longer than its delay and the one extra delay, whatever fingers it
\* has and wherever a state was made up.
THEOREM DueIsClose == Spec => []DueWithinDelay
<1>1. Init => DueWithinDelay
  BY DueInit
<1>2. QueueInv /\ DueWithinDelay /\ [Next]_vars => DueWithinDelay'
  BY DueStep
<1> QED BY <1>1, <1>2, QueueInvariant, PTL DEF Spec

(***************************************************************************)
(* The refinement of DelayLine                                             *)
(***************************************************************************)
\* How many of a queue's states next_ has seen, and the timestamps of the others.
Seen(q) == IF Uncompleted(q) = {} THEN Len(q) ELSE FirstUncompleted(q) - 1
WaitingIn(q) == [i \in 1..(Len(q) - Seen(q)) |-> q[Seen(q) + i].ts]

LEMMA WaitingOfQueue == Waiting = WaitingIn(queue)
BY DEF Waiting, WaitingIn, Seen

LEMMA SeenIs ==
  ASSUME NEW q \in Seq(Node), NEW c \in 0..Len(q),
         \A i \in 1..Len(q) : q[i].completed <=> i <= c
  PROVE  Seen(q) = c
<1>1. PICK n \in Nat : n = Len(q)
  OBVIOUS
<1>2. CASE c = n
  <2>1. Uncompleted(q) = {}
    BY <1>1, <1>2 DEF Uncompleted
  <2> QED BY <1>1, <1>2, <2>1 DEF Seen
<1>3. CASE c # n
  <2>1. c + 1 \in Uncompleted(q)
    BY <1>1, <1>3 DEF Uncompleted
  <2>2. /\ FirstUncompleted(q) \in 1..n /\ ~q[FirstUncompleted(q)].completed
        /\ FirstUncompleted(q) <= c + 1
    BY <1>1, <2>1, FirstUncompletedIsFirst DEF Uncompleted
  <2>3. ~(FirstUncompleted(q) <= c)
    BY <1>1, <2>2
  <2>4. FirstUncompleted(q) = c + 1
    BY <1>1, <2>2, <2>3
  <2>5. Uncompleted(q) # {}
    BY <2>1
  <2>6. (c + 1) - 1 = c
    OBVIOUS
  <2> QED BY <2>4, <2>5, <2>6 DEF Seen
<1> QED BY <1>2, <1>3

LEMMA SeenPrefix ==
  ASSUME NEW q, GoodQueue(q)
  PROVE  /\ Seen(q) \in 0..Len(q)
         /\ \A i \in 1..Len(q) : q[i].completed <=> i <= Seen(q)
<1>1. PICK n \in Nat : n = Len(q)
  BY DEF GoodQueue
<1>2. CASE Uncompleted(q) = {}
  BY <1>1, <1>2 DEF Seen, Uncompleted
<1>3. CASE Uncompleted(q) # {}
  <2>1. PICK f \in 1..n : /\ f = FirstUncompleted(q) /\ ~q[f].completed
                          /\ \A j \in 1..n : ~q[j].completed => f <= j
    BY <1>1, <1>3, FirstUncompletedIsFirst DEF Uncompleted, GoodQueue
  <2>2. Seen(q) = f - 1
    BY <1>3, <2>1 DEF Seen
  <2>3. \A i, j \in 1..n : i < j /\ q[j].completed => q[i].completed
    BY <1>1 DEF GoodQueue
  <2>4. ASSUME NEW i \in 1..n PROVE q[i].completed <=> i <= f - 1
    <3>1. CASE i <= f - 1
      BY <2>1, <3>1
    <3>2. CASE i = f
      BY <2>1, <3>2
    <3>3. CASE f < i
      BY <2>1, <2>3, <3>3
    <3> QED BY <2>1, <3>1, <3>2, <3>3
  <2> QED BY <1>1, <2>1, <2>2, <2>4
<1> QED BY <1>2, <1>3

\* The line of a queue of which c states have been seen.
LEMMA WaitingIs ==
  ASSUME NEW q \in Seq(Node), NEW c \in 0..Len(q), Seen(q) = c
  PROVE  /\ WaitingIn(q) \in Seq(Nat) /\ Len(WaitingIn(q)) = Len(q) - c
         /\ \A i \in 1..(Len(q) - c) : WaitingIn(q)[i] = q[c + i].ts
<1>1. PICK n \in Nat : n = Len(q)
  OBVIOUS
<1>2. \A i \in 1..(n - c) : q[c + i].ts \in Nat
  <2> SUFFICES ASSUME NEW i \in 1..(n - c) PROVE q[c + i].ts \in Nat
    OBVIOUS
  <2>1. c + i \in 1..n
    BY <1>1
  <2>2. q[c + i] \in Node
    BY <1>1, <2>1
  <2> QED BY <2>2 DEF Node
<1>3. WaitingIn(q) = [i \in 1..(n - c) |-> q[c + i].ts]
  BY <1>1 DEF WaitingIn
<1>4. n - c \in Nat
  BY <1>1
<1> QED BY <1>1, <1>2, <1>3, <1>4

\* The newest state has come from the device: what is made up goes in before it.
TailPushed == queue # <<>> => queue[Len(queue)].ts \in Times

\* A hardware state enters the line, alone or with a made-up one before it, and only a
\* clock that went back makes the line start over.
LEMMA AcceptInLine ==
  ASSUME QueueInv, DueWithinDelay, TailPushed, NEW ts \in Times, Accept(ts)
  PROVE  Line!Next /\ TailPushed'
<1> DEFINE c == Checked(ts)
<1>1. /\ GoodQueue(c.queue) /\ Len(c.queue) \in Nat
      /\ \/ ClockBackwards(queue, ts) /\ c.queue = <<>>
         \/ c.queue = queue
  BY CheckedIs DEF Accept
<1>2. Extended(c.queue, ts, queue')
  BY AcceptIs
<1> HIDE DEF c
<1>3. PICK n \in Nat : n = Len(c.queue)
  BY <1>1
<1>4. /\ queue' \in Seq(Node) /\ Len(queue') \in {n + 1, n + 2}
      /\ \A i \in 1..n : /\ queue'[i].ts = c.queue[i].ts
                         /\ queue'[i].completed = c.queue[i].completed
      /\ ~queue'[n + 1].completed /\ ~queue'[Len(queue')].completed
      /\ queue'[Len(queue')].ts = ts
      /\ Len(queue') = n + 2 => /\ n >= 1 /\ ts - c.queue[n].ts >= SplitMinPeriod
                                /\ queue'[n + 1].ts = (c.queue[n].ts + ts) \div 2
  BY <1>2, <1>3 DEF Extended
<1>5. PICK s \in 0..n : /\ s = Seen(c.queue)
                        /\ \A i \in 1..n : c.queue[i].completed <=> i <= s
  BY <1>1, <1>3, SeenPrefix
<1>6. Seen(queue') = s /\ s \in 0..Len(queue')
  <2>1. s \in 0..Len(queue')
    BY <1>3, <1>4
  <2>2. ASSUME NEW i \in 1..Len(queue') PROVE queue'[i].completed <=> i <= s
    <3>1. i \in 1..n \/ i = n + 1 \/ i = Len(queue')
      BY <1>3, <1>4
    <3> QED BY <1>3, <1>4, <1>5, <3>1
  <2> QED BY <1>4, <2>1, <2>2, SeenIs
<1> DEFINE v == WaitingIn(c.queue)
           w == WaitingIn(queue')
<1>7. /\ v \in Seq(Nat) /\ Len(v) = n - s
      /\ \A i \in 1..(n - s) : v[i] = c.queue[s + i].ts
  BY <1>1, <1>3, <1>5, WaitingIs DEF GoodQueue
<1>8. /\ w \in Seq(Nat) /\ Len(w) = Len(queue') - s
      /\ \A i \in 1..(Len(queue') - s) : w[i] = queue'[s + i].ts
  BY <1>4, <1>6, WaitingIs
<1>9. Waiting' = w
  BY DEF Waiting, WaitingIn, Seen
<1>10. ts \in Stamps /\ ts \in Nat
  <2>1. ts \in Nat /\ (ts + ts) \div 2 = ts
    BY TimesAssumption
  <2> QED BY <2>1 DEF Stamps
<1> HIDE DEF v, w
<1>11. \A i \in 1..(n - s) : v[i] = w[i]
  <2> SUFFICES ASSUME NEW i \in 1..(n - s) PROVE v[i] = w[i]
    OBVIOUS
  <2>1. s + i \in 1..n /\ i \in 1..(Len(queue') - s)
    BY <1>3, <1>4, <1>5
  <2> QED BY <1>4, <1>7, <1>8, <2>1
<1>12. TailPushed'
  BY <1>4 DEF TailPushed
<1>13. CASE Len(queue') = n + 1
  <2>1. w = Append(v, ts)
    <3>1. Len(w) = (n - s) + 1 /\ w[(n - s) + 1] = ts
      <4>1. (n - s) + 1 \in 1..(Len(queue') - s) /\ s + ((n - s) + 1) = n + 1
        BY <1>3, <1>5, <1>13
      <4> QED BY <1>4, <1>8, <1>13, <4>1
    <3>2. /\ Append(v, ts) \in Seq(Nat) /\ Len(Append(v, ts)) = (n - s) + 1
          /\ \A i \in 1..(n - s) : Append(v, ts)[i] = v[i]
          /\ Append(v, ts)[(n - s) + 1] = ts
      BY <1>7, <1>10, AppendProperties
    <3>3. \A i \in 1..Len(w) : i \in 1..(n - s) \/ i = (n - s) + 1
      BY <1>5, <3>1
    <3> QED BY <1>8, <1>11, <3>1, <3>2, <3>3, SeqEqual
  <2>2. CASE c.queue = queue
    <3>1. Line!Enter(ts)
      BY <1>9, <2>1, <2>2, WaitingOfQueue DEF v, Line!Enter
    <3> QED BY <1>10, <1>12, <3>1 DEF Line!Next
  <2>3. CASE ClockBackwards(queue, ts) /\ c.queue = <<>>
    <3>1. v = <<>> /\ w = <<ts>>
      <4>1. Len(v) = 0
        BY <1>3, <1>5, <1>7, <2>3, EmptySeq
      <4>2. v = <<>>
        BY <1>7, <4>1, EmptySeq
      <4> QED BY <1>10, <2>1, <4>2
    <3>2. PICK m \in Nat : m = Len(queue)
      BY DEF QueueInv, TypeOK
    <3>3. /\ m >= 1 /\ queue[m] \in Node
          /\ queue[m].due - (ts + Delay) > ExtraVariableDelay
      BY <2>3, <3>2, EmptySeq DEF ClockBackwards, QueueInv, TypeOK
    <3>4. queue[m].ts > ts
      <4>1. queue[m].due <= queue[m].ts + Delay + ExtraVariableDelay
        BY <3>2, <3>3 DEF DueWithinDelay
      <4>2. queue[m].due \in Int /\ queue[m].ts \in Nat
        BY <3>3 DEF Node
      <4> QED BY <1>10, <3>3, <4>1, <4>2, DelayTypes
    <3>5. GoodQueue(queue)
      BY DEF QueueInv, TypeOK, CompletedFirst, AtMostTwoCompleted, GoodQueue
    <3>6. PICK r \in 0..m : r = Seen(queue)
      BY <3>2, <3>5, SeenPrefix
    <3>7. /\ WaitingIn(queue) \in Seq(Nat) /\ Len(WaitingIn(queue)) = m - r
          /\ \A i \in 1..(m - r) : WaitingIn(queue)[i] = queue[r + i].ts
      BY <3>2, <3>5, <3>6, WaitingIs DEF GoodQueue
    <3>8. CASE r = m
      <4>1. Len(WaitingIn(queue)) = 0
        BY <3>2, <3>7, <3>8
      <4>2. Waiting = <<>>
        BY <3>7, <4>1, EmptySeq, WaitingOfQueue
      <4>3. Append(<<>>, ts) = <<ts>>
        BY <1>10
      <4>4. Line!Enter(ts)
        BY <1>9, <3>1, <4>2, <4>3 DEF Line!Enter
      <4> QED BY <1>10, <1>12, <4>4 DEF Line!Next
    <3>9. CASE r # m
      <4>1. m - r \in 1..(m - r) /\ r + (m - r) = m
        BY <3>2, <3>6, <3>9
      <4>2. m - r \in 1..Len(Waiting) /\ Waiting[m - r] > ts
        BY <3>4, <3>7, <4>1, WaitingOfQueue
      <4>3. Line!StartOver(ts)
        BY <1>9, <3>1, <4>2 DEF Line!StartOver
      <4> QED BY <1>10, <1>12, <4>3 DEF Line!Next
    <3> QED BY <3>8, <3>9
  <2> QED BY <1>1, <2>2, <2>3
<1>14. CASE Len(queue') = n + 2
  <2> DEFINE mid == (c.queue[n].ts + ts) \div 2
  <2>1. /\ n >= 1 /\ ts - c.queue[n].ts >= SplitMinPeriod /\ queue'[n + 1].ts = mid
    BY <1>4, <1>14
  <2>2. c.queue = queue
    BY <1>1, <1>3, <2>1, EmptySeq
  <2>3. queue[n].ts \in Times /\ queue[n].ts \in Nat
    <3>1. queue # <<>>
      BY <1>3, <2>1, <2>2, EmptySeq
    <3> QED BY <1>3, <2>2, <3>1, TimesAssumption DEF TailPushed
  <2>4. mid \in Stamps
    BY <2>2, <2>3 DEF Stamps
  <2>5. mid \in Nat /\ queue[n].ts < mid /\ mid < ts
    <3>1. \A a, b \in Nat : b - a >= 2 => a < (a + b) \div 2 /\ (a + b) \div 2 < b
      OBVIOUS
    <3>2. ts - queue[n].ts >= 2
      BY <1>10, <2>1, <2>2, <2>3, DelayAssumption
    <3> QED BY <1>10, <2>2, <2>3, <3>1, <3>2, HalfNat
  <2> HIDE DEF mid
  <2>6. w = v \o <<mid, ts>>
    <3>1. Len(w) = (n - s) + 2 /\ w[(n - s) + 1] = mid /\ w[(n - s) + 2] = ts
      <4>1. /\ (n - s) + 1 \in 1..(Len(queue') - s) /\ s + ((n - s) + 1) = n + 1
            /\ (n - s) + 2 \in 1..(Len(queue') - s) /\ s + ((n - s) + 2) = n + 2
            /\ Len(queue') - s = (n - s) + 2
        <5>1. \A a \in Nat : \A b \in 0..a :
                /\ (a - b) + 1 \in 1..((a + 2) - b) /\ b + ((a - b) + 1) = a + 1
                /\ (a - b) + 2 \in 1..((a + 2) - b) /\ b + ((a - b) + 2) = a + 2
                /\ (a + 2) - b = (a - b) + 2
          OBVIOUS
        <5> QED BY <1>14, <5>1
      <4> QED BY <1>4, <1>8, <1>14, <2>1, <4>1
    <3> DEFINE two == <<mid, ts>>
    <3>2. two \in Seq(Nat) /\ Len(two) = 2 /\ two[1] = mid /\ two[2] = ts
      BY <1>10, <2>5
    <3> HIDE DEF two
    <3>3. /\ v \o two \in Seq(Nat) /\ Len(v \o two) = (n - s) + 2
          /\ \A i \in 1..((n - s) + 2) :
               (v \o two)[i] = IF i <= n - s THEN v[i] ELSE two[i - (n - s)]
      <4>1. PICK m \in Nat : m = n - s
        BY <1>3, <1>5
      <4>2. v \in Seq(Nat) /\ Len(v) = m
        BY <1>7, <4>1
      <4>3. /\ v \o two \in Seq(Nat) /\ Len(v \o two) = Len(v) + Len(two)
            /\ \A i \in 1..(Len(v) + Len(two)) :
                 (v \o two)[i] = IF i <= Len(v) THEN v[i] ELSE two[i - Len(v)]
        BY <3>2, <4>2, ConcatProperties, Zenon
      <4>4. /\ v \o two \in Seq(Nat) /\ Len(v \o two) = m + 2
            /\ \A i \in 1..(m + 2) : (v \o two)[i] = IF i <= m THEN v[i] ELSE two[i - m]
        BY <3>2, <4>2, <4>3, Zenon
      <4> QED BY <4>1, <4>4
    <3>4. /\ (v \o two)[(n - s) + 1] = mid /\ (v \o two)[(n - s) + 2] = ts
          /\ \A i \in 1..(n - s) : (v \o two)[i] = v[i]
      <4>1. /\ (n - s) + 1 \in 1..((n - s) + 2) /\ (n - s) + 2 \in 1..((n - s) + 2)
            /\ ((n - s) + 1) - (n - s) = 1 /\ ((n - s) + 2) - (n - s) = 2
            /\ ~((n - s) + 1 <= n - s) /\ ~((n - s) + 2 <= n - s)
            /\ \A i \in 1..(n - s) : i \in 1..((n - s) + 2) /\ i <= n - s
        BY <1>3, <1>5
      <4> QED BY <3>2, <3>3, <4>1
    <3>5. \A i \in 1..Len(w) : i \in 1..(n - s) \/ i = (n - s) + 1 \/ i = (n - s) + 2
      BY <1>5, <3>1
    <3>6. \A i \in 1..Len(w) : w[i] = (v \o two)[i]
      BY <1>11, <3>1, <3>4, <3>5
    <3>7. Len(w) = Len(v \o two)
      BY <3>1, <3>3
    <3>8. w = v \o two
      BY <1>8, <3>3, <3>6, <3>7, SeqEqual
    <3> QED BY <3>8 DEF two
  <2>7. v = Waiting
    BY <2>2, WaitingOfQueue DEF v
  <2>8. v # <<>> => v[Len(v)] < mid
    <3> SUFFICES ASSUME v # <<>> PROVE v[Len(v)] < mid
      OBVIOUS
    <3>1. Len(v) # 0
      BY <1>7, EmptySeq
    <3>2. n - s \in 1..(n - s) /\ s + (n - s) = n
      BY <1>3, <1>5, <1>7, <3>1
    <3> QED BY <1>7, <2>2, <2>5, <3>2
  <2>9. Line!EnterBoth(mid, ts)
    BY <1>9, <2>5, <2>6, <2>7, <2>8 DEF Line!EnterBoth
  <2> QED BY <1>10, <1>12, <2>4, <2>9 DEF Line!Next
<1> QED BY <1>4, <1>13, <1>14

\* next_ gets the oldest state of the line.
LEMMA PresentInLine ==
  ASSUME QueueInv, TailPushed, NEW answer, PresentState(answer)
  PROVE  Line!Next /\ TailPushed'
<1>1. PICK f, k : Presented(f, k, answer)
  BY PresentIs
<1>2. PICK n \in Nat : n = Len(queue)
  BY DEF QueueInv, TypeOK
<1>3. /\ f \in 1..n /\ k \in 0..n /\ k < f /\ queue' \in Seq(Node) /\ Len(queue') = n - k
      /\ \A i \in 1..n : i < f <=> queue[i].completed
      /\ \A i \in 1..(n-k) : /\ queue'[i].ts = queue[k + i].ts
                             /\ queue'[i].completed <=> k + i <= f
  BY <1>1, <1>2 DEF Presented
<1>4. queue \in Seq(Node)
  BY DEF QueueInv, TypeOK
<1>5. Seen(queue) = f - 1
  <2>1. f - 1 \in 0..Len(queue)
    BY <1>2, <1>3
  <2>2. \A i \in 1..Len(queue) : queue[i].completed <=> i <= f - 1
    BY <1>2, <1>3
  <2> QED BY <1>4, <2>1, <2>2, SeenIs
<1>6. Seen(queue') = f - k
  <2>1. f - k \in 0..Len(queue')
    BY <1>2, <1>3
  <2>2. \A i \in 1..Len(queue') : queue'[i].completed <=> i <= f - k
    BY <1>2, <1>3
  <2> QED BY <1>3, <2>1, <2>2, SeenIs
<1> DEFINE v == WaitingIn(queue)
           w == WaitingIn(queue')
<1>7. /\ v \in Seq(Nat) /\ Len(v) = n - f + 1
      /\ \A i \in 1..(n - f + 1) : v[i] = queue[f - 1 + i].ts
  <2>1. f - 1 \in 0..n /\ n - (f - 1) = n - f + 1
    BY <1>2, <1>3
  <2> QED BY <1>2, <1>4, <1>5, <2>1, WaitingIs
<1>8. /\ w \in Seq(Nat) /\ Len(w) = n - f
      /\ \A i \in 1..(n - f) : w[i] = queue'[f - k + i].ts
  <2>1. f - k \in 0..Len(queue') /\ Len(queue') - (f - k) = n - f
    BY <1>2, <1>3
  <2>2. /\ w \in Seq(Nat) /\ Len(w) = Len(queue') - (f - k)
        /\ \A i \in 1..(Len(queue') - (f - k)) : w[i] = queue'[(f - k) + i].ts
    BY <1>3, <1>6, <2>1, WaitingIs
  <2> QED BY <2>1, <2>2
<1>9. Waiting' = w /\ Waiting = v
  BY WaitingOfQueue DEF Waiting, WaitingIn, Seen
<1> HIDE DEF v, w
<1>10. v # <<>> /\ w = Tail(v)
  <2>1. v # <<>>
    BY <1>2, <1>3, <1>7, EmptySeq
  <2>2. /\ Tail(v) \in Seq(Nat) /\ Len(Tail(v)) = Len(v) - 1
        /\ \A i \in 1..Len(Tail(v)) : Tail(v)[i] = v[i + 1]
    BY <1>7, <2>1, HeadTailProperties
  <2>3. Len(v) - 1 = n - f
    BY <1>2, <1>3, <1>7
  <2>4. ASSUME NEW i \in 1..(n - f) PROVE w[i] = v[i + 1]
    <3>1. /\ f - k + i \in 1..(n - k) /\ k + (f - k + i) = f + i
          /\ i + 1 \in 1..(n - f + 1) /\ f - 1 + (i + 1) = f + i
      BY <1>2, <1>3
    <3> QED BY <1>3, <1>7, <1>8, <3>1
  <2> QED BY <1>8, <2>1, <2>2, <2>3, <2>4, SeqEqual
<1>11. TailPushed'
  <2>1. queue # <<>> /\ queue[n].ts \in Times
    BY <1>2, <1>3, EmptySeq DEF TailPushed
  <2>2. n - k \in 1..(n - k) /\ k + (n - k) = n
    BY <1>2, <1>3
  <2> QED BY <1>3, <2>1, <2>2 DEF TailPushed
<1> QED BY <1>9, <1>10, <1>11 DEF Line!Next, Line!HandOn

\* The queue is a delay line until Initialize makes it anew: every state reaches next_
\* once and in the order they came, and none is lost but to a clock that went back.
THEOREM QueueIsDelayLine == Spec => ImplementsDelayLine
<1> DEFINE Inv == QueueInv /\ DueWithinDelay /\ TailPushed
<1>1. Init => Line!Init /\ TailPushed
  <2> SUFFICES ASSUME Init PROVE Line!Init /\ TailPushed
    OBVIOUS
  <2>1. queue = <<>> /\ queue \in Seq(Node) /\ Len(queue) = 0
    BY EmptySeq DEF Init
  <2>2. Seen(queue) = 0
    <3>1. 0 \in 0..Len(queue) /\ \A i \in 1..Len(queue) : FALSE
      BY <2>1
    <3> QED BY <2>1, <3>1, SeenIs
  <2>3. WaitingIn(queue) \in Seq(Nat) /\ Len(WaitingIn(queue)) = 0
    <3>1. 0 \in 0..Len(queue) /\ Len(queue) - 0 = 0
      BY <2>1
    <3> QED BY <2>1, <2>2, <3>1, WaitingIs
  <2> QED BY <2>1, <2>3, EmptySeq, WaitingOfQueue DEF Line!Init, TailPushed
<1>2. QueueInv /\ DueWithinDelay /\ TailPushed /\ [Next]_vars =>
        TailPushed' /\ (Handlers => [Line!Next]_Waiting)
  <2> SUFFICES ASSUME QueueInv, DueWithinDelay, TailPushed, [Next]_vars
               PROVE  TailPushed' /\ (Handlers => [Line!Next]_Waiting)
    OBVIOUS
  <2>1. CASE \E t \in Times : Accept(t)
    BY <2>1, AcceptInLine
  <2>2. CASE \E answer \in NextAnswers : PresentState(answer)
    BY <2>2, PresentInLine
  <2>3. CASE Initialize
    <3>1. TailPushed'
      BY <2>3 DEF Initialize, TailPushed
    <3>2. pc' = pc
      BY <2>3 DEF Initialize
    <3>3. CASE \E t \in Times : Accept(t)
      BY <3>3, AcceptInLine
    <3>4. CASE ~\E t \in Times : Accept(t)
      <4>1. ASSUME Handlers PROVE \E answer \in NextAnswers : PresentState(answer)
        BY <2>3, <3>2, <3>4, <4>1 DEF Handlers, Loop, SyncInterpret, Refuse, HandleTimer,
           CallNextTimer, SpuriousCallback, NothingDue, LeaveLoop, Return, Initialize
      <4> QED BY <3>1, <4>1, PresentInLine
    <3> QED BY <3>3, <3>4
  <2>4. CASE queue' = queue
    BY <2>4 DEF Waiting, TailPushed
  <2> QED BY <2>1, <2>2, <2>3, <2>4, QueueUnchanged
<1>3. Spec => []TailPushed
  BY <1>1, <1>2, QueueInvariant, DueIsClose, PTL DEF Spec
<1> QED BY <1>1, <1>2, <1>3, QueueInvariant, DueIsClose, PTL DEF Spec, ImplementsDelayLine

(***************************************************************************)
(* Under GestureInterpreter                                                *)
(***************************************************************************)
LEMMA EpochType == Epoch \in Times
<1>1. Times \in SUBSET Nat /\ Times # {}
  BY TimesAssumption, HostAssumption
<1>2. \E t \in Times : \A u \in Times : t <= u
  BY <1>1, LeastNat
<1> QED BY <1>2 DEF Epoch

HTypes ==
  /\ clock \in Times
  /\ armed \in Nat \cup {NoTime}
  /\ last_hw \in Nat
  /\ wanted \in Nat \cup {NoTime} /\ wanted # 0

\* The steps of the composition are steps of the filter.
LEMMA HostTakesSteps ==
  ASSUME HTypes, [HNext]_hvars
  PROVE  [Next]_vars
<1>1. clock \in Times
  BY DEF HTypes
<1>2. CASE Tick
  BY <1>2 DEF Tick
<1>3. CASE PushHardwareState
  BY <1>3 DEF PushHardwareState, Next, Handlers
<1>4. CASE TimerCallback
  BY <1>1, <1>4 DEF TimerCallback, Next, Handlers
<1>5. CASE AskNext
  BY <1>5 DEF AskNext, Next, Handlers, Loop
<1>6. CASE EndLoop
  BY <1>6 DEF EndLoop, Next, Handlers, Loop
<1>7. CASE HandlerReturns
  BY <1>7 DEF HandlerReturns, Next, Handlers
<1>8. CASE UNCHANGED hvars
  BY <1>8 DEF hvars
<1> QED BY <1>2, <1>3, <1>4, <1>5, <1>6, <1>7, <1>8 DEF HNext

\* The filter's theorems hold in the composition, for its steps are the filter's.
LEMMA HostTypes == HSpec => [](QueueInv /\ HTypes /\ DueWithinDelay)
<1>1. HInit => QueueInv /\ HTypes /\ DueWithinDelay
  BY EpochType, QueueInvInit, DueInit DEF HInit, HTypes, NoTime
<1>2. QueueInv /\ DueWithinDelay /\ HTypes /\ [HNext]_hvars =>
        QueueInv' /\ DueWithinDelay' /\ HTypes'
  <2> SUFFICES ASSUME QueueInv, DueWithinDelay, HTypes, [HNext]_hvars
               PROVE  QueueInv' /\ DueWithinDelay' /\ HTypes'
    OBVIOUS
  <2>1. QueueInv' /\ DueWithinDelay'
    BY HostTakesSteps, QueueInvStep, DueStep
  <2> SUFFICES HTypes'
    BY <2>1
  <2>2. clock \in Nat /\ timeout \in Int /\ now \in Nat
    BY TimesAssumption DEF HTypes, QueueInv, TypeOK
  <2>3. CASE Tick
    BY <2>3 DEF Tick, HTypes
  <2>4. CASE PushHardwareState
    <3>1. PICK ts \in Times : last_hw' = ts
      BY <2>4 DEF PushHardwareState
    <3> QED BY <2>4, <3>1, TimesAssumption DEF PushHardwareState, HTypes
  <2>5. CASE TimerCallback
    BY <2>5 DEF TimerCallback, HTypes
  <2>6. CASE AskNext
    <3>1. PICK answer \in NextAnswers : wanted' = IF answer > 0 THEN now + answer ELSE NoTime
      BY <2>6 DEF AskNext
    <3>2. answer \in Nat \cup {NoTime}
      BY TimesAssumption
    <3>3. wanted' \in Nat \cup {NoTime} /\ wanted' # 0
      BY <2>2, <3>1, <3>2 DEF NoTime
    <3> QED BY <2>6, <3>3 DEF AskNext, HTypes
  <2>7. CASE EndLoop
    BY <2>7 DEF EndLoop, HTypes
  <2>8. CASE HandlerReturns
    <3>1. armed' \in Nat \cup {NoTime}
      BY <2>2, <2>8 DEF HandlerReturns, Timer!ArmedByPush, Timer!ArmedByCallback,
         Timer!NotArmed, NoTime
    <3> QED BY <2>8, <3>1 DEF HandlerReturns, HTypes
  <2>9. CASE UNCHANGED hvars
    BY <2>9 DEF hvars, HTypes
  <2> QED BY <2>3, <2>4, <2>5, <2>6, <2>7, <2>8, <2>9 DEF HNext
<1> QED BY <1>1, <1>2, PTL DEF HSpec

(***************************************************************************)
(* The order of the queue                                                  *)
(***************************************************************************)
OrderInv == QueueInOrder /\ \A i \in 1..Len(queue) : queue[i].ts <= last_hw

LEMMA AcceptInOrder ==
  ASSUME QueueInv, OrderInv, last_hw \in Nat, NEW ts \in Times, Accept(ts), last_hw < ts,
         last_hw' = ts
  PROVE  OrderInv'
<1> DEFINE c == Checked(ts)
<1>1. /\ GoodQueue(c.queue) /\ c.queue \in {<<>>, queue} /\ Len(c.queue) \in Nat
  BY CheckedIs DEF Accept
<1>2. Extended(c.queue, ts, queue')
  BY AcceptIs
<1> HIDE DEF c
<1>3. PICK n \in Nat : n = Len(c.queue)
  BY <1>1
<1>4. /\ \A i \in 1..n : c.queue[i].ts <= last_hw
      /\ \A i, j \in 1..n : i < j => c.queue[i].ts <= c.queue[j].ts
      /\ \A i \in 1..n : c.queue[i].ts \in Nat
  <2>1. \A i \in 1..n : c.queue[i] \in Node
    BY <1>1, <1>3 DEF GoodQueue
  <2>2. \A i \in 1..n : c.queue[i].ts \in Nat
    BY <2>1 DEF Node
  <2> QED BY <1>1, <1>3, <2>2, EmptySeq DEF OrderInv, QueueInOrder
<1>5. /\ Len(queue') \in {n + 1, n + 2}
      /\ \A i \in 1..n : queue'[i].ts = c.queue[i].ts
      /\ queue'[Len(queue')].ts = ts
      /\ Len(queue') = n + 2 => /\ n >= 1
                                /\ queue'[n + 1].ts = (c.queue[n].ts + ts) \div 2
  BY <1>2, <1>3 DEF Extended
<1>6. ts \in Nat
  BY TimesAssumption
<1>7. ASSUME Len(queue') = n + 2
      PROVE  /\ queue'[n + 1].ts \in Nat /\ queue'[n + 1].ts <= ts
             /\ \A i \in 1..n : queue'[i].ts <= queue'[n + 1].ts
  <2>1. \A a, b \in Nat : a < b => /\ (a + b) \div 2 \in Nat
                                   /\ a <= (a + b) \div 2 /\ (a + b) \div 2 <= b
    OBVIOUS
  <2>2. n \in 1..n /\ c.queue[n].ts \in Nat /\ c.queue[n].ts < ts
    BY <1>4, <1>5, <1>6, <1>7
  <2>3. /\ queue'[n + 1].ts \in Nat /\ queue'[n + 1].ts <= ts
        /\ c.queue[n].ts <= queue'[n + 1].ts
    BY <1>5, <1>6, <1>7, <2>1, <2>2
  <2>4. ASSUME NEW i \in 1..n PROVE queue'[i].ts <= queue'[n + 1].ts
    <3>1. i = n \/ i < n
      OBVIOUS
    <3>2. c.queue[i].ts \in Nat /\ c.queue[i].ts <= c.queue[n].ts
      BY <1>4, <2>2, <3>1
    <3>3. queue'[i].ts = c.queue[i].ts
      BY <1>5
    <3> QED BY <2>2, <2>3, <3>2, <3>3
  <2> QED BY <2>3, <2>4
<1>8. \A i \in 1..Len(queue') :
        i \in 1..n \/ i = Len(queue') \/ (i = n + 1 /\ Len(queue') = n + 2)
  BY <1>3, <1>5
<1>9. \A i \in 1..Len(queue') : queue'[i].ts <= ts /\ queue'[i].ts \in Nat
  <2>1. \A i \in 1..n : c.queue[i].ts <= ts
    BY <1>4, <1>6
  <2> QED BY <1>4, <1>5, <1>6, <1>7, <1>8, <2>1
<1>10. ASSUME NEW i \in 1..Len(queue'), NEW j \in 1..Len(queue'), i < j
       PROVE  queue'[i].ts <= queue'[j].ts
  <2>1. CASE j = Len(queue')
    BY <1>5, <1>9, <2>1
  <2>2. CASE j \in 1..n
    <3>1. i \in 1..n
      BY <1>3, <1>10, <2>2
    <3> QED BY <1>4, <1>5, <1>10, <2>2, <3>1
  <2>3. CASE j = n + 1 /\ Len(queue') = n + 2
    <3>1. i \in 1..n
      BY <1>3, <1>10, <2>3
    <3> QED BY <1>7, <2>3, <3>1
  <2> QED BY <1>8, <2>1, <2>2, <2>3
<1> QED BY <1>9, <1>10 DEF OrderInv, QueueInOrder

LEMMA PresentInOrder ==
  ASSUME QueueInv, OrderInv, NEW answer, PresentState(answer), last_hw' = last_hw
  PROVE  OrderInv'
<1>1. PICK f, k : Presented(f, k, answer)
  BY PresentIs
<1>2. PICK n \in Nat : n = Len(queue)
  BY DEF QueueInv, TypeOK
<1>3. /\ k \in 0..n /\ Len(queue') = n - k
      /\ \A i \in 1..(n-k) : queue'[i].ts = queue[k + i].ts
  BY <1>1, <1>2 DEF Presented
<1>4. \A i \in 1..(n-k) : k + i \in 1..n
  BY <1>3
<1>5. \A i, j \in 1..(n-k) : i < j => k + i < k + j
  BY <1>3
<1> QED BY <1>2, <1>3, <1>4, <1>5 DEF OrderInv, QueueInOrder

\* As long as the device's timestamps go forward, those in the queue do, made-up states
\* included.
THEOREM QueueStaysInOrder == HSpec => []QueueInOrder
<1>1. HInit => OrderInv
  BY EmptySeq DEF HInit, Init, OrderInv, QueueInOrder
<1>2. QueueInv /\ HTypes /\ OrderInv /\ [HNext]_hvars => OrderInv'
  <2> SUFFICES ASSUME QueueInv, HTypes, OrderInv, [HNext]_hvars PROVE OrderInv'
    OBVIOUS
  <2>1. CASE PushHardwareState
    <3>1. PICK ts \in Times : last_hw < ts /\ SyncInterpret(ts) /\ last_hw' = ts
      BY <2>1 DEF PushHardwareState
    <3>2. CASE Accept(ts)
      BY <3>1, <3>2, AcceptInOrder DEF HTypes
    <3>3. CASE Refuse(ts)
      <4>1. \A i \in 1..Len(queue) : queue[i] \in Node
        BY DEF QueueInv, TypeOK
      <4>2. \A i \in 1..Len(queue) : queue[i].ts \in Nat
        BY <4>1 DEF Node
      <4>3. ts \in Nat /\ last_hw \in Nat
        BY TimesAssumption DEF HTypes
      <4>4. \A i \in 1..Len(queue) : queue[i].ts <= ts
        BY <3>1, <4>2, <4>3 DEF OrderInv
      <4> QED BY <3>1, <3>3, <4>4 DEF Refuse, OrderInv, QueueInOrder
    <3> QED BY <3>1, <3>2, <3>3 DEF SyncInterpret
  <2>2. CASE AskNext
    <3>1. PICK answer \in NextAnswers :
            /\ CallNextTimer(answer) \/ PresentState(answer)
            /\ last_hw' = last_hw
      BY <2>2 DEF AskNext
    <3>2. CASE CallNextTimer(answer)
      BY <3>1, <3>2 DEF CallNextTimer, OrderInv, QueueInOrder
    <3>3. CASE PresentState(answer)
      BY <3>1, <3>3, PresentInOrder
    <3> QED BY <3>1, <3>2, <3>3
  <2>3. CASE Tick \/ TimerCallback \/ EndLoop \/ HandlerReturns \/ UNCHANGED hvars
    <3>1. queue' = queue /\ last_hw' = last_hw
      BY <2>3 DEF Tick, TimerCallback, HandleTimer, EndLoop, SpuriousCallback, NothingDue,
         LeaveLoop, HandlerReturns, Return, hvars, vars
    <3> QED BY <3>1 DEF OrderInv, QueueInOrder
  <2> QED BY <2>1, <2>2, <2>3 DEF HNext
<1> QED BY <1>1, <1>2, HostTypes, PTL DEF HSpec, OrderInv

(***************************************************************************)
(* The timer                                                               *)
(***************************************************************************)
\* What UpdateInterpreterDue leaves in interpreter_due_ and *timeout.
Chosen(q, new, t, old, due, to) ==
  LET waiting == Uncompleted(q) # {}
      first   == q[FirstUncompleted(q)].due
  IN \/ new >= 0 /\ due = new + t /\ to = new /\ (waiting => new < first - t)
     \/ due = NoTime /\ waiting /\ to = first - t /\ (new >= 0 => first - t <= new)
     \/ due = NoTime /\ ~waiting /\ new < 0 /\ to = old

LEMMA FirstDueType ==
  ASSUME NEW q \in Seq(Node), Uncompleted(q) # {}
  PROVE  q[FirstUncompleted(q)].due \in Int
<1>1. q[FirstUncompleted(q)] \in Node
  BY FirstUncompletedIsFirst DEF Uncompleted
<1> QED BY <1>1 DEF Node

LEMMA UpdateIs ==
  ASSUME NEW q \in Seq(Node), NEW new \in Int, NEW t \in Int, NEW old
  PROVE  LET u == UpdateInterpreterDue(q, new, t, old)
         IN Chosen(q, new, t, old, u.due, u.timeout)
<1> DEFINE first == q[FirstUncompleted(q)].due
<1>1. CASE Uncompleted(q) = {}
  <2>1. UpdateInterpreterDue(q, new, t, old) =
          IF new >= 0 THEN [due |-> new + t, timeout |-> new]
          ELSE [due |-> NoTime, timeout |-> old]
    BY <1>1 DEF UpdateInterpreterDue
  <2> DEFINE u == UpdateInterpreterDue(q, new, t, old)
  <2>2. \/ new >= 0 /\ u.due = new + t /\ u.timeout = new
        \/ new < 0 /\ u.due = NoTime /\ u.timeout = old
    <3>1. CASE new >= 0
      <4>1. u = [due |-> new + t, timeout |-> new]
        BY <2>1, <3>1
      <4> HIDE DEF u
      <4> QED BY <3>1, <4>1
    <3>2. CASE ~(new >= 0)
      <4>1. u = [due |-> NoTime, timeout |-> old] /\ new < 0
        BY <2>1, <3>2
      <4> HIDE DEF u
      <4> QED BY <4>1
    <3> QED BY <3>1, <3>2
  <2> HIDE DEF u
  <2>3. Chosen(q, new, t, old, u.due, u.timeout)
    BY <1>1, <2>2 DEF Chosen
  <2> QED BY <2>3 DEF u
<1>2. CASE Uncompleted(q) # {}
  <2>1. first \in Int
    BY <1>2, FirstDueType
  <2> HIDE DEF first
  <2>2. UpdateInterpreterDue(q, new, t, old) =
          IF new >= 0 /\ new < first - t
          THEN [due |-> new + t, timeout |-> new]
          ELSE [due |-> NoTime, timeout |-> first - t]
    BY <1>2 DEF UpdateInterpreterDue, first
  <2> DEFINE u == UpdateInterpreterDue(q, new, t, old)
  <2>3. \/ new >= 0 /\ u.due = new + t /\ u.timeout = new /\ new < first - t
        \/ u.due = NoTime /\ u.timeout = first - t /\ (new >= 0 => first - t <= new)
    <3>1. CASE new >= 0 /\ new < first - t
      <4>1. u = [due |-> new + t, timeout |-> new]
        BY <2>2, <3>1
      <4> HIDE DEF u
      <4> QED BY <3>1, <4>1
    <3>2. CASE ~(new >= 0 /\ new < first - t)
      <4>1. u = [due |-> NoTime, timeout |-> first - t]
        BY <2>2, <3>2
      <4> HIDE DEF u
      <4> QED BY <2>1, <3>2, <4>1
    <3> QED BY <3>1, <3>2
  <2> HIDE DEF u
  <2>4. Chosen(q, new, t, old, u.due, u.timeout)
    BY <1>2, <2>3 DEF Chosen, first
  <2> QED BY <2>4 DEF u
<1> QED BY <1>1, <1>2

\* A handler runs at the time of its argument or, if a state took a while to come, a
\* little later.
Running == pc # "idle" => now \in Times /\ now <= clock /\ clock <= now + MaxLag

\* next_'s timer is only kept if it comes before the first state that waits.
DueSooner ==
  /\ interpreter_due = NoTime \/ interpreter_due > 0
  /\ IsWaiting /\ interpreter_due # NoTime => interpreter_due < FirstDue

\* A timer of next_ that is not kept comes no earlier than that state.
AskedFor ==
  pc = "loop" /\ IsWaiting /\ interpreter_due = NoTime /\ next_timeout # NoTime =>
    FirstDue <= now + next_timeout

\* What a handler answers is in time for that state.
Answered ==
  pc = "return" /\ IsWaiting /\ free > 0 => 0 < timeout /\ timeout <= FirstDue - now

ArmedInTime ==
  pc = "idle" /\ IsWaiting /\ free > 0 => armed # NoTime /\ armed <= FirstDue + MaxLag

TimerAhead == armed # NoTime => clock <= armed + MaxLate

\* With no state waiting, next_'s timer is what the handler answers.
QuietTimer ==
  wanted # NoTime /\ ~IsWaiting =>
    /\ interpreter_due = wanted
    /\ pc = "return" => timeout = wanted - now /\ timeout > 0
    /\ pc = "idle" => armed # NoTime /\ armed <= wanted + MaxLag

TimerInv ==
  /\ Running /\ DueSooner /\ AskedFor /\ Answered /\ ArmedInTime /\ TimerAhead
  /\ QuietTimer

LEMMA ChosenIsSooner ==
  ASSUME NEW new \in Int, NEW t \in Nat \ {0}, NEW old,
         queue' \in Seq(Node), Chosen(queue', new, t, old, interpreter_due', timeout')
  PROVE  DueSooner'
<1> DEFINE q == queue'
           first == q[FirstUncompleted(q)].due
           waiting == Uncompleted(q) # {}
<1>1. waiting => first \in Int
  BY FirstDueType
<1>2. IsWaiting' = waiting /\ FirstDue' = first
  BY DEF IsWaiting, FirstDue
<1>3. \/ new >= 0 /\ interpreter_due' = new + t /\ (waiting => new < first - t)
      \/ interpreter_due' = NoTime
  BY DEF Chosen
<1> HIDE DEF q, first, waiting
<1>4. CASE new >= 0 /\ interpreter_due' = new + t /\ (waiting => new < first - t)
  BY <1>1, <1>2, <1>4 DEF DueSooner
<1>5. CASE interpreter_due' = NoTime
  BY <1>5 DEF DueSooner
<1> QED BY <1>3, <1>4, <1>5

LEMMA AcceptKeepsTimer ==
  ASSUME QueueInv, HTypes, TimerInv, NEW ts \in Times, Accept(ts),
         ts <= clock, clock <= ts + MaxLag, UNCHANGED <<clock, armed, wanted>>
  PROVE  TimerInv'
<1> DEFINE c == Checked(ts)
           x == CarriedTimeout(c.due, ts)
<1>1. /\ Len(c.queue) \in Nat /\ c.due \in Int
      /\ c.due = NoTime \/ c.due = interpreter_due
  BY CheckedIs DEF Accept
<1>2. /\ Extended(c.queue, ts, queue')
      /\ interpreter_due' = UpdateInterpreterDue(queue', x, ts, NoTime).due
      /\ timeout' = UpdateInterpreterDue(queue', x, ts, NoTime).timeout
  BY AcceptIs
<1>3. ts \in Nat \ {0} /\ x \in Int
  BY <1>1, TimesAssumption DEF CarriedTimeout
<1> HIDE DEF c, x
<1>4. queue' \in Seq(Node) /\ IsWaiting'
  <2>1. /\ queue' \in Seq(Node) /\ Len(queue') \in 1..Len(queue')
        /\ ~queue'[Len(queue')].completed
    BY <1>1, <1>2 DEF Extended
  <2>2. Len(queue') \in Uncompleted(queue')
    BY <2>1 DEF Uncompleted
  <2> QED BY <2>1, <2>2 DEF IsWaiting
<1>5. DueSooner'
  <2>1. Chosen(queue', x, ts, NoTime, interpreter_due', timeout')
    BY <1>2, <1>3, <1>4, UpdateIs
  <2> QED BY <1>3, <1>4, <2>1, ChosenIsSooner
<1>6. pc' = "loop" /\ now' = ts /\ next_timeout' = NoTime
  BY DEF Accept
<1>7. Running' /\ AskedFor' /\ Answered' /\ ArmedInTime'
  BY <1>6 DEF Running, AskedFor, Answered, ArmedInTime
<1>8. TimerAhead' /\ QuietTimer'
  BY <1>4 DEF TimerInv, TimerAhead, QuietTimer
<1> QED BY <1>5, <1>7, <1>8 DEF TimerInv

\* One call into next_.
LEMMA AskKeepsTimer ==
  ASSUME QueueInv, HTypes, TimerInv, QueueInv', NEW answer \in NextAnswers,
         CallNextTimer(answer) \/ PresentState(answer),
         wanted' = IF answer > 0 THEN now + answer ELSE NoTime,
         UNCHANGED <<clock, armed>>
  PROVE  TimerInv'
<1>1. answer \in Int /\ answer \in Nat \cup {NoTime} /\ queue' \in Seq(Node) /\ now \in Nat \ {0}
  BY TimesAssumption DEF QueueInv, TypeOK, TimerInv, Running, CallNextTimer, PresentState, NoTime
<1>2. /\ pc = "loop" /\ pc' = pc /\ now' = now /\ next_timeout' = answer
      /\ interpreter_due' = UpdateInterpreterDue(queue', answer, now, timeout).due
      /\ timeout' = UpdateInterpreterDue(queue', answer, now, timeout).timeout
  <2>1. CASE CallNextTimer(answer)
    BY <2>1 DEF CallNextTimer
  <2>2. CASE PresentState(answer)
    BY <2>2 DEF PresentState
  <2> QED BY <2>1, <2>2
<1>3. Chosen(queue', answer, now, timeout, interpreter_due', timeout')
  BY <1>1, <1>2, UpdateIs
<1>4. DueSooner'
  BY <1>1, <1>3, ChosenIsSooner
<1> DEFINE q == queue'
           first == q[FirstUncompleted(q)].due
           waiting == Uncompleted(q) # {}
<1>5. waiting => first \in Int
  BY <1>1, FirstDueType
<1>6. IsWaiting' = waiting /\ FirstDue' = first
  BY DEF IsWaiting, FirstDue
<1>7. \/ answer >= 0 /\ interpreter_due' = answer + now
      \/ interpreter_due' = NoTime /\ waiting /\ (answer >= 0 => first - now <= answer)
      \/ ~waiting /\ answer < 0
  BY <1>3 DEF Chosen
<1> HIDE DEF q, first, waiting
<1>8. AskedFor'
  <2> SUFFICES ASSUME waiting, interpreter_due' = NoTime, answer # NoTime
               PROVE  first <= now + answer
    BY <1>2, <1>6 DEF AskedFor
  <2> QED BY <1>1, <1>5, <1>7 DEF NoTime
<1>9. QuietTimer'
  <2> SUFFICES ASSUME wanted' # NoTime, ~waiting PROVE interpreter_due' = wanted'
    BY <1>2, <1>6 DEF QuietTimer
  <2> QED BY <1>1, <1>7
<1>10. Running' /\ Answered' /\ ArmedInTime' /\ TimerAhead'
  BY <1>2 DEF TimerInv, Running, Answered, ArmedInTime, TimerAhead
<1> QED BY <1>4, <1>8, <1>9, <1>10 DEF TimerInv

\* The loop ends and leaves a timeout that is in time for the first state.
LEMMA EndKeepsTimer ==
  ASSUME QueueInv, HTypes, TimerInv, SpuriousCallback \/ NothingDue,
         UNCHANGED <<clock, armed, wanted>>
  PROVE  TimerInv'
<1>1. PICK x : /\ LeaveLoop(x) /\ pc = "loop"
               /\ \/ x = interpreter_due - now /\ interpreter_due > now
                  \/ x = next_timeout /\ interpreter_due <= 0 /\ ~Overdue
  BY DEF SpuriousCallback, NothingDue
<1>2. /\ queue \in Seq(Node) /\ now \in Nat \ {0} /\ interpreter_due \in Int
      /\ next_timeout \in Nat \cup {NoTime}
  BY <1>1, TimesAssumption DEF QueueInv, TypeOK, TimerInv, Running
<1>3. x \in Int
  BY <1>1, <1>2 DEF NoTime
<1>4. /\ queue' = queue /\ free' = free /\ now' = now /\ pc' = "return"
      /\ interpreter_due' = UpdateInterpreterDue(queue', x, now, timeout).due
      /\ timeout' = UpdateInterpreterDue(queue', x, now, timeout).timeout
  BY <1>1 DEF LeaveLoop
<1>5. Chosen(queue', x, now, timeout, interpreter_due', timeout')
  BY <1>2, <1>3, <1>4, UpdateIs
<1>6. DueSooner'
  BY <1>2, <1>3, <1>4, <1>5, ChosenIsSooner
<1> DEFINE first == queue[FirstUncompleted(queue)].due
           waiting == Uncompleted(queue) # {}
<1>7. waiting => first \in Int
  BY <1>2, FirstDueType
<1>8. /\ IsWaiting = waiting /\ IsWaiting' = waiting /\ FirstDue = first /\ FirstDue' = first
      /\ Overdue <=> waiting /\ first <= now
  BY <1>4 DEF IsWaiting, FirstDue, Overdue
<1>9. \/ x >= 0 /\ interpreter_due' = x + now /\ timeout' = x /\ (waiting => x < first - now)
      \/ waiting /\ timeout' = first - now /\ (x >= 0 => first - now <= x)
      \/ ~waiting /\ x < 0
  BY <1>4, <1>5 DEF Chosen
<1> HIDE DEF first, waiting
<1>10. Answered'
  <2> SUFFICES ASSUME waiting PROVE 0 < timeout' /\ timeout' <= first - now
    BY <1>4, <1>8 DEF Answered
  <2>1. first > now
    <3>1. CASE interpreter_due > now
      <4>1. interpreter_due # NoTime
        BY <1>2, <3>1 DEF NoTime
      <4> QED BY <1>2, <1>7, <1>8, <3>1, <4>1 DEF TimerInv, DueSooner
    <3>2. CASE ~Overdue
      BY <1>2, <1>7, <1>8, <3>2
    <3> QED BY <1>1, <3>1, <3>2
  <2>2. CASE timeout' = first - now
    BY <1>2, <1>7, <2>1, <2>2
  <2>3. CASE x >= 0 /\ timeout' = x /\ x < first - now
    <3>1. CASE x = interpreter_due - now /\ interpreter_due > now
      BY <1>2, <1>3, <1>7, <2>3, <3>1
    <3>2. CASE x = next_timeout /\ interpreter_due <= 0
      <4>1. interpreter_due = NoTime /\ next_timeout # NoTime
        BY <1>2, <2>3, <3>2 DEF TimerInv, DueSooner, NoTime
      <4>2. first <= now + x
        BY <1>1, <1>8, <3>2, <4>1 DEF TimerInv, AskedFor
      <4> QED BY <1>2, <1>3, <1>7, <2>3, <4>2
    <3> QED BY <1>1, <3>1, <3>2
  <2> QED BY <1>9, <2>2, <2>3
<1>11. QuietTimer'
  <2> SUFFICES ASSUME wanted # NoTime, ~waiting
               PROVE  interpreter_due' = wanted /\ timeout' = wanted - now /\ timeout' > 0
    BY <1>4, <1>8 DEF QuietTimer
  <2>1. interpreter_due = wanted /\ wanted \in Nat /\ wanted # 0
    BY <1>8 DEF TimerInv, QuietTimer, HTypes
  <2>2. x = wanted - now /\ wanted > now
    BY <1>1, <2>1
  <2> QED BY <1>2, <1>9, <2>1, <2>2
<1>12. Running' /\ AskedFor' /\ ArmedInTime' /\ TimerAhead'
  BY <1>1, <1>4 DEF TimerInv, Running, AskedFor, ArmedInTime, TimerAhead
<1> QED BY <1>6, <1>10, <1>11, <1>12 DEF TimerInv

\* The handler's answer becomes the moment the timer is set for.
LEMMA ReturnKeepsTimer ==
  ASSUME QueueInv, HTypes, TimerInv, HandlerReturns
  PROVE  TimerInv'
<1>1. /\ pc = "return" /\ pc' = "idle" /\ queue' = queue /\ free' = free
      /\ interpreter_due' = interpreter_due /\ UNCHANGED <<clock, wanted>>
  BY DEF HandlerReturns, Return
<1>2. /\ clock \in Nat /\ timeout \in Int /\ now \in Nat /\ MaxLag \in Nat /\ MaxLate \in Nat
      /\ now <= clock /\ clock <= now + MaxLag
  BY <1>1, TimesAssumption, HostAssumption DEF HTypes, QueueInv, TypeOK, TimerInv, Running
<1>3. /\ armed' = NoTime \/ (armed' = clock + timeout /\ timeout >= 0)
      /\ timeout > 0 => armed' = clock + timeout /\ armed' # NoTime
  BY <1>2 DEF HandlerReturns, Timer!ArmedByPush, Timer!ArmedByCallback, Timer!NotArmed, NoTime
<1>4. IsWaiting' = IsWaiting /\ FirstDue' = FirstDue /\ (IsWaiting => FirstDue \in Int)
  BY <1>1, FirstDueType DEF IsWaiting, FirstDue, QueueInv, TypeOK
<1>5. Running' /\ DueSooner' /\ AskedFor' /\ Answered'
  BY <1>1, <1>4 DEF TimerInv, Running, DueSooner, AskedFor, Answered
<1>6. ArmedInTime'
  <2> SUFFICES ASSUME IsWaiting, free > 0 PROVE armed' # NoTime /\ armed' <= FirstDue + MaxLag
    BY <1>1, <1>4 DEF ArmedInTime
  <2>1. 0 < timeout /\ timeout <= FirstDue - now
    BY <1>1 DEF TimerInv, Answered
  <2> QED BY <1>2, <1>3, <1>4, <2>1
<1>7. TimerAhead'
  BY <1>1, <1>2, <1>3 DEF TimerAhead
<1>8. QuietTimer'
  <2> SUFFICES ASSUME wanted # NoTime, ~IsWaiting
               PROVE  /\ interpreter_due = wanted
                      /\ armed' # NoTime /\ armed' <= wanted + MaxLag
    BY <1>1, <1>4 DEF QuietTimer
  <2>1. interpreter_due = wanted /\ timeout = wanted - now /\ timeout > 0 /\ wanted \in Nat
    BY <1>1 DEF TimerInv, QuietTimer, HTypes
  <2> QED BY <1>2, <1>3, <2>1
<1> QED BY <1>5, <1>6, <1>7, <1>8 DEF TimerInv

\* The steps between which no handler runs, and the refused state.
LEMMA OutsideKeepsTimer ==
  ASSUME QueueInv, HTypes, TimerInv,
         \/ Tick \/ TimerCallback \/ UNCHANGED hvars
         \/ /\ \E ts \in Times : Refuse(ts) /\ ts <= clock /\ clock <= ts + MaxLag
            /\ UNCHANGED <<clock, armed, wanted>>
  PROVE  TimerInv'
<1>1. /\ queue' = queue /\ free' = free /\ interpreter_due' = interpreter_due
      /\ wanted' = wanted /\ next_timeout' \in {next_timeout, NoTime}
  BY DEF Tick, TimerCallback, HandleTimer, Refuse, hvars, vars
<1>2. IsWaiting' = IsWaiting /\ FirstDue' = FirstDue
  BY <1>1 DEF IsWaiting, FirstDue
<1>3. clock \in Nat /\ MaxLag \in Nat /\ MaxLate \in Nat /\ armed \in Nat \cup {NoTime}
  BY TimesAssumption, HostAssumption DEF HTypes
<1>4. DueSooner'
  BY <1>1, <1>2 DEF TimerInv, DueSooner
<1>5. CASE Tick
  <2>1. /\ pc = "idle" /\ pc' = pc /\ now' = now /\ timeout' = timeout /\ armed' = armed
        /\ next_timeout' = next_timeout
        /\ clock' = clock + 1 /\ (armed # NoTime => clock < armed + MaxLate)
    BY <1>5 DEF Tick, vars
  <2>2. Running' /\ AskedFor' /\ Answered'
    BY <2>1 DEF Running, AskedFor, Answered
  <2>3. ArmedInTime' /\ QuietTimer'
    BY <1>1, <1>2, <2>1 DEF TimerInv, ArmedInTime, QuietTimer
  <2>4. TimerAhead'
    BY <1>3, <2>1 DEF TimerAhead
  <2> QED BY <1>4, <2>2, <2>3, <2>4 DEF TimerInv
<1>6. CASE TimerCallback
  <2>1. /\ pc' = "loop" /\ now' = clock /\ clock' = clock /\ next_timeout' = NoTime
        /\ armed' = NoTime
    BY <1>6 DEF TimerCallback, HandleTimer
  <2>2. Running' /\ AskedFor' /\ Answered' /\ ArmedInTime' /\ TimerAhead'
    BY <1>3, <2>1 DEF HTypes, Running, AskedFor, Answered, ArmedInTime, TimerAhead
  <2>3. QuietTimer'
    BY <1>1, <1>2, <2>1 DEF TimerInv, QuietTimer
  <2> QED BY <1>4, <2>2, <2>3 DEF TimerInv
<1>7. CASE /\ \E ts \in Times : Refuse(ts) /\ ts <= clock /\ clock <= ts + MaxLag
           /\ UNCHANGED <<clock, armed, wanted>>
  <2>1. PICK ts \in Times : Refuse(ts) /\ ts <= clock /\ clock <= ts + MaxLag
    BY <1>7
  <2>2. pc' = "return" /\ now' = ts /\ free = 0 /\ armed' = armed /\ clock' = clock
    BY <1>7, <2>1 DEF Refuse
  <2>3. IsWaiting
    <3>1. Len(queue) \in Nat /\ Len(queue) = NumNodes
      BY <2>2, NodesAssumption DEF QueueInv, TypeOK, NodesConserved
    <3>2. 3 \in 1..Len(queue) /\ ~queue[3].completed
      BY <3>1, PoolAssumption, NodesAssumption DEF QueueInv, AtMostTwoCompleted
    <3> QED BY <3>2 DEF IsWaiting, Uncompleted
  <2>4. Running' /\ AskedFor' /\ Answered' /\ ArmedInTime'
    BY <1>1, <2>1, <2>2 DEF Running, AskedFor, Answered, ArmedInTime
  <2>5. TimerAhead' /\ QuietTimer'
    BY <1>2, <2>2, <2>3 DEF TimerInv, TimerAhead, QuietTimer
  <2> QED BY <1>4, <2>4, <2>5 DEF TimerInv
<1>8. CASE UNCHANGED hvars
  <2>1. /\ pc' = pc /\ now' = now /\ timeout' = timeout /\ armed' = armed /\ clock' = clock
        /\ next_timeout' = next_timeout
    BY <1>8 DEF hvars, vars
  <2> QED BY <1>1, <1>2, <1>4, <2>1 DEF TimerInv, Running, AskedFor, Answered, ArmedInTime,
             TimerAhead, QuietTimer
<1> QED BY <1>5, <1>6, <1>7, <1>8

LEMMA TimerInvariant == HSpec => []TimerInv
<1>1. HInit => TimerInv
  <2> SUFFICES ASSUME HInit PROVE TimerInv
    OBVIOUS
  <2>1. /\ queue = <<>> /\ pc = "idle" /\ interpreter_due = NoTime /\ armed = NoTime
        /\ wanted = NoTime
    BY DEF HInit, Init
  <2>2. ~IsWaiting
    BY <2>1, EmptySeq DEF IsWaiting, Uncompleted
  <2> QED BY <2>1, <2>2 DEF TimerInv, Running, DueSooner, AskedFor, Answered, ArmedInTime,
             TimerAhead, QuietTimer
<1>2. QueueInv /\ HTypes /\ TimerInv /\ QueueInv' /\ [HNext]_hvars => TimerInv'
  <2> SUFFICES ASSUME QueueInv, HTypes, TimerInv, QueueInv', [HNext]_hvars PROVE TimerInv'
    OBVIOUS
  <2>1. CASE Tick \/ TimerCallback \/ UNCHANGED hvars
    BY <2>1, OutsideKeepsTimer
  <2>2. CASE PushHardwareState
    <3>1. PICK ts \in Times : /\ ts <= clock /\ clock <= ts + MaxLag
                              /\ SyncInterpret(ts)
                              /\ UNCHANGED <<clock, armed, wanted>>
      BY <2>2 DEF PushHardwareState
    <3>2. CASE Accept(ts)
      BY <3>1, <3>2, AcceptKeepsTimer
    <3>3. CASE Refuse(ts)
      BY <3>1, <3>3, OutsideKeepsTimer
    <3> QED BY <3>1, <3>2, <3>3 DEF SyncInterpret
  <2>3. CASE AskNext
    BY <2>3, AskKeepsTimer DEF AskNext
  <2>4. CASE EndLoop
    BY <2>4, EndKeepsTimer DEF EndLoop
  <2>5. CASE HandlerReturns
    BY <2>5, ReturnKeepsTimer
  <2> QED BY <2>1, <2>2, <2>3, <2>4, <2>5 DEF HNext
<1> QED BY <1>1, <1>2, HostTypes, PTL DEF HSpec

\* While the pool has a node left, the host's timer is set for the first state that waits,
\* and no state waits past its due time for longer than its own lag and the timer's
\* lateness, whatever next_ answers.
THEOREM StatesAreNeverLate == HSpec => []NeverLate
<1>1. QueueInv /\ HTypes /\ TimerInv => NeverLate
  <2> SUFFICES ASSUME QueueInv, HTypes, TimerInv, pc = "idle", IsWaiting, free > 0
               PROVE  /\ armed # NoTime
                      /\ armed <= FirstDue + MaxLag
                      /\ clock <= FirstDue + MaxLag + MaxLate
    BY DEF NeverLate
  <2>1. armed # NoTime /\ armed <= FirstDue + MaxLag /\ clock <= armed + MaxLate
    BY DEF TimerInv, ArmedInTime, TimerAhead
  <2>2. FirstDue \in Int /\ armed \in Nat /\ clock \in Nat /\ MaxLag \in Nat /\ MaxLate \in Nat
    BY <2>1, FirstDueType, TimesAssumption, HostAssumption
       DEF IsWaiting, FirstDue, HTypes, QueueInv, TypeOK
  <2> QED BY <2>1, <2>2
<1> QED BY <1>1, HostTypes, TimerInvariant, PTL

\* While no state waits, the timer next_ asked for survives in interpreter_due_ and in the
\* host's timer, through every callback that comes too early.
THEOREM QuietTimerIsKept == HSpec => []NextTimerKeptWhenQuiet
<1>1. TimerInv => NextTimerKeptWhenQuiet
  BY DEF TimerInv, QuietTimer, NextTimerKeptWhenQuiet
<1> QED BY <1>1, TimerInvariant, PTL

=============================================================================
