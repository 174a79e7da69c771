------------------------------ MODULE DelayLine ------------------------------
(***************************************************************************)
(* What the lookahead filter promises about hardware states, whatever      *)
(* nodes, due times and timers it uses to keep the promise: a line of      *)
(* timestamps that are handed on one by one, in the order they came.  The  *)
(* filter may put one made-up state between the two newest, and throws the *)
(* line away only for a state that is older than one in it.                *)
(***************************************************************************)
EXTENDS Integers, Sequences

CONSTANT Stamps         \* timestamps of hardware states, and those in between

VARIABLE waiting        \* the states not yet handed on, oldest first

Init == waiting = <<>>

Enter(ts) == waiting' = Append(waiting, ts)

EnterBoth(mid, ts) ==
  /\ mid < ts
  /\ waiting # <<>> => waiting[Len(waiting)] < mid
  /\ waiting' = waiting \o <<mid, ts>>

\* Only a line that holds a later state than ts may be thrown away for it.
StartOver(ts) ==
  /\ \E i \in 1..Len(waiting) : waiting[i] > ts
  /\ waiting' = <<ts>>

HandOn ==
  /\ waiting # <<>>
  /\ waiting' = Tail(waiting)

Next ==
  \/ \E ts \in Stamps : Enter(ts) \/ StartOver(ts)
  \/ \E mid, ts \in Stamps : EnterBoth(mid, ts)
  \/ HandOn

Spec == Init /\ [][Next]_waiting

==============================================================================
