----------------------------- MODULE SensorJump -----------------------------
(***************************************************************************)
(* The filter that looks for fingers whose position jumps                  *)
(* (src/src/sensor_jump_filter_interpreter.cc).  It does the same for      *)
(* either axis and for pointing and gestures, so one of the four is        *)
(* modelled.  Of a movement it is a choice whether it is suspect alone     *)
(* ("jump": it turns or differs too much from the one before), like the    *)
(* one before it ("similar"), or neither ("fine").                         *)
(***************************************************************************)
EXTENDS Integers

CONSTANT Ids            \* tracking ids

VARIABLES
  previous_input,       \* the ids of previous_input_[0] and previous_input_[1]
  first_flag,
  warp,                 \* history: the fingers flagged in this state
  moves                 \* history: the movement each finger made in this state

vars == <<previous_input, first_flag, warp, moves>>

Movements == {"jump", "similar", "fine"}

-----------------------------------------------------------------------------
\* A movement takes two earlier states.
Known(new) == new \cap previous_input[0] \cap previous_input[1]

\* Mutant: a flag is stored with every warp.
StoredFlags(new, move) ==
  (first_flag \cap new) \cup {f \in DOMAIN move : move[f] = "jump"}

\* The flag is stored for a jump and gone after anything else.
FirstFlags(new, move) ==
  ((first_flag \cap new) \ DOMAIN move) \cup {f \in DOMAIN move : move[f] = "jump"}

Warps(new, move) ==
  {f \in DOMAIN move : \/ move[f] = "jump"
                       \/ move[f] = "similar" /\ f \in first_flag}

SyncInterpret ==
  \E new \in SUBSET Ids :
   \E move \in [Known(new) -> Movements] :
    /\ warp' = Warps(new, move)
    /\ first_flag' = FirstFlags(new, move)
    /\ moves' = move
    /\ previous_input' = [i \in 0 .. 1 |-> IF i = 0 THEN new ELSE previous_input[0] \cap new]

Init ==
  /\ previous_input = [i \in 0 .. 1 |-> {}]
  /\ first_flag = {} /\ warp = {} /\ moves = <<>>

Next == SyncInterpret

Spec == Init /\ [][Next]_vars

-----------------------------------------------------------------------------
TypeOK ==
  /\ previous_input \in [0 .. 1 -> SUBSET Ids]
  /\ previous_input[1] \subseteq previous_input[0]
  /\ first_flag \cup warp \subseteq DOMAIN moves
  /\ moves \in [DOMAIN moves -> Movements] /\ DOMAIN moves \subseteq Ids

\* A finger that goes on as it jumped is flagged once more and then trusted: what is
\* flagged jumps now, or did in the very state before.
WarpsFollowJumps ==
  [][\A f \in warp' : \/ moves'[f] = "jump"
                      \/ f \in DOMAIN moves /\ moves[f] = "jump"]_vars
=============================================================================
