----------------------------- MODULE BoxFilter -----------------------------
(***************************************************************************)
(* The filter that keeps a finger's position while it moves inside a box   *)
(* (src/src/box_filter_interpreter.cc).  Both axes are treated alike, so   *)
(* one is modelled, in quarters of the unit.                               *)
(***************************************************************************)
EXTENDS Integers

CONSTANTS
  Ids,                  \* tracking ids
  HalfBox,              \* half the box's width, or height
  MaxPosition           \* bound: positions

\* Given by the module that has an instance of this one.
BoxAssumption == HalfBox \in Nat /\ MaxPosition \in Nat

VARIABLES
  previous_output,      \* of each finger
  input,                \* history: where the fingers are in this state,
  warp                  \* and which of them are flagged

vars == <<previous_output, input, warp>>

-----------------------------------------------------------------------------
Abs(n) == IF n < 0 THEN -n ELSE n

\* Mutant: a finger that leaves the box takes its own position.
OutOfTheBox(out, val) ==
  IF out - HalfBox < val /\ val < out + HalfBox THEN out ELSE val

\* Mutant: the box is twice as wide where it is looked at.
WideBox(out, val) ==
  IF out - 2 * HalfBox < val /\ val < out + 2 * HalfBox THEN out
  ELSE IF val > out THEN val - HalfBox ELSE val + HalfBox

\* The box stays in place, or is drawn along at its border.
Boxed(out, val) ==
  IF out - HalfBox < val /\ val < out + HalfBox THEN out
  ELSE IF val > out THEN val - HalfBox ELSE val + HalfBox

\* A box without width in both axes passes every state.  Fingers that are new or warp are
\* where they are.
SyncInterpret ==
  \E new \in SUBSET Ids :
   \E at \in [new -> 0 .. MaxPosition], warps \in SUBSET new :
    /\ input' = at /\ warp' = warps
    /\ previous_output' =
         [f \in new |-> IF f \in DOMAIN previous_output /\ f \notin warps
                        THEN Boxed(previous_output[f], at[f]) ELSE at[f]]

Init == previous_output = <<>> /\ input = <<>> /\ warp = {}

Next == SyncInterpret

Spec == Init /\ [][Next]_vars

-----------------------------------------------------------------------------
TypeOK ==
  /\ DOMAIN input = DOMAIN previous_output /\ warp \subseteq DOMAIN input
  /\ DOMAIN input \subseteq Ids
  /\ \A f \in DOMAIN input : {input[f], previous_output[f]} \subseteq 0 .. MaxPosition

\* Through any movements a finger is never said to be farther from where it is than
\* half a box: no error adds up.
WithinHalfBox == \A f \in DOMAIN input : Abs(input[f] - previous_output[f]) <= HalfBox

\* What a finger is said to move is at most what it moved: it does not jump as it leaves
\* the box, and does not turn.
NoLongerMoves ==
  [][\A f \in (DOMAIN input \cap DOMAIN input') \ warp' :
       Abs(previous_output'[f] - previous_output[f]) <= Abs(input'[f] - input[f])]_vars
=============================================================================
