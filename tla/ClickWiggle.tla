---------------------------- MODULE ClickWiggle ----------------------------
(***************************************************************************)
(* The filter that holds fingers still around a click of the button        *)
(* (src/src/click_wiggle_filter_interpreter.cc).  Deadlines are ticks      *)
(* left; whether a finger has moved further than a wiggle is a choice, and *)
(* so is, of several fingers, whether all but one are palms.  No two       *)
(* states have the same timestamp.  prev_pressure_ is never read.          *)
(***************************************************************************)
EXTENDS Integers, FiniteSets, FiniteSetsExt

CONSTANTS
  Ids,                  \* tracking ids
  SuppressTimeout,      \* wiggle_suppress_timeout_
  ButtonDownTimeout,    \* wiggle_button_down_timeout_
  OneFingerTimeout,     \* one_finger_click_wiggle_timeout_
  MaxStep               \* bound: the time between two states

\* Given by the module that has an instance of this one.
TimesAssumption ==
  /\ {SuppressTimeout, ButtonDownTimeout, OneFingerTimeout, MaxStep} \subseteq Nat
  /\ SuppressTimeout <= ButtonDownTimeout

VARIABLES
  wiggle_recs,          \* began_press_suppression_ and suppress_ of each finger
  left_button,          \* the left button of prev_buttons_
  edge,                 \* since button_edge_occurred_, AgeCap for never and long ago
  one_finger,           \* button_edge_with_one_finger_
  warped,               \* history: the fingers flagged in this state
  known                 \* history: since the last edge, or a later arrival

vars == <<wiggle_recs, left_button, edge, one_finger, warped, known>>

-----------------------------------------------------------------------------
AgeCap == Max({ButtonDownTimeout, OneFingerTimeout}) + 1

Older(a, dt) == IF a + dt > AgeCap THEN AgeCap ELSE a + dt

Rec(left) == [left |-> left, suppress |-> TRUE]

Broken == [left |-> 0, suppress |-> FALSE]

\* Mutant: the time starts again as long as the finger rests.
StartsAgain(rec, dt, moved) ==
  IF ~rec.suppress \/ moved THEN Broken
  ELSE IF rec.left <= dt THEN Rec(SuppressTimeout) ELSE Rec(rec.left - dt)

\* A finger breaks out of the suppression by moving too far or by time.
Continue(rec, dt, moved) ==
  IF ~rec.suppress \/ moved \/ rec.left <= dt THEN Broken ELSE Rec(rec.left - dt)

\* Mutant: when a finger comes, the others are held again as well.
UpdateWithArrivals(new, down, dt, far) ==
  LET held == down # left_button \/ ~(new \subseteq DOMAIN wiggle_recs)
  IN [f \in new |->
        IF held THEN Rec(IF down /\ ~left_button THEN ButtonDownTimeout ELSE SuppressTimeout)
        ELSE Continue(wiggle_recs[f], dt, f \in far)]

UpdateClickWiggle(new, down, dt, far) ==
  [f \in new |->
     IF down # left_button \/ f \notin DOMAIN wiggle_recs
     THEN Rec(IF down /\ ~left_button THEN ButtonDownTimeout ELSE SuppressTimeout)
     ELSE Continue(wiggle_recs[f], dt, f \in far)]

\* With one finger at the edge, whatever is on the pad is held for a time.
SetWarpFlags(new) ==
  IF 0 < edge' /\ edge' < OneFingerTimeout /\ one_finger' THEN new
  ELSE {f \in new : wiggle_recs'[f].suppress}

SyncInterpret ==
  \E new \in SUBSET Ids, down \in BOOLEAN, dt \in 1 .. MaxStep :
   \E far \in SUBSET (new \cap DOMAIN wiggle_recs),
      lone \in IF Cardinality(new) < 2 THEN {TRUE} ELSE BOOLEAN :
    /\ wiggle_recs' = UpdateClickWiggle(new, down, dt, far)
    /\ left_button' = down
    /\ edge' = IF down # left_button THEN 0 ELSE Older(edge, dt)
    /\ one_finger' = IF down # left_button THEN lone ELSE one_finger
    /\ warped' = SetWarpFlags(new)
    /\ known' = [f \in new |-> IF down # left_button \/ f \notin DOMAIN wiggle_recs THEN 0
                               ELSE Older(known[f], dt)]

Init ==
  /\ wiggle_recs = <<>>
  /\ left_button = FALSE
  /\ edge = AgeCap /\ one_finger = FALSE
  /\ warped = {} /\ known = <<>>

Next == SyncInterpret

Spec == Init /\ [][Next]_vars

-----------------------------------------------------------------------------
TypeOK ==
  /\ DOMAIN wiggle_recs \subseteq Ids
  /\ wiggle_recs \in [DOMAIN wiggle_recs -> [left : 0 .. ButtonDownTimeout, suppress : BOOLEAN]]
  /\ known \in [DOMAIN wiggle_recs -> 0 .. AgeCap]
  /\ {left_button, one_finger} \subseteq BOOLEAN /\ edge \in 0 .. AgeCap
  /\ warped \subseteq DOMAIN wiggle_recs

\* However the button goes and the fingers come, nothing is held longer than the
\* longest of the timeouts that apply to it: ButtonDownTimeout only with the button
\* down, and OneFingerTimeout only since an edge.
WarpEnds ==
  \A f \in warped :
    \/ known[f] = 0 \/ known[f] < SuppressTimeout
    \/ left_button /\ known[f] < ButtonDownTimeout
    \/ edge < OneFingerTimeout

\* A finger that is let go moves freely until the next edge: neither the other fingers
\* nor the rule for one finger hold it again.
FreeStaysFree ==
  [][\A f \in DOMAIN wiggle_recs \cap DOMAIN wiggle_recs' :
       f \notin warped /\ left_button = left_button' => f \notin warped']_vars

\* "already set warp on the only finger there is": with one finger at the edge, that
\* finger is the only one.
OnlyFinger ==
  0 < edge /\ edge < OneFingerTimeout /\ one_finger => Cardinality(DOMAIN wiggle_recs) < 2
=============================================================================
