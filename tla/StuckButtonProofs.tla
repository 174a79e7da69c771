-------------------------- MODULE StuckButtonProofs --------------------------
(***************************************************************************)
(* For any set of buttons, any timeout and any answers of the next         *)
(* interpreter, the inhibitor's record of the buttons is the client's and  *)
(* the client is only told changes that make sense.                        *)
(***************************************************************************)
EXTENDS StuckButton, TLAPS

USE LengthAssumption, AnswersAssumption

LEMMA ProduceType ==
  ASSUME pressed \subseteq Buttons,
         NEW down \in SUBSET Buttons, NEW up \in SUBSET Buttons,
         ProduceGesture(down, up)
  PROVE  pressed' \subseteq Buttons /\ told' \in Change
BY DEF ProduceGesture, Change

(* Every field of the inhibitor keeps its type; its answer to the host is
   never an overdue timeout, whatever the next interpreter left behind. *)
THEOREM Typing == Spec => []TypeOK
<1>1. Init => TypeOK
  <2>1. Init => told \in Change
    BY DEF Init, Change
  <2> QED BY <2>1 DEF Init, TypeOK, NoTime
<1>2. TypeOK /\ [Next]_vars => TypeOK'
  <2> SUFFICES ASSUME TypeOK, [Next]_vars PROVE TypeOK'
    OBVIOUS
  <2>1. ASSUME NEW touching \in BOOLEAN, NEW clicking \in BOOLEAN,
               SyncInterpret(touching, clicking)
        PROVE  TypeOK'
    BY <2>1 DEF TypeOK, SyncInterpret
  <2>2. CASE HandleTimer
    <3>1. CASE PassTimerOn
      BY <3>1 DEF TypeOK, PassTimerOn
    <3>2. CASE LiftButtons
      <4>1. pressed' \subseteq Buttons /\ told' \in Change
        BY <3>2, ProduceType DEF TypeOK, LiftButtons
      <4> QED BY <3>2, <4>1 DEF TypeOK, LiftButtons
    <3>3. CASE CallbackForNothing
      BY <3>3 DEF TypeOK, CallbackForNothing
    <3> QED BY <2>2, <3>1, <3>2, <3>3 DEF HandleTimer
  <2>3. ASSUME NEW down \in SUBSET Buttons, NEW up \in SUBSET Buttons,
               ConsumeButtonsChange(down, up)
        PROVE  TypeOK'
    <3> DEFINE new_down == down \ sent_buttons_down
               sent     == sent_buttons_down \cup new_down
               new_up   == up \cap sent
    <3>1. new_down \in SUBSET Buttons /\ new_up \in SUBSET Buttons
      BY DEF TypeOK
    <3>2. pressed' \subseteq Buttons /\ told' \in Change
      <4>1. CASE UNCHANGED <<pressed, told>>
        BY <4>1 DEF TypeOK
      <4>2. CASE ProduceGesture(new_down, new_up)
        BY <4>2, <3>1, ProduceType DEF TypeOK
      <4> QED BY <2>3, <4>1, <4>2 DEF ConsumeButtonsChange
    <3>3. sent_buttons_down' \subseteq Buttons
      BY <2>3, <3>1 DEF TypeOK, ConsumeButtonsChange
    <3> QED BY <2>3, <3>2, <3>3 DEF TypeOK, ConsumeButtonsChange
  <2>4. ASSUME NEW answer \in NextAnswers, HandleTimeouts(answer)
        PROVE  TypeOK'
    BY <2>4 DEF TypeOK, HandleTimeouts, NoTime
  <2>5. CASE Return
    BY <2>5 DEF TypeOK, Return, NoTime
  <2>6. CASE UNCHANGED vars
    BY <2>6 DEF TypeOK, vars
  <2> QED BY <2>1, <2>2, <2>3, <2>4, <2>5, <2>6 DEF Next
<1> QED BY <1>1, <1>2, PTL DEF Spec

(* The record and the client's buttons agree, and the last change the client
   was told made sense when it was told.  Agreement is what makes the repair in
   ConsumeGesture right, so the two are proved together. *)
ButtonInv == ClientAgrees /\ OnlySensibleChanges

THEOREM ClientButtons == Spec => []ButtonInv
<1>1. Init => ButtonInv
  BY DEF Init, ButtonInv, ClientAgrees, OnlySensibleChanges
<1>2. ButtonInv /\ [Next]_vars => ButtonInv'
  <2> SUFFICES ASSUME ButtonInv, [Next]_vars PROVE ButtonInv'
    OBVIOUS
  <2> USE DEF ButtonInv, ClientAgrees, OnlySensibleChanges
  <2>1. ASSUME NEW touching \in BOOLEAN, NEW clicking \in BOOLEAN,
               SyncInterpret(touching, clicking)
        PROVE  ButtonInv'
    BY <2>1 DEF SyncInterpret
  <2>2. CASE HandleTimer
    <3>1. CASE PassTimerOn
      BY <3>1 DEF PassTimerOn
    <3>2. CASE LiftButtons
      BY <3>2 DEF LiftButtons, ProduceGesture
    <3>3. CASE CallbackForNothing
      BY <3>3 DEF CallbackForNothing
    <3> QED BY <2>2, <3>1, <3>2, <3>3 DEF HandleTimer
  <2>3. ASSUME NEW down \in SUBSET Buttons, NEW up \in SUBSET Buttons,
               ConsumeButtonsChange(down, up)
        PROVE  ButtonInv'
    <3> DEFINE new_down == down \ sent_buttons_down
               sent     == sent_buttons_down \cup new_down
               new_up   == up \cap sent
    <3>1. sent_buttons_down' = sent \ new_up
      BY <2>3 DEF ConsumeButtonsChange
    <3>2. CASE new_down = {} /\ new_up = {}
      <4>1. sent_buttons_down' = sent_buttons_down /\ UNCHANGED <<pressed, told>>
        BY <2>3, <3>2 DEF ConsumeButtonsChange
      <4> QED BY <4>1
    <3>3. CASE ~(new_down = {} /\ new_up = {})
      <4>1. ProduceGesture(new_down, new_up)
        BY <2>3, <3>3 DEF ConsumeButtonsChange
      <4> QED BY <3>1, <4>1 DEF ProduceGesture
    <3> QED BY <3>2, <3>3
  <2>4. ASSUME NEW answer \in NextAnswers, HandleTimeouts(answer)
        PROVE  ButtonInv'
    BY <2>4 DEF HandleTimeouts
  <2>5. CASE Return
    BY <2>5 DEF Return
  <2>6. CASE UNCHANGED vars
    BY <2>6 DEF vars
  <2> QED BY <2>1, <2>2, <2>3, <2>4, <2>5, <2>6 DEF Next
<1> QED BY <1>1, <1>2, PTL DEF Spec

\* The inhibitor's record of what is down is always the client's.
THEOREM ClientAgreement == Spec => []ClientAgrees
<1>1. ButtonInv => ClientAgrees
  BY DEF ButtonInv
<1> QED BY <1>1, ClientButtons, PTL

\* The client is never sent a change that makes no sense to it.
THEOREM SensibleChanges == Spec => []OnlySensibleChanges
<1>1. ButtonInv => OnlySensibleChanges
  BY DEF ButtonInv
<1> QED BY <1>1, ClientButtons, PTL

==============================================================================
