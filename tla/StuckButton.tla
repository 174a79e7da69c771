----------------------------- MODULE StuckButton -----------------------------
(***************************************************************************)
(* The stuck button inhibitor                                              *)
(* (src/src/stuck_button_inhibitor_filter_interpreter.cc).  It passes      *)
(* hardware states in and gestures out, repairs button changes that make   *)
(* no sense to the client, and lifts buttons that stay down after the      *)
(* hardware has been released.                                             *)
(*                                                                         *)
(* A handler calls the next interpreter, which may produce any number of   *)
(* gestures before it returns: pc is "next" meanwhile, and "return" once   *)
(* *timeout holds the handler's answer.                                    *)
(***************************************************************************)
EXTENDS Integers

CONSTANTS
  Buttons,          \* the bits of GestureButtonsChange
  TimeoutLength,    \* kTimeoutLength, one second
  NextAnswers       \* what the next interpreter may leave in *timeout

ASSUME LengthAssumption == TimeoutLength \in Nat \ {0}
ASSUME AnswersAssumption == NextAnswers \subseteq Int

NoTime == -1

VARIABLES
  incoming_button_must_be_up,
  sent_buttons_down,
  next_expects_timer,
  pc,
  timeout,          \* the caller's *timeout
  pressed,          \* the buttons the client holds to be down
  told              \* the last change it was told, and pressed before it

vars == <<incoming_button_must_be_up, sent_buttons_down, next_expects_timer,
          pc, timeout, pressed, told>>

Change == [before : SUBSET Buttons, down : SUBSET Buttons, up : SUBSET Buttons]

Init ==
  /\ incoming_button_must_be_up = TRUE
  /\ sent_buttons_down = {}
  /\ next_expects_timer = FALSE
  /\ pc = "idle"
  /\ timeout = NoTime
  /\ pressed = {}
  /\ told = [before |-> {}, down |-> {}, up |-> {}]

\* ProduceGesture: downs come before ups in one change.
ProduceGesture(down, up) ==
  /\ told' = [before |-> pressed, down |-> down, up |-> up]
  /\ pressed' = (pressed \cup down) \ up

\* SyncInterpretImpl, up to the call of the next interpreter.
SyncInterpret(touching, clicking) ==
  /\ pc = "idle"
  /\ incoming_button_must_be_up' = (~touching /\ ~clicking)
  /\ pc' = "next"
  /\ UNCHANGED <<sent_buttons_down, next_expects_timer, timeout, pressed, told>>

\* HandleTimerImpl, up to the call of the next interpreter, which it reaches
\* with nothing to send only if that one asked for the timer.
PassTimerOn ==
  /\ pc = "idle"
  /\ next_expects_timer
  /\ pc' = "next"
  /\ UNCHANGED <<incoming_button_must_be_up, sent_buttons_down,
                 next_expects_timer, timeout, pressed, told>>

LiftButtons ==
  /\ pc = "idle"
  /\ ~next_expects_timer
  /\ sent_buttons_down # {}
  /\ ProduceGesture({}, sent_buttons_down)
  /\ sent_buttons_down' = {}
  /\ pc' = "next"
  /\ UNCHANGED <<incoming_button_must_be_up, next_expects_timer, timeout>>

\* "Bug: got callback, but no gesture to send."
CallbackForNothing ==
  /\ pc = "idle"
  /\ ~next_expects_timer
  /\ sent_buttons_down = {}
  /\ pc' = "return"
  /\ UNCHANGED <<incoming_button_must_be_up, sent_buttons_down,
                 next_expects_timer, timeout, pressed, told>>

HandleTimer == PassTimerOn \/ LiftButtons \/ CallbackForNothing

\* Mutants of ConsumeButtonsChange: a change passed on as it came, and one whose
\* up is recorded as it was before the down of the same change.
ConsumeUnfiltered(down, up) ==
  /\ pc = "next"
  /\ sent_buttons_down' = (sent_buttons_down \cup down) \ up
  /\ ProduceGesture(down, up)
  /\ UNCHANGED <<incoming_button_must_be_up, next_expects_timer, pc, timeout>>

ConsumeSkippingClicks(down, up) ==
  /\ pc = "next"
  /\ LET new_down == down \ sent_buttons_down
         new_up   == up \cap sent_buttons_down
     IN /\ sent_buttons_down' = (sent_buttons_down \cup new_down) \ new_up
        /\ ProduceGesture(new_down, up)
  /\ UNCHANGED <<incoming_button_must_be_up, next_expects_timer, pc, timeout>>

\* ConsumeGesture for a button change, which the next interpreter produces.
ConsumeButtonsChange(down, up) ==
  /\ pc = "next"
  /\ LET new_down == down \ sent_buttons_down
         sent     == sent_buttons_down \cup new_down
         new_up   == up \cap sent
     IN /\ sent_buttons_down' = sent \ new_up
        /\ IF new_down = {} /\ new_up = {}
           THEN UNCHANGED <<pressed, told>>
           ELSE ProduceGesture(new_down, new_up)
  /\ UNCHANGED <<incoming_button_must_be_up, next_expects_timer, pc, timeout>>

\* Mutants: the timer is asked for without a button down, while the hardware is in use, or
\* not any more once next has asked for one.
HandleTimeoutsUnasked(next_timeout) ==
  /\ pc = "next"
  /\ next_expects_timer' = (next_timeout >= 0)
  /\ timeout' = IF next_timeout < 0 /\ incoming_button_must_be_up
                THEN TimeoutLength ELSE next_timeout
  /\ pc' = "return"
  /\ UNCHANGED <<incoming_button_must_be_up, sent_buttons_down, pressed, told>>

HandleTimeoutsInUse(next_timeout) ==
  /\ pc = "next"
  /\ next_expects_timer' = (next_timeout >= 0)
  /\ timeout' = IF next_timeout < 0 /\ sent_buttons_down # {}
                THEN TimeoutLength ELSE next_timeout
  /\ pc' = "return"
  /\ UNCHANGED <<incoming_button_must_be_up, sent_buttons_down, pressed, told>>

HandleTimeoutsSticky(next_timeout) ==
  /\ pc = "next"
  /\ next_expects_timer' = (next_expects_timer \/ next_timeout >= 0)
  /\ timeout' = IF next_timeout < 0 /\ ~next_expects_timer
                   /\ incoming_button_must_be_up /\ sent_buttons_down # {}
                THEN TimeoutLength ELSE next_timeout
  /\ pc' = "return"
  /\ UNCHANGED <<incoming_button_must_be_up, sent_buttons_down, pressed, told>>

\* HandleTimeouts, when the next interpreter has returned with next_timeout.
HandleTimeouts(next_timeout) ==
  /\ pc = "next"
  /\ next_expects_timer' = (next_timeout >= 0)
  /\ timeout' = IF next_timeout >= 0 THEN next_timeout
                ELSE IF incoming_button_must_be_up /\ sent_buttons_down # {}
                     THEN TimeoutLength
                     ELSE timeout
  /\ pc' = "return"
  /\ UNCHANGED <<incoming_button_must_be_up, sent_buttons_down, pressed, told>>

Return ==
  /\ pc = "return"
  /\ pc' = "idle"
  /\ timeout' = NoTime
  /\ UNCHANGED <<incoming_button_must_be_up, sent_buttons_down,
                 next_expects_timer, pressed, told>>

Next ==
  \/ \E touching, clicking \in BOOLEAN : SyncInterpret(touching, clicking)
  \/ HandleTimer
  \/ \E down, up \in SUBSET Buttons : ConsumeButtonsChange(down, up)
  \/ \E answer \in NextAnswers : HandleTimeouts(answer)
  \/ Return

Spec == Init /\ [][Next]_vars

(***************************************************************************)
(* Properties                                                              *)
(***************************************************************************)
\* The types of the filter and of its client.
TypeOK ==
  /\ incoming_button_must_be_up \in BOOLEAN
  /\ sent_buttons_down \subseteq Buttons
  /\ next_expects_timer \in BOOLEAN
  /\ pc \in {"idle", "next", "return"}
  /\ timeout \in Nat \cup {NoTime}
  /\ pressed \subseteq Buttons
  /\ told \in Change

\* The inhibitor's record of the buttons is the client's, through repaired and
\* dropped changes and through the ones it makes up.
ClientAgrees == pressed = sent_buttons_down

\* Whatever the next interpreter produces, the client is never told that a
\* button goes down which is down, or up which is up.
OnlySensibleChanges ==
  /\ told.down \cap told.before = {}
  /\ told.up \subseteq told.before \cup told.down

==============================================================================
