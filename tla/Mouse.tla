------------------------------- MODULE Mouse -------------------------------
(***************************************************************************)
(* Mice (src/src/mouse_interpreter.cc): buttons, and a wheel emulated by   *)
(* moving with the middle button held.  The wheels themselves and the      *)
(* pointer only decide the size of their own gestures and are left out.    *)
(***************************************************************************)
EXTENDS Integers, FiniteSets

CONSTANTS
  Buttons,
  Middle                \* GESTURES_BUTTON_MIDDLE

VARIABLES
  has_wheel,                        \* of the hardware properties
  force_scroll_wheel_emulation,
  buttons_down,                     \* of prev_state_
  wheel_emulation_active,
  told,                 \* history: the buttons the client believes to be down
  clicked,              \* history: the middle button was clicked or lifted in this state
  scrolled,             \* history: the last hold of the middle button has scrolled
  emulated              \* history: the middle button has been held to emulate a wheel

emulation == <<has_wheel, force_scroll_wheel_emulation, wheel_emulation_active>>
heard == <<clicked, scrolled, emulated>>
mouse_vars == <<emulation, buttons_down, told, heard>>

-----------------------------------------------------------------------------
\* Mutant: only the changes to one side are noticed when there are both.
DownsFirst(believed, buttons) ==
  IF buttons \ buttons_down # {} THEN believed \cup (buttons \ buttons_down)
  ELSE believed \ (buttons_down \ buttons)

InterpretMouseButtonEvent(believed, buttons) ==
  (believed \cup (buttons \ buttons_down)) \ (buttons_down \ buttons)

Emulates == force_scroll_wheel_emulation \/ ~has_wheel

Raising(buttons) == Middle \in buttons /\ Middle \notin buttons_down

Falling(buttons) == Middle \notin buttons /\ Middle \in buttons_down

\* A hold scrolls once it has moved far enough, until it ends.
Activations(buttons) ==
  IF Middle \notin buttons THEN {wheel_emulation_active}
  ELSE IF Raising(buttons) THEN BOOLEAN
  ELSE {TRUE, wheel_emulation_active}

\* Mutant: the release of a hold that scrolled is the wheel's as well.
EmulateAndRelease(buttons) ==
  /\ Emulates
  /\ Middle \in buttons \/ (Falling(buttons) /\ wheel_emulation_active)

\* While the middle button is held the whole state is the wheel's.
EmulateScrollWheel(buttons) == Emulates /\ Middle \in buttons

MouseSyncInterpret ==
  \E buttons \in SUBSET Buttons :
    LET click == Emulates /\ Falling(buttons) /\ ~wheel_emulation_active
        believed == IF click THEN told \ {Middle} ELSE told
    IN /\ IF Emulates
          THEN wheel_emulation_active' \in Activations(buttons)
          ELSE UNCHANGED wheel_emulation_active
       /\ told' = IF EmulateScrollWheel(buttons) THEN told
                  ELSE InterpretMouseButtonEvent(believed, buttons)
       /\ buttons_down' = buttons
       /\ clicked' = (click \/ (~EmulateScrollWheel(buttons) /\ Falling(buttons)))
       /\ scrolled' = (IF Middle \notin buttons THEN scrolled
                      ELSE EmulateScrollWheel(buttons) /\ wheel_emulation_active')
       /\ emulated' = (emulated \/ EmulateScrollWheel(buttons))
       /\ UNCHANGED <<has_wheel, force_scroll_wheel_emulation>>

\* The property is written at any time.
SetProperty ==
  /\ force_scroll_wheel_emulation' = ~force_scroll_wheel_emulation
  /\ UNCHANGED <<has_wheel, wheel_emulation_active, buttons_down, told, heard>>

MouseInit ==
  /\ has_wheel \in BOOLEAN
  /\ force_scroll_wheel_emulation = FALSE
  /\ wheel_emulation_active = FALSE
  /\ buttons_down = {} /\ told = {}
  /\ clicked = FALSE /\ scrolled = FALSE /\ emulated = FALSE

MouseNext == MouseSyncInterpret \/ SetProperty

-----------------------------------------------------------------------------
MouseTypeOK ==
  /\ {has_wheel, force_scroll_wheel_emulation, wheel_emulation_active} \subseteq BOOLEAN
  /\ buttons_down \subseteq Buttons /\ told \subseteq Buttons
  /\ {clicked, scrolled, emulated} \subseteq BOOLEAN

\* Whatever is emulated, forced or no longer forced during a hold, the client never
\* holds the middle button longer than the user does.
MiddleIsReleased == Middle \in told => Middle \in buttons_down

\* Where no hold of the middle button stood for the wheel, the client's buttons are
\* the mouse's.
ButtonsAgree == ~emulated => told = buttons_down

\* "Send button event if button has been released without scrolling": the release of
\* a hold that scrolled is not told.
WheelIsNoClick == [][scrolled /\ buttons_down # buttons_down' => ~clicked']_mouse_vars
=============================================================================
