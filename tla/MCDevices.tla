----------------------------- MODULE MCDevices -----------------------------
(***************************************************************************)
(* The three kinds of devices by themselves, without the filters around    *)
(* them: the fingers of a touchpad, a mouse, and a mouse with a touch      *)
(* surface.  The device is chosen at the beginning.                        *)
(***************************************************************************)
EXTENDS GestureMode, TLC

CONSTANTS
  Left, Middle, Right,  \* the buttons of the mice
  TouchIds,             \* tracking ids on the multitouch mouse
  LeadTime,             \* click_{left,right}_button_going_up_lead_time_
  AgeCap,               \* bound: the ages of a button's release that are told apart
  MaxStep               \* bound: the time between two of the mouse's states

\* A lead time is at least a tick, and the ages up to it are told apart.
ASSUME LeadAssumption ==
  /\ LeadTime \in [{Left, Right} -> Nat \ {0}]
  /\ AgeCap \in Nat /\ MaxStep \in Nat
  /\ \A b \in {Left, Right} : LeadTime[b] <= AgeCap

VARIABLES
  device,
  has_wheel, force_scroll_wheel_emulation, buttons_down, wheel_emulation_active,
  told, clicked, scrolled, emulated,
  fingers, on_mouse_moving, should_fling, current_gesture_type, scroll_buffered,
  on_mouse_scrolled, up_age, sent, going

X == INSTANCE MultitouchMouse WITH
       Buttons <- {Left, Middle, Right}, Ids <- TouchIds,
       moving <- on_mouse_moving, prev_scrolled <- on_mouse_scrolled

FingerSymmetry == Permutations(Ids)
OneTick == [b \in {Left, Right} |-> 1]

-----------------------------------------------------------------------------
mouse_vars ==
  <<has_wheel, force_scroll_wheel_emulation, buttons_down, wheel_emulation_active,
    told, clicked, scrolled, emulated>>
touch_vars ==
  <<fingers, on_mouse_moving, should_fling, current_gesture_type, scroll_buffered,
    on_mouse_scrolled, up_age, sent, going>>

InitDevices ==
  /\ device \in {"touchpad", "mouse", "multitouch_mouse"}
  /\ Init /\ X!MouseInit /\ X!TouchInit
  /\ device # "mouse" => ~has_wheel

NextDevices ==
  /\ UNCHANGED device
  /\ \/ device = "touchpad" /\ Next /\ UNCHANGED <<mouse_vars, touch_vars>>
     \/ device = "mouse" /\ X!MouseNext /\ UNCHANGED <<vars, touch_vars>>
     \/ device = "multitouch_mouse" /\ X!TouchSyncInterpret /\ UNCHANGED vars

SpecDevices == InitDevices /\ [][NextDevices]_<<device, vars, mouse_vars, touch_vars>>

-----------------------------------------------------------------------------
\* The variables have their types, and what is kept of fingers is of those that are there.
DevicesTypeOK == TypeOK /\ X!MouseTypeOK /\ X!TouchTypeOK

\* The client's buttons are the mouse's, unless the middle one stood for a wheel, which is
\* not held longer than it is down for all that; and a finger that has just let a button go
\* does not scroll.
ButtonsAreTheMouses ==
  /\ [](X!ButtonsAgree /\ X!MiddleIsReleased)
  /\ X!ClicksDoNotScroll

\* On either surface a fling carries on a scroll the client has seen, and only once.  On a
\* touchpad the fingers that fling scrolled when one left, and sent no other gesture since,
\* though taps and clicks may have come between; on the mouse neither scrolls held off for a
\* click nor those repeated for a leaving finger fling.
FlingsFollowScrolls ==
  [][/\ result' = "fling" => scrolled_last /\ gesture_type = "scroll"
     /\ sent' = "fling" => going # "none"]_<<vars, touch_vars>>
=============================================================================
