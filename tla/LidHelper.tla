----------------------------- MODULE LidHelper -----------------------------
(***************************************************************************)
(* The daemon that pauses tapping while the lid is closed                  *)
(* (lid_touchpad_helper/lid_touchpad_helper_main.cc), between the lid      *)
(* switch, whose events it reads from a blocking file, and the X server,   *)
(* which tells it when the touchpads change.  An event of the server waits *)
(* on the socket, or in Xlib's queue once any round trip has read it; the  *)
(* loop waits for the socket only.                                         *)
(*                                                                         *)
(* A call that waits for a reply of the server is a step of its own, and   *)
(* devices come and go between any two steps.  To ask about, open or       *)
(* change a device that is gone is an error of X, which ends the program;  *)
(* to close one is none.  select() does not fail.                          *)
(***************************************************************************)
EXTENDS Integers, Sequences

CONSTANTS
  Touchpads,            \* device ids of touchpads
  None,                 \* no device
  MaxEvents             \* bound: lid events not yet read

VARIABLES
  lid, switch,          \* the lid is closed; its device is there
  touchpad, tap_paused, \* the touchpad of the server and its property
  events,               \* lid events the open file holds, or that were read and not passed on
  x_socket, x_queue,    \* a change of the hierarchy waits
  listed,               \* the touchpad among the devices that GetTouchpadXId() goes through
  tp_id, notifier,
  lid_fd,               \* "none", "open", or "dead" when its device has gone
  step,                 \* the call to be made next
  running,
  missed                \* history: the touchpad may have missed the lid's last event

env == <<lid, switch, touchpad>>
x_vars == <<x_socket, x_queue>>
loop_vars == <<listed, tp_id, notifier, lid_fd, step, running>>
vars == <<env, tap_paused, events, x_vars, loop_vars, missed>>

Steps == {"select", "query", "property", "open", "intern", "read", "sync"}

-----------------------------------------------------------------------------
LidMoves ==
  /\ switch /\ Len(events) < MaxEvents
  /\ lid' = ~lid
  /\ events' = IF lid_fd = "open" THEN Append(events, lid') ELSE events
  /\ missed' = (missed \/ lid_fd # "open")
  /\ UNCHANGED <<switch, touchpad, tap_paused, x_vars, loop_vars>>

\* The events HandleInput() may have read.
Read == IF step \in {"read", "sync"} THEN 0 .. Len(events) ELSE {0}

\* The lid's device goes and comes; what was not read from its file is lost.
SwitchChanges ==
  /\ switch' = ~switch
  /\ IF lid_fd = "open"
     THEN /\ lid_fd' = "dead"
          /\ \E n \in Read : /\ events' = SubSeq(events, 1, n)
                            /\ missed' = (missed \/ n < Len(events))
     ELSE UNCHANGED <<lid_fd, events, missed>>
  /\ UNCHANGED <<lid, touchpad, tap_paused, x_vars, listed, tp_id, notifier, step, running>>

\* A touchpad that comes does not pause taps.
HierarchyChanges ==
  /\ touchpad' \in (Touchpads \cup {None}) \ {touchpad}
  /\ tap_paused' = FALSE
  /\ x_socket' = TRUE
  /\ missed' = TRUE
  /\ UNCHANGED <<lid, switch, events, x_queue, loop_vars>>

\* A reply of the server is read with the events before it.
RoundTrip == x_queue' = (x_queue \/ x_socket) /\ x_socket' = FALSE

\* The program goes on with the next call.
Goes(next) == running /\ step' = next /\ UNCHANGED <<env, running>>

\* The server answers with an error.
Fails == running /\ running' = FALSE /\ UNCHANGED <<env, step>>

DevicesNeedRefresh == tp_id = None \/ lid_fd = "none"

RefreshDevices ==
  /\ step = "select" /\ DevicesNeedRefresh
  /\ Goes(IF tp_id = None THEN "query" ELSE "select")
  /\ lid_fd' = IF lid_fd = "none" /\ switch THEN "open" ELSE lid_fd
  /\ UNCHANGED <<tap_paused, events, x_vars, listed, tp_id, notifier, missed>>

\* XIQueryDevice(): the devices there are now.
GetTouchpadXId ==
  /\ step = "query"
  /\ Goes("property") /\ RoundTrip
  /\ listed' = touchpad
  /\ UNCHANGED <<tap_paused, events, tp_id, notifier, lid_fd, missed>>

\* XIGetProperty() of the touchpad in the list, or of other devices only.
IsCmtTouchpad ==
  /\ step = "property"
  /\ IF listed \in {touchpad, None}
     THEN /\ Goes(IF listed = None THEN "select" ELSE "open") /\ RoundTrip
          /\ tp_id' = listed /\ listed' = None
     ELSE Fails /\ UNCHANGED <<x_vars, listed, tp_id>>
  /\ UNCHANGED <<tap_paused, events, notifier, lid_fd, missed>>

\* XOpenDevice() of a new XNotifier.
OpenDevice ==
  /\ step = "open"
  /\ IF tp_id = touchpad THEN Goes("intern") /\ RoundTrip ELSE Fails /\ UNCHANGED x_vars
  /\ UNCHANGED <<tap_paused, events, listed, tp_id, notifier, lid_fd, missed>>

\* Mutant: what tells the touchpads is made once.
NotifierOnce == IF notifier = None THEN tp_id ELSE notifier

NewNotifier == tp_id

\* XInternAtom(), of a name that Xlib may know; the notifier is made and the old one goes.
InternAtom ==
  /\ step = "intern"
  /\ Goes("select")
  /\ RoundTrip \/ UNCHANGED x_vars
  /\ notifier' = NewNotifier
  /\ UNCHANGED <<tap_paused, events, listed, tp_id, lid_fd, missed>>

\* Mutant: a touchpad that is there is not looked for again.
RescanIfGone == IF touchpad = None THEN None ELSE tp_id

Rescan == None

\* The hierarchy has changed: the touchpad is looked for again.
ServiceXFd ==
  /\ step = "select" /\ ~DevicesNeedRefresh
  /\ x_socket
  /\ Goes("select")
  /\ x_socket' = FALSE /\ x_queue' = FALSE
  /\ tp_id' = Rescan
  /\ UNCHANGED <<tap_paused, events, listed, notifier, lid_fd, missed>>

ServiceLidFd ==
  /\ step = "select" /\ ~DevicesNeedRefresh
  /\ ~x_socket /\ (events # <<>> \/ lid_fd = "dead")
  /\ Goes("read")
  /\ UNCHANGED <<tap_paused, events, x_vars, listed, tp_id, notifier, lid_fd, missed>>

\* Mutant: of several events that are read one is passed on.
FirstOnly == <<>>

Unread == Tail(events)

\* NotifyLidEvent() of one event: the server changes the property.
HandleInput ==
  /\ step = "read" /\ events # <<>>
  /\ events' = Unread
  /\ IF notifier = touchpad
     THEN /\ Goes("sync")
          /\ tap_paused' = Head(events)
          /\ missed' = (missed /\ (events' # <<>> \/ lid_fd # "open"))
     ELSE Fails /\ UNCHANGED <<tap_paused, missed>>
  /\ UNCHANGED <<x_vars, listed, tp_id, notifier, lid_fd>>

\* And answers XSync().
Sync ==
  /\ step = "sync"
  /\ Goes("read") /\ RoundTrip
  /\ UNCHANGED <<tap_paused, events, listed, tp_id, notifier, lid_fd, missed>>

\* The device is gone: the file is closed and opened again.
ReadFails ==
  /\ step = "read" /\ events = <<>> /\ lid_fd = "dead"
  /\ Goes("select")
  /\ lid_fd' = "none"
  /\ UNCHANGED <<tap_paused, events, x_vars, listed, tp_id, notifier, missed>>

Init ==
  /\ lid = FALSE /\ switch = TRUE
  /\ touchpad = None /\ tap_paused = FALSE
  /\ events = <<>> /\ x_socket = FALSE /\ x_queue = FALSE
  /\ listed = None /\ tp_id = None /\ notifier = None
  /\ lid_fd = "none" /\ step = "select" /\ running = TRUE /\ missed = FALSE

Next ==
  \/ LidMoves \/ SwitchChanges \/ HierarchyChanges
  \/ RefreshDevices \/ GetTouchpadXId \/ IsCmtTouchpad \/ OpenDevice \/ InternAtom
  \/ ServiceXFd \/ ServiceLidFd \/ HandleInput \/ Sync \/ ReadFails

Spec == Init /\ [][Next]_vars

-----------------------------------------------------------------------------
TypeOK ==
  /\ {lid, switch, tap_paused, x_socket, x_queue, running, missed} \subseteq BOOLEAN
  /\ lid_fd \in {"none", "open", "dead"} /\ step \in Steps
  /\ events \in Seq(BOOLEAN) /\ Len(events) <= MaxEvents
  /\ {touchpad, listed, tp_id, notifier} \subseteq Touchpads \cup {None}

\* Lid events are only read with a touchpad to be told of them, the one last found.
NotifierIsThere == step \in {"read", "sync"} => notifier # None /\ notifier = tp_id

\* Once a touchpad has been told of the lid's last event it stays as the lid is.
PausedAsLidIs == ~missed /\ events = <<>> /\ running => tap_paused = lid

\* The touchpad that is told is the one the server has, or the event that says otherwise is
\* somewhere still.
TouchpadIsKnown == tp_id # None => tp_id = touchpad \/ x_socket \/ x_queue

\* While the loop waits that event is on the socket and wakes it up, so that the touchpad is
\* looked for again before lid events are read.
LoopWakesForTouchpad == step = "select" /\ tp_id # None => tp_id = touchpad \/ x_socket
=============================================================================
