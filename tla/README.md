# Verification of libgestures

TLA+ modules that model the gesture library, TLC configurations that check them
on small instances, and TLAPS proofs of some of what they state for every value
of the constants. Paths are relative to the repository; `X.cc:n` is
`src/X.cc`, line n.

    tlc -config FlingStop.cfg FlingStop      # one run; PROJECT.json lists them all
    tlapm LookaheadProofs.tla                # the proofs of one module

## 1. The system

libgestures turns the raw states of a touchpad or mouse into gestures. A host
(an X driver) creates a `GestureInterpreter`, gives it a timer provider and a
callback, and pushes a `HardwareState` for every report of the device. Inside,
some fifteen *filter interpreters* are stacked on one *base interpreter*.
Hardware states and timer callbacks go down the stack by `SyncInterpret` and
`HandleTimer`; gestures come up by `ConsumeGesture`, and so does `*timeout`,
the time after which the filter above is asked to call back. Everything runs on
one thread and no handler is entered twice.

What makes it hard is that **every filter shares one timer**. Each may want to
be called back, passes on what the one below wants, and is called when any of
them is due, early, late, or for a reason of somebody else's. A second source of
trouble is **state of earlier hardware states** (records of fingers, buttons
sent, deadlines) which must be right when the fingers have meanwhile come,
gone or been replaced. A third are **gestures in pairs** (button down and up,
fling and stop) whose halves are sent by different handlers.

| Component (source) | State | Operations | What makes it correct |
|---|---|---|---|
| Host interface (`gestures.cc`) | the timer | `PushHardwareState`, timer callback, `Initialize` | a callback asked for is made |
| Lookahead filter | queue of states, pool of nodes, next's deadline, ids | `SyncInterpret`, `HandleTimer`, `Initialize` | states reach the next filter once, in order, in time; next's timer is kept; no node is lost |
| Stuck button inhibitor | buttons sent down, whether next expects a timer | handlers, `ConsumeGesture` | the client's buttons are those recorded; no button stays down |
| Immediate: taps and clicks | tap record, tap state, button type, deadlines | handlers | downs and ups pair up, taps and clicks do not mix, timed states end |
| Immediate: fingers and movement | thumbs, gesturing fingers, gesture type, pinch, scroll buffer | handlers | a thumb stays one; a pinch is decided once; a fling carries on a scroll |
| Fling to scroll filter | the fling and its curve | handlers, `ConsumeGesture` | a fling goes on, and ends; next's timer is kept |
| Fling stop filter | two deadlines, fingers of the last fling | handlers, `ConsumeGesture` | fingers stop a fling once and in time; both deadlines are met |
| Click wiggle filter | record per finger since a button edge | `SyncInterpret` | a wiggle is suppressed for a bounded time |
| Palm classifying filter | sets of palms, pointing fingers, edge fingers | `SyncInterpret` | the sets stay apart and hold present fingers only; who points goes on pointing |
| Split correcting filter | merged and unmerged contacts | `SyncInterpret` | ids known above are unique and stable |
| Finger merge filter | fingers merged, and never to be | `SyncInterpret` | a finger is not flagged for ever |
| Sensor jump filter | two states back, flags per axis | `SyncInterpret` | a flag follows a jump |
| T5R2, Cr48, non-linearity corrections | per device memory | `SyncInterpret` | corrections end with their cause; ids differ |
| Box, stationary wiggle filters | last output, history of positions | `SyncInterpret` | an output is near its input and of one movement |
| Trend classifying, metrics | histories per finger from one pool | `SyncInterpret` | scores are those of the history; sessions have no pause |
| Memory manager | free stack, used marks | `Allocate`, `Free` | no slot is given out twice, none is lost |
| Mouse, multitouch mouse | previous buttons, wheel emulation, scroll buffer | `SyncInterpret` | button changes pair up; a click is no scroll |
| Integral gesture filter | remainders | `ConsumeGesture` | scrolled distance is kept |
| Iir, acceleration, scaling | coordinates | arithmetic | - |
| Activity log | ring of entries, fingers beside it | `Log...`, `Clear` | the last entries with their own fingers |
| Properties | registered set, provider, values | `Register`, `SetPropProvider` | the present provider knows the registered ones |
| Containers | array of pairs | `insert`, `[]`, `erase` | a map, also when full |
| Tracing, utilities, replay | - | text, output | - |
| Lid touchpad helper | device descriptors, the touchpad known | event loop | the touchpad follows the lid |

`PROJECT.json` gives the status of each, and lists the hazards, each at its
line, with the properties that cover it.

## 2. The modules

Time is an integer. Where a module has a host's clock (`HostedLookahead`,
`StuckButtonChain`) deadlines are absolute, as in the code, because there the
code adds absolute times up; elsewhere they are ticks left (a deadline) or
passed (a start), which is the same and keeps the state space finite. Doubles
that mean "none" (0.0, -1.0) are `NoTime`, `NoTimer` or `Unset`. Geometry is
left out everywhere: what distances, pressures and speeds decide is a choice,
so what holds for the model holds for whatever they decide.

**`Lookahead`** (`lookahead_filter_interpreter.cc`). `queue` and `free` are
`queue_` and `free_list_`; a node has its timestamp, due time, `completed`,
fingers and ids. `SyncInterpret` is the whole of `SyncInterpretImpl` up to the
return: the refusal with an empty pool, the check of the clock, the assignment
of tracking ids with drumroll and quick-move correction, interpolation, due
times. The loop of `HandleTimerImpl` calls the next interpreter, which may
answer anything, so it is cut there: `CallNextTimer`, `PresentState`,
`SpuriousCallback`, `NothingDue`. `pc` says whether a handler is in the loop or
about to return. Gestures of the next interpreter go through unchanged or are
dropped and change no state.

**`DelayLine`** is what the queue promises: timestamps leave in the order they
came, each once, one made-up state may be put in, and the line is thrown away
only for a state older than one in it. `Lookahead!ImplementsDelayLine` is the
refinement, with the timestamps of the uncompleted nodes as the line.

**`GestureTimer`**, **`HostedLookahead`**. The host: a clock, states pushed
some time after their timestamp, one timer. On a push the timer is set if
`timeout > 0.0` and cancelled otherwise (`gestures.cc:433`); the provider of a
callback treats only a negative answer as "none". This difference is why the
two are separate operators.

**`StuckButton`** (`stuck_button_inhibitor_filter_interpreter.cc`) over any
next interpreter, between whose calls and returns (`pc = "next"`) any button
changes come. `pressed` and `told` are the client. **`StuckButtonChain`**
composes the host, `StuckButton` and `Lookahead` by `INSTANCE`, as
`InitializeTouchpad2` stacks them; a return of the lookahead filter is a call
of the inhibitor's `HandleTimeouts`.

**`TapToClick`** (`immediate_interpreter.cc`). `UpdateTapState` is the switch
of the same name, one operator per state, over `TapRecord` (touched, released,
pressures met, age); `UpdateButtons` and `UpdateButtonsTimeout` are the
physical button. A handler is one step, as it calls nothing that calls back.
The histories `tapped`, `clicked` and `result` tell what the listener believes:
a gesture of a tap and one of the button share `result_`, and what is
overwritten there is not sent.

**`FlingToScroll`** (`fling_to_scroll_filter_interpreter.cc`) extends
`TapToClick`, whose `timer` becomes what the interpreter below has asked for;
`host_timer` is what the filter asks for. Each of its handlers is a conjunction
of the handler below and its own part. It passes every callback on.

**`FlingStop`** (`fling_stop_filter_interpreter.cc`) over any next interpreter
that flings only after it has scrolled. `Arrival` is the part of
`SyncInterpretImpl` before the call, `Outcomes` the gestures that come up
during it, `Return` is `SetNextDeadlineAndReturnTimeoutVal`.

**`GestureMode`** (`immediate_interpreter.cc`) is what the fingers do:
`UpdateThumbState`, the choice of gesturing fingers, `UpdateCurrentGestureType`
with the pinch, `FillResultGesture` with the scroll buffer. Taps and the button
are `TapToClick`'s; here they may take the one result, and may make every
gesture a move; the timer may send a tap and leaves the fingers as they are. The
history `tapped` says that a tap or a click came after the fingers' last gesture.
**`ScrollManager`** holds what it shares with the multitouch
mouse: scrolls, the buffer, and the fling of it.

**`Mouse`** and **`MultitouchMouse`**, which extends it, are the two mouse
interpreters, each over a client that believes what it is told (`told`), as in
`StuckButton`. **`MCDevices`** runs the touchpad's fingers, the mouse and the
multitouch mouse beside each other.

**The smaller filters**, one module each, named after them: `ClickWiggle`,
`PalmClassifying`, `SplitCorrecting`, `FingerMerge`, `SensorJump`,
`T5R2Correcting`, `ProfileSensor` (Cr48), `BoxFilter`, `StationaryWiggle`,
`TrendClassifying`, `Metrics`, `IntegralGesture`. An action is the whole of
`SyncInterpretImpl` up to the call of the next interpreter: the ids of fingers
that left go first, then every finger is looked at. `TrendClassifying`,
`BoxFilter` and `IntegralGesture` compute (Kendall's scores, positions,
remainders) on small integers; in the others the geometry is a choice. Where a
property is about the past a variable marked "history" remembers it.

**The shared parts**: `MemoryManager` with the abstract **`Pool`**, `FixedMap`
(`map.h` over `set.h` and `vector.h`) with **`BoundedMap`**, `ActivityLog` with
**`BoundedLog`**. `BoundedMap` includes what a full map does: a new key is left
out by `insert`, and written over the last by `[]`.

**The interface**: `Host` is the object behind the C interface, set up in any
order. `Initialize` with a class that is not known keeps the stack and frees its
consumer (`gestures.cc:604`); `freed` are the callbacks of consumers freed so,
which the stack may reach until it is given hardware properties again.
`PropRegistry` are the properties with their provider, whose values the user
writes there, and a replayed log with or without telling the delegate
(`ReplayPropChange`, `SetValue`); `replayed` are those it was not told of.
`LidHelper` is the program beside the library, with the lid's device, the X
server and Xlib's queue as its environment. `step` is the call to be made next:
each round trip to the server (`XIQueryDevice`, `XIGetProperty`, `XOpenDevice`,
`XInternAtom`, `XSync`) is a step of its own, between any two of which touchpads
come and go, and it reads the events that wait on the socket into Xlib's queue,
where the loop does not see them. To use a touchpad that is gone is an error of X
and ends the program. **`MCFilters`** runs the smaller filters, the shared
parts and the interface beside each other.

**`LookaheadProofs`** (over `HostedLookahead`), **`StuckButtonProofs`**,
**`TapToClickProofs`** (over `FlingToScroll`), **`FlingStopProofs`**,
**`DevicesProofs`** (over `MCDevices`) and **`FiltersProofs`** (over
`MCFilters`) hold theorems; `SplitCorrecting` and `StuckButtonChain` have theirs
at their end. `MCDevices` and `MCFilters` take the constants of all their parts,
so that what is proved of them is proved for any values; the other `MC` modules
give constants values that a configuration cannot hold.

Definitions marked "Mutant" are not part of the model: each is a definition the
way a plausible mistake would have it, and breaks the property it is listed
with in `PROJECT.json`.

## 3. The runs

| Run | Shows | Bounds |
|---|---|---|
| `lookahead` | pool, completed nodes and due times under any calls; refinement of `DelayLine` | 4 nodes, times 10..15, one finger |
| `hosted_default` | order, bounded delay, next's timer, draining under the host with no base delay | 8 nodes, clock 20..32, states until 24, up to 1 tick of lag, lateness, earliness |
| `stuck_button` | client and record agree; only sensible changes | two buttons |
| `chain_delayed` | stuck buttons are lifted, held ones never, no callback for nothing, with a positive base delay | 8 nodes, clock 20..33, one button |
| `tap_states` | the button held is the one the tap state stands for; lifted fingers are released | 3 ids, 2 at once, callbacks up to 1 tick late |
| `tap_clicks` | clicks pair up, their fingers do not tap, they are sent; timed states end | 2 ids, a button pad |
| `fling_taps` | flings go on and end, next's timer is kept under unasked callbacks | 2 ids, flings of up to a tick |
| `fling_stop` | two deadlines share a timeout; stops come, once extended at most per fling | 3 ids, 2 at once, next asks for 0, 1, 3 ticks or nothing |
| `filters` | ids are unique and stay; flags and outputs have their cause; trends are measured as they are defined; suspicions end; shared parts implement their abstract specifications; who has to be told is told | per part, in `Filters.cfg` |
| `devices` | button changes pair up; flings carry on scrolls; thumbs stay; a pinch is decided once | 2 fingers on the pad, 2 on the mouse, 3 buttons |

`filters` and `devices` choose a part at the beginning and leave the others'
variables as they are, so that the parts are checked one by one. Their
properties are conjunctions, one for each question the parts have in common;
every conjunct but those about types was tried with a mutant of its own, of
which `PROJECT.json` lists one per property and the modules hold the others.

Why the bounds suffice. The queue is only ever looked at from its oldest node
and at its two newest; four nodes give a full pool, two completed nodes, an
interpolated state and a state that finds the pool empty. The hosted clocks run
for eight ticks and more after the last state, four times the longest delay. All
timeouts of `TapToClick` are 1 tick and `AgeCap` is 2, since only "not yet",
"exactly" and "more than" a timeout are told apart; three ids, of which two are
on the pad, are needed for a second tap with two fingers, as an id the record
remembers does not come back. In `fling_stop` a deadline (2) is shorter, equal
to (with the extension, 3) and longer than next's timeouts.

In `filters` the fingers of most parts do not depend on each other, so one or
two suffice, and other fingers are counted (`MaxOthers`) where their number
matters. Splits need five ids: two merged contacts, and one more finger that
comes while one of them breaks; `merged_` has a place for each pair of the four
fingers that may be there, and one to spare. The histories, rings, pools and
maps have two or three places and more events than that, so that all of them
fill up, wrap around and run over. Ids of the profile sensor have three bits,
and the counter goes around. Times are compared with each timeout on both sides
of it. In `devices` two fingers show every gesture but the swipes of three,
which share the lift of the scroll (`AnyGesturingFingerLeft`); the theorems of
section 4 are for any number.

Fairness. Time passes, the provider or the filter above calls back when asked
to, and a handler that has started goes on; these are what `gestures.h` asks of
a host. In `HostedLookahead` the provider may call back early for ever, so the
clock has strong fairness. Fingers, buttons and the next interpreter's wishes
are never fair: nothing forces a finger to come or go. `FlingEnds` is about
a pad that stays empty. The hosted runs switch the deadlock check
off because a silent device and the last value of the clock end them; all other
runs keep it on. `filters` and `devices` assume no fairness: that a
suspicion ends is stated with the times that have passed.

### Where the code does something else than it says

Two runs are expected to find a violation:

- `next_timer_lost`: a state that arrives while the next interpreter waits for
  its timer drops that timer. Two absolute times are added
  (`lookahead_filter_interpreter.cc:80`), and the sum is never less than the
  timeout of the state just queued, which waits; so `UpdateInterpreterDue`
  (lines 517-524) takes the else-if and leaves `interpreter_due_` at -1.0, even
  where the timer was due before the state.
- `chain_stuck`: with the default base delay 0 the lookahead filter returns a
  stale 0.0 in `*timeout`; the inhibitor takes it for a request of next's and
  the host for "no timer", so a stuck button stays down.

More properties that the code does not keep are stated in the modules but are no
part of a run. Each is violated when added to the configuration named:

| Property | Configuration | Line |
|---|---|---|
| `MonotonicTime` | `HostedDefault.cfg` | `lookahead_filter_interpreter.cc:421` |
| `OnlyOneCompleted` | `HostedDefault.cfg` | `lookahead_filter_interpreter.cc:456` |
| `DragEndsWithItsFingers` | `TapTaps.cfg` | `immediate_interpreter.cc:2371` |
| `FingersAreSeenToLeave` | `FlingToScroll.cfg` | `fling_to_scroll_filter_interpreter.cc:95` |
| `NewFingersStopFlings` | `FlingStop.cfg` | `fling_stop_filter_interpreter.cc:95` |
| `OneStopPerArrival` | `FlingStop.cfg` | `fling_stop_filter_interpreter.cc:100` |
| `TapUpLiftsWhatWasPressed` | `TapTaps.cfg` | `immediate_interpreter.cc:2315`: fingers that come between the down and the up of a tap change the button that is lifted |
| `QuickClickKeepsButton` | `TapClicks.cfg`, with two buttons | `immediate_interpreter.cc:2605`: a right click released before it was sent is sent as left |
| `PinchHasStart` | `Devices.cfg` | `gestures.h:230`: a pinch may be sent without a distance at its start |
| `FlingEndsScroll` | `Devices.cfg` | `immediate_interpreter.cc:2805`: a click leaves the scroll buffer, so that fingers fling a scroll they clicked after |
| `EvaluationExtended` | `Devices.cfg`, `EvalTimeout = 2` | `immediate_interpreter.cc:2558`: the evaluation of thumbs is not extended, as `thumb_` is compared for `thumb_eval_timer_` |
| `X!WheelIsNoClick` | `Devices.cfg` | `mouse_interpreter.cc:97`: the release of a hold that scrolled is a click all the same |
| `X!PushEndsFling` | `Devices.cfg` | `multitouch_mouse_interpreter.h:61`: a fling of scrolls before the mouse was pushed |
| `StationaryIsPalm` | `Filters.cfg` | `palm_classifying_filter_interpreter.h:143`: a contact that rests is not always a palm |
| `W!OnlyFinger` | `Filters.cfg` | `click_wiggle_filter_interpreter.cc:117`: more fingers may have come since the edge |
| `M!NeverMergedAgain` | `Filters.cfg` | `finger_merge_filter_interpreter.cc:104`: a finger close to another is flagged though it is never to be |
| `T!SecondIsCleared` | `Filters.cfg` | `t5r2_correcting_filter_interpreter.h:20`: the third state in a row with the same touches is passed on, as the cleared count of the second is remembered |
| `K!HistoriesFit` | `Filters.cfg` | `trend_classifying_filter_interpreter.cc:75`: a history longer than a lowered `num_of_samples_` is not cut |
| `S!MergedFit` | `MaxFingers` 7, `MaxMerged` 4, ten ids | `split_correcting_filter_interpreter.cc:124`: `merged_` may be too small |
| `L!NoFingersFreed` | `Filters.cfg` | `activity_log.cc:55`: new hardware properties free the fingers of states in the ring |
| `R!StringsAreTold` | `Filters.cfg` | `prop_registry.cc:392`: the comparison of strings is the wrong way round |
| `H!GesturesReachLastCallback` | `Filters.cfg` | `gestures.cc:604`: after `Initialize` with an unknown class the stack that stays sends to a consumer that was freed |
| `R!ReplayIsTold` | `Filters.cfg` | `activity_replay.cc:121`: delegates are not told of the values a log starts with |
| `D!LoopWakesForTouchpad` | `Filters.cfg` | `lid_touchpad_helper_main.cc:242`: the loop waits for the socket while the event of a touchpad that came or went is in Xlib's queue |
| `Z!AllIdsDiffer` | `Filters.cfg` | `cr48_profile_sensor_filter_interpreter.cc:102`: ids of two signs are compared |

A name with a prefix is one of an instance in `MCFilters` or `MCDevices`.
`S!MergedFit` is out of reach of an enumeration; the states that violate it are
five fingers, two more that merge with two of them, and then three others in the
place of the four merged ones, which merge with the rest.

Read in the code while modelling, and stated by no property:

- `LidHelper`: `HandleInput` reads its file until it is empty, which blocks for
  want of `O_NONBLOCK` (`lid_touchpad_helper_main.cc:119`), so that a touchpad
  that comes meanwhile is not noticed; one that comes while the lid is closed is
  not paused; `errno` is tested without the result of `select` (line 243).
- `Host`: `SetHardwareProperties` before `Initialize` is lost
  (`gestures.cc:450`); a new timer provider drops a callback that was asked for
  (line 467); an unknown class also frees the `mprops_` that the metrics filter of
  the stack that stays has a pointer to (line 607).
- `map::operator[]` of a full map returns the data of the last key
  (`map.h:112`); `BoundedMap` says so.
- With more than the fingers that may gesture pointing, thumbs are among those
  that gesture (the second alternative of `ThumbsStay`).
- `MetricsFilterInterpreter` divides by the length of a session, which is 0 if
  its movements have one timestamp (`metrics_filter_interpreter.cc:127`).
- The comment at `stationary_wiggle_filter_interpreter.cc:18` resets any history
  after a pause; the code only that of a moving finger, and the others fill up
  with positions of before it.

## 4. The proofs

Every invariant and every action property of the passing runs is proved for all
values of the constants, but for `EachFingerOneId`, which holds for those of pads
that report few enough fingers. What the constants are assumed to be is stated by `ASSUME`s in the
modules that declare them, which TLC evaluates in each run. They ask for numbers
where there are timeouts, sizes and counts, for finite sets of fingers, and for
special values (`None`, `Unset`, `Null`, a pointer outside a pool) to be none of
the ordinary ones. Those that ask for more are: a pool of the lookahead filter
has more than two nodes (`kMaxQNodes` is 16), there are moments to call it at,
its `SplitMinPeriod` is two ticks, so that a midpoint is apart from its ends,
the timeouts of `TapToClick`, `StuckButton` and `FlingToScroll` are at least a
tick, as are the lead times of the mouse's buttons; rings, maps, samples and id
spaces are not empty, and the latter even; a history of the metrics filter has
three places, as in the code; and the click wiggle filter's timeout for a button
held down is no shorter than the other, as its defaults are.

**Lookahead** (`Spec`, for any pool size, delays, ids, times and answers). The
inductive invariant `QueueInv` is the conjunction of `TypeOK`, `NodesConserved`,
`CompletedFirst` and `AtMostTwoCompleted`. None is inductive alone: that a node
dropped is a completed one needs the order, the order that at most two stay
needs the count, and the count needs the types of what id assignment and
interpolation return. `AssignKeeps` and `InterpolationKeeps` say that these
change no completed node. On top of it:

- `DueIsClose`. `Extended` says what the queue is after a hardware state: the
  old one, perhaps a made-up state, and the new one, each due by its own delay.
- `QueueIsDelayLine`, the refinement of `DelayLine`. The line is the timestamps
  of the nodes not completed; `Presented` says what the loop over nodes does to
  the queue as a whole, so that each step is one step of the line or none.

**HostedLookahead** (`HSpec`, for any lag, lateness and earliness of the host).
The filter's theorems hold in it as its steps are the filter's. `OrderInv` adds
to `QueueInOrder` that no timestamp is ahead of the device's newest. `TimerInv`
follows one request through the variables that hold it in turn: the answer of
next_, `interpreter_due_`, `*timeout` and the host's timer (`AskedFor`,
`DueSooner`, `Answered`, `ArmedInTime`, `TimerAhead`, and `QuietTimer` for
next_'s own); none is inductive without the one before. Proved:
`QueueStaysInOrder`, `StatesAreNeverLate`, `QuietTimerIsKept`.

**StuckButton** (for any set of buttons and any next interpreter). `ButtonInv`
says that the record is the client's and that the last change told made sense;
each is needed for the other. Proved: `Typing`, `ClientAgreement`,
`SensibleChanges`.

**StuckButtonChain** (for any times, delays and answers). `TimerInv` says at each
point of a handler why the inhibitor's timeout, or the host's timer, is set:
because next_ expects it or because a button is down that may have to be lifted.
Proved: `CallbacksHaveAReason`, `HeldButtonsStay`.

**TapToClick** (for any fingers, timeouts, switches and physical buttons; under
`Spec`, whose host calls back as asked, and under `FlingSpec`, where the fling
filter calls back at any time). The switch of `UpdateTapState` is summed up by
`Way`: each way through it keeps the record up with the fingers (`KeepsUp`) and
changes buttons as the two states say (`Holds`). The invariant `TapInv` has
three parts besides the types. `ButtonInv`: a click has a type from its
evaluation to its up, and meanwhile the tap machine is idle, which is why the
one result never has to hold both. `HeldInv`: a tap whose record new fingers
took over still holds a button, so that `ButtonsFollowTaps` survives the
takeover. `DeadInv`: a released drag has an empty record, or the dead fingers of
the one before would be waited for by the next. `LiftedAreReleased` holds only
where callbacks are asked for: `LiftInv` adds that no callback is due while a
tap waits for its fingers, and that those on the pad are in
`prev_tap_gs_fingers_`. Proved: `TapTypesKept`, `TapsHoldTheirButtons`,
`ClicksArePaired`, `NoTapWaitsForDeadFingers`, `NoTapWaitsForLiftedFingers`.

**FlingToScroll** (for any timeouts and curves). `CallbackInv`: the host is asked
for the earlier of two callbacks and has not passed it. Proved:
`FlingsKeepRunning`, `NextTimersKept`.

**FlingStop** (for any fingers, timeouts and lateness). That no callback is
spurious does not follow from its being asked for in time; the invariant adds
`ServesOne`: the callback is not before the earlier of the deadlines. The lemma
`ReturnedTimeout` says that the value of `ReturnTimeoutVal` is in time for both
deadlines and serves one; `Returning` lifts it to every handler. The bound
`DeadlineIsClose` is not inductive either: `CloseInv` bounds the deadline by the
extensions still possible, which `already_extended` and `next_scrolled` tell: a
fling, which allows another, takes a scroll, and a scroll clears the deadline.
Proved: `Typing`, `DeadlinesServed`, `NeverSpurious`, `StopIsClose`.

**The devices** (`SpecDevices`, for any number of fingers, any evaluation and
lead times). Of the touchpad's fingers: events in the buffer are of the scroll
sent last (`BufferIsOfScroll`), and after a fling the fingers are judged anew
(`LiftsEnd`), without which a fling would be made of an empty state a second
time. A timer in between leaves the fingers as they are, so that what a thumb may
not do has to hold of every state and not only of a report (`ThumbsRest`). Of the mouse: that the client's buttons are the mouse's where no hold
stood for the wheel, and that the middle one is not held longer than it is down,
are inductive together (`Agreement`): a state that belongs to the wheel has the
middle button down, and any other sends every change since the last state, also
when the click of a wheel has sent the same release before. Of the multitouch
mouse: `Outcome` says what is left of scrolls after a state, and that none is
sent in the state in which a button goes up needs the lead time to be a tick.
Proved: `DevicesTyping`, `MiceTellTheirButtons`, `FlingsOfScrolls`,
`ThumbsForGood`, `PinchOnce`.

**The filters, shared parts and interface** (`SpecFilters`, for all constants).
Each part has an invariant, a lemma that its `Init` implies it and one that its
steps keep it; `OnePartSteps` says that a step of `SpecFilters` is a step of one
part and leaves the variables of the others alone, and `FiltersInv` is all of
them together. What each invariant adds to the properties of its part:

- *Palms*: a finger without a palm's pressure that is a palm has rested for
  long, and one that has been away from the edge has been told apart from a palm
  at rest or is too old to be judged.
- *Click wiggle*: the ages of records, button edge and fingers known are tied to
  each other, so that a warp has a timeout that is still running.
- *Stationary wiggle*: a history is as long as the samples since the finger came
  or was idle. *Integral gestures*: what is owed to the client is the remainder.
  *Box*: a position in its box moves no further than the finger has, and stays
  within half a box of it (`BoxedNear`).
- *Profile sensor*: no id in use is the one to be handed out next, unless it is
  negative (`Fresh`), however often the counter has gone around (`IdNumbers`).
- *Metrics*: the history of each finger is what the last three states of the pad
  say of it (`Recalls`), whatever id it reuses.
- *Trends*: no node is lost. The sum of the lengths of all histories is the
  number of pairs of a finger and a place (`SumIsNodes`), which adding and
  removing fingers changes as it should. The scores and the variances are
  Kendall's: by `Counts` each sample holds how many of the values after it are
  less, more or the same, which a new value adds to (`CountsExtended`) and the
  loss of the oldest leaves alone (`CountsShifted`). Summed up over the samples
  the differences are the score (`ScoreIsKendalls`), a sum over pairs taken by
  their first halves. That the ties and their pairs are what groups of equal
  values take from the variance (`TiesAddUp`) is shown from the newest sample
  back: one value more in a group of u adds what u ties of one sample do
  (`TiedGrows`).
- *Activity log*: `LogAt` is the entry with its fingers, which are stored beside
  the ring; `PushedSlot` is the arithmetic of the ring, full or not, and
  `LogRecords` makes of each push a step of `BoundedLog`.
- *Fixed map*: `IsMapOf` says that an array without a key twice holds a function.
  Erasing a set of keys goes through the array, and a recursive function gives
  what is left after each key; `ErasedAll` says of all its values what
  `ErasedOne` says of one step. With it each call is a step of `BoundedMap`.
- *Memory manager*: the stack of free slots and the marks agree; that there is
  room to give a slot back (`RoomToFree`) is the pigeonhole principle. Each call
  is a step of `Pool`.
- *Host*: where there is a stack there is a consumer, with the client's last
  callback; one is freed under a stack only after hardware properties were set;
  and whoever has a timer set has made it. *Lid*: the
  last of the unread events is how the lid is, unless their file died before all
  were read, and what is told is the touchpad found, wherever the loop waits.
  `OthersAreTold` names the exceptions of both; without these the code breaks them (the
  table above).

Induction is not cited from the library, whose theorems take the property as an
operator: `NatSets` and `FiniteSubsets` state it for the set of those that have
the property, by the minimum of a well-founded relation. With it sums over finite
sets may be taken in any order (`SumIsCount`, `SumPeeled`), although the library
defines them by a recursive function and `CHOOSE`. Proved: `PartsTyping`,
`PointingFingersStay`, `ReportsHaveTheirCause`, `TrendsMeasured`,
`SuspicionsEnd`, `SharedPartsRefine`, `EverybodyIsTold`, `FingersAreThemselves`,
`FewFingersAreThemselves`, `FingersOfSmallPads`.

**SplitCorrecting** (for any ids and sizes). Distinct outputs are not inductive:
a merged contact keeps the id of its second finger for the time it breaks, so
the invariant (`Apart`) keeps that id from all others as well, and with `Once`
no finger is in two contacts. Proved: `IdsDistinct`; and `NobodyForgotten`, that
every finger is known and every id stays, for behaviours in which every contact
that is joined finds a place in `merged_` (`Fitted`). Without it the code forgets
fingers (`MergedFit` above). `FewAreKnown` says of how few fingers it follows: the
merged contacts have two each and those that are joined one of the last state's
fingers and one new one, so that with n fingers no more than 3n/4 are in `merged_`
before any are taken out (`FingersCounted`, `PlacesSuffice`). Of `kMaxFingers`
(ten) up to nine can be on the pad, as `merged_` has six places
(`kMaxFingers / 2 + 1`); with ten, five that join while two are merged do not fit.
`FingersOfSmallPads` has the bound in the constants, where the run `filters` has
four fingers and three places.

Only model-checked: everything about liveness and fairness (`QueueDrains`,
`StuckButtonIsLifted`, `SharedTimerServesBoth`, `FlingEnds`,
`ArrivalStopsFling`), which the prover cannot do. Of what these need of safety
this is proved: a state that waits has the host's timer armed
(`StatesAreNeverLate`), a fling a callback to come (`FlingsKeepRunning`) and a
stop of flings a callback in time (`DeadlinesServed`).

## 5. Not modelled, and the plan

Not modelled, as arithmetic on real numbers or pure output: the iir filter,
acceleration and scaling, the non-linearity correction, `finger_metrics.cc`,
tracing, text encoding of the log, command line, replay, file utilities. The
thresholds and the least-squares fit of `GestureMode`, the test on Kendall's
scores, the curves of scrolls and of the pointer are choices or left out. `T5R2`
pads, which report more touches than fingers, and the keyboard's effect on taps
are outside `TapToClick`. The wrapping of tracking ids at 0x7fff in the
lookahead filter would need a run longer than any model has.
`InitializeTouchpad2` leaves the iir, sensor jump, split correcting, T5R2, Cr48
and non-linearity filters out; they are modelled, where they are, as filters by
themselves.

The vendored test framework and JSON parser, the unit tests and the tools are no
part of the library.

Worth doing next: `GestureMode` composed with `TapToClick`, so that taps and
gestures share `result_` by the code and not by choice; the stack of `FlingStop`
over `FlingToScroll`.
