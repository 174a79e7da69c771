----------------------------- MODULE MCFilters -----------------------------
(***************************************************************************)
(* The smaller filters, the parts all of them share and the programs       *)
(* around the library, one of them at a time: part is chosen at the        *)
(* beginning, and the variables of the others keep their initial values.   *)
(***************************************************************************)
EXTENDS PalmClassifying, Sequences, TLC

CONSTANTS
  LongStep,             \* bound: the time between two states, where pauses matter
  TouchIds,             \* tracking ids, for filters that compare fingers
  SuppressTimeout, ButtonDownTimeout, OneFingerTimeout,         \* of ClickWiggle
  MaxAge,                                                       \* of FingerMerge
  CountedFingers, MaxTouches,                                   \* of T5R2Correcting
  Axes, Unit, MaxScroll,                                        \* of IntegralGesture
  PoolSize, MaxSamples, MaxPosition,                            \* of TrendClassifying
  SplitIds, MaxFingers, MaxMerged,                              \* of SplitCorrecting
  EnergySamples, IdleTime,                                      \* of StationaryWiggle
  HalfBox, BoxPositions,                                        \* of BoxFilter
  IdSpace,                                                      \* of ProfileSensor
  MaxHistorySize, MovingTime, NoisyTime, Warmup, BigMoves,      \* of Metrics
  Props, Strings, Providers, Callbacks, Null, Values,           \* of PropRegistry and Host
  BufferSize, LogFingers,                                       \* of ActivityLog
  Keys, Data, MapSize,                                          \* of FixedMap
  PoolSlots, Pointer,                                           \* of MemoryManager
  Touchpads, MaxEvents                                          \* of LidHelper

VARIABLES
  part,
  wiggle_recs, left_button, edge, one_finger, warped, known,
  previous_input, first_flag, jump_warp, moves,
  start_info, merge_tracking_ids, never_merge_ids, merge_flags,
  last_finger_cnt, last_touch_cnt, touch_cnt,
  remainder, owed,
  free, histories, num_of_samples,
  unmerged, merged, last_tracking_ids,
  energy_histories, flags, samples,
  previous_output, box_input, box_warp,
  prev, prev2, last_id, jumps, profile_warp,
  devclass, session_index, length, since, finger_histories, noisy, recent, pause,
  prop_provider, props, gprop, val, written, replayed,
  log_buffer, head_idx, log_size, finger_states, allocated,
  map_buffer, map_size, call,
  free_slots, used_mark, head, result,
  composed, initialized, callback, consumer, freed, timer_provider, interpret_timer, armed,
  reached,
  lid, switch, touchpad, tap_paused, events, x_socket, x_queue, listed, tp_id, notifier,
  lid_fd, step, running, missed

W == INSTANCE ClickWiggle WITH Ids <- TouchIds, MaxStep <- LongStep
J == INSTANCE SensorJump WITH Ids <- TouchIds, warp <- jump_warp
M == INSTANCE FingerMerge WITH Ids <- TouchIds
T == INSTANCE T5R2Correcting WITH MaxFingers <- CountedFingers
I == INSTANCE IntegralGesture
K == INSTANCE TrendClassifying WITH Ids <- TouchIds
S == INSTANCE SplitCorrecting WITH Ids <- SplitIds
G == INSTANCE StationaryWiggle WITH
       MaxSize <- EnergySamples, MaxStep <- LongStep, histories <- energy_histories
B == INSTANCE BoxFilter WITH MaxPosition <- BoxPositions, input <- box_input, warp <- box_warp
Z == INSTANCE ProfileSensor WITH warp <- profile_warp
U == INSTANCE Metrics WITH MaxPosition <- BigMoves, histories <- finger_histories
R == INSTANCE PropRegistry WITH NoProvider <- Null
L == INSTANCE ActivityLog WITH Fingers <- LogFingers, buffer <- log_buffer, size <- log_size
F == INSTANCE FixedMap WITH MaxSize <- MapSize, buffer <- map_buffer, size <- map_size
P == INSTANCE MemoryManager WITH Size <- PoolSlots, Other <- Pointer
H == INSTANCE Host
D == INSTANCE LidHelper WITH None <- Null

ASSUME FiltersAssumption ==
  /\ W!TimesAssumption /\ M!TimesAssumption /\ I!UnitAssumption /\ K!PoolAssumption
  /\ G!WiggleAssumption /\ B!BoxAssumption /\ Z!IdsAssumption /\ U!MetricsAssumption
ASSUME SharedAssumption ==
  /\ R!PropsAssumption /\ L!SizeAssumption /\ F!SizeAssumption /\ P!PoolSizeAssumption
  /\ H!NamesAssumption /\ S!SizeAssumption
ASSUME BoundsAssumption == {CountedFingers, MaxTouches, MaxEvents} \subseteq Nat

SplitSymmetry == Permutations(SplitIds)

-----------------------------------------------------------------------------
wiggle_vars == <<wiggle_recs, left_button, edge, one_finger, warped, known>>
jump_vars == <<previous_input, first_flag, jump_warp, moves>>
merge_vars == <<start_info, merge_tracking_ids, never_merge_ids, merge_flags>>
t5r2_vars == <<last_finger_cnt, last_touch_cnt, touch_cnt>>
integral_vars == <<remainder, owed>>
trend_vars == <<free, histories, num_of_samples>>
split_vars == <<unmerged, merged, last_tracking_ids>>
energy_vars == <<energy_histories, flags, samples>>
box_vars == <<previous_output, box_input, box_warp>>
profile_vars == <<prev, prev2, last_id, jumps, profile_warp>>
metrics_vars ==
  <<devclass, session_index, length, since, finger_histories, noisy, recent, pause>>
registry_vars == <<prop_provider, props, gprop, val, written, replayed>>
log_vars == <<log_buffer, head_idx, log_size, finger_states, allocated>>
map_vars == <<map_buffer, map_size, call>>
pool_vars == <<free_slots, used_mark, head, result>>
host_vars ==
  <<composed, initialized, callback, consumer, freed, timer_provider, interpret_timer, armed,
    reached>>
lid_vars ==
  <<lid, switch, touchpad, tap_paused, events, x_socket, x_queue, listed, tp_id, notifier,
    lid_fd, step, running, missed>>

Parts == {"palm", "wiggle", "jump", "merge", "t5r2", "integral", "trend", "split", "energy",
          "box", "profile", "metrics", "registry", "log", "map", "pool", "host", "lid"}

\* A part's turn: the others stay as they are.
Turn(p) ==
  /\ part = p /\ UNCHANGED part
  /\ IF p = "palm" THEN TRUE ELSE UNCHANGED vars
  /\ IF p = "wiggle" THEN TRUE ELSE UNCHANGED wiggle_vars
  /\ IF p = "jump" THEN TRUE ELSE UNCHANGED jump_vars
  /\ IF p = "merge" THEN TRUE ELSE UNCHANGED merge_vars
  /\ IF p = "t5r2" THEN TRUE ELSE UNCHANGED t5r2_vars
  /\ IF p = "integral" THEN TRUE ELSE UNCHANGED integral_vars
  /\ IF p = "trend" THEN TRUE ELSE UNCHANGED trend_vars
  /\ IF p = "split" THEN TRUE ELSE UNCHANGED split_vars
  /\ IF p = "energy" THEN TRUE ELSE UNCHANGED energy_vars
  /\ IF p = "box" THEN TRUE ELSE UNCHANGED box_vars
  /\ IF p = "profile" THEN TRUE ELSE UNCHANGED profile_vars
  /\ IF p = "metrics" THEN TRUE ELSE UNCHANGED metrics_vars
  /\ IF p = "registry" THEN TRUE ELSE UNCHANGED registry_vars
  /\ IF p = "log" THEN TRUE ELSE UNCHANGED log_vars
  /\ IF p = "map" THEN TRUE ELSE UNCHANGED map_vars
  /\ IF p = "pool" THEN TRUE ELSE UNCHANGED pool_vars
  /\ IF p = "host" THEN TRUE ELSE UNCHANGED host_vars
  /\ IF p = "lid" THEN TRUE ELSE UNCHANGED lid_vars

InitFilters ==
  /\ part \in Parts
  /\ Init /\ W!Init /\ J!Init /\ M!Init /\ T!Init /\ I!Init /\ K!Init /\ S!Init
  /\ G!Init /\ B!Init /\ Z!Init /\ U!Init
  /\ R!Init /\ L!Init /\ F!Init /\ P!Init /\ H!Init /\ D!Init
  /\ part # "metrics" => devclass = "mouse"

NextFilters ==
  \/ Turn("palm") /\ Next
  \/ Turn("wiggle") /\ W!Next
  \/ Turn("jump") /\ J!Next
  \/ Turn("merge") /\ M!Next
  \/ Turn("t5r2") /\ T!Next
  \/ Turn("integral") /\ I!Next
  \/ Turn("trend") /\ K!Next
  \/ Turn("split") /\ S!Next
  \/ Turn("energy") /\ G!Next
  \/ Turn("box") /\ B!Next
  \/ Turn("profile") /\ Z!Next
  \/ Turn("metrics") /\ U!Next
  \/ Turn("registry") /\ R!Next
  \/ Turn("log") /\ L!Next
  \/ Turn("map") /\ F!Next
  \/ Turn("pool") /\ P!Next
  \/ Turn("host") /\ H!Next
  \/ Turn("lid") /\ D!Next

all_vars ==
  <<part, vars, wiggle_vars, jump_vars, merge_vars, t5r2_vars, integral_vars, trend_vars,
    split_vars, energy_vars, box_vars, profile_vars, metrics_vars, registry_vars, log_vars,
    map_vars, pool_vars, host_vars, lid_vars>>

SpecFilters == InitFilters /\ [][NextFilters]_all_vars

-----------------------------------------------------------------------------
\* Every part's variables have their types, no set of a part holds a finger that left, and
\* no finger is in the palms' and in the pointing fingers' at once.
PartsTypeOK ==
  /\ TypeOK /\ W!TypeOK /\ J!TypeOK /\ M!TypeOK /\ T!TypeOK /\ I!TypeOK /\ K!TypeOK
  /\ S!TypeOK /\ G!TypeOK /\ B!TypeOK /\ Z!TypeOK /\ U!TypeOK
  /\ R!TypeOK /\ L!TypeOK /\ F!TypeOK /\ P!TypeOK /\ H!TypeOK /\ D!TypeOK
  /\ PalmsDoNotPoint

\* However contacts merge, split and come back and however far ids are counted, no two
\* things on the pad go by one id, none is without, and an id stays with its finger.
EachFingerOneId ==
  /\ [](S!EveryFingerKnown /\ S!OutputsDiffer /\ Z!IdsDiffer)
  /\ S!IdsStay

\* What a filter reports of a finger comes from what the finger does, now and by that id:
\* no flag outlasts the jump, the movement, the pause or the doubled report it was for,
\* and no rounding adds up in a position or a scroll.
OutputHasCause ==
  /\ [](G!FlagsAreOfOneMovement /\ U!SessionWithoutPause)
  /\ [](U!NoisyGroundIsSeen /\ I!DistanceKept /\ B!WithinHalfBox)
  /\ J!WarpsFollowJumps /\ T!TouchesAreDoubted
  /\ B!NoLongerMoves /\ Z!FlaggedWhileCountChanges

\* A finger's trend is judged by the scores and variances of its last positions, as they
\* are defined, though they are kept up sample by sample.
TrendsAreMeasured == K!ScoresAreKendalls

\* No filter holds a finger back for ever: warps for a click end and so do merges, whose
\* flags are those on record, and a finger the click wiggle filter has let go stays free
\* until the next edge of the button.
SuspicionEnds ==
  [](W!WarpEnds /\ M!FlagsAreRecorded) /\ W!FreeStaysFree /\ M!MergingEnds

\* The log, the containers and the pools do what their abstract specifications say, also
\* when they are full, and nothing of theirs is lost or in two places.
SharedPartsImplement ==
  /\ [](K!NodesConserved /\ L!FingersInOwnSlot /\ F!KeysDiffer /\ P!StackIsFree)
  /\ L!ImplementsBoundedLog /\ F!ImplementsBoundedMap /\ P!ImplementsPool

\* In whatever order a client sets things up, timers and properties are the present
\* provider's; a gesture reaches the client's last callback, but for consumers freed under
\* the stack by an unknown class; a delegate knows the value, but for one that a log gave;
\* and the touchpad told of the lid's last event is as the lid is, where the helper may be
\* late to find it, but has not lost the event that says so.
OthersAreTold ==
  /\ [](R!HandlesAreProviders /\ R!DelegatesKnow /\ H!TimersAreProviders)
  /\ H!GesturesReachCallback
  /\ [](D!NotifierIsThere /\ D!PausedAsLidIs /\ D!TouchpadIsKnown)
=============================================================================
