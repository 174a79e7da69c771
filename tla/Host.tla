-------------------------------- MODULE Host --------------------------------
(***************************************************************************)
(* The object behind the C interface (src/src/gestures.cc), as a client    *)
(* may set it up and change it in any order: the stack of interpreters,    *)
(* the consumer at its end, the client's callback and the provider of its  *)
(* one timer.  What the stack sends and asks for is a choice.              *)
(***************************************************************************)
EXTENDS Integers

CONSTANTS
  Callbacks,            \* the client's callbacks, each with its data
  Providers,            \* timer providers, each with its data
  Null

\* Given by the module that has an instance of this one.
NamesAssumption == "none" \notin Callbacks \cup {Null}

VARIABLES
  composed,             \* interpreter_ is not null
  initialized,          \* and has been given hardware properties and consumer_
  callback,
  consumer,             \* the callback of consumer_, "none" without consumer_
  freed,                \* the callbacks of consumers freed since the stack was given its own
  timer_provider,
  interpret_timer,      \* the provider that made the timer
  armed,                \* the providers that have a timer set
  reached               \* history: the callback of the last gesture

vars == <<composed, initialized, callback, consumer, freed, timer_provider, interpret_timer,
          armed, reached>>

-----------------------------------------------------------------------------
\* What a call into the stack may send, through its consumer to a callback if there is one.
\* An interpreter without hardware properties does nothing.  A consumer that was freed is
\* used as it was left, or as the consumer that was later made in its place; it may also end
\* the program.
Sent ==
  IF initialized THEN reached' \in {reached} \cup ((freed \cup {consumer}) \ {Null})
  ELSE UNCHANGED reached

\* A class that is not known has no stack: the one there is stays, but its consumer is freed.
Initialize ==
  /\ consumer' = callback
  /\ \/ composed' = TRUE /\ initialized' = FALSE /\ freed' = {}
     \/ /\ freed' = IF initialized THEN freed \cup {consumer} ELSE freed
        /\ UNCHANGED <<composed, initialized>>
  /\ UNCHANGED <<callback, timer_provider, interpret_timer, armed, reached>>

\* Without a stack the properties are not kept for one; a stack is given consumer_.
SetHardwareProperties ==
  /\ initialized' = composed
  /\ freed' = {}
  /\ UNCHANGED <<composed, callback, consumer, timer_provider, interpret_timer, armed, reached>>

\* Mutant: a consumer keeps the callback it was made with.
MadeWith(c) == consumer

ConsumerCallback(c) == IF consumer = "none" THEN consumer ELSE c

SetCallback ==
  \E c \in Callbacks \cup {Null} :
    /\ callback' = c
    /\ consumer' = ConsumerCallback(c)
    /\ UNCHANGED <<composed, initialized, freed, timer_provider, interpret_timer, armed, reached>>

\* Mutant: the timer is only freed when another provider comes.
FreedByNext(provider) == IF provider = Null THEN armed ELSE armed \ {interpret_timer}

\* free_fn of the old provider also cancels its timer.
Freed(provider) == armed \ {interpret_timer}

SetTimerProvider ==
  \E provider \in (Providers \cup {Null}) \ {timer_provider} :
    /\ armed' = Freed(provider)
    /\ timer_provider' = provider
    /\ interpret_timer' = provider
    /\ UNCHANGED <<composed, initialized, callback, consumer, freed, reached>>

\* The timeout that comes back sets the timer or cancels it.
PushHardwareState ==
  /\ composed
  /\ Sent
  /\ IF timer_provider # Null /\ interpret_timer # Null
     THEN \E asked \in IF initialized THEN BOOLEAN ELSE {FALSE} :
            armed' = IF asked THEN armed \cup {interpret_timer} ELSE armed \ {interpret_timer}
     ELSE UNCHANGED armed
  /\ UNCHANGED <<composed, initialized, callback, consumer, freed, timer_provider,
                 interpret_timer>>

\* A provider calls InternalTimerCallback(), and sets its timer again by what it returns.
TimerCallback ==
  \E provider \in armed :
    /\ Sent
    /\ \E again \in IF initialized THEN BOOLEAN ELSE {FALSE} :
         armed' = IF again THEN armed ELSE armed \ {provider}
    /\ UNCHANGED <<composed, initialized, callback, consumer, freed, timer_provider,
                 interpret_timer>>

Init ==
  /\ composed = FALSE /\ initialized = FALSE
  /\ callback = Null /\ consumer = "none" /\ freed = {}
  /\ timer_provider = Null /\ interpret_timer = Null /\ armed = {}
  /\ reached = Null

Next ==
  \/ Initialize \/ SetHardwareProperties \/ SetCallback \/ SetTimerProvider
  \/ PushHardwareState \/ TimerCallback

Spec == Init /\ [][Next]_vars

-----------------------------------------------------------------------------
TypeOK ==
  /\ {composed, initialized} \subseteq BOOLEAN
  /\ {callback, reached} \subseteq Callbacks \cup {Null}
  /\ consumer \in Callbacks \cup {Null, "none"}
  /\ freed \subseteq Callbacks \cup {Null}
  /\ {timer_provider, interpret_timer} \subseteq Providers \cup {Null}
  /\ armed \subseteq Providers

\* A gesture goes to the callback the client has set last, whenever the client did and
\* however often it set up a device since, unless a class that is not known has freed the
\* consumer under the stack; then it may also go to that of a consumer freed so, until
\* hardware properties are set again.
GesturesReachCallback == [][reached' # reached => reached' \in freed \cup {callback}]_vars

\* The same without that exception.
GesturesReachLastCallback == [][reached' # reached => reached' = callback]_vars

\* No provider that was replaced has a timer of the interpreter that could go off.
TimersAreProviders == armed \subseteq {timer_provider} \ {Null}
=============================================================================
