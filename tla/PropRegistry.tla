---------------------------- MODULE PropRegistry ----------------------------
(***************************************************************************)
(* The properties of the filters, and the provider that shows them to the  *)
(* user (src/src/prop_registry.cc).  A property exists at the provider as  *)
(* long as it is registered and there is one; its value outlives both.     *)
(* Providers are told apart as the code does, by their functions; a new    *)
(* property's value is changed by a provider that has one configured.      *)
(* Values also come from a log that is replayed (activity_replay.cc).      *)
(***************************************************************************)
EXTENDS Integers

CONSTANTS
  Props,
  Strings,              \* those that are StringProperty
  Providers,
  NoProvider,
  Values

\* Given by the module that has an instance of this one.
PropsAssumption == Strings \subseteq Props /\ NoProvider \notin Providers /\ Values # {}

VARIABLES
  prop_provider,
  props,                \* the registered ones
  gprop,                \* the provider that has made the handle of each
  val,
  written,              \* history: the value its delegate has last been told
  replayed              \* history: a log gave it a value since

vars == <<prop_provider, props, gprop, val, written, replayed>>

-----------------------------------------------------------------------------
\* Mutant: every delegate is told of what has not changed.
ToldOfSame(p, old, new) == old = new

\* Whether a delegate is told that creating its property has made old new; of a string, it is
\* told that it has not changed.
Told(p, old, new) == IF p \in Strings THEN old = new ELSE old # new

\* CreateProp() of the properties in set, whose values the provider makes v.
CreateProp(set, provider, v) ==
  /\ val' = [p \in Props |-> IF p \in set THEN v[p] ELSE val[p]]
  /\ written' = [p \in Props |->
       IF p \in set /\ Told(p, val[p], v[p]) THEN v[p] ELSE written[p]]
  /\ replayed' = replayed \ {p \in set : Told(p, val[p], v[p])}

\* A property is constructed with its default value, which its delegate knows.
Register ==
  \E p \in Props \ props, default, v \in Values :
    /\ props' = props \cup {p}
    /\ gprop' = [gprop EXCEPT ![p] = prop_provider]
    /\ val' = [val EXCEPT ![p] = IF prop_provider = NoProvider THEN default ELSE v]
    /\ written' = [written EXCEPT ![p] =
         IF prop_provider # NoProvider /\ Told(p, default, v) THEN v ELSE default]
    /\ replayed' = replayed \ {p}
    /\ UNCHANGED prop_provider

\* Mutant: the handle is left to the provider.
HandleKept(p) == gprop

\* DestroyProp(): the provider frees the handle.
Destroyed(p) == [gprop EXCEPT ![p] = NoProvider]

Unregister ==
  \E p \in props :
    /\ props' = props \ {p}
    /\ gprop' = IF prop_provider = NoProvider THEN gprop ELSE Destroyed(p)
    /\ UNCHANGED <<prop_provider, val, written, replayed>>

\* The handles of the old provider are freed, and there is one of the new provider for each
\* property.
SetPropProvider ==
  \E provider \in (Providers \cup {NoProvider}) \ {prop_provider}, v \in [Props -> Values] :
    /\ prop_provider' = provider
    /\ gprop' = [p \in Props |-> IF p \in props THEN provider ELSE gprop[p]]
    /\ IF provider = NoProvider THEN UNCHANGED <<val, written, replayed>>
       ELSE CreateProp(props, provider, v)
    /\ UNCHANGED props

\* HandleGesturesPropWritten(): the delegate is told.
HandleGesturesPropWritten(p, v) ==
  /\ val' = [val EXCEPT ![p] = v]
  /\ written' = [written EXCEPT ![p] = v]
  /\ replayed' = replayed \ {p}

\* The user writes a property at the provider.
PropWritten ==
  \E p \in props, v \in Values :
    /\ prop_provider # NoProvider
    /\ HandleGesturesPropWritten(p, v)
    /\ UNCHANGED <<prop_provider, props, gprop>>

\* A log that is replayed says that a property was written; if it has no value of the
\* property's type the delegate is told the old one.
ReplayPropChange ==
  \E p \in props, v \in Values :
    /\ HandleGesturesPropWritten(p, v)
    /\ UNCHANGED <<prop_provider, props, gprop>>

\* A log gives a property the value it starts with, and tells nobody.
SetValue ==
  \E p \in props, v \in Values :
    /\ val' = [val EXCEPT ![p] = v]
    /\ replayed' = replayed \cup {p}
    /\ UNCHANGED <<prop_provider, props, gprop, written>>

\* What a property that is not yet constructed holds is never seen.
Init ==
  /\ prop_provider = NoProvider
  /\ props = {}
  /\ gprop = [p \in Props |-> NoProvider]
  /\ val = [p \in Props |-> CHOOSE v \in Values : TRUE]
  /\ written = val /\ replayed = {}

Next ==
  \/ Register \/ Unregister \/ SetPropProvider
  \/ PropWritten \/ ReplayPropChange \/ SetValue

Spec == Init /\ [][Next]_vars

-----------------------------------------------------------------------------
TypeOK ==
  /\ prop_provider \in Providers \cup {NoProvider}
  /\ props \subseteq Props
  /\ gprop \in [Props -> Providers \cup {NoProvider}]
  /\ val \in [Props -> Values]
  /\ written \in [Props -> Values]
  /\ replayed \subseteq Props

\* Every registered property has a handle of the present provider and no other has one, so
\* that CreateProp() never finds one and DestroyProp() always does.
HandlesAreProviders ==
  \A p \in Props : gprop[p] = IF p \in props THEN prop_provider ELSE NoProvider

\* The delegate of a number has been told of its present value, unless a log has given it
\* that value and nobody was told of another since; of a string, see Told.
DelegatesKnow == \A p \in (props \ Strings) \ replayed : written[p] = val[p]

\* The same for values of a log.
ReplayIsTold == \A p \in props \ Strings : written[p] = val[p]

\* The same for strings.
StringsAreTold == \A p \in props \cap Strings : written[p] = val[p]
=============================================================================
