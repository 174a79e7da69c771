-------------------------- MODULE SplitCorrecting --------------------------
(***************************************************************************)
(* The filter that takes two contacts for one large finger                 *)
(* (src/src/split_correcting_filter_interpreter.cc).  Every contact is     *)
(* kept as an unmerged one or as half of a merged one, with the id by      *)
(* which the filters after this one know it.                               *)
(*                                                                         *)
(* The two arrays are sets: their elements are only looked up by id.       *)
(* Which contacts are close enough, and which moved, is a choice.  Calls   *)
(* while the filter is disabled change nothing.                            *)
(***************************************************************************)
EXTENDS Integers, FiniteSets, Functions, FiniteSetTheorems, TLAPS

CONSTANTS
  Ids,                  \* tracking ids
  MaxFingers,           \* kMaxFingers
  MaxMerged             \* the size of merged_

\* Given by the module that has an instance of this one.
SizeAssumption == IsFiniteSet(Ids) /\ {MaxFingers, MaxMerged} \subseteq Nat

VARIABLES unmerged, merged, last_tracking_ids

vars == <<unmerged, merged, last_tracking_ids>>

UnmergedContact == [input : Ids, output : Ids]
MergedContact == [first : Ids, second : Ids, output : Ids]

-----------------------------------------------------------------------------
Outputs == {c.output : c \in unmerged \cup merged}

Parts(m) == {m.first, m.second}

Present(contacts, fingers) == {c \in contacts : c.input \in fingers}

\* AreMergePair finds for some of the unmerged contacts a new finger each.
MergePairs(contacts, unused) ==
  UNION {{f \in [s -> unused] : \A c, d \in s : f[c] = f[d] => c = d} :
           s \in SUBSET contacts}

AppendMergedContact(contact, finger) ==
  [first |-> contact.input, second |-> finger, output |-> contact.output]

\* merged_ takes no more than it has room for, whichever come first.
Fitting(joined) ==
  {s \in SUBSET joined :
     LET used == Cardinality(merged) + Cardinality(s)
     IN used = MaxMerged \/ (s = joined /\ used <= MaxMerged)}

\* Mutant: the first part of a broken contact keeps its own id.
EachItsOwn(m, fingers) ==
  {[input |-> i, output |-> i] : i \in Parts(m) \cap fingers}

\* Mutant: both parts of a broken contact take its id.
BothTakeId(m, fingers) ==
  {[input |-> i, output |-> m.output] : i \in Parts(m) \cap fingers}

\* The first part that is left takes the merged contact's id over.
UnmergeFingers(m, fingers) ==
  IF m.first \in fingers
  THEN {[input |-> m.first, output |-> m.output]} \cup
       IF m.second \in fingers THEN {[input |-> m.second, output |-> m.second]} ELSE {}
  ELSE IF m.second \in fingers THEN {[input |-> m.second, output |-> m.output]}
       ELSE {}

NewContacts(unused, f) ==
  {[input |-> i, output |-> i] : i \in unused \ Range(f)}

\* A merged contact is broken when a part has left, and may be when one moved; what
\* was merged in this call has not moved.
Broken(fingers) ==
  {s \in SUBSET merged : \A m \in merged : ~(Parts(m) \subseteq fingers) => m \in s}

\* Mutant: contacts keep the fingers that have left.
LateLastIds(fingers) == last_tracking_ids \cup fingers

SetLastTrackingIds(fingers) == fingers

\* An id comes back only when nothing goes by it any more.
HardwareStates ==
  {s \in SUBSET Ids : /\ Cardinality(s) <= MaxFingers
                      /\ (s \ last_tracking_ids) \cap Outputs = {}}

SyncInterpret ==
  \E fingers \in HardwareStates :
    LET here == Present(unmerged, fingers)
        unused == fingers \ last_tracking_ids
    IN \E f \in MergePairs(here, unused), gone \in Broken(fingers) :
         LET joined == {AppendMergedContact(c, f[c]) : c \in DOMAIN f}
         IN \E fit \in Fitting(joined) :
              /\ merged' = (merged \ gone) \cup fit
              /\ unmerged' = (here \ DOMAIN f) \cup NewContacts(unused, f) \cup
                             UNION {UnmergeFingers(m, fingers) : m \in gone}
              /\ last_tracking_ids' = SetLastTrackingIds(fingers)

Init == unmerged = {} /\ merged = {} /\ last_tracking_ids = {}

Next == SyncInterpret

Spec == Init /\ [][Next]_vars

-----------------------------------------------------------------------------
TypeOK ==
  /\ unmerged \subseteq UnmergedContact
  /\ merged \subseteq MergedContact
  /\ last_tracking_ids \subseteq Ids

\* Every finger of the last hardware state is known, as one contact or a half of
\* one: none of "Neither unmerged nor merged?" and "Missing finger state?" happens.
EveryFingerKnown ==
  /\ last_tracking_ids = {c.input : c \in unmerged} \cup UNION {Parts(m) : m \in merged}
  /\ \A c, d \in unmerged : c.input = d.input => c = d
  /\ \A c \in unmerged, m \in merged : c.input \notin Parts(m)
  /\ \A m, n \in merged : Parts(m) \cap Parts(n) # {} => m = n

\* Through merges, broken merges and new ones, no two contacts go by one id.
OutputsDiffer ==
  \A c, d \in unmerged \cup merged : c.output = d.output => c = d

\* The fingers that make up what goes by an id.
Fingers(id) ==
  {c.input : c \in {u \in unmerged : u.output = id}} \cup
  UNION {Parts(m) : m \in {n \in merged : n.output = id}}

\* A contact goes on by its id as long as a finger of it is on the pad: whatever
\* merges with it or splits off, the filters after this one see no finger leave.
IdsStay ==
  [][\A id \in Outputs :
       Fingers(id) \cap last_tracking_ids' # {} => id \in Outputs']_vars

\* There is room for every merged contact ("No free merged contact?").
MergedFit == Cardinality(merged) <= MaxMerged /\ EveryFingerKnown

-----------------------------------------------------------------------------
(* Proofs, for any number of fingers *)

\* No finger is in two contacts, or is none that is on the pad.
Once ==
  /\ \A c \in unmerged : c.input \in last_tracking_ids
  /\ \A m \in merged : /\ m.first \in last_tracking_ids /\ m.second \in last_tracking_ids
                       /\ m.first # m.second
  /\ \A c, d \in unmerged : c.input = d.input => c = d
  /\ \A c \in unmerged, m \in merged : c.input # m.first /\ c.input # m.second
  /\ \A m, n \in merged :
       m.first = n.first \/ m.second = n.second \/ m.first = n.second => m = n

\* No two contacts go by one id, and none goes by the id of a merged one's second finger,
\* which that finger gets back when the contact is broken.
Apart ==
  /\ \A c, d \in unmerged : c.output = d.output => c = d
  /\ \A m, n \in merged : m.output = n.output => m = n
  /\ \A c \in unmerged, m \in merged : c.output # m.output /\ c.output # m.second
  /\ \A m, n \in merged : m.output # n.second

Inv == TypeOK /\ Once /\ Apart

\* What becomes of the contacts in a state: f joins some to new fingers and gone are broken.
Joining(fingers, f) ==
  /\ DOMAIN f \subseteq unmerged
  /\ \A c \in DOMAIN f : c.input \in fingers /\ f[c] \in fingers /\ f[c] \notin last_tracking_ids
  /\ \A c, d \in DOMAIN f : f[c] = f[d] => c = d

\* By which id the finger i of the broken contact m goes on.
GoesOnAs(m, fingers, i, id) ==
  /\ i \in fingers
  /\ \/ id = m.output /\ (i = m.first \/ (i = m.second /\ m.first \notin fingers))
     \/ id = m.second /\ i = m.second /\ m.first \in fingers

Splitting(fingers, f, gone) ==
  \A c \in unmerged' :
    \/ c \in unmerged /\ c \notin DOMAIN f /\ c.input \in fingers
    \/ /\ c.input \in fingers /\ c.input \notin last_tracking_ids /\ c.output = c.input
       /\ \A d \in DOMAIN f : f[d] # c.input
    \/ \E m \in gone : GoesOnAs(m, fingers, c.input, c.output)

Merging(fingers, f, gone) ==
  \A m \in merged' :
    \/ m \in merged /\ m \notin gone /\ m.first \in fingers /\ m.second \in fingers
    \/ \E c \in DOMAIN f : m = AppendMergedContact(c, f[c])

\* The same seen from what was there, where every joined contact fits.
NothingLost(fingers, f, gone) ==
  /\ \A c \in DOMAIN f : AppendMergedContact(c, f[c]) \in merged'
  /\ \A c \in unmerged \ DOMAIN f : c.input \in fingers => c \in unmerged'
  /\ \A m \in merged \ gone : m \in merged'
  /\ \A m \in gone, i, id \in Ids :
       GoesOnAs(m, fingers, i, id) => [input |-> i, output |-> id] \in unmerged'
  /\ \A i \in fingers \ last_tracking_ids :
       (\A d \in DOMAIN f : f[d] # i) => [input |-> i, output |-> i] \in unmerged'

\* merged_ is not filled to its last place.
Room == Cardinality(merged) + Cardinality(merged' \ merged) # MaxMerged

\* Of so few fingers no more than MaxMerged can be in merged_ together with those that join
\* them: up to nine of kMaxFingers, as merged_ has six places.
FewFingers == 3 * Cardinality(last_tracking_ids) < 4 * (MaxMerged + 1)

\* Every contact that is joined finds a place.
Fitted == Room \/ (SizeAssumption /\ FewFingers /\ FewFingers')

LEMMA RecordsEqual ==
  /\ \A c, d \in UnmergedContact : c.input = d.input /\ c.output = d.output => c = d
  /\ \A m, n \in MergedContact :
       m.first = n.first /\ m.second = n.second /\ m.output = n.output => m = n
BY DEF UnmergedContact, MergedContact

\* The fingers of a broken contact go on one by one.
LEMMA Unmerged ==
  ASSUME NEW m, NEW fingers, NEW c
  PROVE  /\ c \in UnmergeFingers(m, fingers) =>
              /\ GoesOnAs(m, fingers, c.input, c.output)
              /\ c = [input |-> c.input, output |-> c.output]
         /\ \A i, id : GoesOnAs(m, fingers, i, id) =>
              [input |-> i, output |-> id] \in UnmergeFingers(m, fingers)
BY DEF UnmergeFingers, GoesOnAs

\* As many images as elements, where the images are in a finite set and no two are equal.
LEMMA ImagesCounted ==
  ASSUME NEW A, NEW images, IsFiniteSet(images), NEW g \in [A -> images],
         \A x, y \in A : g[x] = g[y] => x = y,
         \A i \in images : \E x \in A : g[x] = i
  PROVE  IsFiniteSet(A) /\ Cardinality(A) \in Nat /\ Cardinality(A) = Cardinality(images)
<1>1. g \in Injection(A, images)
  BY Zenon DEF Injection, IsInjective
<1>2. g \in Surjection(A, images)
  BY Zenon DEF Surjection
<1> QED BY <1>1, <1>2, FS_Injection, FS_CardinalityType

\* Sets without a common element, in a finite one.
LEMMA PartsCounted ==
  ASSUME NEW whole, IsFiniteSet(whole), NEW A \in SUBSET whole, NEW C \in SUBSET whole,
         A \cap C = {}
  PROVE  /\ IsFiniteSet(A \cup C)
         /\ Cardinality(A \cup C) = Cardinality(A) + Cardinality(C)
         /\ Cardinality(A \cup C) <= Cardinality(whole)
<1>1. IsFiniteSet(A) /\ IsFiniteSet(C)
  BY FS_Subset
<1>2. Cardinality({}) = 0 /\ Cardinality(A) \in Nat /\ Cardinality(C) \in Nat
  BY <1>1, FS_EmptySet, FS_CardinalityType
<1>3. Cardinality(A \cup C) = Cardinality(A) + Cardinality(C) - Cardinality({})
  BY <1>1, FS_Union
<1>4. A \cup C \in SUBSET whole
  OBVIOUS
<1>5. IsFiniteSet(A \cup C) /\ Cardinality(A \cup C) <= Cardinality(whole)
  BY <1>4, FS_Subset
<1> QED BY <1>2, <1>3, <1>5

\* Two fingers in every merged contact, one in every other, and a new one for each of those
\* that are joined.
LEMMA FingersCounted ==
  ASSUME SizeAssumption, Inv, NEW fingers \in SUBSET Ids, NEW f, Joining(fingers, f)
  PROVE  /\ IsFiniteSet(DOMAIN f)
         /\ Cardinality(merged) \in Nat /\ Cardinality(DOMAIN f) \in Nat
         /\ 2 * Cardinality(merged) + Cardinality(DOMAIN f) <= Cardinality(last_tracking_ids)
         /\ 2 * Cardinality(DOMAIN f) <= Cardinality(fingers)
         /\ Cardinality(last_tracking_ids) \in Nat /\ Cardinality(fingers) \in Nat
<1> DEFINE old == last_tracking_ids
           firsts == {m.first : m \in merged}
           seconds == {m.second : m \in merged}
           inputs == {c.input : c \in DOMAIN f}
           news == {f[c] : c \in DOMAIN f}
<1>1. IsFiniteSet(old) /\ IsFiniteSet(fingers)
  BY FS_Subset DEF SizeAssumption, Inv, TypeOK
<1>2. Cardinality(old) \in Nat /\ Cardinality(fingers) \in Nat
  BY <1>1, FS_CardinalityType
<1>3. /\ firsts \subseteq old /\ seconds \subseteq old /\ inputs \subseteq old
      /\ firsts \cap seconds = {} /\ (firsts \cup seconds) \cap inputs = {}
  BY DEF Joining, Inv, Once
<1>4. inputs \subseteq fingers /\ news \subseteq fingers /\ inputs \cap news = {}
  BY DEF Joining, Inv, Once
<1>5. IsFiniteSet(firsts) /\ IsFiniteSet(seconds) /\ IsFiniteSet(inputs) /\ IsFiniteSet(news)
  BY <1>1, <1>3, <1>4, FS_Subset
<1>6. Cardinality(merged) \in Nat /\ Cardinality(merged) = Cardinality(firsts)
  <2> DEFINE g == [m \in merged |-> m.first]
  <2>1. /\ g \in [merged -> firsts]
        /\ \A m, n \in merged : g[m] = g[n] => m = n
        /\ \A i \in firsts : \E m \in merged : g[m] = i
    BY DEF Inv, Once
  <2> HIDE DEF g, firsts
  <2> QED BY <1>5, <2>1, ImagesCounted
<1>7. Cardinality(merged) = Cardinality(seconds)
  <2> DEFINE g == [m \in merged |-> m.second]
  <2>1. /\ g \in [merged -> seconds]
        /\ \A m, n \in merged : g[m] = g[n] => m = n
        /\ \A i \in seconds : \E m \in merged : g[m] = i
    BY DEF Inv, Once
  <2> HIDE DEF g, seconds
  <2> QED BY <1>5, <2>1, ImagesCounted
<1>8. /\ IsFiniteSet(DOMAIN f) /\ Cardinality(DOMAIN f) \in Nat
      /\ Cardinality(DOMAIN f) = Cardinality(inputs)
  <2> DEFINE A == DOMAIN f
             g == [c \in A |-> c.input]
  <2>1. /\ g \in [A -> inputs]
        /\ \A c, d \in A : g[c] = g[d] => c = d
        /\ \A i \in inputs : \E c \in A : g[c] = i
    BY DEF Joining, Inv, Once
  <2> HIDE DEF g, inputs, A
  <2>2. IsFiniteSet(A) /\ Cardinality(A) \in Nat /\ Cardinality(A) = Cardinality(inputs)
    BY <1>5, <2>1, ImagesCounted
  <2> QED BY <2>2 DEF A
<1>9. Cardinality(DOMAIN f) = Cardinality(news)
  <2> DEFINE A == DOMAIN f
             g == [c \in A |-> f[c]]
  <2>1. /\ g \in [A -> news]
        /\ \A c, d \in A : g[c] = g[d] => c = d
        /\ \A i \in news : \E c \in A : g[c] = i
    BY DEF Joining
  <2> HIDE DEF g, news, A
  <2>2. Cardinality(A) = Cardinality(news)
    BY <1>5, <2>1, ImagesCounted
  <2> QED BY <2>2 DEF A
<1> HIDE DEF old, firsts, seconds, inputs, news
<1>10. Cardinality(firsts) + Cardinality(seconds) + Cardinality(inputs) <= Cardinality(old)
  <2> DEFINE both == firsts \cup seconds
  <2>1. Cardinality(both) = Cardinality(firsts) + Cardinality(seconds)
    BY <1>1, <1>3, PartsCounted
  <2>2. both \in SUBSET old /\ both \cap inputs = {}
    BY <1>3
  <2> HIDE DEF both
  <2>3. /\ Cardinality(both \cup inputs) = Cardinality(both) + Cardinality(inputs)
        /\ Cardinality(both \cup inputs) <= Cardinality(old)
    BY <1>1, <1>3, <2>2, PartsCounted
  <2> QED BY <2>1, <2>3
<1>11. Cardinality(inputs) + Cardinality(news) <= Cardinality(fingers)
  <2>1. /\ Cardinality(inputs \cup news) = Cardinality(inputs) + Cardinality(news)
        /\ Cardinality(inputs \cup news) <= Cardinality(fingers)
    BY <1>1, <1>4, PartsCounted
  <2> QED BY <2>1
<1>12. /\ 2 * Cardinality(merged) + Cardinality(DOMAIN f) <= Cardinality(old)
       /\ 2 * Cardinality(DOMAIN f) <= Cardinality(fingers)
  BY <1>6, <1>7, <1>8, <1>9, <1>10, <1>11
<1> QED BY <1>2, <1>6, <1>8, <1>12 DEF old

\* Of few fingers, as many are joined as there are places left.
LEMMA PlacesSuffice ==
  ASSUME SizeAssumption, Inv, FewFingers, NEW fingers \in SUBSET Ids, NEW f,
         Joining(fingers, f), 3 * Cardinality(fingers) < 4 * (MaxMerged + 1),
         NEW joined, joined = {AppendMergedContact(c, f[c]) : c \in DOMAIN f}
  PROVE  /\ IsFiniteSet(joined) /\ Cardinality(merged) \in Nat
         /\ Cardinality(merged) + Cardinality(joined) <= MaxMerged
<1> DEFINE A == DOMAIN f
           g == [c \in A |-> AppendMergedContact(c, f[c])]
           m == Cardinality(merged)
           j == Cardinality(A)
           before == Cardinality(last_tracking_ids)
           now == Cardinality(fingers)
<1>1. /\ IsFiniteSet(A) /\ m \in Nat /\ j \in Nat /\ before \in Nat /\ now \in Nat
      /\ 2 * m + j <= before /\ 2 * j <= now
  BY FingersCounted
<1>2. 3 * before < 4 * (MaxMerged + 1) /\ 3 * now < 4 * (MaxMerged + 1) /\ MaxMerged \in Nat
  BY DEF FewFingers, SizeAssumption
<1>3. IsFiniteSet(joined) /\ Cardinality(joined) <= j
  <2>1. g \in [A -> joined] /\ \A s \in joined : \E c \in A : g[c] = s
    OBVIOUS
  <2> HIDE DEF g, A
  <2>2. g \in Surjection(A, joined)
    BY <2>1, Zenon DEF Surjection
  <2> QED BY <1>1, <2>2, FS_Surjection
<1>4. Cardinality(joined) \in Nat
  BY <1>3, FS_CardinalityType
<1> HIDE DEF A, g, m, j, before, now
<1>5. m + j <= MaxMerged
  BY <1>1, <1>2
<1>6. m + Cardinality(joined) <= MaxMerged
  BY <1>1, <1>2, <1>3, <1>4, <1>5
<1> QED BY <1>1, <1>3, <1>6 DEF m

LEMMA StepOf ==
  ASSUME Inv, SyncInterpret
  PROVE  \E fingers \in HardwareStates, gone \in SUBSET merged : \E f :
           /\ Joining(fingers, f) /\ Splitting(fingers, f, gone) /\ Merging(fingers, f, gone)
           /\ \A m \in merged : ~(m.first \in fingers /\ m.second \in fingers) => m \in gone
           /\ last_tracking_ids' = fingers
           /\ TypeOK'
           /\ Fitted => NothingLost(fingers, f, gone)
<1>1. PICK fingers \in HardwareStates :
        \E f \in MergePairs(Present(unmerged, fingers), fingers \ last_tracking_ids),
           gone \in Broken(fingers) :
          \E fit \in Fitting({AppendMergedContact(c, f[c]) : c \in DOMAIN f}) :
              /\ merged' = (merged \ gone) \cup fit
              /\ unmerged' = (Present(unmerged, fingers) \ DOMAIN f) \cup
                             NewContacts(fingers \ last_tracking_ids, f) \cup
                             UNION {UnmergeFingers(m, fingers) : m \in gone}
              /\ last_tracking_ids' = SetLastTrackingIds(fingers)
  BY Zenon DEF SyncInterpret
<1>2. PICK f \in MergePairs(Present(unmerged, fingers), fingers \ last_tracking_ids),
           gone \in Broken(fingers) :
          \E fit \in Fitting({AppendMergedContact(c, f[c]) : c \in DOMAIN f}) :
              /\ merged' = (merged \ gone) \cup fit
              /\ unmerged' = (Present(unmerged, fingers) \ DOMAIN f) \cup
                             NewContacts(fingers \ last_tracking_ids, f) \cup
                             UNION {UnmergeFingers(m, fingers) : m \in gone}
              /\ last_tracking_ids' = SetLastTrackingIds(fingers)
  BY <1>1
<1> DEFINE joined == {AppendMergedContact(c, f[c]) : c \in DOMAIN f}
<1>3. PICK fit \in Fitting(joined) :
              /\ merged' = (merged \ gone) \cup fit
              /\ unmerged' = (Present(unmerged, fingers) \ DOMAIN f) \cup
                             NewContacts(fingers \ last_tracking_ids, f) \cup
                             UNION {UnmergeFingers(m, fingers) : m \in gone}
              /\ last_tracking_ids' = fingers
  BY <1>2 DEF SetLastTrackingIds
<1>4. fingers \subseteq Ids /\ gone \subseteq merged /\ fit \subseteq joined
  BY DEF HardwareStates, Broken, Fitting
<1>5. Joining(fingers, f)
  BY DEF Joining, MergePairs, Present
<1>6. \A m \in merged : ~(m.first \in fingers /\ m.second \in fingers) => m \in gone
  BY DEF Broken, Parts
<1>7. ASSUME NEW c \in unmerged'
      PROVE  \/ c \in unmerged /\ c \notin DOMAIN f /\ c.input \in fingers
             \/ /\ c.input \in fingers /\ c.input \notin last_tracking_ids /\ c.output = c.input
                /\ c = [input |-> c.input, output |-> c.output]
                /\ \A d \in DOMAIN f : f[d] # c.input
             \/ \E m \in gone : /\ GoesOnAs(m, fingers, c.input, c.output)
                                /\ c = [input |-> c.input, output |-> c.output]
  <2>1. CASE c \in Present(unmerged, fingers) \ DOMAIN f
    BY <2>1 DEF Present
  <2>2. CASE c \in NewContacts(fingers \ last_tracking_ids, f)
    BY <2>2 DEF NewContacts, Range
  <2>3. CASE c \in UNION {UnmergeFingers(m, fingers) : m \in gone}
    BY <2>3, Unmerged
  <2> QED BY <1>3, <1>7, <2>1, <2>2, <2>3
<1>8. Splitting(fingers, f, gone)
  BY <1>7 DEF Splitting
<1>9. Merging(fingers, f, gone)
  BY <1>3, <1>4, <1>6 DEF Merging
<1>10. TypeOK'
  <2>1. ASSUME NEW c \in unmerged' PROVE c \in UnmergedContact
    <3>1. CASE c \in unmerged
      BY <3>1 DEF Inv, TypeOK
    <3>2. CASE c \notin unmerged
      <4>1. c = [input |-> c.input, output |-> c.output] /\ c.input \in fingers
        BY <1>7, <3>2 DEF GoesOnAs
      <4>2. c.output = c.input \/ \E m \in merged : c.output = m.output \/ c.output = m.second
        BY <1>4, <1>7, <3>2 DEF GoesOnAs
      <4>3. c.output \in Ids
        BY <1>4, <4>1, <4>2 DEF Inv, TypeOK, MergedContact
      <4> QED BY <1>4, <4>1, <4>3 DEF UnmergedContact
    <3> QED BY <3>1, <3>2
  <2>2. ASSUME NEW m \in merged' PROVE m \in MergedContact
    <3>1. CASE m \in merged
      BY <3>1 DEF Inv, TypeOK
    <3>2. CASE m \in fit
      <4>1. PICK c \in DOMAIN f : m = AppendMergedContact(c, f[c])
        BY <1>4, <3>2
      <4>2. c \in UnmergedContact /\ f[c] \in Ids
        BY <1>4, <1>5 DEF Joining, Inv, TypeOK
      <4> QED BY <4>1, <4>2 DEF AppendMergedContact, UnmergedContact, MergedContact
    <3> QED BY <1>3, <3>1, <3>2
  <2> QED BY <1>3, <1>4, <2>1, <2>2 DEF TypeOK
<1>11. ASSUME Fitted PROVE NothingLost(fingers, f, gone)
  <2>1. ASSUME NEW m \in fit PROVE m \notin merged
    <3>1. PICK c \in DOMAIN f : m = AppendMergedContact(c, f[c])
      BY <1>4, <2>1
    <3>2. c \in unmerged /\ m.first = c.input
      BY <1>5, <3>1 DEF Joining, AppendMergedContact
    <3> QED BY <3>2 DEF Inv, Once
  <2>2. merged' \ merged = fit
    BY <1>3, <2>1
  <2>3. fit = joined
    <3>1. fit = joined \/ Cardinality(merged) + Cardinality(fit) = MaxMerged
      BY Zenon DEF Fitting
    <3>2. CASE Room
      BY <2>2, <3>1, <3>2 DEF Room
    <3>3. CASE SizeAssumption /\ FewFingers /\ FewFingers'
      <4>1. /\ IsFiniteSet(joined) /\ Cardinality(merged) \in Nat
            /\ Cardinality(merged) + Cardinality(joined) <= MaxMerged
        BY <1>3, <1>4, <1>5, <3>3, PlacesSuffice DEF FewFingers
      <4> HIDE DEF joined
      <4>2. Cardinality(fit) <= Cardinality(joined) /\ Cardinality(fit) \in Nat
        BY <1>4, <4>1, FS_Subset, FS_CardinalityType
      <4>3. Cardinality(joined) \in Nat
        BY <4>1, FS_CardinalityType
      <4>4. fit = joined \/ Cardinality(fit) = Cardinality(joined)
        BY <3>1, <3>3, <4>1, <4>2, <4>3 DEF SizeAssumption
      <4> QED BY <1>4, <4>1, <4>4, FS_Subset
    <3> QED BY <1>11, <3>2, <3>3 DEF Fitted
  <2>4. \A c \in DOMAIN f : AppendMergedContact(c, f[c]) \in merged'
    BY <1>3, <2>3
  <2>5. \A c \in unmerged \ DOMAIN f : c.input \in fingers => c \in unmerged'
    BY <1>3 DEF Present
  <2>6. \A m \in merged \ gone : m \in merged'
    BY <1>3
  <2>7. ASSUME NEW m \in gone, NEW i \in Ids, NEW id \in Ids, GoesOnAs(m, fingers, i, id)
        PROVE  [input |-> i, output |-> id] \in unmerged'
    <3>1. [input |-> i, output |-> id] \in UnmergeFingers(m, fingers)
      BY <2>7, Unmerged
    <3>2. UNION {UnmergeFingers(n, fingers) : n \in gone} \subseteq unmerged'
      BY <1>3
    <3>3. \A x \in UnmergeFingers(m, fingers) : x \in UNION {UnmergeFingers(n, fingers) : n \in gone}
      BY Zenon
    <3> QED BY <3>1, <3>2, <3>3, Zenon
  <2>8. ASSUME NEW i \in fingers \ last_tracking_ids, \A d \in DOMAIN f : f[d] # i
        PROVE  [input |-> i, output |-> i] \in unmerged'
    BY <1>3, <2>8 DEF NewContacts, Range
  <2> QED BY <2>4, <2>5, <2>6, <2>7, <2>8 DEF NothingLost
<1> QED BY <1>3, <1>4, <1>5, <1>6, <1>8, <1>9, <1>10, <1>11, Zenon

\* What the hardware states promise: a new finger's id is nobody's.
LEMMA NewIds ==
  ASSUME NEW fingers \in HardwareStates, NEW i \in fingers, i \notin last_tracking_ids
  PROVE  /\ \A c \in unmerged : c.output # i
         /\ \A m \in merged : m.output # i
BY DEF HardwareStates, Outputs

LEMMA OnceAfter ==
  ASSUME Inv, NEW fingers \in HardwareStates, NEW f, NEW gone \in SUBSET merged,
         Joining(fingers, f), Splitting(fingers, f, gone), Merging(fingers, f, gone),
         TypeOK', last_tracking_ids' = fingers
  PROVE  Once'
<1> USE DEF Inv, Joining, AppendMergedContact, GoesOnAs
<1>1. \A c \in unmerged' : c.input \in last_tracking_ids'
  BY DEF Splitting
<1>2. ASSUME NEW m \in merged'
      PROVE  /\ m.first \in last_tracking_ids' /\ m.second \in last_tracking_ids'
             /\ m.first # m.second
  BY DEF Merging, Once
<1>3. ASSUME NEW c \in unmerged', NEW d \in unmerged', c.input = d.input PROVE c.output = d.output
  BY <1>3 DEF Splitting, Once
<1>4. \A c, d \in unmerged' : c.input = d.input => c = d
  BY <1>3, RecordsEqual DEF TypeOK
<1>5. ASSUME NEW c \in unmerged', NEW m \in merged'
      PROVE  c.input # m.first /\ c.input # m.second
  BY DEF Splitting, Merging, Once
<1>6. ASSUME NEW m \in merged', NEW n \in merged',
             m.first = n.first \/ m.second = n.second \/ m.first = n.second
      PROVE  m = n
  BY <1>6 DEF Merging, Once
<1> QED BY <1>1, <1>2, <1>4, <1>5, <1>6 DEF Once

LEMMA ApartAfter ==
  ASSUME Inv, NEW fingers \in HardwareStates, NEW f, NEW gone \in SUBSET merged,
         Joining(fingers, f), Splitting(fingers, f, gone), Merging(fingers, f, gone),
         Once', TypeOK', last_tracking_ids' = fingers
  PROVE  Apart'
<1> USE DEF Inv, Joining, AppendMergedContact, GoesOnAs
<1>1. ASSUME NEW c \in unmerged', NEW d \in unmerged', c.output = d.output PROVE c.input = d.input
  BY <1>1, NewIds DEF Splitting, Once, Apart
<1>2. \A c, d \in unmerged' : c.output = d.output => c = d
  BY <1>1, RecordsEqual DEF TypeOK
<1>3. ASSUME NEW m \in merged', NEW n \in merged', m.output = n.output PROVE m = n
  BY <1>3 DEF Merging, Apart
<1>4. ASSUME NEW c \in unmerged', NEW m \in merged' PROVE c.output # m.output
  BY NewIds DEF Splitting, Merging, Once, Apart
<1>5. ASSUME NEW c \in unmerged', NEW m \in merged' PROVE c.output # m.second
  BY NewIds DEF Splitting, Merging, Once, Apart
<1>6. ASSUME NEW m \in merged', NEW n \in merged' PROVE m.output # n.second
  BY NewIds DEF Merging, Once, Apart
<1> QED BY <1>2, <1>3, <1>4, <1>5, <1>6 DEF Apart

\* Where nothing is lost, every finger is known and what it goes by stays.
LEMMA KnownAfter ==
  ASSUME Inv, EveryFingerKnown,
         NEW fingers \in HardwareStates, NEW f, NEW gone \in SUBSET merged,
         \A m \in merged : ~(m.first \in fingers /\ m.second \in fingers) => m \in gone,
         Joining(fingers, f), NothingLost(fingers, f, gone), Once', TypeOK',
         last_tracking_ids' = fingers
  PROVE  EveryFingerKnown'
<1> USE DEF Inv, Parts
<1>1. ASSUME NEW i \in fingers
      PROVE  \/ \E c \in unmerged' : c.input = i
             \/ \E m \in merged' : m.first = i \/ m.second = i
  <2> USE DEF NothingLost
  <2>1. CASE i \notin last_tracking_ids
    <3>1. CASE \E d \in DOMAIN f : f[d] = i
      BY <3>1 DEF AppendMergedContact
    <3>2. CASE \A d \in DOMAIN f : f[d] # i
      <4>1. [input |-> i, output |-> i] \in unmerged'
        BY <2>1, <3>2
      <4> QED BY <4>1
    <3> QED BY <3>1, <3>2
  <2>2. CASE \E c \in unmerged : c.input = i
    <3>1. PICK c \in unmerged : c.input = i
      BY <2>2
    <3>2. CASE c \in DOMAIN f
      BY <3>1, <3>2 DEF AppendMergedContact
    <3>3. CASE c \notin DOMAIN f
      BY <3>1, <3>3
    <3> QED BY <3>2, <3>3
  <2>3. CASE \E m \in merged : m.first = i \/ m.second = i
    <3>1. PICK m \in merged : m.first = i \/ m.second = i
      BY <2>3
    <3>2. CASE m \notin gone
      BY <3>1, <3>2
    <3>3. CASE m \in gone
      <4>1. PICK id \in Ids : GoesOnAs(m, fingers, i, id)
        BY <3>1 DEF GoesOnAs, TypeOK, MergedContact
      <4>2. i \in Ids
        BY DEF HardwareStates
      <4>3. [input |-> i, output |-> id] \in unmerged'
        BY <3>3, <4>1, <4>2
      <4> QED BY <4>3
    <3> QED BY <3>2, <3>3
  <2>4. i \in last_tracking_ids =>
          \/ \E c \in unmerged : c.input = i
          \/ \E m \in merged : m.first = i \/ m.second = i
    BY DEF EveryFingerKnown
  <2> QED BY <2>1, <2>2, <2>3, <2>4
<1>2. last_tracking_ids' \subseteq
        {c.input : c \in unmerged'} \cup UNION {Parts(m) : m \in merged'}
  BY <1>1
<1>3. {c.input : c \in unmerged'} \cup UNION {Parts(m) : m \in merged'} \subseteq
        last_tracking_ids'
  BY DEF Once
<1>4. /\ \A c, d \in unmerged' : c.input = d.input => c = d
      /\ \A c \in unmerged', m \in merged' : c.input \notin Parts(m)
      /\ \A m, n \in merged' : Parts(m) \cap Parts(n) # {} => m = n
  BY DEF Once
<1> QED BY <1>2, <1>3, <1>4 DEF EveryFingerKnown

LEMMA IdsAfter ==
  ASSUME Inv, NEW fingers \in HardwareStates, NEW f, NEW gone \in SUBSET merged,
         \A m \in merged : ~(m.first \in fingers /\ m.second \in fingers) => m \in gone,
         Joining(fingers, f), NothingLost(fingers, f, gone),
         last_tracking_ids' = fingers,
         NEW id \in Outputs, Fingers(id) \cap fingers # {}
  PROVE  id \in Outputs'
<1> USE DEF NothingLost
<1>1. PICK i \in fingers :
        \/ \E c \in unmerged : c.output = id /\ c.input = i
        \/ \E m \in merged : m.output = id /\ (m.first = i \/ m.second = i)
  BY DEF Fingers, Parts
<1>2. ASSUME \E c \in unmerged' \cup merged' : c.output = id PROVE id \in Outputs'
  BY <1>2 DEF Outputs
<1>3. CASE \E c \in unmerged : c.output = id /\ c.input = i
  <2>1. PICK c \in unmerged : c.output = id /\ c.input = i
    BY <1>3
  <2>2. CASE c \in DOMAIN f
    <3>1. AppendMergedContact(c, f[c]) \in merged' /\ AppendMergedContact(c, f[c]).output = id
      BY <2>1, <2>2 DEF AppendMergedContact
    <3> QED BY <1>2, <3>1, Zenon
  <2>3. CASE c \notin DOMAIN f
    BY <1>2, <2>1, <2>3
  <2> QED BY <2>2, <2>3
<1>4. CASE \E m \in merged : m.output = id /\ (m.first = i \/ m.second = i)
  <2>1. PICK m \in merged : m.output = id /\ (m.first = i \/ m.second = i)
    BY <1>4
  <2>2. CASE m \notin gone
    BY <1>2, <2>1, <2>2
  <2>3. CASE m \in gone
    <3>1. PICK j \in Ids : GoesOnAs(m, fingers, j, id)
      BY <2>1 DEF GoesOnAs, Inv, TypeOK, MergedContact
    <3>2. id \in Ids
      BY <2>1 DEF Inv, TypeOK, MergedContact
    <3>3. [input |-> j, output |-> id] \in unmerged'
      BY <2>3, <3>1, <3>2
    <3> QED BY <1>2, <3>3
  <2> QED BY <2>2, <2>3
<1> QED BY <1>1, <1>3, <1>4

-----------------------------------------------------------------------------
LEMMA InitInv == Init => Inv /\ EveryFingerKnown
BY DEF Init, Inv, TypeOK, Once, Apart, EveryFingerKnown

LEMMA NextKeepsInv ==
  ASSUME Inv, [Next]_vars
  PROVE  /\ Inv'
         /\ [Fitted]_vars /\ EveryFingerKnown => EveryFingerKnown'
         /\ [Fitted]_vars =>
              [\A id \in Outputs :
                 Fingers(id) \cap last_tracking_ids' # {} => id \in Outputs']_vars
<1>1. CASE UNCHANGED vars
  BY <1>1 DEF vars, Inv, TypeOK, Once, Apart, EveryFingerKnown
<1>2. CASE SyncInterpret /\ ~UNCHANGED vars
  <2> PICK fingers \in HardwareStates, gone \in SUBSET merged : \E f :
           /\ Joining(fingers, f) /\ Splitting(fingers, f, gone) /\ Merging(fingers, f, gone)
           /\ \A m \in merged : ~(m.first \in fingers /\ m.second \in fingers) => m \in gone
           /\ last_tracking_ids' = fingers
           /\ TypeOK'
           /\ Fitted => NothingLost(fingers, f, gone)
    BY <1>2, StepOf
  <2>1. PICK f :
           /\ Joining(fingers, f) /\ Splitting(fingers, f, gone) /\ Merging(fingers, f, gone)
           /\ \A m \in merged : ~(m.first \in fingers /\ m.second \in fingers) => m \in gone
           /\ last_tracking_ids' = fingers
           /\ TypeOK'
           /\ Fitted => NothingLost(fingers, f, gone)
    OBVIOUS
  <2>2. Once'
    BY <2>1, OnceAfter
  <2>3. Apart'
    BY <2>1, <2>2, ApartAfter
  <2>4. ASSUME Fitted, EveryFingerKnown PROVE EveryFingerKnown'
    BY <2>1, <2>2, <2>4, KnownAfter
  <2>5. ASSUME Fitted, NEW id \in Outputs, Fingers(id) \cap last_tracking_ids' # {}
        PROVE  id \in Outputs'
    BY <2>1, <2>5, IdsAfter
  <2> QED BY <1>2, <2>1, <2>2, <2>3, <2>4, <2>5 DEF Inv
<1> QED BY <1>1, <1>2 DEF Next

\* For any number of fingers and however small merged_ is, no two contacts go by one id.
THEOREM IdsDistinct == Spec => []OutputsDiffer
<1>1. Inv => OutputsDiffer
  BY DEF Inv, Apart, OutputsDiffer
<1>2. Inv /\ [Next]_vars => Inv'
  BY NextKeepsInv
<1>3. Init => Inv
  BY InitInv
<1> QED BY <1>1, <1>2, <1>3, PTL DEF Spec

\* As long as every contact that is joined finds a place, every finger is known and a
\* contact keeps its id while a finger of it is there.
THEOREM NobodyForgotten == Spec /\ [][Fitted]_vars => []EveryFingerKnown /\ IdsStay
<1>1. Inv /\ [Next]_vars => Inv'
  BY NextKeepsInv
<1>2. Inv /\ EveryFingerKnown /\ [Next]_vars /\ [Fitted]_vars => EveryFingerKnown'
  BY NextKeepsInv
<1>3. Inv /\ [Next]_vars /\ [Fitted]_vars =>
        [\A id \in Outputs :
           Fingers(id) \cap last_tracking_ids' # {} => id \in Outputs']_vars
  BY NextKeepsInv
<1> QED BY <1>1, <1>2, <1>3, InitInv, PTL DEF Spec, IdsStay

\* On a pad of few fingers there are never more.
LEMMA PadOfFew ==
  ASSUME SizeAssumption, 3 * MaxFingers < 4 * (MaxMerged + 1)
  PROVE  /\ Init => FewFingers
         /\ FewFingers /\ [Next]_vars => FewFingers'
<1>1. Init => FewFingers
  <2>1. Cardinality({}) = 0
    BY FS_EmptySet
  <2> QED BY <2>1 DEF Init, FewFingers, SizeAssumption
<1>2. ASSUME SyncInterpret PROVE FewFingers'
  <2>1. PICK fingers \in HardwareStates : last_tracking_ids' = fingers
    BY <1>2, Zenon DEF SyncInterpret, SetLastTrackingIds
  <2>2. Cardinality(fingers) \in Nat /\ Cardinality(fingers) <= MaxFingers
    BY FS_Subset, FS_CardinalityType DEF HardwareStates, SizeAssumption
  <2> QED BY <2>1, <2>2 DEF FewFingers, SizeAssumption
<1> QED BY <1>1, <1>2 DEF Next, vars, FewFingers

\* That is so for any behaviour of few fingers, whichever of them merge.
THEOREM FewAreKnown ==
  ASSUME SizeAssumption
  PROVE  Spec /\ []FewFingers => []EveryFingerKnown /\ IdsStay
<1>1. FewFingers /\ FewFingers' => [Fitted]_vars
  BY DEF Fitted
<1> QED BY <1>1, NobodyForgotten, PTL
=============================================================================
