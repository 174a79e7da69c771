------------------------------ MODULE FixedMap ------------------------------
(***************************************************************************)
(* The containers that take no memory, map over set over vector            *)
(* (include/gestures/include/map.h, set.h, vector.h), as the filters use   *)
(* them to keep something of every finger.  The array is written element   *)
(* by element as std::copy does.                                           *)
(***************************************************************************)
EXTENDS Integers, FiniteSets, FiniteSetsExt

CONSTANTS
  Keys, Data,
  MaxSize               \* kMaxSize

\* Given by the module that has an instance of this one.
SizeAssumption == MaxSize \in Nat \ {0} /\ Keys # {} /\ Data # {}

VARIABLES
  buffer,               \* of pairs, 0 .. MaxSize - 1
  size,
  call                  \* history: the last call

vars == <<buffer, size, call>>

\* What Data() is, in a place never written as well.
Default == CHOOSE d \in Data : TRUE

Pair(key, data) == [first |-> key, second |-> data]

-----------------------------------------------------------------------------
\* Mutant: the last place is not looked at.
FindBefore(b, n, key) == Min({i \in 0 .. n - 2 : b[i].first = key} \cup {n})

\* find(): the first place that holds the key, or end().
Find(b, n, key) == Min({i \in 0 .. n - 1 : b[i].first = key} \cup {n})

\* Mutant: the copy goes on from the place that is erased.
FromIt(b, it, n) == [i \in DOMAIN b |-> IF it < i /\ i < n - 1 THEN b[i + 1] ELSE b[i]]

\* erase(it) copies what is behind it one place to the front.
Erased(b, it, n) == [i \in DOMAIN b |-> IF it <= i /\ i < n - 1 THEN b[i + 1] ELSE b[i]]

\* insert() of a pair: an old key gets the new data; a new one needs room.
Insert ==
  \E key \in Keys, data \in Data :
    LET it == Find(buffer, size, key)
    IN /\ call' = <<"insert", key, data>>
       /\ IF it < size
          THEN buffer' = [buffer EXCEPT ![it].second = data] /\ UNCHANGED size
          ELSE IF size < MaxSize
          THEN buffer' = [buffer EXCEPT ![size] = Pair(key, data)] /\ size' = size + 1
          ELSE UNCHANGED <<buffer, size>>

\* Mutant: without room the place after the last one is written.
EndPlace(it) == it

LastPlace(it) == it - 1

\* operator[] and what is written through it, which without room is the last element.
Assign ==
  \E key \in Keys, data \in Data :
    LET it == Find(buffer, size, key)
    IN /\ call' = <<"assign", key, data>>
       /\ IF it < size
          THEN buffer' = [buffer EXCEPT ![it].second = data] /\ UNCHANGED size
          ELSE IF size = MaxSize
          THEN buffer' = [buffer EXCEPT ![LastPlace(it)].second = data] /\ UNCHANGED size
          ELSE buffer' = [buffer EXCEPT ![it] = Pair(key, data)] /\ size' = size + 1

\* The buffer and its size after the keys have been erased one by one, those first in the
\* array first.
EraseKeys(keys) ==
  LET missing == {i \in 0 .. size - 1 : buffer[i].first \in keys}
      after[n \in 0 .. Cardinality(missing)] ==
        IF n = 0 THEN [b |-> buffer, size |-> size]
        ELSE LET key == buffer[CHOOSE i \in missing :
                                 Cardinality({j \in missing : j < i}) = n - 1].first
                 b == after[n - 1].b
                 len == after[n - 1].size
             IN [b |-> Erased(b, Find(b, len, key), len), size |-> len - 1]
  IN after[Cardinality(missing)]

\* RemoveMissingIdsFromMap(); erase() of one key is the same.
RemoveMissingIds ==
  \E keys \in SUBSET Keys :
    /\ call' = <<"erase", keys>>
    /\ buffer' = EraseKeys(keys).b
    /\ size' = EraseKeys(keys).size

Init ==
  /\ buffer = [i \in 0 .. MaxSize - 1 |-> Pair(CHOOSE k \in Keys : TRUE, Default)]
  /\ size = 0
  /\ call = <<>>

Next == Insert \/ Assign \/ RemoveMissingIds

Spec == Init /\ [][Next]_vars

-----------------------------------------------------------------------------
TypeOK ==
  /\ size \in 0 .. MaxSize
  /\ buffer \in [0 .. MaxSize - 1 -> [first : Keys, second : Data]]

\* No key is in two places, so that what is found first is all there is of it.
KeysDiffer ==
  \A i, j \in 0 .. size - 1 : buffer[i].first = buffer[j].first => i = j

Contents ==
  [k \in {buffer[i].first : i \in 0 .. size - 1} |-> buffer[Find(buffer, size, k)].second]

BM == INSTANCE BoundedMap WITH m <- Contents

\* Through any insertions and erasures the places that are in use hold a map, also when
\* there is no room for a key.
ImplementsBoundedMap == BM!Spec

=============================================================================
