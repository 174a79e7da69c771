-------------------------- MODULE TrendClassifying --------------------------
(***************************************************************************)
(* The filter that tests whether a finger moves steadily, by Kendall's     *)
(* score of its last positions                                             *)
(* (src/src/trend_classifying_filter_interpreter.cc, with memory_manager.h *)
(* and the lists of list.h).  Every sample is a node of a pool that the    *)
(* histories share, with sums that are brought up to date as samples come. *)
(* Of the six axes x and dx are modelled; y, dy and the others are like    *)
(* them.  The variances are multiplied by 18.  The flags follow from score *)
(* and variance by real arithmetic and are left out.                       *)
(***************************************************************************)
EXTENDS Integers, FiniteSets, FiniteSetsExt, Sequences, SequencesExt

CONSTANTS
  Ids,                  \* tracking ids
  PoolSize,             \* kMaxFingers * kNumOfSamples
  MaxSamples,           \* kNumOfSamples
  MaxPosition           \* bound: the positions

\* Given by the module that has an instance of this one.
PoolAssumption ==
  {PoolSize, MaxSamples, MaxPosition} \subseteq Nat /\ MaxSamples > 0 /\ IsFiniteSet(Ids)

VARIABLES
  free,                 \* the free slots of kstate_mm_
  histories,            \* the sequence of samples of each finger
  num_of_samples        \* a property

vars == <<free, histories, num_of_samples>>

-----------------------------------------------------------------------------
\* Sums of two axes of a sample.
Axis(val) == [val |-> val, sum |-> 0, ties |-> 0]

Sample(x, dx) == [x |-> Axis(x), dx |-> Axis(dx), score |-> <<0, 0>>, var |-> <<0, 0>>]

\* Mutant: a value equal to an earlier one counts as smaller.
UpdateConcordant(past, val) ==
  [past EXCEPT !.sum = @ + (IF past.val < val THEN 1 ELSE -1),
               !.ties = @ + (IF past.val = val THEN 1 ELSE 0)]

UpdateKTValuePair(past, val) ==
  [past EXCEPT !.sum = @ + (IF past.val < val THEN 1 ELSE IF past.val > val THEN -1 ELSE 0),
               !.ties = @ + (IF past.val = val THEN 1 ELSE 0)]

\* 18 times ComputeKTVariance.
ComputeKTVariance(axes, n) ==
  n * (n - 1) * (2 * n + 5)
  - 12 * MapThenSumSet(LAMBDA i : (axes[i].ties * (axes[i].ties - 1)) \div 2, DOMAIN axes)
  - 18 * MapThenSumSet(LAMBDA i : axes[i].ties, DOMAIN axes)

Score(axes) == MapThenSumSet(LAMBDA i : axes[i].sum, DOMAIN axes)

\* The first sample has no difference, or one to a sample that is gone.
Deltas(past) == [i \in 2 .. Len(past) |-> past[i]]

\* Only the newest sample's score is read, so that of the others is forgotten.
Updated(past, x, dx) ==
  [i \in DOMAIN past |->
     [past[i] EXCEPT !.score = <<0, 0>>, !.var = <<0, 0>>,
                     !.x = UpdateKTValuePair(past[i].x, x),
                     !.dx = IF i = 1 THEN past[i].dx ELSE UpdateKTValuePair(past[i].dx, dx)]]

Push(history, x) ==
  IF history = <<>> THEN <<Sample(x, 0)>>
  ELSE LET dx == x - Last(history).x.val
           past == Updated(history, x, dx)
           xs == [i \in DOMAIN past |-> past[i].x]
           dxs == [i \in DOMAIN Deltas(past) |-> past[i].dx]
           n == Len(past) + 1
       IN Append(past,
            [Sample(x, dx) EXCEPT
               !.score = <<Score(xs), Score(dxs)>>,
               !.var = <<ComputeKTVariance(xs, n), ComputeKTVariance(dxs, n - 1)>>])

Full(history) == Len(history) = num_of_samples

\* A history that is full gives its oldest node back and takes it again; it is left as it
\* is when no node can be had.
AddNewStateToBuffer(history, x, served) ==
  IF ~served THEN history
  ELSE Push(IF Full(history) THEN Tail(history) ELSE history, x)

History(f) == IF f \in DOMAIN histories THEN histories[f] ELSE <<>>

\* Mutant: the nodes of a finger that has left are not given back.
FreedNone(new) == 0

Freed(new) == MapThenSumSet(LAMBDA f : Len(histories[f]), DOMAIN histories \ new)

UpdateFingerState ==
  \E new \in SUBSET Ids :
    LET open == free + Freed(new)
        needy == {f \in new : ~Full(History(f))}
    IN \E x \in [new -> 0 .. MaxPosition],
          short \in kSubset(Max({0, Cardinality(needy) - open}), needy) :
         /\ histories' =
              [f \in new |-> AddNewStateToBuffer(History(f), x[f], f \notin short)]
         /\ free' = open - Cardinality(needy \ short)
         /\ UNCHANGED num_of_samples

\* The property is written at any time.
SetNumOfSamples ==
  /\ num_of_samples' \in 1 .. MaxSamples
  /\ UNCHANGED <<free, histories>>

Init ==
  /\ free = PoolSize
  /\ histories = <<>>
  /\ num_of_samples = MaxSamples

Next == UpdateFingerState \/ SetNumOfSamples

Spec == Init /\ [][Next]_vars

-----------------------------------------------------------------------------
TypeOK ==
  /\ free \in 0 .. PoolSize
  /\ DOMAIN histories \subseteq Ids
  /\ num_of_samples \in 1 .. MaxSamples

\* Every node is free or a sample of one finger, also after the property has changed and
\* after the pool was empty.
NodesConserved ==
  free + MapThenSumSet(LAMBDA f : Len(histories[f]), DOMAIN histories) = PoolSize

(* The definitions of trend_classifying_filter_interpreter.h, of a series of values. *)

Pairs(s) == {p \in (DOMAIN s) \X (DOMAIN s) : p[1] < p[2]}

KendallScore(s) ==
  Cardinality({p \in Pairs(s) : s[p[1]] < s[p[2]]})
  - Cardinality({p \in Pairs(s) : s[p[1]] > s[p[2]]})

\* 18 times Var(S): the ties are groups of u equal values, C(u, 3) and C(u, 2) of each.
KendallVariance(s) ==
  LET n == Cardinality(DOMAIN s)
      u(v) == Cardinality({i \in DOMAIN s : s[i] = v})
  IN n * (n - 1) * (2 * n + 5)
     - MapThenSumSet(LAMBDA v : 2 * u(v) * (u(v) - 1) * (u(v) - 2) + 9 * u(v) * (u(v) - 1),
                     {s[i] : i \in DOMAIN s})

\* The scores and variances kept up sample by sample are those of the definition, for
\* positions and for their differences, as the oldest samples go and histories shrink.
ScoresAreKendalls ==
  \A f \in DOMAIN histories :
    LET h == histories[f]
        xs == [i \in DOMAIN h |-> h[i].x.val]
        dxs == [i \in 2 .. Len(h) |-> h[i].x.val - h[i - 1].x.val]
    IN Len(h) > 1 =>
         /\ Last(h).score = <<KendallScore(xs), KendallScore(dxs)>>
         /\ Last(h).var = <<KendallVariance(xs), KendallVariance(dxs)>>

\* There is room for kNumOfSamples of every finger.
HistoriesFit == \A f \in DOMAIN histories : Len(histories[f]) <= MaxSamples
=============================================================================
