------------------------------- MODULE Gauge -------------------------------
(* The gauge of a play (GaugeManager, and the parallel gauges that           *)
(* GameplayEngine keeps when gauge shift is on, as every replay does).       *)
(* Values are whole units of a gauge; a weight counts halves, because a tap  *)
(* weighs two halves and the head and the tail of a hold one each.           *)
EXTENDS Integers, Sequences

CONSTANTS Full,   \* kGaugeMax
          Tiers   \* the gauges from the chosen one to Easy, the hardest first:
                  \* [delta: what half a note of each grade adds,
                  \*  softens: the grade that costs less when the gauge is low,
                  \*  below: at which value it does, tenths: of the full price]

Grades == {"PG", "GR", "GD", "BD", "PR"}

ASSUME GaugeAssumption ==
  /\ Full \in Nat \ {0}
  /\ Tiers \in Seq([delta: [Grades -> Int], softens: Grades, below: Nat, tenths: 0..10])
  /\ Tiers # <<>>

Gauges == [DOMAIN Tiers -> [value: 0..Full, over: BOOLEAN]]

FullGauges == [k \in DOMAIN Tiers |-> [value |-> Full, over |-> FALSE]]

Clamped(v) == IF v < 0 THEN 0 ELSE IF v > Full THEN Full ELSE v

\* What a judgement adds to a tier that stands at v.
Delta(tier, v, grade, halves) ==
  LET plain == tier.delta[grade] * halves
  IN IF grade = tier.softens /\ v <= tier.below /\ plain < 0
       THEN (plain * tier.tenths) \div 10 ELSE plain

\* Mutant: a tier that has failed recovers.
MovedAgain(g, d) ==
  LET v == Clamped(g.value + d) IN [value |-> v, over |-> v <= 0]

\* A tier that has failed is not touched again.
Moved(g, d) ==
  IF g.over THEN g
  ELSE LET v == Clamped(g.value + d) IN [value |-> v, over |-> v <= 0]

Judged(gauge, grade, halves) ==
  [k \in DOMAIN gauge |-> Moved(gauge[k], Delta(Tiers[k], gauge[k].value, grade, halves))]

Damaged(gauge, damage) == [k \in DOMAIN gauge |-> Moved(gauge[k], -damage)]

Killed(gauge) == [k \in DOMAIN gauge |-> [value |-> 0, over |-> TRUE]]

Dead(gauge) == \A k \in DOMAIN gauge : gauge[k].over

\* The tier that is shown: the first one that survives, Easy when none does.
Shown(gauge) ==
  IF Dead(gauge) THEN Len(gauge)
  ELSE CHOOSE k \in DOMAIN gauge : /\ ~gauge[k].over
                                   /\ \A j \in 1..(k - 1) : gauge[j].over
=============================================================================
