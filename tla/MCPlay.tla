------------------------------- MODULE MCPlay -------------------------------
(* Charts and gauges for the runs of Play.                                   *)
EXTENDS Play

Tap(t) == [start |-> t, end |-> t, kind |-> "tap"]
Hold(t, u) == [start |-> t, end |-> u, kind |-> "hold"]
Charge(t, u) == [start |-> t, end |-> u, kind |-> "charge"]
Mine(t) == [at |-> t, damage |-> 3, kill |-> FALSE]

Bomb(t) == [at |-> t, damage |-> 0, kill |-> TRUE]

\* A hold with a tap close behind it against a charge note; mines under both.
MixedNotes == << <<Hold(3, 5), Tap(6)>>, <<Charge(3, 5)>> >>
MixedMines == << <<Mine(4)>>, <<Bomb(4)>> >>
FirstKey == {<<1, 1>>}

\* One tap, and a mine behind it in the same lane.
TailNotes == << <<Tap(2)>> >>
TailMines == << <<Mine(4)>> >>

NoMines == [l \in Lane |-> <<>>]

\* Two charge notes close behind each other.
DenseNotes == << <<Charge(1, 2), Charge(3, 5)>> >>

\* A strict tier above a mild one, which is softened when it runs low.
TwoTiers ==
  << [delta |-> [PG |-> 1, GR |-> 1, GD |-> 0, BD |-> -2, PR |-> -1],
      softens |-> "PR", below |-> 2, tenths |-> 6],
     [delta |-> [PG |-> 1, GR |-> 1, GD |-> 0, BD |-> -1, PR |-> -1],
      softens |-> "BD", below |-> 1, tenths |-> 5] >>
=============================================================================
