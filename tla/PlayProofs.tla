------------------------------- MODULE PlayProofs -------------------------------
(* What a play adds to the engine: under calls that follow the clock, the    *)
(* judgements come in the order of the samples that cause them, and with one *)
(* key per lane every hold is settled; whatever the calls, the cursors stay  *)
(* in the chart and the owner of a lane is one of its keys that is down.     *)
EXTENDS Play, GameplayEngineProofs

\* A chart as the engine is given it: notes and mines in order, and holds that
\* outlast the BAD window.
Charted ==
  \A l \in Lane :
    /\ \A i, j \in DOMAIN Notes[l] : i <= j => Notes[l][i].start <= Notes[l][j].start
    /\ \A i, j \in DOMAIN Mines[l] : i <= j => Mines[l][i].at <= Mines[l][j].at
    /\ \A i \in DOMAIN Notes[l] :
         Notes[l][i].kind # "tap" => Notes[l][i].start + BD <= Notes[l][i].end

\* A play without pause or stale edge.
Undisturbed == MaxPauses = 0 /\ MaxStale = 0

-----------------------------------------------------------------------------
\* Nothing falls due before x, and nothing was judged after it.
LaneDuesFrom(l, x) == \A s \in MineDue(l) \cup MissDue(l) \cup HoldDue(l) : x <= s
DuesFrom(x) == \A l \in Lane : LaneDuesFrom(l, x)
LoggedBy(x) == \A i \in DOMAIN log : log[i].due <= x
Timely(x) == JudgedInOrder /\ LoggedBy(x) /\ DuesFrom(x)

\* What falls due does so at integers.
LEMMA DueType ==
  ASSUME EngineType, NEW l \in Lane
  PROVE  MineDue(l) \subseteq Int /\ MissDue(l) \subseteq Int /\ HoldDue(l) \subseteq Int
<1>1. MineDue(l) \subseteq Int
  BY MineType DEF MineDue
<1>2. MissDue(l) \subseteq Int
  <2>1. Waiting(l) => NextNote(l).start \in Int
    BY NoteStart
  <2> QED BY <2>1, Windows DEF MissDue
<1>3. HoldDue(l) \subseteq Int
  <2>1. lanes[l].hold \in Holds
    BY DEF EngineType, LaneStates
  <2> QED BY <2>1, Windows DEF HoldDue, Holds
<1> QED BY <1>1, <1>2, <1>3

\* The same, of the three kinds together.
LEMMA DueTypeNow ==
  EngineType => \A l \in Lane : \A s \in MineDue(l) \cup MissDue(l) \cup HoldDue(l) : s \in Int
BY DueType

\* And after a step.
LEMMA DueTypeNext ==
  EngineType' => (\A l \in Lane : \A s \in MineDue(l) \cup MissDue(l) \cup HoldDue(l) : s \in Int)'
BY DueTypeNow, PTL

\* The next note is not earlier than the one before it.
LEMMA NextNoteLater ==
  ASSUME EngineType, Charted, NEW l \in Lane, Waiting(l),
         lanes[l].next + 1 <= Len(Notes[l])
  PROVE  /\ Notes[l][lanes[l].next].start \in Int
         /\ Notes[l][lanes[l].next + 1].start \in Int
         /\ Notes[l][lanes[l].next].start <= Notes[l][lanes[l].next + 1].start
<1>1. Notes[l] \in Seq(ChartNotes)
  BY EngineAssumption DEF ChartNotes
<1>2. lanes[l].next \in Nat \ {0} /\ Len(Notes[l]) \in Nat /\ DOMAIN Notes[l] = 1..Len(Notes[l])
  BY <1>1, LaneNumbers, LenProperties
<1>3. lanes[l].next \in 1..Len(Notes[l]) /\ lanes[l].next + 1 \in 1..Len(Notes[l])
  BY <1>2 DEF Waiting
<1>4. Notes[l][lanes[l].next] \in ChartNotes /\ Notes[l][lanes[l].next + 1] \in ChartNotes
  BY <1>1, <1>3, ElementOfSeq
<1>5. Notes[l][lanes[l].next].start <= Notes[l][lanes[l].next + 1].start
  BY <1>2, <1>3 DEF Charted
<1> QED BY <1>4, <1>5 DEF ChartNotes

\* Nor is the next mine.
LEMMA NextMineLater ==
  ASSUME EngineType, Charted, NEW l \in Lane, lanes[l].mine + 1 <= Len(Mines[l])
  PROVE  /\ Mines[l][lanes[l].mine].at \in Int
         /\ Mines[l][lanes[l].mine + 1].at \in Int
         /\ Mines[l][lanes[l].mine].at <= Mines[l][lanes[l].mine + 1].at
<1>1. Mines[l] \in Seq(ChartMines)
  BY EngineAssumption DEF ChartMines
<1>2. lanes[l].mine \in Nat \ {0} /\ Len(Mines[l]) \in Nat /\ DOMAIN Mines[l] = 1..Len(Mines[l])
  BY <1>1, LaneNumbers, LenProperties
<1>3. lanes[l].mine \in 1..Len(Mines[l]) /\ lanes[l].mine + 1 \in 1..Len(Mines[l])
  BY <1>2
<1>4. Mines[l][lanes[l].mine] \in ChartMines /\ Mines[l][lanes[l].mine + 1] \in ChartMines
  BY <1>1, <1>3, ElementOfSeq
<1>5. Mines[l][lanes[l].mine].at <= Mines[l][lanes[l].mine + 1].at
  BY <1>2, <1>3 DEF Charted
<1> QED BY <1>4, <1>5 DEF ChartMines

\* Passing notes and mines, ending a hold, or taking up one that ends later:
\* nothing comes to fall due before x.
LEMMA DuesStay ==
  ASSUME EngineType, EngineType', Charted, NEW x \in Int, NEW l \in Lane, DuesFrom(x),
         \A m \in Lane : m # l => lanes'[m] = lanes[m],
         lanes'[l].next \in {lanes[l].next, lanes[l].next + 1},
         lanes'[l].next # lanes[l].next => Waiting(l),
         lanes'[l].mine \in {lanes[l].mine, lanes[l].mine + 1},
         lanes'[l].mine # lanes[l].mine => lanes[l].mine <= Len(Mines[l]),
         \/ lanes'[l].hold = lanes[l].hold
         \/ lanes'[l].hold.note = 0
         \/ x <= lanes'[l].hold.end
  PROVE  DuesFrom(x)'
<1>1. \A m \in Lane : m # l => LaneDuesFrom(m, x)'
  BY DEF DuesFrom, LaneDuesFrom, MineDue, MissDue, HoldDue, Waiting, Holding, NextNote
<1>2. LaneDuesFrom(l, x)
  BY DEF DuesFrom
<1>3. \A s \in MineDue(l)' : x <= s
  <2>1. CASE lanes'[l].mine = lanes[l].mine
    BY <1>2, <2>1 DEF LaneDuesFrom, MineDue
  <2>2. CASE lanes'[l].mine # lanes[l].mine /\ lanes[l].mine + 1 <= Len(Mines[l])
    <3>1. x <= Mines[l][lanes[l].mine].at
      BY <1>2, <2>2 DEF LaneDuesFrom, MineDue
    <3> QED BY <2>2, <3>1, NextMineLater DEF MineDue
  <2>3. CASE lanes'[l].mine # lanes[l].mine /\ ~(lanes[l].mine + 1 <= Len(Mines[l]))
    BY <2>3 DEF MineDue
  <2> QED BY <2>1, <2>2, <2>3
<1>4. \A s \in MissDue(l)' : x <= s
  <2>1. CASE lanes'[l].next = lanes[l].next
    BY <1>2, <2>1 DEF LaneDuesFrom, MissDue, Waiting, NextNote
  <2>2. CASE lanes'[l].next # lanes[l].next /\ lanes[l].next + 1 <= Len(Notes[l])
    <3>1. x <= NextNote(l).start + Miss + 1
      BY <1>2, <2>2 DEF LaneDuesFrom, MissDue
    <3>2. NextNote(l)' = Notes[l][lanes[l].next + 1]
      BY <2>2 DEF NextNote
    <3>3. /\ NextNote(l).start \in Int /\ NextNote(l)'.start \in Int
          /\ NextNote(l).start <= NextNote(l)'.start
      BY <2>2, <3>2, NextNoteLater DEF NextNote
    <3>4. Miss \in Int
      BY Windows
    <3>5. x <= NextNote(l)'.start + Miss + 1
      BY <3>1, <3>3, <3>4
    <3> QED BY <3>5 DEF MissDue
  <2>3. CASE lanes'[l].next # lanes[l].next /\ ~(lanes[l].next + 1 <= Len(Notes[l]))
    BY <2>3 DEF MissDue, Waiting
  <2> QED BY <2>1, <2>2, <2>3
<1>5. \A s \in HoldDue(l)' : x <= s
  <2>1. CASE lanes'[l].hold = lanes[l].hold
    BY <1>2, <2>1 DEF LaneDuesFrom, HoldDue, Holding
  <2>2. CASE lanes'[l].hold.note = 0
    BY <2>2 DEF HoldDue, Holding
  <2>3. CASE x <= lanes'[l].hold.end
    <3>1. lanes'[l].hold.end \in Int
      BY DEF EngineType, LaneStates, Holds
    <3>2. HoldBreak \in Nat
      BY EngineAssumption
    <3> QED BY <2>3, <3>1, <3>2 DEF HoldDue
  <2> QED BY <2>1, <2>2, <2>3
<1>6. LaneDuesFrom(l, x)'
  BY <1>3, <1>4, <1>5 DEF LaneDuesFrom
<1> QED BY <1>1, <1>6 DEF DuesFrom

\* An entry due at x, with nothing judged after x, leaves the log in order.
LEMMA LoggedInOrder ==
  ASSUME EngineType, EngineType', JudgedInOrder, NEW x \in Int, LoggedBy(x),
         log' = log \/ \E e \in Entries : log' = Append(log, e) /\ e.due = x
  PROVE  JudgedInOrder' /\ LoggedBy(x)'
<1>1. CASE log' = log
  BY <1>1 DEF JudgedInOrder, LoggedBy
<1>2. ASSUME NEW e \in Entries, log' = Append(log, e), e.due = x
      PROVE  JudgedInOrder' /\ LoggedBy(x)'
  <2> DEFINE n == Len(log)
  <2>1. /\ n \in Nat /\ DOMAIN log = 1..n /\ DOMAIN log' = 1..(n + 1)
        /\ \A i \in 1..n : log'[i] = log[i]
        /\ log'[n + 1] = e
    BY <1>2, LogGrows
  <2>2. \A i \in 1..(n + 1) : i \in 1..n \/ i = n + 1
    BY <2>1
  <2>3. \A i \in 1..(n + 1) : log'[i].due <= x
    <3>1. \A i \in 1..n : log'[i].due <= x
      BY <2>1 DEF LoggedBy
    <3>2. log'[n + 1].due = x
      BY <1>2, <2>1
    <3> QED BY <2>2, <3>1, <3>2
  <2>4. LoggedBy(x)'
    BY <2>1, <2>3 DEF LoggedBy
  <2>5. ASSUME NEW i \in 1..(n + 1), NEW j \in 1..(n + 1), i <= j
        PROVE  log'[i].due <= log'[j].due
    <3>1. CASE j = n + 1
      BY <1>2, <2>1, <2>3, <3>1
    <3>2. CASE j \in 1..n
      <4>1. i \in 1..n
        BY <2>1, <2>5, <3>2
      <4> QED BY <2>1, <2>5, <3>2, <4>1 DEF JudgedInOrder
    <3> QED BY <2>2, <3>1, <3>2
  <2> QED BY <2>1, <2>4, <2>5 DEF JudgedInOrder
<1> QED BY <1>1, <1>2

\* A judgement adds an entry that is due when it is made.
LEMMA JudgedAt ==
  ASSUME EngineType, NEW l \in Lane, NEW note \in Nat, NEW part \in Parts,
         NEW grade \in Grades, NEW halves, NEW now \in Int,
         Judge(l, note, part, grade, halves, now)
  PROVE  \E e \in Entries : log' = Append(log, e) /\ e.due = now
<1> DEFINE e == [lane |-> l, note |-> note, part |-> part, grade |-> grade, due |-> now]
<1>1. e \in Entries /\ e.due = now
  BY DEF Entries
<1>2. log' = Append(log, e)
  BY DEF Judge
<1> QED BY <1>1, <1>2

\* A note given up at a sample at which nothing is overdue.
LEMMA GiveUpTimely ==
  ASSUME EngineType, EngineType', Charted, NEW l \in Lane, NEW now \in Int, NEW mask \in Int,
         Timely(now), Waiting(l), GiveUpNote(l, now, mask)
  PROVE  Timely(now)'
<1>1. \E e \in Entries : log' = Append(log, e) /\ e.due = now
  <2>1. lanes[l].next \in Nat /\ "missed" \in Parts /\ MissGrade \in Grades
    BY EngineAssumption, LaneNumbers DEF Parts, Grades
  <2> QED BY <2>1, JudgedAt DEF GiveUpNote
<1>2. lanes' = [lanes EXCEPT ![l].next = @ + 1, ![l].mask = mask]
  BY DEF GiveUpNote
<1>3. /\ lanes'[l].next = lanes[l].next + 1 /\ lanes'[l].mine = lanes[l].mine
      /\ lanes'[l].hold = lanes[l].hold
      /\ \A m \in Lane : m # l => lanes'[m] = lanes[m]
  BY <1>2 DEF EngineType, LaneStates
<1>4. DuesFrom(now)'
  BY <1>3, DuesStay DEF Timely
<1> QED BY <1>1, <1>4, LoggedInOrder DEF Timely

\* A mine passed then.
LEMMA PassMineTimely ==
  ASSUME EngineType, EngineType', Charted, NEW l \in Lane, NEW now \in Int,
         Timely(now), lanes[l].mine <= Len(Mines[l]), PassMine(l, now)
  PROVE  Timely(now)'
<1> DEFINE e == [lane |-> l, note |-> lanes[l].mine, part |-> "mine", grade |-> "none",
                 due |-> now]
<1>1. e \in Entries /\ e.due = now /\ (log' = log \/ log' = Append(log, e))
  BY LaneNumbers DEF Entries, Parts, PassMine
<1>2. \/ lanes' = [lanes EXCEPT ![l].mine = @ + 1, ![l].down = FALSE]
      \/ lanes' = [lanes EXCEPT ![l].mine = @ + 1]
  BY DEF PassMine
<1>3. /\ lanes'[l].next = lanes[l].next /\ lanes'[l].mine = lanes[l].mine + 1
      /\ lanes'[l].hold = lanes[l].hold
      /\ \A m \in Lane : m # l => lanes'[m] = lanes[m]
  BY <1>2 DEF EngineType, LaneStates
<1>4. DuesFrom(now)'
  BY <1>3, DuesStay DEF Timely
<1>5. log' = log \/ \E f \in Entries : log' = Append(log, f) /\ f.due = now
  BY <1>1
<1> QED BY <1>4, <1>5, LoggedInOrder DEF Timely

\* A tail judged then.
LEMMA SettleTimely ==
  ASSUME EngineType, EngineType', Charted, NEW l \in Lane, NEW grade \in Grades,
         NEW now \in Int, NEW pressed \in BOOLEAN,
         Timely(now), SettleHold(l, grade, now, pressed)
  PROVE  Timely(now)'
<1>1. \E e \in Entries : log' = Append(log, e) /\ e.due = now
  <2>1. lanes[l].hold.note \in Nat /\ "tail" \in Parts
    BY LaneNumbers DEF Parts
  <2> QED BY <2>1, JudgedAt DEF SettleHold
<1>2. lanes' = [lanes EXCEPT ![l].hold = NoHold, ![l].down = pressed]
  BY DEF SettleHold
<1>3. /\ lanes'[l].next = lanes[l].next /\ lanes'[l].mine = lanes[l].mine
      /\ lanes'[l].hold.note = 0
      /\ \A m \in Lane : m # l => lanes'[m] = lanes[m]
  BY <1>2 DEF EngineType, LaneStates, NoHold
<1>4. DuesFrom(now)'
  BY <1>3, DuesStay DEF Timely
<1> QED BY <1>1, <1>4, LoggedInOrder DEF Timely

\* Steps that leave the log and what falls due alone.
LEMMA SameTimely ==
  ASSUME EngineType, EngineType', Charted, NEW now \in Int, Timely(now), log' = log,
         \A m \in Lane : /\ lanes'[m].next = lanes[m].next /\ lanes'[m].mine = lanes[m].mine
                         /\ lanes'[m].hold = lanes[m].hold
  PROVE  Timely(now)'
BY DEF Timely, JudgedInOrder, LoggedBy, DuesFrom, LaneDuesFrom, MineDue, MissDue, HoldDue,
       Waiting, Holding, NextNote

-----------------------------------------------------------------------------
\* The event that advance_chronological picks is the first that falls due, and
\* nothing was judged after it.
LEMMA FirstDue ==
  ASSUME EngineType, NEW l \in Lane, NEW k \in 1..3, NEW s, IsNext(l, k, s),
         \A i \in DOMAIN log : DuesFrom(log[i].due), JudgedInOrder
  PROVE  s \in Int /\ s <= call.until /\ Timely(s)
<1>1. \A m \in Lane : /\ Due(m)[1] = MineDue(m) /\ Due(m)[2] = MissDue(m)
                      /\ Due(m)[3] = HoldDue(m)
  BY DEF Due
<1>2. s \in Due(l)[k] /\ s <= call.until
  BY DEF IsNext
<1>3. s \in MineDue(l) \cup MissDue(l) \cup HoldDue(l)
  BY <1>1, <1>2
<1>4. s \in Int /\ call.until \in Int
  BY <1>3, DueType DEF EngineType, Calls
<1>5. ASSUME NEW m \in Lane, NEW j \in 1..3, NEW r \in Due(m)[j]
      PROVE  s <= r
  <2>1. r \in Int
    BY <1>1, <1>5, DueType
  <2>2. CASE <<m, j>> = <<l, k>>
    <3>1. r \in Due(l)[k]
      BY <2>2
    <3>2. \A a, b \in Due(l)[k] : a = b
      <4>1. /\ \A a, b \in MineDue(l) : a = b
            /\ \A a, b \in MissDue(l) : a = b
            /\ \A a, b \in HoldDue(l) : a = b
        BY DEF MineDue, MissDue, HoldDue
      <4> QED BY <1>1, <4>1
    <3>3. r = s
      BY <1>2, <3>1, <3>2
    <3> QED BY <1>4, <3>3
  <2>3. CASE <<m, j>> # <<l, k>> /\ r <= call.until
    <3>1. Earlier(s, l, k, r, m, j)
      BY <2>3 DEF IsNext
    <3> QED BY <1>4, <2>1, <3>1 DEF Earlier
  <2>4. CASE ~(r <= call.until)
    BY <1>2, <1>4, <2>1, <2>4
  <2> QED BY <2>2, <2>3, <2>4
<1>6. DuesFrom(s)
  <2>1. ASSUME NEW m \in Lane, NEW r \in MineDue(m) \cup MissDue(m) \cup HoldDue(m)
        PROVE  s <= r
    BY <1>1, <1>5, <2>1
  <2> QED BY <2>1 DEF DuesFrom, LaneDuesFrom
<1>7. LoggedBy(s)
  <2>1. ASSUME NEW i \in DOMAIN log
        PROVE  log[i].due <= s
    BY <1>3, <2>1 DEF DuesFrom, LaneDuesFrom
  <2> QED BY <2>1 DEF LoggedBy
<1> QED BY <1>2, <1>4, <1>6, <1>7 DEF Timely

\* So the automatic events come in order, none after the sample asked for.
LEMMA AutoTimely ==
  ASSUME EngineType, EngineType', Charted, NEW l \in Lane, JudgedInOrder,
         \A i \in DOMAIN log : DuesFrom(log[i].due), AutoMine(l) \/ AutoMiss(l) \/ AutoHold(l)
  PROVE  \E s \in Int : s <= call.until /\ Timely(s)'
<1>1. CASE AutoMine(l)
  <2>1. PICK s \in Due(l)[1] : IsNext(l, 1, s)
    BY <1>1 DEF AutoMine, Automatic
  <2>2. s \in Int /\ s <= call.until /\ Timely(s)
    BY <2>1, FirstDue
  <2>3. lanes[l].mine <= Len(Mines[l]) /\ s = Mines[l][lanes[l].mine].at
    BY <2>1 DEF Due, MineDue
  <2>4. PassMine(l, s)
    BY <1>1, <2>3 DEF AutoMine
  <2> QED BY <2>2, <2>3, <2>4, PassMineTimely
<1>2. CASE AutoMiss(l)
  <2>1. PICK s \in Due(l)[2] : IsNext(l, 2, s)
    BY <1>2 DEF AutoMiss, Automatic
  <2>2. s \in Int /\ s <= call.until /\ Timely(s)
    BY <2>1, FirstDue
  <2>3. Waiting(l) /\ s = NextNote(l).start + Miss + 1
    BY <2>1 DEF Due, MissDue
  <2>4. NextNote(l).start + Mask \in Int
    <3>1. NextNote(l).start \in Int
      BY <2>3, NoteStart
    <3> QED BY <3>1, Windows
  <2>5. GiveUpNote(l, s, NextNote(l).start + Mask)
    BY <1>2, <2>3 DEF AutoMiss
  <2> QED BY <2>2, <2>3, <2>4, <2>5, GiveUpTimely
<1>3. CASE AutoHold(l)
  <2>1. PICK s \in Due(l)[3] : IsNext(l, 3, s)
    BY <1>3 DEF AutoHold, Automatic
  <2>2. s \in Int /\ s <= call.until /\ Timely(s)
    BY <2>1, FirstDue
  <2>3. s = (IF lanes[l].hold.kind = "charge" THEN lanes[l].hold.end + HoldBreak + 1
             ELSE lanes[l].hold.end)
    BY <2>1 DEF Due, HoldDue
  <2>4. \E grade \in {"BD", "PG"} : SettleHold(l, grade, s, lanes[l].down)
    BY <1>3, <2>3 DEF AutoHold
  <2>5. lanes[l].down \in BOOLEAN /\ {"BD", "PG"} \subseteq Grades
    BY DEF EngineType, LaneStates, Grades
  <2> QED BY <2>2, <2>4, <2>5, SettleTimely
<1> QED BY <1>1, <1>2, <1>3

\* The tail that a key edge judges is judged at its sample.
LEMMA ApplyEdgeTimely ==
  ASSUME EngineType, EngineType', Charted, NEW now \in Int, now = call.at, Timely(now),
         call.lane \in Lane, ApplyEdge
  PROVE  Timely(now)'
<1>1. CASE call.state = "Released" /\ Holding(call.lane)
  <2>1. lanes[call.lane].hold \in Holds
    BY DEF EngineType, LaneStates
  <2>2. TailGrade(lanes[call.lane].hold, now) \in Grades
    BY <2>1, TailGradeType
  <2>3. SettleHold(call.lane, TailGrade(lanes[call.lane].hold, now), now, FALSE)
    BY <1>1 DEF ApplyEdge
  <2> QED BY <2>2, <2>3, SettleTimely
<1>2. CASE ~(call.state = "Released" /\ Holding(call.lane))
  <2>1. log' = log /\ lanes' = [lanes EXCEPT ![call.lane].down = (call.state = "Pressed")]
    BY <1>2 DEF ApplyEdge
  <2>2. \A m \in Lane : /\ lanes'[m].next = lanes[m].next /\ lanes'[m].mine = lanes[m].mine
                        /\ lanes'[m].hold = lanes[m].hold
    BY <2>1 DEF EngineType, LaneStates
  <2> QED BY <2>1, <2>2, SameTimely
<1> QED BY <1>1, <1>2

\* A head that is hit is judged at the press, and its hold ends no earlier.
LEMMA HitTimely ==
  ASSUME EngineType, EngineType', Charted, NEW now \in Int, now = call.at, Timely(now),
         NEW l \in Lane, Hit(l)
  PROVE  Timely(now)'
<1> DEFINE note == NextNote(l)
<1>1. note \in ChartNotes /\ Waiting(l) /\ InBad(note)
  BY NoteType DEF Hit
<1>2. \E e \in Entries : log' = Append(log, e) /\ e.due = now
  <2>1. Grade(now - note.start) \in Grades /\ lanes[l].next \in Nat /\ "head" \in Parts
    BY <1>1, GradeType, LaneNumbers DEF ChartNotes, Parts
  <2>2. \E halves : Judge(l, lanes[l].next, "head", Grade(now - note.start), halves, now)
    BY DEF Hit
  <2> QED BY <2>1, <2>2, JudgedAt
<1>3. lanes' = [lanes EXCEPT ![l].next = @ + 1,
                  ![l].hold = IF note.kind = "tap" \/ over' THEN @
                              ELSE [note |-> lanes[l].next, end |-> note.end,
                                    kind |-> note.kind]]
  BY DEF Hit
<1>4. /\ lanes'[l].next = lanes[l].next + 1 /\ lanes'[l].mine = lanes[l].mine
      /\ lanes'[l].hold = (IF note.kind = "tap" \/ over' THEN lanes[l].hold
                          ELSE [note |-> lanes[l].next, end |-> note.end, kind |-> note.kind])
      /\ \A m \in Lane : m # l => lanes'[m] = lanes[m]
  BY <1>3 DEF EngineType, LaneStates
<1>5. lanes'[l].hold = lanes[l].hold \/ now <= lanes'[l].hold.end
  <2>1. CASE note.kind = "tap" \/ over'
    BY <1>4, <2>1
  <2>2. CASE ~(note.kind = "tap" \/ over')
    <3>1. lanes[l].next \in DOMAIN Notes[l]
      <4>1. Notes[l] \in Seq(ChartNotes)
        BY EngineAssumption DEF ChartNotes
      <4>2. Len(Notes[l]) \in Nat /\ DOMAIN Notes[l] = 1..Len(Notes[l])
        BY <4>1, LenProperties
      <4> QED BY <1>1, <4>2, LaneNumbers DEF Waiting
    <3>2. note.start + BD <= note.end
      BY <2>2, <3>1 DEF Charted, NextNote
    <3>3. now <= note.start + BD
      <4>1. Abs(now - note.start) <= BD
        BY <1>1 DEF InBad
      <4>2. note.start \in Int /\ BD \in Int
        BY <1>1, Windows DEF ChartNotes
      <4> QED BY <4>1, <4>2 DEF Abs
    <3>4. note.start \in Int /\ note.end \in Int /\ BD \in Int
      BY <1>1, Windows DEF ChartNotes
    <3> HIDE DEF note
    <3>5. now <= note.end
      BY <3>2, <3>3, <3>4
    <3> QED BY <1>4, <2>2, <3>5
  <2> QED BY <2>1, <2>2
<1>6. DuesFrom(now)'
  BY <1>1, <1>4, <1>5, DuesStay DEF Timely
<1> QED BY <1>2, <1>6, LoggedInOrder DEF Timely

\* An empty POOR is judged at the press.
LEMMA NoHitTimely ==
  ASSUME EngineType, EngineType', Charted, NEW now \in Int, now = call.at, Timely(now),
         NEW l \in Lane, NoHit(l)
  PROVE  Timely(now)'
<1>1. CASE StrayPress(l)
  <2>1. Judge(l, 0, "poor", "PR", 2, now) /\ lanes' = [lanes EXCEPT ![l].mask = now + Mask]
    BY <1>1 DEF NoHit
  <2>2. \E e \in Entries : log' = Append(log, e) /\ e.due = now
    BY <2>1, JudgedAt DEF Parts, Grades
  <2>3. /\ lanes'[l].next = lanes[l].next /\ lanes'[l].mine = lanes[l].mine
        /\ lanes'[l].hold = lanes[l].hold
        /\ \A m \in Lane : m # l => lanes'[m] = lanes[m]
    BY <2>1 DEF EngineType, LaneStates
  <2>4. DuesFrom(now)'
    BY <2>3, DuesStay DEF Timely
  <2> QED BY <2>2, <2>4, LoggedInOrder DEF Timely
<1>2. CASE ~StrayPress(l)
  <2>1. UNCHANGED <<lanes, log>>
    BY <1>2 DEF NoHit
  <2> QED BY <2>1, SameTimely
<1> QED BY <1>1, <1>2

\* And a note that is skipped, at the press that skips it.
LEMMA SkipTimely ==
  ASSUME EngineType, EngineType', Charted, NEW now \in Int, now = call.at, Timely(now),
         NEW l \in Lane, Skip(l)
  PROVE  Timely(now)'
<1>1. Waiting(l)
  BY DEF Skip, GiveUp
<1>2. Later(lanes[l].mask, NextNote(l).start + Mask) \in Int
  <2>1. NextNote(l).start \in Int /\ lanes[l].mask \in Int /\ Mask \in Int
    BY <1>1, NoteStart, Windows DEF EngineType, LaneStates
  <2> QED BY <2>1 DEF Later
<1>3. GiveUpNote(l, now, Later(lanes[l].mask, NextNote(l).start + Mask))
  BY DEF Skip
<1> QED BY <1>1, <1>2, <1>3, GiveUpTimely

-----------------------------------------------------------------------------
\* How far the log may reach: a call to its sample, and between the calls to
\* the last advance or the last edge, whichever is later.
Bound == IF call.kind = "advance" THEN call.until ELSE call.at
Latest == {0, frontier} \cup LastEdge

OnTime ==
  /\ JudgedInOrder
  /\ ~over =>
       /\ \A i \in DOMAIN log : DuesFrom(log[i].due)
       /\ call.stage = "idle" /\ ~finished =>
            \A i \in DOMAIN log : \E x \in Latest : log[i].due <= x
       /\ call.stage = "automatic" => LoggedBy(Bound)
       /\ call.stage \in {"edge", "mines", "hit"} => Timely(call.at)

\* The samples of the call in progress, against the clock and the recorded edges.
CallTimes ==
  /\ call.stage = "automatic" =>
       call.until = IF call.kind = "advance" THEN frontier ELSE call.at - 1
  /\ call.stage \in {"automatic", "edge"} /\ call.kind = "sync" => call.at \in {0} \cup LastEdge
  /\ call.stage \in {"mines", "hit"} => call.at \in LastEdge

\* What lies before or at a sample from which everything falls due is in order.
LEMMA OnTimeAgain ==
  ASSUME EngineType', NEW x \in Int, Timely(x)',
         call'.stage = "automatic" => x <= Bound',
         call'.stage \in {"edge", "mines", "hit"} => x = call'.at,
         call'.stage = "idle" /\ ~finished' => x \in Latest'
  PROVE  OnTime'
<1>1. JudgedInOrder' /\ LoggedBy(x)' /\ DuesFrom(x)'
  BY DEF Timely
<1>2. \A i \in DOMAIN log' : log'[i].due \in Int /\ log'[i].due <= x
  <2>1. log' \in Seq(Entries)
    BY DEF EngineType
  <2>2. \A i \in DOMAIN log' : log'[i] \in Entries
    BY <2>1
  <2> QED BY <1>1, <2>2 DEF LoggedBy, Entries
<1>3. \A l \in Lane : \A s \in (MineDue(l) \cup MissDue(l) \cup HoldDue(l))' : s \in Int
  BY DueTypeNext
<1>4. ASSUME NEW i \in DOMAIN log'
      PROVE  \A l \in Lane : \A s \in (MineDue(l) \cup MissDue(l) \cup HoldDue(l))' : log'[i].due <= s
  <2>1. ASSUME NEW l \in Lane, NEW s \in (MineDue(l) \cup MissDue(l) \cup HoldDue(l))'
        PROVE  log'[i].due <= s
    <3>1. s \in Int /\ x <= s
      BY <1>1, <1>3, <2>1 DEF DuesFrom, LaneDuesFrom
    <3> QED BY <1>2, <3>1
  <2> QED BY <2>1
<1>5. (\A i \in DOMAIN log : DuesFrom(log[i].due))'
  BY <1>4 DEF DuesFrom, LaneDuesFrom
<1>6. call'.stage = "automatic" => LoggedBy(Bound)'
  <2>1. Bound' \in Int
    BY DEF EngineType, Calls, Bound
  <2> QED BY <1>2, <2>1 DEF LoggedBy
<1> QED BY <1>1, <1>2, <1>5, <1>6 DEF OnTime

\* NotBefore gives the sample of the input, or that of the last recorded edge if it is later.
LEMMA NotBeforeTime ==
  ASSUME EngineType, NEW t \in Int
  PROVE  /\ NotBefore(t) \in {t} \cup LastEdge
         /\ NotBefore(t) \in Int /\ t <= NotBefore(t)
         /\ \A s \in LastEdge : s \in Int /\ s <= NotBefore(t)
<1>1. replay # <<>> => replay[Len(replay)] \in Edges
  BY DEF EngineType
<1>2. \A s \in LastEdge : s \in Int /\ s = replay[Len(replay)].at
  BY <1>1 DEF LastEdge, Edges
<1> QED BY <1>2 DEF NotBefore

\* A call for an input that is not before the last advance.
LEMMA NewCallOnTime ==
  ASSUME EngineType, OnTime, frontier \in Int, frontier' = frontier,
         NEW l \in Lane, NEW state \in States, NEW t \in Nat, frontier <= t,
         \/ HandleInput(l, state, t)
         \/ SyncInputState(l, state, t) /\ t = 0
  PROVE  OnTime' /\ CallTimes'
<1> DEFINE b == NotBefore(t)
<1>1. b \in {t} \cup LastEdge /\ b \in Int /\ t <= b /\ \A s \in LastEdge : s \in Int /\ s <= b
  BY NotBeforeTime
<1>2. /\ call.stage = "idle" /\ ~finished /\ ~over
      /\ UNCHANGED <<lanes, log, replay, finished, over>>
  BY DEF HandleInput, SyncInputState, Ended
<1>3. /\ call'.stage = "automatic" /\ call'.at = b /\ call'.until = b - 1
      /\ call'.kind = "input" \/ (call'.kind = "sync" /\ t = 0)
  BY DEF HandleInput, SyncInputState, Idle
<1>4. \A i \in DOMAIN log : log[i].due <= b
  <2>1. ASSUME NEW i \in DOMAIN log
        PROVE  log[i].due <= b
    <3>1. PICK x \in Latest : log[i].due <= x
      BY <1>2, <2>1 DEF OnTime
    <3>2. x \in Int /\ x <= b
      BY <1>1, <3>1 DEF Latest
    <3>3. log[i].due \in Int
      <4>1. log[i] \in Entries
        BY <2>1 DEF EngineType
      <4> QED BY <4>1 DEF Entries
    <3> QED BY <1>1, <3>1, <3>2, <3>3
  <2> QED BY <2>1
<1>5. LoggedBy(Bound)'
  BY <1>2, <1>3, <1>4 DEF LoggedBy, Bound
<1>6. (\A i \in DOMAIN log : DuesFrom(log[i].due))'
  BY <1>2 DEF OnTime, DuesFrom, LaneDuesFrom, MineDue, MissDue, HoldDue, Waiting, Holding, NextNote
<1>7. OnTime'
  BY <1>2, <1>3, <1>5, <1>6 DEF OnTime, JudgedInOrder
<1>8. LastEdge' = LastEdge
  BY <1>2 DEF LastEdge
<1>9. CallTimes'
  BY <1>1, <1>3, <1>8 DEF CallTimes
<1> QED BY <1>7, <1>9

\* An advance to a sample that no recorded edge exceeds.
LEMMA AdvanceOnTime ==
  ASSUME EngineType, OnTime, frontier \in Int, NEW t \in Nat, frontier < t, frontier' = t,
         \A s \in LastEdge : s <= t, Advance(t)
  PROVE  OnTime' /\ CallTimes'
<1>1. /\ call.stage = "idle" /\ ~finished /\ ~over
      /\ UNCHANGED <<lanes, log, replay, finished, over>>
  BY DEF Advance, Ended
<1>2. call'.stage = "automatic" /\ call'.kind = "advance" /\ call'.until = t
  BY DEF Advance, Idle
<1>3. \A i \in DOMAIN log : log[i].due <= t
  <2>1. ASSUME NEW i \in DOMAIN log
        PROVE  log[i].due <= t
    <3>1. PICK x \in Latest : log[i].due <= x
      BY <1>1, <2>1 DEF OnTime
    <3>2. x \in Int /\ x <= t
      <4>1. \A s \in LastEdge : s \in Int
        BY NotBeforeTime
      <4> QED BY <3>1, <4>1 DEF Latest
    <3>3. log[i].due \in Int
      <4>1. log[i] \in Entries
        BY <2>1 DEF EngineType
      <4> QED BY <4>1 DEF Entries
    <3> QED BY <3>1, <3>2, <3>3
  <2> QED BY <2>1
<1>4. LoggedBy(Bound)'
  BY <1>1, <1>2, <1>3 DEF LoggedBy, Bound
<1>5. (\A i \in DOMAIN log : DuesFrom(log[i].due))'
  BY <1>1 DEF OnTime, DuesFrom, LaneDuesFrom, MineDue, MissDue, HoldDue, Waiting, Holding, NextNote
<1>6. OnTime'
  BY <1>1, <1>2, <1>4, <1>5 DEF OnTime, JudgedInOrder
<1> QED BY <1>2, <1>6 DEF CallTimes

\* A play that has failed stays so, and a call goes on from one step to the next.
LEMMA OverStays == ASSUME [Next]_engine, over PROVE over'
BY DEF Next, Inside, engine, AutoMine, AutoMiss, AutoHold, Skip, Hit, NoHit, Finalize, InputEdge,
       SyncEdge, EdgeMine, EdgeDone, HandleInput, SyncInputState, Advance, ApplyEdge, PassMine,
       GiveUpNote, SettleHold, Judge

\* Every step of a call keeps to its time.
LEMMA InsideOnTime ==
  ASSUME EngineType, EngineType', Harmless, Charted, OnTime, CallTimes, Inside,
         frontier \in Int, frontier' = frontier
  PROVE  OnTime' /\ CallTimes'
<1>0. call \in Calls /\ call.at \in Int /\ call.until \in Int
  BY DEF EngineType, Calls
<1>1. PICK now \in Int : now = call.at
  BY <1>0
<1>2. CASE over
  <2>1. log' = log /\ over'
    BY <1>2, FailedStep, OverStays DEF Next
  <2>2. OnTime'
    BY <2>1 DEF OnTime, JudgedInOrder
  <2>3. CallTimes'
    <3>1. ~(InputEdge \/ SyncEdge) /\ \A l \in Lane : ~(Skip(l) \/ Hit(l) \/ NoHit(l))
      BY <1>2 DEF Harmless, InputEdge, SyncEdge, Skip, Hit, NoHit
    <3>2. \A l \in Lane : ~(AutoMine(l) \/ AutoMiss(l) \/ AutoHold(l))
      BY <1>2 DEF AutoMine, AutoMiss, AutoHold, Automatic
    <3>3. CASE Finalize \/ EdgeDone
      <4>1. call' = Idle
        BY <1>2, <2>1, <3>3 DEF Finalize, EdgeDone
      <4> QED BY <4>1 DEF CallTimes, Idle
    <3>4. CASE EdgeMine
      <4>1. /\ call' = [call EXCEPT !.blown = @ \/ lanes[call.lane].down]
            /\ call.stage = "mines" /\ replay' = replay
        BY <3>4 DEF EdgeMine
      <4>2. call'.stage = "mines" /\ call'.at = call.at
        BY <1>0, <1>1, <4>1 DEF Calls
      <4> QED BY <4>1, <4>2 DEF CallTimes, LastEdge
    <3> QED BY <3>1, <3>2, <3>3, <3>4 DEF Inside
  <2> QED BY <2>2, <2>3
<1>3. ASSUME NEW l \in Lane, AutoMine(l) \/ AutoMiss(l) \/ AutoHold(l), ~over
      PROVE  OnTime' /\ CallTimes'
  <2>1. UNCHANGED <<call, replay>> /\ call.stage = "automatic"
    BY <1>3 DEF AutoMine, AutoMiss, AutoHold, Automatic
  <2>2. PICK s \in Int : s <= call.until /\ Timely(s)'
    BY <1>3, AutoTimely DEF OnTime
  <2>3. s <= Bound'
    <3>1. call.until <= Bound
      BY <1>0, <1>1, <2>1 DEF Bound, CallTimes
    <3>2. Bound \in Int /\ Bound' = Bound
      BY <1>0, <1>1, <2>1 DEF Bound
    <3> QED BY <1>0, <1>1, <2>2, <3>1, <3>2
  <2>4. OnTime'
    BY <2>1, <2>2, <2>3, OnTimeAgain
  <2>5. CallTimes'
    BY <2>1 DEF CallTimes, LastEdge
  <2> QED BY <2>4, <2>5
<1>4. CASE Finalize /\ ~over
  <2>1. /\ call.stage = "automatic" /\ NothingNext
        /\ UNCHANGED <<lanes, log, replay, over>>
        /\ call' = Idle \/ (call' = [call EXCEPT !.stage = "edge"] /\ call.kind # "advance")
        /\ call' = Idle => call.kind = "advance" \/ finished'
    BY <1>4 DEF Finalize, Idle
  <2>2. LoggedBy(Bound) /\ LastEdge' = LastEdge
    BY <1>4, <2>1 DEF OnTime, LastEdge
  <2>3. (\A i \in DOMAIN log : DuesFrom(log[i].due))'
    BY <1>4, <2>1 DEF OnTime, DuesFrom, LaneDuesFrom, MineDue, MissDue, HoldDue, Waiting,
                      Holding, NextNote
  <2>4. CASE call' = Idle
    <3>1. call'.stage = "idle"
      BY <2>4 DEF Idle
    <3>2. ~finished' => \A i \in DOMAIN log' : \E x \in Latest' : log'[i].due <= x
      <4>1. SUFFICES ASSUME ~finished', NEW i \in DOMAIN log'
                     PROVE  log'[i].due <= frontier'
        BY DEF Latest
      <4>2. Bound = frontier
        BY <2>1, <2>4, <4>1 DEF Bound, CallTimes
      <4> QED BY <2>1, <2>2, <4>1, <4>2 DEF LoggedBy
    <3>3. OnTime'
      BY <2>1, <2>3, <3>1, <3>2 DEF OnTime, JudgedInOrder
    <3> QED BY <3>1, <3>3 DEF CallTimes
  <2>5. CASE call' # Idle
    <3>1. call'.stage = "edge" /\ call'.at = now /\ call'.kind = call.kind
      BY <1>0, <1>1, <2>1, <2>5 DEF Calls
    <3>2. Bound = now /\ call.until = now - 1
      BY <1>1, <2>1, <2>5 DEF Bound, CallTimes
    <3>3. DuesFrom(now)
      <4>1. ASSUME NEW l \in Lane, NEW s \in MineDue(l) \cup MissDue(l) \cup HoldDue(l)
            PROVE  now <= s
        <5>1. s \in Int
          BY <4>1, DueTypeNow
        <5>2. \E k \in 1..3 : s \in Due(l)[k]
          BY <4>1 DEF Due
        <5>3. s > call.until
          BY <1>4, <2>1, <5>2 DEF NothingNext
        <5> QED BY <1>0, <1>1, <3>2, <5>1, <5>3
      <4> QED BY <4>1 DEF DuesFrom, LaneDuesFrom
    <3>4. Timely(now)'
      <4>1. JudgedInOrder' /\ LoggedBy(now)'
        BY <2>1, <2>2, <3>2 DEF OnTime, JudgedInOrder, LoggedBy
      <4>2. DuesFrom(now)'
        BY <2>1, <3>3 DEF DuesFrom, LaneDuesFrom, MineDue, MissDue, HoldDue, Waiting,
                          Holding, NextNote
      <4> QED BY <4>1, <4>2 DEF Timely
    <3>5. OnTime'
      BY <1>0, <1>1, <3>1, <3>4, OnTimeAgain
    <3>6. CallTimes'
      BY <1>1, <2>1, <2>2, <3>1 DEF CallTimes
    <3> QED BY <3>5, <3>6
  <2> QED BY <2>4, <2>5
<1>5. CASE ~over /\ call.stage \in {"edge", "mines", "hit"}
  <2>1. Timely(now)
    BY <1>5, <1>1 DEF OnTime
  <2>2. ASSUME Timely(now)', now \in LastEdge', \/ call'.stage = "idle"
                                                \/ call'.stage \in {"mines", "hit"} /\ call'.at = now
        PROVE  OnTime' /\ CallTimes'
    <3>1. OnTime'
      BY <1>0, <1>1, <2>2, OnTimeAgain DEF Latest
    <3> QED BY <2>2, <3>1 DEF CallTimes
  <2>3. Record => now \in LastEdge'
    <3>1. SUFFICES ASSUME Record PROVE now \in LastEdge'
      OBVIOUS
    <3> DEFINE e == [lane |-> call.lane, state |-> call.state, at |-> call.at]
    <3>2. replay \in Seq(Edges) /\ e \in Edges
      BY <1>0, <1>1, <1>5 DEF EngineType, Edges, Calls
    <3>3. replay' # <<>> /\ replay'[Len(replay')] = e
      <4>1. /\ replay' \in Seq(Edges) /\ Len(replay') = Len(replay) + 1
            /\ replay'[Len(replay) + 1] = e
        BY <3>1, <3>2, AppendProperties DEF Record
      <4>2. Len(replay) \in Nat
        BY <3>2, LenProperties
      <4> QED BY <4>1, <4>2, EmptySeq
    <3> QED BY <1>1, <3>3 DEF LastEdge
  <2>4. replay' = replay /\ call.stage \in {"mines", "hit"} => now \in LastEdge'
    BY <1>1 DEF CallTimes, LastEdge
  <2>5. call.lane \in Lane
    BY <1>5 DEF EngineType
  <2>6. CASE InputEdge
    <3>1. Timely(now)'
      BY <1>0, <1>1, <2>1, <2>5, <2>6, ApplyEdgeTimely DEF InputEdge
    <3>2. call'.stage = "mines" /\ call'.at = now
      BY <1>0, <1>1, <2>6 DEF InputEdge, Calls
    <3> QED BY <2>2, <2>3, <2>6, <3>1, <3>2 DEF InputEdge
  <2>7. CASE SyncEdge
    <3>1. call' = Idle /\ call.stage = "edge" /\ call.kind = "sync"
      BY <2>7 DEF SyncEdge
    <3>2. CASE Record /\ ApplyEdge
      <4>1. Timely(now)'
        BY <1>0, <1>1, <2>1, <2>5, <3>2, ApplyEdgeTimely
      <4> QED BY <2>2, <2>3, <3>1, <3>2, <4>1 DEF Idle
    <3>3. CASE UNCHANGED <<lanes, gauge, log, replay, over>>
      <4>1. Timely(now)'
        BY <1>0, <1>1, <2>1, <3>3, SameTimely
      <4>2. now \in Latest'
        BY <1>1, <3>1, <3>3 DEF CallTimes, Latest, LastEdge
      <4>3. call'.stage = "idle"
        BY <3>1 DEF Idle
      <4>4. OnTime'
        BY <1>0, <1>1, <4>1, <4>2, <4>3, OnTimeAgain
      <4> QED BY <4>3, <4>4 DEF CallTimes
    <3> QED BY <2>7, <3>2, <3>3 DEF SyncEdge
  <2>8. CASE EdgeMine
    <3>1. /\ PassMine(call.lane, now) /\ replay' = replay /\ call.stage = "mines"
          /\ call' = [call EXCEPT !.blown = @ \/ lanes[call.lane].down]
          /\ lanes[call.lane].mine <= Len(Mines[call.lane])
      BY <1>1, <2>8 DEF EdgeMine, MineAtEdge
    <3>2. Timely(now)'
      BY <1>0, <1>1, <2>1, <2>5, <3>1, PassMineTimely
    <3>3. call'.stage = "mines" /\ call'.at = now
      BY <1>0, <1>1, <3>1 DEF Calls
    <3> QED BY <2>2, <2>4, <3>1, <3>2, <3>3
  <2>9. CASE EdgeDone
    <3>1. /\ UNCHANGED <<lanes, log, replay>> /\ call.stage = "mines"
          /\ call' = Idle \/ call' = [call EXCEPT !.stage = "hit"]
      BY <2>9 DEF EdgeDone
    <3>2. Timely(now)'
      BY <1>0, <1>1, <2>1, <3>1, SameTimely
    <3>3. call'.stage = "idle" \/ (call'.stage = "hit" /\ call'.at = now)
      BY <1>0, <1>1, <3>1 DEF Calls, Idle
    <3> QED BY <2>2, <2>4, <3>1, <3>2, <3>3
  <2>10. ASSUME NEW l \in Lane, Skip(l) \/ Hit(l) \/ NoHit(l)
         PROVE  OnTime' /\ CallTimes'
    <3>1. /\ replay' = replay /\ call.stage = "hit"
          /\ call' = Idle \/ call' = [call EXCEPT !.gaveUp = TRUE]
      BY <2>10 DEF Skip, Hit, NoHit
    <3>2. Timely(now)'
      BY <1>0, <1>1, <2>1, <2>10, SkipTimely, HitTimely, NoHitTimely
    <3>3. call'.stage = "idle" \/ (call'.stage = "hit" /\ call'.at = now)
      BY <1>0, <1>1, <3>1 DEF Calls, Idle
    <3> QED BY <2>2, <2>4, <3>1, <3>2, <3>3
  <2> QED BY <1>5, <2>6, <2>7, <2>8, <2>9, <2>10
          DEF Inside, AutoMine, AutoMiss, AutoHold, Automatic, Finalize
<1>6. call.stage \in {"automatic", "edge", "mines", "hit"}
  BY DEF Inside, AutoMine, AutoMiss, AutoHold, Automatic, Finalize, InputEdge, SyncEdge, EdgeMine,
         EdgeDone, Skip, Hit, NoHit
<1>7. ASSUME ~over, call.stage = "automatic"
      PROVE  OnTime' /\ CallTimes'
  BY <1>3, <1>4, <1>7 DEF Inside, InputEdge, SyncEdge, EdgeMine, EdgeDone, Skip, Hit, NoHit
<1> QED BY <1>2, <1>5, <1>6, <1>7

-----------------------------------------------------------------------------
\* What the play holds besides the engine.
PlayTypes ==
  /\ EngineType
  /\ frontier \in Int
  /\ baseline \in [todo: SUBSET Lane, at: Int]
  /\ pauses \in Nat /\ stale \in Nat

\* A key is one of a lane.
LEMMA KeyLane == ASSUME NEW key \in Keys PROVE key[1] \in Lane /\ key[2] \in Nat
BY PlayAssumption DEF Keys

\* What a step of a play may be: the call goes on, a new one comes, or the
\* verifier is at work and the play rests.
LEMMA PlayStep ==
  ASSUME [PlayNext]_play
  PROVE  \/ Inside /\ UNCHANGED keyboard
         \/ \E key \in Keys, t \in Samples : KeyEdge(key, t) \/ CatchUp(key, t)
         \/ \E t \in Samples : Callback(t)
         \/ \E held \in SUBSET Keys, t \in Samples : Resume(held, t)
         \/ \E l \in Lane : Rebaseline(l)
         \/ UNCHANGED <<engine, keyboard>>
BY DEF PlayNext, Live, Verify, Seek, Feed, RunOut, Rest, play

\* Every step of a play is one of the engine, or none.
LEMMA PlayDrives ==
  ASSUME PlayTypes, [PlayNext]_play
  PROVE  [Next]_engine
<1>1. \A t \in Samples : t \in Int
  BY PlayAssumption DEF Samples
<1>2. ASSUME NEW key \in Keys, NEW t \in Samples, KeyEdge(key, t) \/ CatchUp(key, t)
      PROVE  [Next]_engine
  <2>1. \/ \E state \in States : HandleInput(key[1], state, t) \/ SyncInputState(key[1], state, t)
        \/ UNCHANGED engine
    <3>1. \/ HandleInput(key[1], "Pressed", t) \/ HandleInput(key[1], "Released", t)
          \/ SyncInputState(key[1], "Pressed", t) \/ SyncInputState(key[1], "Released", t)
          \/ UNCHANGED engine
      BY <1>2 DEF KeyEdge, CatchUp
    <3> QED BY <3>1 DEF States
  <2> QED BY <1>1, <2>1, KeyLane DEF Next
<1>3. ASSUME NEW l \in Lane, Rebaseline(l)
      PROVE  [Next]_engine
  <2>1. UNCHANGED engine \/ \E state \in States : SyncInputState(l, state, baseline.at)
    <3>1. \/ UNCHANGED engine
          \/ SyncInputState(l, "Pressed", baseline.at)
          \/ SyncInputState(l, "Released", baseline.at)
      BY <1>3 DEF Rebaseline
    <3> QED BY <3>1 DEF States
  <2> QED BY <2>1 DEF Next, PlayTypes
<1>4. ASSUME NEW t \in Samples, Callback(t)
      PROVE  [Next]_engine
  BY <1>1, <1>4 DEF Callback, Next
<1>5. ASSUME NEW held \in SUBSET Keys, NEW t \in Samples, Resume(held, t)
      PROVE  [Next]_engine
  BY <1>5 DEF Resume
<1> QED BY <1>2, <1>3, <1>4, <1>5, PlayStep DEF Next

\* Every step keeps the types.
LEMMA PlayTypesStep ==
  ASSUME PlayTypes, [PlayNext]_play
  PROVE  PlayTypes'
<1>0. EngineType'
  BY PlayDrives, TypeStep DEF PlayTypes
<1>1. \A t \in Samples : t \in Int
  BY PlayAssumption DEF Samples
<1>2. CASE UNCHANGED keyboard
  BY <1>0, <1>2 DEF keyboard, PlayTypes
<1>3. ASSUME NEW key \in Keys, NEW t \in Samples, KeyEdge(key, t) \/ CatchUp(key, t)
      PROVE  PlayTypes'
  <2>1. UNCHANGED <<frontier, baseline, pauses>> /\ stale' \in {stale, stale + 1}
    BY <1>3 DEF KeyEdge, CatchUp
  <2> QED BY <1>0, <2>1 DEF PlayTypes
<1>4. ASSUME NEW t \in Samples, Callback(t)
      PROVE  PlayTypes'
  BY <1>0, <1>1, <1>4 DEF Callback, PlayTypes
<1>5. ASSUME NEW held \in SUBSET Keys, NEW t \in Samples, Resume(held, t)
      PROVE  PlayTypes'
  <2>1. baseline' = [todo |-> Lane, at |-> t]
    BY <1>5 DEF Resume
  <2>2. baseline' \in [todo: SUBSET Lane, at: Int]
    BY <1>1, <2>1
  <2> QED BY <1>0, <1>5, <2>2 DEF Resume, PlayTypes
<1>6. ASSUME NEW l \in Lane, Rebaseline(l)
      PROVE  PlayTypes'
  <2>1. baseline' = [baseline EXCEPT !.todo = @ \ {l}]
    BY <1>6 DEF Rebaseline
  <2>2. baseline' \in [todo: SUBSET Lane, at: Int]
    BY <2>1 DEF PlayTypes
  <2> QED BY <1>0, <1>6, <2>2 DEF Rebaseline, PlayTypes
<1> QED BY <1>2, <1>3, <1>4, <1>5, <1>6, PlayStep

\* And the play starts with them.
LEMMA PlayTypesInit == ASSUME PlayInit PROVE PlayTypes
<1>1. EngineType
  BY TypeInit DEF PlayInit
<1> QED BY <1>1 DEF PlayInit, PlayTypes

-----------------------------------------------------------------------------
\* An undisturbed play tells the lanes their state once, before its first callback.
Punctual ==
  /\ pauses = 0 /\ stale = 0
  /\ baseline.at = 0 /\ (baseline.todo # {} => frontier = -1)

Chronicle ==
  /\ Charted /\ Undisturbed /\ Late <= 1
  /\ PlayTypes /\ Harmless /\ Punctual /\ OnTime /\ CallTimes

\* Every step of such a play keeps the judgements in order.
LEMMA ChronicleStep ==
  ASSUME Chronicle, [PlayNext]_play
  PROVE  Chronicle'
<1>0. EngineType' /\ PlayTypes' /\ Harmless' /\ [Next]_engine /\ frontier \in Int
  BY PlayDrives, PlayTypesStep, HarmlessStep DEF Chronicle, PlayTypes
<1>1. Charted' /\ Undisturbed' /\ Late <= 1
  BY DEF Chronicle, Charted, Undisturbed
<1>2. SUFFICES Punctual' /\ OnTime' /\ CallTimes'
  BY <1>0, <1>1 DEF Chronicle
<1>3. \A t \in Samples : t \in Nat
  BY PlayAssumption DEF Samples
<1>4. ASSUME UNCHANGED <<engine, frontier>>
      PROVE  OnTime' /\ CallTimes'
  BY <1>4 DEF Chronicle, engine, OnTime, CallTimes, Latest, LastEdge, Bound, Timely, LoggedBy,
              JudgedInOrder, DuesFrom, LaneDuesFrom, MineDue, MissDue, HoldDue, Waiting, Holding,
              NextNote
<1>5. CASE Inside /\ UNCHANGED keyboard
  BY <1>0, <1>5, InsideOnTime DEF Chronicle, PlayTypes, Punctual, keyboard
<1>6. ASSUME NEW key \in Keys, NEW t \in Samples, KeyEdge(key, t)
      PROVE  Punctual' /\ OnTime' /\ CallTimes'
  <2>1. UNCHANGED <<frontier, baseline, pauses, stale>>
    BY <1>6 DEF KeyEdge
  <2>2. frontier <= t
    BY <1>0, <1>3, <1>6, PlayAssumption DEF KeyEdge, InTime, Chronicle, Undisturbed
  <2>3. UNCHANGED engine \/ \E state \in States : HandleInput(key[1], state, t)
    <3>1. \/ UNCHANGED engine
          \/ HandleInput(key[1], "Pressed", t)
          \/ HandleInput(key[1], "Released", t)
      BY <1>6 DEF KeyEdge
    <3> QED BY <3>1 DEF States
  <2>4. OnTime' /\ CallTimes'
    BY <1>0, <1>3, <1>4, <1>6, <2>1, <2>2, <2>3, KeyLane, NewCallOnTime DEF Chronicle, PlayTypes
  <2> QED BY <2>1, <2>4 DEF Chronicle, Punctual
<1>7. ASSUME NEW key \in Keys, NEW t \in Samples, CatchUp(key, t)
      PROVE  FALSE
  BY <1>7 DEF CatchUp, Chronicle, Punctual, Undisturbed
<1>8. ASSUME NEW t \in Samples, Callback(t)
      PROVE  Punctual' /\ OnTime' /\ CallTimes'
  <2>1. /\ UNCHANGED <<baseline, pauses, stale>> /\ baseline.todo = {}
        /\ frontier < t /\ frontier' = t /\ Advance(t)
        /\ \A s \in LastEdge : s <= t
    BY <1>0, <1>3, <1>8 DEF Callback, Playing
  <2>2. OnTime' /\ CallTimes'
    BY <1>0, <1>3, <2>1, AdvanceOnTime DEF Chronicle, PlayTypes
  <2> QED BY <2>1, <2>2 DEF Chronicle, Punctual
<1>9. ASSUME NEW held \in SUBSET Keys, NEW t \in Samples, Resume(held, t)
      PROVE  FALSE
  BY <1>9 DEF Resume, Chronicle, Punctual, Undisturbed
<1>10. ASSUME NEW l \in Lane, Rebaseline(l)
       PROVE  Punctual' /\ OnTime' /\ CallTimes'
  <2>1. /\ baseline' = [baseline EXCEPT !.todo = @ \ {l}]
        /\ UNCHANGED <<frontier, pauses, stale>> /\ l \in baseline.todo
    BY <1>10 DEF Rebaseline
  <2>2. Punctual' /\ frontier <= 0 /\ baseline.at = 0
    BY <2>1 DEF Chronicle, Punctual, PlayTypes
  <2>3. UNCHANGED engine \/ \E state \in States : SyncInputState(l, state, 0)
    <3>1. \/ UNCHANGED engine
          \/ SyncInputState(l, "Pressed", 0)
          \/ SyncInputState(l, "Released", 0)
      BY <1>10, <2>2 DEF Rebaseline
    <3> QED BY <3>1 DEF States
  <2>4. OnTime' /\ CallTimes'
    BY <1>0, <1>4, <2>1, <2>2, <2>3, NewCallOnTime DEF Chronicle, PlayTypes
  <2> QED BY <2>2, <2>4
<1>11. CASE UNCHANGED <<engine, keyboard>>
  BY <1>4, <1>11 DEF keyboard, Chronicle, Punctual
<1> QED BY <1>5, <1>6, <1>7, <1>8, <1>9, <1>10, <1>11, PlayStep

\* The judgements of a play whose inputs do not trail the clock are in the order of the samples that
\* cause them, across lanes, mines, misses and holds, in every chart whose holds
\* outlast the BAD window: advance_chronological keeps up with the key edges.
THEOREM JudgedByTheClock ==
  Charted /\ Undisturbed /\ Late <= 1 /\ PlaySpec => []JudgedInOrder
<1>1. Charted /\ Undisturbed /\ Late <= 1 /\ PlayInit => Chronicle
  <2>1. SUFFICES ASSUME Charted, Undisturbed, Late <= 1, PlayInit PROVE Chronicle
    OBVIOUS
  <2>2. log = <<>> /\ call = Idle /\ ~over
    BY <2>1 DEF PlayInit, Init
  <2>3. OnTime /\ CallTimes /\ Harmless
    BY <2>2 DEF OnTime, CallTimes, Harmless, JudgedInOrder, Idle
  <2>4. Punctual
    BY <2>1 DEF PlayInit, Punctual
  <2> QED BY <2>1, <2>3, <2>4, PlayTypesInit DEF Chronicle
<1>2. Chronicle /\ [PlayNext]_play => Chronicle'
  BY ChronicleStep
<1>3. Chronicle => JudgedInOrder
  BY DEF Chronicle, OnTime
<1> QED BY <1>1, <1>2, <1>3, PTL DEF PlaySpec

-----------------------------------------------------------------------------
\* One key per lane, and a chart without mines.
OneKey == KeysPerLane = 1
Unmined == \A l \in Lane : Mines[l] = <<>>

\* The lane with a hold has its key down, or its release is under way.
Settling(l) ==
  /\ call.stage \in {"automatic", "edge"} /\ call.kind \in {"input", "sync"}
  /\ call.lane = l /\ call.state = "Released"

Fingers ==
  /\ down \subseteq Keys /\ owner \in [Lane -> {0, 1}]
  /\ \A l \in Lane : owner[l] = 1 => <<l, 1>> \in down

Grip ==
  /\ ~Ended => \A l \in Lane : Holding(l) => owner[l] = 1 \/ l \in baseline.todo \/ Settling(l)
  /\ call.kind = "input" =>
       /\ baseline.todo = {}
       /\ call.state = "Pressed" => owner[call.lane] = 1 /\ ~Holding(call.lane)
  /\ call.stage = "idle" => call.kind = "none"
  /\ call.stage \in {"mines", "hit"} => call.kind = "input"
  /\ call.stage = "hit" => call.state = "Pressed"

\* A sync call may find the key up under a hold only where a mine put it up.
Aware ==
  /\ Unmined =>
       /\ \A l \in Lane : Holding(l) => lanes[l].down
       /\ call.stage \in {"mines", "hit"} /\ call.state = "Pressed" => lanes[call.lane].down
  /\ Undisturbed =>
       /\ pauses = 0 /\ stale = 0
       /\ baseline.todo # {} \/ call.kind = "sync" => \A l \in Lane : ~Holding(l)

\* Every head in the log is held or has its tail.
Heads ==
  \A e \in Entries : e \in Logged /\ e.part = "head" =>
    /\ e.note # 0
    /\ Notes[e.lane][e.note].kind # "tap" =>
         \/ lanes[e.lane].hold.note = e.note
         \/ \E f \in Logged : f.part = "tail" /\ f.lane = e.lane /\ f.note = e.note

\* Steps of a call that at most end holds.
LEMMA GripKept ==
  ASSUME EngineType, Grip, Aware, UNCHANGED keyboard,
         \A m \in Lane : lanes'[m].hold.note \in {lanes[m].hold.note, 0},
         Unmined => \A m \in Lane : lanes[m].down => lanes'[m].down,
         ~Ended' => ~Ended /\ \A m \in Lane : Settling(m) => Settling(m)' \/ ~Holding(m)',
         \/ call' = Idle
         \/ /\ call'.kind = call.kind /\ call'.lane = call.lane /\ call'.state = call.state
            /\ call'.stage # "idle"
            /\ call'.stage \in {"mines", "hit"} => call.stage \in {"mines", "hit"}
            /\ call'.stage = "hit" => call.state = "Pressed"
  PROVE  Grip' /\ Aware'
<1>1. \A m \in Lane : Holding(m)' => Holding(m)
  BY DEF Holding
<1>2. UNCHANGED <<owner, baseline, pauses, stale>>
  BY DEF keyboard
<1>3. call'.kind = "input" => call.kind = "input" /\ call.lane \in Lane
  BY DEF Idle, EngineType
<1>4. call'.stage \in {"mines", "hit"} => call.kind = "input"
  BY DEF Idle, Grip
<1>5. Grip'
  BY <1>1, <1>2, <1>3, <1>4 DEF Grip, Idle, Ended
<1>6. Aware'
  BY <1>1, <1>2, <1>3, <1>4 DEF Aware, Idle, Unmined, Undisturbed
<1> QED BY <1>5, <1>6

\* With neither a head nor the end of a hold, nothing is left open.
LEMMA HeadsKept ==
  ASSUME EngineType, EngineType', Heads,
         \/ log' = log
         \/ \E e \in Entries :
              /\ log' = Append(log, e)
              /\ e.part = "head" => e.note # 0 /\ (\/ Notes[e.lane][e.note].kind = "tap"
                                                    \/ lanes'[e.lane].hold.note = e.note),
         \A l \in Lane :
           \/ lanes'[l].hold.note = lanes[l].hold.note
           \/ lanes[l].hold.note = 0
           \/ \E e \in Entries : /\ log' = Append(log, e) /\ e.part = "tail"
                                 /\ e.lane = l /\ e.note = lanes[l].hold.note
  PROVE  Heads'
<1>1. Logged \subseteq Logged' /\ \A e \in Entries : log' = Append(log, e) => Logged' = Logged \cup {e}
  <2>1. \A e \in Entries : log' = Append(log, e) => Logged' = Logged \cup {e}
    BY LogGrows
  <2>2. log' = log => Logged' = Logged
    BY DEF Logged
  <2> QED BY <2>1, <2>2
<1>2. ASSUME NEW g \in Entries, g \in Logged', g.part = "head"
      PROVE  /\ g.note # 0
             /\ Notes[g.lane][g.note].kind # "tap" =>
                  \/ lanes'[g.lane].hold.note = g.note
                  \/ \E f \in Logged' : f.part = "tail" /\ f.lane = g.lane /\ f.note = g.note
  <2>1. CASE g \in Logged
    <3>1. /\ g.note # 0
          /\ Notes[g.lane][g.note].kind # "tap" =>
               \/ lanes[g.lane].hold.note = g.note
               \/ \E f \in Logged : f.part = "tail" /\ f.lane = g.lane /\ f.note = g.note
      BY <1>2, <2>1 DEF Heads
    <3>2. g.lane \in Lane
      BY <1>2 DEF Entries
    <3>3. CASE \E e \in Entries : /\ log' = Append(log, e) /\ e.part = "tail"
                                  /\ e.lane = g.lane /\ e.note = lanes[g.lane].hold.note
      <4>1. PICK e \in Entries : /\ log' = Append(log, e) /\ e.part = "tail"
                                 /\ e.lane = g.lane /\ e.note = lanes[g.lane].hold.note
        BY <3>3
      <4>2. e \in Logged'
        BY <1>1, <4>1
      <4> QED BY <1>1, <3>1, <4>1, <4>2
    <3>4. CASE lanes'[g.lane].hold.note = lanes[g.lane].hold.note \/ lanes[g.lane].hold.note = 0
      BY <1>1, <3>1, <3>4
    <3> QED BY <3>2, <3>3, <3>4
  <2>2. CASE g \notin Logged
    <3>1. log' # log
      BY <1>2, <2>2 DEF Logged
    <3>2. PICK e \in Entries :
              /\ log' = Append(log, e)
              /\ e.part = "head" => e.note # 0 /\ (\/ Notes[e.lane][e.note].kind = "tap"
                                                    \/ lanes'[e.lane].hold.note = e.note)
      BY <3>1
    <3>3. g = e
      BY <1>1, <1>2, <2>2, <3>2
    <3> QED BY <1>2, <3>2, <3>3
  <2> QED BY <2>1, <2>2
<1> QED BY <1>2 DEF Heads

\* A judgement adds an entry for its note and its part.
LEMMA JudgedEntry ==
  ASSUME EngineType, NEW l \in Lane, NEW note \in Nat, NEW part \in Parts,
         NEW grade \in Grades, NEW halves, NEW now \in Int,
         Judge(l, note, part, grade, halves, now)
  PROVE  \E e \in Entries : log' = Append(log, e) /\ e.lane = l /\ e.note = note /\ e.part = part
<1> DEFINE e == [lane |-> l, note |-> note, part |-> part, grade |-> grade, due |-> now]
<1>1. e \in Entries /\ e.lane = l /\ e.note = note /\ e.part = part
  BY DEF Entries
<1>2. log' = Append(log, e)
  BY DEF Judge
<1> QED BY <1>1, <1>2

\* What the pieces of the steps do to holds, keys and log.
LEMMA GiveUpHolds ==
  ASSUME EngineType, EngineType', NEW l \in Lane, NEW now \in Int, NEW mask, GiveUpNote(l, now, mask)
  PROVE  /\ \A m \in Lane : lanes'[m].hold = lanes[m].hold /\ (lanes[m].down => lanes'[m].down)
         /\ \E e \in Entries : log' = Append(log, e) /\ e.part # "head"
<1>1. lanes' = [lanes EXCEPT ![l].next = @ + 1, ![l].mask = mask]
  BY DEF GiveUpNote
<1>2. /\ lanes'[l].hold = lanes[l].hold /\ (lanes[l].down => lanes'[l].down)
      /\ \A m \in Lane : m # l => lanes'[m] = lanes[m]
  BY <1>1 DEF EngineType, LaneStates
<1>3. lanes[l].next \in Nat /\ "missed" \in Parts /\ MissGrade \in Grades
  BY EngineAssumption, LaneNumbers DEF Parts, Grades
<1>4. Judge(l, lanes[l].next, "missed", MissGrade, 2, now)
  BY DEF GiveUpNote
<1>5. \E e \in Entries : log' = Append(log, e) /\ e.part = "missed"
  BY <1>3, <1>4, JudgedEntry
<1> QED BY <1>2, <1>5

\* A mine takes no hold away.
LEMMA PassMineHolds ==
  ASSUME EngineType, EngineType', NEW l \in Lane, NEW now \in Int, PassMine(l, now)
  PROVE  /\ \A m \in Lane : lanes'[m].hold = lanes[m].hold
         /\ log' = log \/ \E e \in Entries : log' = Append(log, e) /\ e.part # "head"
<1>1. \/ lanes' = [lanes EXCEPT ![l].mine = @ + 1, ![l].down = FALSE]
      \/ lanes' = [lanes EXCEPT ![l].mine = @ + 1]
  BY DEF PassMine
<1>2. lanes'[l].hold = lanes[l].hold /\ \A m \in Lane : m # l => lanes'[m] = lanes[m]
  <2>1. lanes \in [Lane -> LaneStates]
    BY DEF EngineType
  <2>2. CASE lanes' = [lanes EXCEPT ![l].mine = @ + 1, ![l].down = FALSE]
    BY <2>1, <2>2 DEF LaneStates
  <2>3. CASE lanes' = [lanes EXCEPT ![l].mine = @ + 1]
    BY <2>1, <2>3 DEF LaneStates
  <2> QED BY <1>1, <2>2, <2>3
<1> DEFINE e == [lane |-> l, note |-> lanes[l].mine, part |-> "mine", grade |-> "none",
                 due |-> now]
<1>3. e \in Entries /\ e.part # "head" /\ (log' = log \/ log' = Append(log, e))
  BY LaneNumbers DEF Entries, Parts, PassMine
<1> QED BY <1>2, <1>3

\* A settled hold leaves its tail.
LEMMA SettleHolds ==
  ASSUME EngineType, EngineType', NEW l \in Lane, NEW grade \in Grades, NEW now \in Int,
         NEW pressed \in BOOLEAN, SettleHold(l, grade, now, pressed)
  PROVE  /\ \A m \in Lane : m # l => lanes'[m] = lanes[m]
         /\ lanes'[l].hold.note = 0
         /\ \E e \in Entries : /\ log' = Append(log, e) /\ e.part = "tail" /\ e.lane = l
                               /\ e.note = lanes[l].hold.note
<1>1. lanes' = [lanes EXCEPT ![l].hold = NoHold, ![l].down = pressed]
  BY DEF SettleHold
<1>2. /\ \A m \in Lane : m # l => lanes'[m] = lanes[m]
      /\ lanes'[l].hold.note = 0
  BY <1>1 DEF EngineType, LaneStates, NoHold
<1>3. lanes[l].hold.note \in Nat /\ "tail" \in Parts
  BY LaneNumbers DEF Parts
<1>4. Judge(l, lanes[l].hold.note, "tail", grade, 1, now)
  BY DEF SettleHold
<1>5. \E e \in Entries : /\ log' = Append(log, e) /\ e.part = "tail" /\ e.lane = l
                          /\ e.note = lanes[l].hold.note
  BY <1>3, <1>4, JudgedEntry
<1> QED BY <1>2, <1>5

\* A key edge settles the hold it releases and leaves every other alone.
LEMMA ApplyEdgeHolds ==
  ASSUME EngineType, EngineType', ~over => Heads, call.lane \in Lane, ApplyEdge
  PROVE  /\ \A m \in Lane : m # call.lane => lanes'[m] = lanes[m]
         /\ call.state = "Pressed" => lanes'[call.lane].down
         /\ call.state = "Released" => lanes'[call.lane].hold.note = 0
         /\ lanes'[call.lane].hold.note \in {lanes[call.lane].hold.note, 0}
         /\ ~over => Heads'
<1> DEFINE l == call.lane
<1>1. CASE call.state = "Released" /\ Holding(l)
  <2>1. lanes[l].hold \in Holds /\ call.at \in Int
    BY DEF EngineType, LaneStates, Calls
  <2>2. TailGrade(lanes[l].hold, call.at) \in Grades
    BY <2>1, TailGradeType
  <2>3. SettleHold(l, TailGrade(lanes[l].hold, call.at), call.at, FALSE)
    BY <1>1 DEF ApplyEdge
  <2>4. /\ \A m \in Lane : m # l => lanes'[m] = lanes[m]
        /\ lanes'[l].hold.note = 0
        /\ \E e \in Entries : /\ log' = Append(log, e) /\ e.part = "tail" /\ e.lane = l
                              /\ e.note = lanes[l].hold.note
    BY <2>1, <2>2, <2>3, SettleHolds
  <2>5. ~over => Heads'
    BY <2>4, HeadsKept
  <2> QED BY <1>1, <2>4, <2>5
<1>2. CASE ~(call.state = "Released" /\ Holding(l))
  <2>1. log' = log /\ lanes' = [lanes EXCEPT ![l].down = (call.state = "Pressed")]
    BY <1>2 DEF ApplyEdge
  <2>2. /\ \A m \in Lane : m # l => lanes'[m] = lanes[m]
        /\ lanes'[l].hold = lanes[l].hold /\ (call.state = "Pressed" => lanes'[l].down)
    BY <2>1 DEF EngineType, LaneStates
  <2>3. ~over => Heads'
    BY <2>1, <2>2, HeadsKept
  <2> QED BY <1>2, <2>2, <2>3 DEF Holding
<1> QED BY <1>1, <1>2

\* No step of a call leaves a hold open.
LEMMA InsideSettles ==
  ASSUME EngineType, EngineType', Grip, Aware, ~over => Heads, Unmined \/ Undisturbed,
         Inside, UNCHANGED keyboard
  PROVE  Grip' /\ Aware' /\ (~over' => Heads')
<1>1. call \in Calls /\ call.at \in Int
  BY DEF EngineType, Calls
<1>2. over => over'
  BY OverStays DEF Next
<1>3. UNCHANGED <<owner, baseline, pauses, stale>>
  BY DEF keyboard
<1>4. ASSUME NEW l \in Lane, AutoMine(l) \/ AutoMiss(l) \/ AutoHold(l)
      PROVE  Grip' /\ Aware' /\ (~over' => Heads')
  <2>1. UNCHANGED <<call, finished>> /\ call.stage = "automatic"
    BY <1>4 DEF AutoMine, AutoMiss, AutoHold, Automatic
  <2>2. /\ \A m \in Lane : lanes'[m].hold.note \in {lanes[m].hold.note, 0}
        /\ Unmined => \A m \in Lane : lanes[m].down => lanes'[m].down
        /\ ~over => Heads'
    <3>1. CASE AutoMine(l)
      <4>1. lanes[l].mine <= Len(Mines[l]) /\ PassMine(l, Mines[l][lanes[l].mine].at)
        BY <3>1 DEF AutoMine, Automatic, Due, MineDue
      <4>2. Mines[l][lanes[l].mine].at \in Int
        BY <4>1, MineType
      <4>3. ~Unmined
        BY <4>1, LaneNumbers DEF Unmined
      <4>4. /\ \A m \in Lane : lanes'[m].hold = lanes[m].hold
            /\ log' = log \/ \E e \in Entries : log' = Append(log, e) /\ e.part # "head"
        BY <4>1, <4>2, PassMineHolds
      <4>5. ~over => Heads'
        BY <4>4, HeadsKept
      <4> QED BY <4>3, <4>4, <4>5
    <3>2. CASE AutoMiss(l)
      <4>1. Waiting(l) /\ GiveUpNote(l, NextNote(l).start + Miss + 1, NextNote(l).start + Mask)
        BY <3>2 DEF AutoMiss, Automatic, Due, MissDue
      <4>2. NextNote(l).start + Miss + 1 \in Int
        BY <4>1, NoteStart, Windows
      <4>3. /\ \A m \in Lane : lanes'[m].hold = lanes[m].hold /\ (lanes[m].down => lanes'[m].down)
            /\ \E e \in Entries : log' = Append(log, e) /\ e.part # "head"
        BY <4>1, <4>2, GiveUpHolds
      <4>4. ~over => Heads'
        BY <4>3, HeadsKept
      <4> QED BY <4>3, <4>4
    <3>3. CASE AutoHold(l)
      <4>1. lanes[l].hold.end \in Int /\ lanes[l].hold.end + HoldBreak + 1 \in Int
        <5>1. lanes[l].hold \in Holds
          BY DEF EngineType, LaneStates
        <5>2. lanes[l].hold.end \in Int
          BY <5>1 DEF Holds
        <5> QED BY <5>2, Windows
      <4>2. \E grade \in Grades, now \in Int : SettleHold(l, grade, now, lanes[l].down)
        <5>1. {"BD", "PG"} \subseteq Grades
          BY DEF Grades
        <5> QED BY <3>3, <4>1, <5>1 DEF AutoHold
      <4>3. lanes[l].down \in BOOLEAN
        BY DEF EngineType, LaneStates
      <4>4. /\ \A m \in Lane : m # l => lanes'[m] = lanes[m]
            /\ lanes'[l].hold.note = 0
            /\ \E e \in Entries : /\ log' = Append(log, e) /\ e.part = "tail" /\ e.lane = l
                                  /\ e.note = lanes[l].hold.note
        BY <4>2, <4>3, SettleHolds
      <4>5. lanes[l].down => lanes'[l].down
        <5>1. lanes' = [lanes EXCEPT ![l].hold = NoHold, ![l].down = lanes[l].down]
          BY <4>2 DEF SettleHold
        <5> QED BY <5>1 DEF EngineType, LaneStates, NoHold
      <4>6. ~over => Heads'
        BY <4>4, HeadsKept
      <4> QED BY <4>4, <4>5, <4>6
    <3> QED BY <1>4, <3>1, <3>2, <3>3
  <2>3. Grip' /\ Aware'
    <3>1. ~Ended' => ~Ended /\ \A m \in Lane : Settling(m) => Settling(m)' \/ ~Holding(m)'
      BY <1>2, <2>1 DEF Ended, Settling
    <3>2. /\ call'.kind = call.kind /\ call'.lane = call.lane /\ call'.state = call.state
          /\ call'.stage = "automatic"
      BY <2>1
    <3> QED BY <2>2, <3>1, <3>2, GripKept
  <2> QED BY <1>2, <2>2, <2>3
<1>5. CASE Finalize
  <2>1. /\ UNCHANGED <<lanes, log, over>> /\ (finished => finished') /\ call.stage = "automatic"
        /\ call' = Idle \/ call' = [call EXCEPT !.stage = "edge"]
    BY <1>5 DEF Finalize
  <2>2. \/ call' = Idle /\ (Ended' \/ call.kind = "advance")
        \/ /\ call'.kind = call.kind /\ call'.lane = call.lane /\ call'.state = call.state
           /\ call'.stage = "edge"
    <3>1. call' = Idle => Ended' \/ call.kind = "advance"
      BY <1>5 DEF Finalize, Ended, Idle
    <3>2. call' = [call EXCEPT !.stage = "edge"] =>
            /\ call'.kind = call.kind /\ call'.lane = call.lane /\ call'.state = call.state
            /\ call'.stage = "edge"
      BY <1>1 DEF Calls
    <3> QED BY <2>1, <3>1, <3>2
  <2>3. ~Ended' => ~Ended /\ \A m \in Lane : Settling(m) => Settling(m)' \/ ~Holding(m)'
    BY <2>1, <2>2 DEF Ended, Settling
  <2>4. Grip' /\ Aware'
    BY <2>1, <2>2, <2>3, GripKept
  <2>5. ~over' => Heads'
    BY <2>1, HeadsKept
  <2> QED BY <2>4, <2>5
<1>6. CASE InputEdge
  <2>1. /\ ApplyEdge /\ call.stage = "edge" /\ call.kind = "input" /\ call.lane \in Lane
        /\ call' = [call EXCEPT !.stage = "mines"] /\ finished' = finished
    BY <1>6 DEF InputEdge, EngineType
  <2>2. /\ \A m \in Lane : m # call.lane => lanes'[m] = lanes[m]
        /\ call.state = "Pressed" => lanes'[call.lane].down
        /\ call.state = "Released" => lanes'[call.lane].hold.note = 0
        /\ lanes'[call.lane].hold.note \in {lanes[call.lane].hold.note, 0}
        /\ ~over => Heads'
    BY <2>1, ApplyEdgeHolds
  <2>3. call'.kind = "input" /\ call'.lane = call.lane /\ call'.state = call.state
        /\ call'.stage = "mines"
    BY <1>1, <2>1 DEF Calls
  <2>4. \A m \in Lane : Holding(m)' => Holding(m)
    BY <2>2 DEF Holding
  <2>5. call.state \in {"Pressed", "Released"}
    BY <1>1 DEF Calls, States
  <2>6. \A m \in Lane : Settling(m) => ~Holding(m)'
    BY <2>2 DEF Settling, Holding
  <2>7. ~Ended' => ~Ended
    BY <1>2, <2>1 DEF Ended
  <2>8. Grip'
    <3>1. call'.state = "Pressed" => owner'[call'.lane] = 1 /\ ~Holding(call.lane)'
      <4>1. SUFFICES ASSUME call.state = "Pressed"
                     PROVE  owner[call.lane] = 1 /\ lanes'[call.lane].hold.note = 0
        BY <1>3, <2>3 DEF Holding
      <4>2. owner[call.lane] = 1 /\ lanes[call.lane].hold.note = 0
        BY <2>1, <4>1 DEF Grip, Holding
      <4> QED BY <2>2, <4>2
    <3> QED BY <1>3, <2>1, <2>3, <2>4, <2>6, <2>7, <3>1 DEF Grip
  <2>9. Aware'
    <3>1. Unmined => \A m \in Lane : Holding(m)' => lanes'[m].down
      BY <2>2, <2>4, <2>5 DEF Aware, Holding
    <3>2. Unmined' = Unmined /\ Undisturbed' = Undisturbed
      BY DEF Unmined, Undisturbed
    <3> QED BY <1>3, <2>1, <2>2, <2>3, <2>4, <3>1, <3>2 DEF Aware
  <2> QED BY <1>2, <2>2, <2>8, <2>9
<1>7. CASE SyncEdge
  <2>1. /\ call.stage = "edge" /\ call.kind = "sync" /\ call.lane \in Lane
        /\ call' = Idle /\ finished' = finished
    BY <1>7 DEF SyncEdge, EngineType
  <2>2. call.state \in {"Pressed", "Released"}
    BY <1>1 DEF Calls, States
  <2>3. CASE ApplyEdge
    <3>1. /\ \A m \in Lane : m # call.lane => lanes'[m] = lanes[m]
          /\ call.state = "Pressed" => lanes'[call.lane].down
          /\ call.state = "Released" => lanes'[call.lane].hold.note = 0
          /\ lanes'[call.lane].hold.note \in {lanes[call.lane].hold.note, 0}
          /\ ~over => Heads'
      BY <2>1, <2>3, ApplyEdgeHolds
    <3>2. \A m \in Lane : (Holding(m)' => Holding(m)) /\ (Settling(m) => ~Holding(m)')
      BY <3>1 DEF Holding, Settling
    <3>3. Grip'
      BY <1>2, <1>3, <2>1, <3>2 DEF Grip, Ended, Idle
    <3>4. Aware'
      <4>1. Unmined => \A m \in Lane : Holding(m)' => lanes'[m].down
        BY <2>2, <3>1, <3>2 DEF Aware, Holding
      <4>2. Unmined' = Unmined /\ Undisturbed' = Undisturbed
        BY DEF Unmined, Undisturbed
      <4> QED BY <1>3, <2>1, <3>2, <4>1, <4>2 DEF Aware, Idle
    <3> QED BY <1>2, <3>1, <3>3, <3>4
  <2>4. CASE /\ UNCHANGED <<lanes, gauge, log, replay, over>>
             /\ lanes[call.lane].down = (call.state = "Pressed")
    <3>1. \A m \in Lane : Settling(m) => ~Holding(m)
      <4>1. SUFFICES ASSUME call.state = "Released" PROVE ~Holding(call.lane)
        BY DEF Settling
      <4>2. ~lanes[call.lane].down
        BY <2>4, <4>1
      <4> QED BY <2>1, <4>2 DEF Aware
    <3>2. \A m \in Lane : Holding(m)' <=> Holding(m)
      BY <2>4 DEF Holding
    <3>3. Grip'
      BY <1>3, <2>1, <2>4, <3>1, <3>2 DEF Grip, Ended, Idle
    <3>4. Aware'
      <4>1. Unmined' = Unmined /\ Undisturbed' = Undisturbed
        BY DEF Unmined, Undisturbed
      <4> QED BY <1>3, <2>1, <2>4, <3>2, <4>1 DEF Aware, Idle
    <3>5. ~over' => Heads'
      BY <2>4, HeadsKept
    <3> QED BY <3>3, <3>4, <3>5
  <2> QED BY <1>7, <2>3, <2>4 DEF SyncEdge
<1>8. CASE EdgeMine
  <2>1. /\ PassMine(call.lane, call.at) /\ call.stage = "mines" /\ call.lane \in Lane
        /\ call' = [call EXCEPT !.blown = @ \/ lanes[call.lane].down] /\ finished' = finished
        /\ lanes[call.lane].mine <= Len(Mines[call.lane])
    BY <1>8 DEF EdgeMine, MineAtEdge, EngineType
  <2>2. ~Unmined
    BY <2>1, LaneNumbers DEF Unmined
  <2>3. /\ \A m \in Lane : lanes'[m].hold = lanes[m].hold
        /\ log' = log \/ \E e \in Entries : log' = Append(log, e) /\ e.part # "head"
    BY <1>1, <2>1, PassMineHolds
  <2>4. /\ call'.kind = call.kind /\ call'.lane = call.lane /\ call'.state = call.state
        /\ call'.stage = "mines"
    BY <1>1, <2>1 DEF Calls
  <2>5. ~Ended' => ~Ended /\ \A m \in Lane : Settling(m) => Settling(m)' \/ ~Holding(m)'
    BY <1>2, <2>1 DEF Ended, Settling
  <2>6. Grip' /\ Aware'
    BY <2>1, <2>2, <2>3, <2>4, <2>5, GripKept
  <2>7. ~over => Heads'
    BY <2>3, HeadsKept
  <2> QED BY <1>2, <2>6, <2>7
<1>9. CASE EdgeDone
  <2>1. /\ UNCHANGED <<lanes, log, finished, over>> /\ call.stage = "mines"
        /\ \/ call' = Idle
           \/ call' = [call EXCEPT !.stage = "hit"] /\ call.state # "Released"
    BY <1>9 DEF EdgeDone
  <2>2. \/ call' = Idle
        \/ /\ call'.kind = call.kind /\ call'.lane = call.lane /\ call'.state = call.state
           /\ call'.stage = "hit" /\ call.state = "Pressed"
    BY <1>1, <2>1 DEF Calls, States
  <2>3. ~Ended' => ~Ended /\ \A m \in Lane : Settling(m) => Settling(m)' \/ ~Holding(m)'
    BY <2>1 DEF Ended, Settling
  <2>4. Grip' /\ Aware'
    BY <2>1, <2>2, <2>3, GripKept
  <2>5. ~over => Heads'
    BY <2>1, HeadsKept
  <2> QED BY <1>2, <2>4, <2>5
<1>10. ASSUME NEW l \in Lane, Skip(l)
       PROVE  Grip' /\ Aware' /\ (~over' => Heads')
  <2>1. /\ GiveUpNote(l, call.at, Later(lanes[l].mask, NextNote(l).start + Mask))
        /\ call.stage = "hit" /\ finished' = finished
        /\ call' = Idle \/ call' = [call EXCEPT !.gaveUp = TRUE]
    BY <1>10 DEF Skip
  <2>2. /\ \A m \in Lane : lanes'[m].hold = lanes[m].hold /\ (lanes[m].down => lanes'[m].down)
        /\ \E e \in Entries : log' = Append(log, e) /\ e.part # "head"
    BY <1>1, <2>1, GiveUpHolds
  <2>3. \/ call' = Idle
        \/ /\ call'.kind = call.kind /\ call'.lane = call.lane /\ call'.state = call.state
           /\ call'.stage = "hit"
    BY <1>1, <2>1 DEF Calls
  <2>4. ~Ended' => ~Ended /\ \A m \in Lane : Settling(m) => Settling(m)' \/ ~Holding(m)'
    BY <1>2, <2>1 DEF Ended, Settling
  <2>5. Grip' /\ Aware'
    BY <2>1, <2>2, <2>3, <2>4, GripKept DEF Grip
  <2>6. ~over => Heads'
    BY <2>2, HeadsKept
  <2> QED BY <1>2, <2>5, <2>6
<1>11. ASSUME NEW l \in Lane, NoHit(l)
       PROVE  Grip' /\ Aware' /\ (~over' => Heads')
  <2>1. call' = Idle /\ call.stage = "hit" /\ finished' = finished
    BY <1>11 DEF NoHit
  <2>2. /\ \A m \in Lane : lanes'[m].hold = lanes[m].hold /\ (lanes[m].down => lanes'[m].down)
        /\ log' = log \/ \E e \in Entries : log' = Append(log, e) /\ e.part # "head"
    <3>1. CASE StrayPress(l)
      <4>1. Judge(l, 0, "poor", "PR", 2, call.at) /\ lanes' = [lanes EXCEPT ![l].mask = call.at + Mask]
        BY <1>11, <3>1 DEF NoHit
      <4>2. /\ lanes'[l].hold = lanes[l].hold /\ (lanes[l].down => lanes'[l].down)
            /\ \A m \in Lane : m # l => lanes'[m] = lanes[m]
        BY <4>1 DEF EngineType, LaneStates
      <4> DEFINE e == [lane |-> l, note |-> 0, part |-> "poor", grade |-> "PR", due |-> call.at]
      <4>3. e \in Entries /\ e.part # "head" /\ log' = Append(log, e)
        BY <1>1, <4>1 DEF Entries, Parts, Grades, Judge
      <4>4. \E f \in Entries : log' = Append(log, f) /\ f.part # "head"
        BY <4>3
      <4> QED BY <4>2, <4>4
    <3>2. CASE ~StrayPress(l)
      BY <1>11, <3>2 DEF NoHit
    <3> QED BY <3>1, <3>2
  <2>3. ~Ended' => ~Ended /\ \A m \in Lane : Settling(m) => Settling(m)' \/ ~Holding(m)'
    BY <1>2, <2>1 DEF Ended, Settling
  <2>4. Grip' /\ Aware'
    BY <2>1, <2>2, <2>3, GripKept
  <2>5. ~over => Heads'
    BY <2>2, HeadsKept
  <2> QED BY <1>2, <2>4, <2>5
<1>12. ASSUME NEW l \in Lane, Hit(l)
       PROVE  Grip' /\ Aware' /\ (~over' => Heads')
  <2> DEFINE note == NextNote(l)
  <2>1. call' = Idle /\ call.stage = "hit" /\ l = call.lane /\ finished' = finished /\ Waiting(l)
    BY <1>12 DEF Hit
  <2>2. owner[l] = 1 /\ ~Holding(l) /\ baseline.todo = {} /\ (Unmined => lanes[l].down)
    BY <2>1 DEF Grip, Aware
  <2>3. lanes' = [lanes EXCEPT ![l].next = @ + 1,
                    ![l].hold = IF note.kind = "tap" \/ over' THEN @
                                ELSE [note |-> lanes[l].next, end |-> note.end,
                                      kind |-> note.kind]]
    BY <1>12 DEF Hit
  <2>4. /\ lanes'[l].hold = (IF note.kind = "tap" \/ over' THEN lanes[l].hold
                            ELSE [note |-> lanes[l].next, end |-> note.end, kind |-> note.kind])
        /\ lanes[l].down => lanes'[l].down
        /\ \A m \in Lane : m # l => lanes'[m] = lanes[m]
    BY <2>3 DEF EngineType, LaneStates
  <2>5. Grip'
    BY <1>2, <1>3, <2>1, <2>2, <2>4 DEF Grip, Ended, Idle, Holding, Settling
  <2>6. Aware'
    <3>1. Unmined' = Unmined /\ Undisturbed' = Undisturbed
      BY DEF Unmined, Undisturbed
    <3> QED BY <1>3, <2>1, <2>2, <2>4, <3>1 DEF Aware, Idle, Holding
  <2>7. ~over' => Heads'
    <3>1. SUFFICES ASSUME ~over' PROVE Heads'
      OBVIOUS
    <3>2. note \in ChartNotes
      BY <2>1, NoteType
    <3>3. Grade(call.at - note.start) \in Grades /\ lanes[l].next \in Nat \ {0} /\ "head" \in Parts
      BY <1>1, <3>2, GradeType, LaneNumbers DEF ChartNotes, Parts
    <3>4. \E halves : Judge(l, lanes[l].next, "head", Grade(call.at - note.start), halves, call.at)
      BY <1>12 DEF Hit
    <3>5. PICK e \in Entries : /\ log' = Append(log, e) /\ e.lane = l
                               /\ e.note = lanes[l].next /\ e.part = "head"
      BY <1>1, <3>3, <3>4, JudgedEntry
    <3>6. Notes[e.lane][e.note] = note
      BY <3>5 DEF NextNote
    <3>7. Notes[e.lane][e.note].kind = "tap" \/ lanes'[e.lane].hold.note = e.note
      BY <2>4, <3>1, <3>5, <3>6
    <3>8. lanes[l].hold.note = 0
      BY <2>2 DEF Holding
    <3> QED BY <1>2, <2>4, <3>1, <3>3, <3>5, <3>7, <3>8, HeadsKept
  <2> QED BY <2>5, <2>6, <2>7
<1> QED BY <1>4, <1>5, <1>6, <1>7, <1>8, <1>9, <1>10, <1>11, <1>12 DEF Inside

\* A play with one key per lane, without mines or without pauses and stale edges.
Orderly ==
  /\ OneKey /\ (Unmined \/ Undisturbed)
  /\ PlayTypes /\ Fingers /\ Grip /\ Aware /\ (~over => Heads)

\* The only key of a lane.
LEMMA TheKey ==
  ASSUME OneKey, NEW key \in Keys
  PROVE  key[1] \in Lane /\ key = <<key[1], 1>> /\ key[2] = 1
BY DEF OneKey, Keys

\* A new call finds every hold in hand, or its release takes the hold along.
LEMMA NewCallSettles ==
  ASSUME EngineType, EngineType', Grip, Aware, ~over => Heads,
         NEW l \in Lane, NEW state \in States, NEW t \in Int,
         \/ HandleInput(l, state, t) /\ baseline.todo = {}
         \/ SyncInputState(l, state, t) /\ (Undisturbed => \A m \in Lane : ~Holding(m)),
         state = "Pressed" => owner'[l] = 1,
         HandleInput(l, state, t) /\ state = "Pressed" => ~Holding(l),
         \A m \in Lane : m # l => owner'[m] = owner[m],
         baseline'.todo \in {baseline.todo, baseline.todo \ {l}},
         Undisturbed => pauses' = pauses /\ stale' = stale
  PROVE  Grip' /\ Aware' /\ (~over' => Heads')
<1>1. /\ call.stage = "idle" /\ ~Ended /\ UNCHANGED <<lanes, log, finished, over>>
  BY DEF HandleInput, SyncInputState
<1>2. /\ call'.kind \in {"input", "sync"} /\ call'.stage = "automatic"
      /\ call'.lane = l /\ call'.state = state
      /\ call'.kind = "input" => HandleInput(l, state, t) /\ baseline.todo = {}
      /\ call'.kind = "sync" /\ Undisturbed => \A m \in Lane : ~Holding(m)
  BY DEF HandleInput, SyncInputState, Idle
<1>3. \A m \in Lane : Holding(m)' <=> Holding(m)
  BY <1>1 DEF Holding
<1>4. state \in {"Pressed", "Released"}
  BY DEF States
<1>5. \A m \in Lane : Holding(m) => owner[m] = 1 \/ m \in baseline.todo
  BY <1>1 DEF Grip, Settling
<1>6. \A m \in Lane : Holding(m)' => owner'[m] = 1 \/ m \in baseline'.todo \/ Settling(m)'
  <2>1. ASSUME NEW m \in Lane, Holding(m)', m # l
        PROVE  owner'[m] = 1 \/ m \in baseline'.todo
    BY <1>3, <1>5, <2>1
  <2>2. ASSUME Holding(l)'
        PROVE  owner'[l] = 1 \/ Settling(l)'
    BY <1>2, <1>4 DEF Settling
  <2> QED BY <2>1, <2>2
<1>7. call'.kind = "input" => /\ baseline'.todo = {}
                              /\ call'.state = "Pressed" => owner'[l] = 1 /\ ~Holding(l)'
  BY <1>2, <1>3
<1>8. Grip'
  <2>1. call'.kind = "input" =>
          (call.state = "Pressed" => owner[call.lane] = 1 /\ ~Holding(call.lane))'
    BY <1>2, <1>7 DEF Holding
  <2> QED BY <1>2, <1>6, <1>7, <2>1 DEF Grip
<1>9. Aware'
  <2>1. Unmined' = Unmined /\ Undisturbed' = Undisturbed
    BY DEF Unmined, Undisturbed
  <2>2. Undisturbed => /\ pauses' = 0 /\ stale' = 0
                       /\ baseline'.todo # {} \/ call'.kind = "sync" => \A m \in Lane : ~Holding(m)'
    <3>1. SUFFICES ASSUME Undisturbed
                   PROVE  /\ pauses' = 0 /\ stale' = 0
                          /\ baseline'.todo # {} \/ call'.kind = "sync" => \A m \in Lane : ~Holding(m)'
      OBVIOUS
    <3>2. baseline'.todo # {} => baseline.todo # {}
      OBVIOUS
    <3> QED BY <1>2, <1>3, <3>1, <3>2 DEF Aware
  <2>3. Unmined => \A m \in Lane : Holding(m)' => lanes'[m].down
    BY <1>1, <1>3 DEF Aware
  <2> QED BY <1>2, <2>1, <2>2, <2>3 DEF Aware
<1>10. ~over' => Heads'
  BY <1>1, HeadsKept
<1> QED BY <1>8, <1>9, <1>10

\* Between two calls, with every lane told its state, who holds has the key.
LEMMA InHand ==
  ASSUME Grip, ~Ended, call.stage = "idle", baseline.todo = {}, NEW l \in Lane, Holding(l)
  PROVE  owner[l] = 1
BY DEF Grip, Settling

\* An edge of the input queue: a press comes to a lane that holds nothing.
LEMMA KeyEdgeSettles ==
  ASSUME Orderly, EngineType', NEW key \in Keys, NEW t \in Samples, KeyEdge(key, t)
  PROVE  Fingers' /\ Grip' /\ Aware' /\ (~over' => Heads')
<1> DEFINE l == key[1]
<1>1. l \in Lane /\ key = <<l, 1>> /\ key[2] = 1 /\ t \in Int
  BY TheKey, PlayAssumption DEF Orderly, Samples
<1>2. /\ UNCHANGED <<frontier, baseline, pauses, stale>>
      /\ baseline.todo = {} /\ call.stage = "idle" /\ ~Ended
  BY DEF KeyEdge, Playing
<1>3. {"Pressed", "Released"} \subseteq States
  BY DEF States
<1>4. CASE Press(key) /\ HandleInput(l, "Pressed", t)
  <2>1. /\ key \notin down /\ down' = down \cup {key} /\ owner' = [owner EXCEPT ![l] = 1]
    BY <1>1, <1>4 DEF Press
  <2>2. Fingers'
    BY <1>1, <2>1 DEF Orderly, Fingers
  <2>3. owner'[l] = 1 /\ \A m \in Lane : m # l => owner'[m] = owner[m]
    BY <1>1, <2>1 DEF Orderly, Fingers
  <2>4. ~Holding(l)
    BY <1>1, <1>2, <2>1, InHand DEF Orderly, Fingers
  <2>5. Grip' /\ Aware' /\ (~over' => Heads')
    BY <1>1, <1>2, <1>3, <1>4, <2>3, <2>4, NewCallSettles DEF Orderly, PlayTypes
  <2> QED BY <2>2, <2>5
<1>5. CASE Release(key) /\ HandleInput(l, "Released", t)
  <2>1. /\ down' = down \ {key} /\ owner' = [owner EXCEPT ![l] = 0]
    BY <1>5 DEF Release
  <2>2. owner'[l] = 0 /\ \A m \in Lane : m # l => owner'[m] = owner[m]
    BY <1>1, <2>1 DEF Orderly, Fingers
  <2>3. Fingers'
    BY <1>1, <2>1, <2>2 DEF Orderly, Fingers
  <2>4. Grip' /\ Aware' /\ (~over' => Heads')
    BY <1>1, <1>2, <1>3, <1>5, <2>2, NewCallSettles DEF Orderly, PlayTypes
  <2> QED BY <2>3, <2>4
<1>6. CASE Surrendered(key) /\ UNCHANGED engine
  <2>1. owner' = owner /\ down' = down \ {key} /\ owner[l] # 1
    BY <1>1, <1>6 DEF Surrendered
  <2>2. Fingers'
    BY <1>1, <2>1 DEF Orderly, Fingers
  <2>3. Grip' /\ Aware' /\ (~over' => Heads')
    BY <1>2, <1>6, <2>1
       DEF Orderly, engine, Grip, Aware, Heads, Holding, Settling, Ended, Unmined, Undisturbed, Logged
  <2> QED BY <2>2, <2>3
<1> QED BY <1>4, <1>5, <1>6 DEF KeyEdge

\* A call that tells a state is not one that brings an edge.
LEMMA SyncOnly ==
  ASSUME NEW l, NEW state, NEW t, SyncInputState(l, state, t)
  PROVE  ~HandleInput(l, state, t)
<1>1. call'.kind = "sync"
  BY DEF SyncInputState, Idle
<1>2. HandleInput(l, state, t) => call'.kind = "input"
  BY DEF HandleInput, Idle
<1> QED BY <1>1, <1>2

\* Stale edges: the lane is told the state they end in.
LEMMA CatchUpSettles ==
  ASSUME Orderly, EngineType', NEW key \in Keys, NEW t \in Samples, CatchUp(key, t)
  PROVE  Fingers' /\ Grip' /\ Aware' /\ (~over' => Heads')
<1> DEFINE l == key[1]
<1>1. l \in Lane /\ key = <<l, 1>> /\ key[2] = 1 /\ t \in Int
  BY TheKey, PlayAssumption DEF Orderly, Samples
<1>2. /\ UNCHANGED <<frontier, baseline, pauses>> /\ stale < MaxStale
      /\ baseline.todo = {} /\ call.stage = "idle" /\ ~Ended
  BY DEF CatchUp, Playing
<1>3. {"Pressed", "Released"} \subseteq States
  BY DEF States
<1>4. ~Undisturbed
  BY <1>2 DEF Orderly, Undisturbed, Aware, PlayTypes
<1>5. CASE (Press(key) \/ Struck(key)) /\ SyncInputState(l, "Pressed", t)
  <2>1. owner' = [owner EXCEPT ![l] = 1] /\ key \in down' /\ down' \subseteq down \cup {key}
        /\ down \subseteq down'
    BY <1>1, <1>5 DEF Press, Struck
  <2>2. owner'[l] = 1 /\ \A m \in Lane : m # l => owner'[m] = owner[m]
    BY <1>1, <2>1 DEF Orderly, Fingers
  <2>3. Fingers'
    BY <1>1, <2>1, <2>2 DEF Orderly, Fingers
  <2>4. Grip' /\ Aware' /\ (~over' => Heads')
    BY <1>1, <1>2, <1>3, <1>4, <1>5, <2>2, NewCallSettles, SyncOnly DEF Orderly, PlayTypes
  <2> QED BY <2>3, <2>4
<1>6. CASE (Release(key) \/ Tapped(key)) /\ SyncInputState(l, "Released", t)
  <2>1. owner' = [owner EXCEPT ![l] = 0] /\ down' \subseteq down /\ down \ {key} \subseteq down'
    BY <1>1, <1>6 DEF Release, Tapped
  <2>2. owner'[l] = 0 /\ \A m \in Lane : m # l => owner'[m] = owner[m]
    BY <1>1, <2>1 DEF Orderly, Fingers
  <2>3. Fingers'
    BY <1>1, <2>1, <2>2 DEF Orderly, Fingers
  <2>4. Grip' /\ Aware' /\ (~over' => Heads')
    BY <1>1, <1>2, <1>3, <1>4, <1>6, <2>2, NewCallSettles
       DEF Orderly, PlayTypes
  <2> QED BY <2>3, <2>4
<1> QED BY <1>5, <1>6 DEF CatchUp

\* The state a lane is told after a pause is that of its key; before the play it holds nothing.
LEMMA RebaselineSettles ==
  ASSUME Orderly, EngineType', NEW l \in Lane, Rebaseline(l)
  PROVE  Fingers' /\ Grip' /\ Aware' /\ (~over' => Heads')
<1>1. /\ UNCHANGED <<down, owner, frontier, pauses, stale>>
      /\ baseline'.todo = baseline.todo \ {l} /\ l \in baseline.todo
      /\ call.stage = "idle" /\ baseline.at \in Int
  BY DEF Rebaseline, Orderly, PlayTypes
<1>2. Fingers'
  BY <1>1 DEF Orderly, Fingers
<1>3. CASE Ended
  <2>1. UNCHANGED engine
    BY <1>3 DEF Rebaseline
  <2>2. call.kind = "none"
    BY <1>1 DEF Orderly, Grip
  <2>3. baseline'.todo # {} => baseline.todo # {}
    BY <1>1
  <2>4. Grip' /\ Aware' /\ (~over' => Heads')
    BY <1>1, <1>3, <2>1, <2>2, <2>3
       DEF Orderly, engine, Grip, Aware, Heads, Holding, Settling, Ended, Unmined, Undisturbed, Logged
  <2> QED BY <1>2, <2>4
<1>4. CASE ~Ended
  <2>1. PICK state \in States : /\ SyncInputState(l, state, baseline.at)
                                /\ state = "Pressed" => owner[l] # 0
    <3>1. \/ SyncInputState(l, "Pressed", baseline.at) /\ owner[l] # 0
          \/ SyncInputState(l, "Released", baseline.at)
      BY <1>4 DEF Rebaseline
    <3>2. "Pressed" \in States /\ "Released" \in States /\ "Pressed" # "Released"
      BY DEF States
    <3> QED BY <3>1, <3>2
  <2>2. state = "Pressed" => owner'[l] = 1
    BY <1>1, <2>1 DEF Orderly, Fingers
  <2>3. Undisturbed => \A m \in Lane : ~Holding(m)
    BY <1>1 DEF Orderly, Aware
  <2>4. Grip' /\ Aware' /\ (~over' => Heads')
    BY <1>1, <2>1, <2>2, <2>3, NewCallSettles, SyncOnly DEF Orderly, PlayTypes
  <2> QED BY <1>2, <2>4
<1> QED BY <1>3, <1>4

\* Every step keeps such a play orderly.
LEMMA OrderlyStep ==
  ASSUME Orderly, [PlayNext]_play
  PROVE  Orderly'
<1>0. PlayTypes' /\ EngineType /\ EngineType'
  BY PlayTypesStep DEF Orderly, PlayTypes
<1>1. OneKey' /\ (Unmined \/ Undisturbed)'
  BY DEF Orderly, OneKey, Unmined, Undisturbed
<1>2. SUFFICES Fingers' /\ Grip' /\ Aware' /\ (~over' => Heads')
  BY <1>0, <1>1 DEF Orderly
<1>3. CASE Inside /\ UNCHANGED keyboard
  <2>1. Grip' /\ Aware' /\ (~over' => Heads')
    BY <1>0, <1>3, InsideSettles DEF Orderly
  <2>2. Fingers'
    BY <1>3 DEF Orderly, Fingers, keyboard
  <2> QED BY <2>1, <2>2
<1>4. ASSUME NEW key \in Keys, NEW t \in Samples, KeyEdge(key, t) \/ CatchUp(key, t)
      PROVE  Fingers' /\ Grip' /\ Aware' /\ (~over' => Heads')
  BY <1>0, <1>4, KeyEdgeSettles, CatchUpSettles
<1>5. ASSUME NEW t \in Samples, Callback(t)
      PROVE  Fingers' /\ Grip' /\ Aware' /\ (~over' => Heads')
  <2>1. /\ UNCHANGED <<down, owner, baseline, pauses, stale, lanes, log, finished, over>>
        /\ call.stage = "idle" /\ ~Ended
        /\ call'.kind = "advance" /\ call'.stage = "automatic"
    BY <1>5 DEF Callback, Playing, Advance, Idle
  <2>2. \A m \in Lane : (Holding(m)' <=> Holding(m)) /\ ~Settling(m)
    BY <2>1 DEF Holding, Settling
  <2>3. Fingers' /\ Grip'
    BY <2>1, <2>2 DEF Orderly, Fingers, Grip, Ended
  <2>4. Aware' /\ (~over' => Heads')
    BY <2>1, <2>2 DEF Orderly, Aware, Heads, Logged, Unmined, Undisturbed
  <2> QED BY <2>3, <2>4
<1>6. ASSUME NEW held \in SUBSET Keys, NEW t \in Samples, Resume(held, t)
      PROVE  Fingers' /\ Grip' /\ Aware' /\ (~over' => Heads')
  <2>1. /\ UNCHANGED engine /\ stale' = stale /\ call.stage = "idle" /\ pauses < MaxPauses
        /\ down' = held /\ baseline'.todo = Lane
        /\ owner' = [l \in Lane |-> IF <<l, owner[l]>> \in held THEN owner[l] ELSE 0]
    BY <1>6 DEF Resume, Playing
  <2>2. ~Undisturbed
    BY <2>1 DEF Orderly, Undisturbed, Aware
  <2>3. Fingers'
    BY <2>1 DEF Orderly, Fingers
  <2>4. call.kind = "none"
    BY <2>1 DEF Orderly, Grip
  <2>5. UNCHANGED <<lanes, log, finished, over, call>>
    BY <2>1 DEF engine
  <2>6. Grip'
    BY <2>1, <2>4, <2>5 DEF Orderly, Grip
  <2>7. Aware' /\ (~over' => Heads')
    BY <2>2, <2>5 DEF Orderly, Aware, Heads, Holding, Logged, Unmined, Undisturbed
  <2> QED BY <2>3, <2>6, <2>7
<1>7. ASSUME NEW l \in Lane, Rebaseline(l)
      PROVE  Fingers' /\ Grip' /\ Aware' /\ (~over' => Heads')
  BY <1>0, <1>7, RebaselineSettles
<1>8. CASE UNCHANGED <<engine, keyboard>>
  BY <1>8 DEF Orderly, Fingers, engine, keyboard, Grip, Aware, Heads, Holding, Settling, Ended,
              Unmined, Undisturbed, Logged
<1> QED BY <1>3, <1>4, <1>5, <1>6, <1>7, <1>8, PlayStep

\* Before the first edge nothing is held and nothing is judged.
LEMMA OrderlyInit ==
  ASSUME OneKey, Unmined \/ Undisturbed, PlayInit
  PROVE  Orderly
<1>1. /\ call = Idle /\ log = <<>> /\ \A l \in Lane : lanes[l].hold = NoHold
      /\ pauses = 0 /\ stale = 0 /\ baseline.todo = Lane
  BY DEF PlayInit, Init
<1>2. \A l \in Lane : ~Holding(l)
  BY <1>1 DEF Holding, NoHold
<1>3. Grip /\ Aware
  BY <1>1, <1>2 DEF Grip, Aware, Idle
<1>4. Heads
  BY <1>1 DEF Heads, Logged
<1>5. Fingers
  <2>1. down \subseteq Keys /\ owner = [l \in Lane |-> Holder(down, l)]
    BY PlayAssumption DEF PlayInit
  <2>2. \A l \in Lane : Holder(down, l) \in {0, 1} /\ (Holder(down, l) = 1 => <<l, 1>> \in down)
    <3>1. 1..KeysPerLane = {1}
      BY DEF OneKey
    <3> QED BY <3>1 DEF Holder
  <2> QED BY <2>1, <2>2 DEF Fingers
<1> QED BY <1>3, <1>4, <1>5, PlayTypesInit DEF Orderly

\* In a play with one key per lane, whose chart has no mines or which is neither paused nor catches
\* up with stale edges, every hold whose head is hit is held on or gets its tail, whatever the keys do:
\* the two judgements of a hold always come both.
THEOREM TailsSettled ==
  OneKey /\ (Unmined \/ Undisturbed) /\ PlaySpec => []TailsSettle
<1>1. OneKey /\ (Unmined \/ Undisturbed) /\ PlayInit => Orderly
  BY OrderlyInit
<1>2. Orderly /\ [PlayNext]_play => Orderly'
  BY OrderlyStep
<1>3. Orderly => TailsSettle
  <2>1. SUFFICES ASSUME Orderly, ~over, NEW i \in DOMAIN log, log[i].part = "head",
                        Notes[log[i].lane][log[i].note].kind # "tap"
                 PROVE  \/ lanes[log[i].lane].hold.note = log[i].note
                        \/ \E f \in {log[j] : j \in DOMAIN log} :
                             f.part = "tail" /\ f.lane = log[i].lane /\ f.note = log[i].note
    BY DEF TailsSettle
  <2>2. log[i] \in Entries /\ log[i] \in Logged
    BY <2>1 DEF Orderly, PlayTypes, EngineType, Logged
  <2> QED BY <2>1, <2>2 DEF Orderly, Heads, Logged
<1> QED BY <1>1, <1>2, <1>3, PTL DEF PlaySpec

-----------------------------------------------------------------------------
\* The cursors of a lane lie in its chart, and so does the note it holds.
InChart ==
  \A l \in Lane : /\ lanes[l].next <= Len(Notes[l]) + 1
                  /\ lanes[l].mine <= Len(Mines[l]) + 1
                  /\ lanes[l].hold.note <= Len(Notes[l])

\* A chart has a number of notes and mines in each lane.
LEMMA ChartLengths == ASSUME NEW l \in Lane PROVE Len(Notes[l]) \in Nat /\ Len(Mines[l]) \in Nat
BY EngineAssumption, LenProperties

\* A lane is changed to its next note, its next mine, no hold, or a hold of its next note.
LEMMA LaneInChart ==
  ASSUME EngineType, InChart, NEW l \in Lane, \A m \in Lane : m # l => lanes'[m] = lanes[m],
         \/ lanes'[l].next = lanes[l].next
         \/ lanes'[l].next = lanes[l].next + 1 /\ Waiting(l),
         \/ lanes'[l].mine = lanes[l].mine
         \/ lanes'[l].mine = lanes[l].mine + 1 /\ lanes[l].mine <= Len(Mines[l]),
         \/ lanes'[l].hold.note \in {0, lanes[l].hold.note}
         \/ lanes'[l].hold.note = lanes[l].next /\ Waiting(l)
  PROVE  InChart'
<1>1. /\ lanes[l].next \in Nat /\ lanes[l].mine \in Nat /\ lanes[l].hold.note \in Nat
      /\ Len(Notes[l]) \in Nat /\ Len(Mines[l]) \in Nat
  BY LaneNumbers, ChartLengths
<1>2. /\ lanes[l].next <= Len(Notes[l]) + 1 /\ lanes[l].mine <= Len(Mines[l]) + 1
      /\ lanes[l].hold.note <= Len(Notes[l])
  BY DEF InChart
<1>3. lanes'[l].next <= Len(Notes[l]) + 1
  BY <1>1, <1>2 DEF Waiting
<1>4. lanes'[l].mine <= Len(Mines[l]) + 1
  BY <1>1, <1>2
<1>5. lanes'[l].hold.note <= Len(Notes[l])
  BY <1>1, <1>2 DEF Waiting
<1> QED BY <1>3, <1>4, <1>5 DEF InChart

\* No step of a call leaves the chart.
LEMMA InsideInChart ==
  ASSUME EngineType, InChart, Inside
  PROVE  InChart'
<1>1. lanes' = lanes => InChart'
  BY DEF InChart
<1>2. ASSUME NEW l \in Lane, lanes[l].mine <= Len(Mines[l]), NEW now, PassMine(l, now)
      PROVE  InChart'
  <2>1. \/ lanes' = [lanes EXCEPT ![l].mine = @ + 1, ![l].down = FALSE]
        \/ lanes' = [lanes EXCEPT ![l].mine = @ + 1]
    BY <1>2 DEF PassMine
  <2>2. /\ \A m \in Lane : m # l => lanes'[m] = lanes[m]
        /\ lanes'[l].next = lanes[l].next /\ lanes'[l].mine = lanes[l].mine + 1
        /\ lanes'[l].hold.note = lanes[l].hold.note
    <3>1. lanes' = [lanes EXCEPT ![l].mine = @ + 1] => lanes'[l].hold = lanes[l].hold
      BY DEF EngineType, LaneStates
    <3>2. lanes' = [lanes EXCEPT ![l].mine = @ + 1, ![l].down = FALSE] =>
            lanes'[l].hold = lanes[l].hold
      BY DEF EngineType, LaneStates
    <3>3. /\ \A m \in Lane : m # l => lanes'[m] = lanes[m]
          /\ lanes'[l].next = lanes[l].next /\ lanes'[l].mine = lanes[l].mine + 1
      BY <2>1 DEF EngineType, LaneStates
    <3> QED BY <2>1, <3>1, <3>2, <3>3
  <2> QED BY <1>2, <2>2, LaneInChart
<1>3. ASSUME NEW l \in Lane, Waiting(l), NEW now, NEW mask, GiveUpNote(l, now, mask)
      PROVE  InChart'
  <2>1. lanes' = [lanes EXCEPT ![l].next = @ + 1, ![l].mask = mask]
    BY <1>3 DEF GiveUpNote
  <2>2. /\ \A m \in Lane : m # l => lanes'[m] = lanes[m]
        /\ lanes'[l].next = lanes[l].next + 1 /\ lanes'[l].mine = lanes[l].mine
        /\ lanes'[l].hold.note = lanes[l].hold.note
    BY <2>1 DEF EngineType, LaneStates
  <2> QED BY <1>3, <2>2, LaneInChart
<1>4. ASSUME NEW l \in Lane, NEW grade, NEW now, NEW pressed, SettleHold(l, grade, now, pressed)
      PROVE  InChart'
  <2>1. lanes' = [lanes EXCEPT ![l].hold = NoHold, ![l].down = pressed]
    BY <1>4 DEF SettleHold
  <2>2. /\ \A m \in Lane : m # l => lanes'[m] = lanes[m]
        /\ lanes'[l].next = lanes[l].next /\ lanes'[l].mine = lanes[l].mine
        /\ lanes'[l].hold.note = 0
    BY <2>1 DEF EngineType, LaneStates, NoHold
  <2> QED BY <2>2, LaneInChart
<1>5. ASSUME NEW l \in Lane, AutoMine(l) \/ AutoMiss(l) \/ AutoHold(l)
      PROVE  InChart'
  <2>1. CASE AutoMine(l)
    BY <1>2, <2>1 DEF AutoMine, Automatic, Due, MineDue
  <2>2. CASE AutoMiss(l)
    BY <1>3, <2>2 DEF AutoMiss, Automatic, Due, MissDue
  <2>3. CASE AutoHold(l)
    BY <1>4, <2>3 DEF AutoHold
  <2> QED BY <1>5, <2>1, <2>2, <2>3
<1>6. CASE InputEdge \/ SyncEdge
  <2> DEFINE l == call.lane
  <2>1. l \in Lane /\ (lanes' = lanes \/ ApplyEdge)
    BY <1>6 DEF InputEdge, SyncEdge, EngineType
  <2>2. CASE ApplyEdge /\ ~(call.state = "Released" /\ Holding(l))
    <3>1. lanes' = [lanes EXCEPT ![l].down = (call.state = "Pressed")]
      BY <2>2 DEF ApplyEdge
    <3>2. /\ \A m \in Lane : m # l => lanes'[m] = lanes[m]
          /\ lanes'[l].next = lanes[l].next /\ lanes'[l].mine = lanes[l].mine
          /\ lanes'[l].hold.note = lanes[l].hold.note
      BY <2>1, <3>1 DEF EngineType, LaneStates
    <3> QED BY <2>1, <3>2, LaneInChart
  <2>3. CASE ApplyEdge /\ call.state = "Released" /\ Holding(l)
    BY <1>4, <2>1, <2>3 DEF ApplyEdge
  <2> QED BY <1>1, <2>1, <2>2, <2>3
<1>7. CASE EdgeMine
  BY <1>2, <1>7 DEF EdgeMine, MineAtEdge, EngineType
<1>8. ASSUME NEW l \in Lane, Skip(l)
      PROVE  InChart'
  BY <1>3, <1>8 DEF Skip, GiveUp
<1>9. ASSUME NEW l \in Lane, Hit(l)
      PROVE  InChart'
  <2> DEFINE note == NextNote(l)
  <2>1. /\ lanes' = [lanes EXCEPT ![l].next = @ + 1,
                       ![l].hold = IF note.kind = "tap" \/ over' THEN @
                                   ELSE [note |-> lanes[l].next, end |-> note.end,
                                         kind |-> note.kind]]
        /\ Waiting(l)
    BY <1>9 DEF Hit
  <2>2. /\ \A m \in Lane : m # l => lanes'[m] = lanes[m]
        /\ lanes'[l].next = lanes[l].next + 1 /\ lanes'[l].mine = lanes[l].mine
        /\ lanes'[l].hold = lanes[l].hold
           \/ lanes'[l].hold = [note |-> lanes[l].next, end |-> note.end, kind |-> note.kind]
    BY <2>1 DEF EngineType, LaneStates
  <2>3. lanes'[l].hold.note \in {lanes[l].hold.note, lanes[l].next}
    BY <2>2
  <2> QED BY <2>1, <2>2, <2>3, LaneInChart
<1>10. ASSUME NEW l \in Lane, NoHit(l)
       PROVE  InChart'
  <2>1. lanes' = lanes \/ lanes' = [lanes EXCEPT ![l].mask = call.at + Mask]
    BY <1>10 DEF NoHit
  <2>2. CASE lanes' = [lanes EXCEPT ![l].mask = call.at + Mask]
    <3>1. /\ \A m \in Lane : m # l => lanes'[m] = lanes[m]
          /\ lanes'[l].next = lanes[l].next /\ lanes'[l].mine = lanes[l].mine
          /\ lanes'[l].hold.note = lanes[l].hold.note
      BY <2>2 DEF EngineType, LaneStates
    <3> QED BY <3>1, LaneInChart
  <2> QED BY <1>1, <2>1, <2>2
<1>11. CASE Finalize \/ EdgeDone
  BY <1>1, <1>11 DEF Finalize, EdgeDone
<1> QED BY <1>5, <1>6, <1>7, <1>8, <1>9, <1>10, <1>11 DEF Inside

\* The owner of a lane is a key of it that is down.
Owned ==
  /\ down \subseteq Keys
  /\ owner \in [Lane -> 0..KeysPerLane]
  /\ \A l \in Lane : owner[l] # 0 => <<l, owner[l]>> \in down

\* What LaneBindingState does to a key and to its lane.
LEMMA BindingOwned ==
  ASSUME Owned, NEW key \in Keys,
         \/ Press(key) \/ Release(key) \/ Surrendered(key) \/ Struck(key) \/ Tapped(key)
  PROVE  Owned'
<1> DEFINE l == key[1]
<1>1. l \in Lane /\ key[2] \in 1..KeysPerLane /\ key = <<l, key[2]>> /\ KeysPerLane \in Nat
  BY PlayAssumption DEF Keys
<1>2. CASE Press(key) \/ Struck(key)
  <2>1. /\ owner' = [owner EXCEPT ![l] = key[2]] /\ key \in down'
        /\ down \subseteq down' /\ down' \subseteq down \cup {key}
    BY <1>2 DEF Press, Struck
  <2>2. owner' \in [Lane -> 0..KeysPerLane] /\ owner'[l] = key[2]
        /\ \A m \in Lane : m # l => owner'[m] = owner[m]
    BY <1>1, <2>1 DEF Owned
  <2>3. ASSUME NEW m \in Lane, owner'[m] # 0
        PROVE  <<m, owner'[m]>> \in down'
    BY <1>1, <2>1, <2>2, <2>3 DEF Owned
  <2> QED BY <2>1, <2>2, <2>3 DEF Owned
<1>3. CASE Release(key) \/ Tapped(key)
  <2>1. /\ owner' = [owner EXCEPT ![l] = 0]
        /\ down' \subseteq down /\ down \ {key} \subseteq down'
    BY <1>3 DEF Release, Tapped
  <2>2. owner' \in [Lane -> 0..KeysPerLane] /\ owner'[l] = 0
        /\ \A m \in Lane : m # l => owner'[m] = owner[m]
    BY <1>1, <2>1 DEF Owned
  <2>3. ASSUME NEW m \in Lane, owner'[m] # 0
        PROVE  <<m, owner'[m]>> \in down'
    BY <1>1, <2>1, <2>2, <2>3 DEF Owned
  <2> QED BY <2>1, <2>2, <2>3 DEF Owned
<1>4. CASE Surrendered(key)
  <2>1. owner' = owner /\ down' = down \ {key} /\ owner[l] # key[2]
    BY <1>4 DEF Surrendered
  <2>2. ASSUME NEW m \in Lane, owner'[m] # 0
        PROVE  <<m, owner'[m]>> \in down'
    BY <1>1, <2>1, <2>2 DEF Owned
  <2> QED BY <2>1, <2>2 DEF Owned
<1> QED BY <1>2, <1>3, <1>4

Typed == PlayTypes /\ InChart /\ GaugeInv /\ Owned /\ frontier \in -1..LastSample

\* Every step of a play keeps its types.
LEMMA TypedStep ==
  ASSUME Typed, [PlayNext]_play
  PROVE  Typed'
<1>1. PlayTypes' /\ [Next]_engine
  BY PlayTypesStep, PlayDrives DEF Typed
<1>2. GaugeInv'
  BY <1>1, StepFalls DEF Typed, PlayTypes, OnlyFalls, GaugeInv
<1>3. SUFFICES InChart' /\ Owned' /\ frontier' \in -1..LastSample
  BY <1>1, <1>2 DEF Typed
<1>4. CASE Inside /\ UNCHANGED keyboard
  BY <1>4, InsideInChart DEF Typed, PlayTypes, keyboard, Owned
<1>5. ASSUME NEW key \in Keys, NEW t \in Samples, KeyEdge(key, t) \/ CatchUp(key, t)
      PROVE  InChart' /\ Owned' /\ frontier' \in -1..LastSample
  <2>1. UNCHANGED <<lanes, frontier>>
    BY <1>5 DEF KeyEdge, CatchUp, HandleInput, SyncInputState, engine
  <2>2. Press(key) \/ Release(key) \/ Surrendered(key) \/ Struck(key) \/ Tapped(key)
    BY <1>5 DEF KeyEdge, CatchUp
  <2>3. Owned'
    BY <2>2, BindingOwned DEF Typed
  <2> QED BY <2>1, <2>3 DEF Typed, InChart
<1>6. ASSUME NEW t \in Samples, Callback(t)
      PROVE  InChart' /\ Owned' /\ frontier' \in -1..LastSample
  <2>1. UNCHANGED <<lanes, down, owner>> /\ frontier' \in 0..LastSample
    BY <1>6 DEF Callback, Advance, Samples
  <2>2. frontier' \in -1..LastSample
    BY <2>1, PlayAssumption
  <2> QED BY <2>1, <2>2 DEF Typed, InChart, Owned
<1>7. ASSUME NEW held \in SUBSET Keys, NEW t \in Samples, Resume(held, t)
      PROVE  InChart' /\ Owned' /\ frontier' \in -1..LastSample
  <2>1. /\ UNCHANGED <<lanes, frontier>> /\ down' = held
        /\ owner' = [l \in Lane |-> IF <<l, owner[l]>> \in held THEN owner[l] ELSE 0]
    BY <1>7 DEF Resume, engine
  <2>2. Owned'
    BY <2>1, PlayAssumption DEF Typed, Owned
  <2> QED BY <2>1, <2>2 DEF Typed, InChart
<1>8. ASSUME NEW l \in Lane, Rebaseline(l)
      PROVE  InChart' /\ Owned' /\ frontier' \in -1..LastSample
  <2>1. UNCHANGED <<lanes, down, owner, frontier>>
    BY <1>8 DEF Rebaseline, SyncInputState, engine
  <2> QED BY <2>1 DEF Typed, InChart, Owned
<1>9. CASE UNCHANGED <<engine, keyboard>>
  BY <1>9 DEF Typed, engine, keyboard, InChart, Owned
<1> QED BY <1>4, <1>5, <1>6, <1>7, <1>8, <1>9, PlayStep

\* A set of keys has a greatest one.
LEMMA GreatestOf ==
  ASSUME NEW n \in Nat, NEW S \in SUBSET (1..n), S # {}
  PROVE  \E k \in S : \A j \in S : j <= k
<1> DEFINE T == {n - k : k \in S}
<1>1. T \subseteq Nat /\ T # {}
  <2>1. ASSUME NEW k \in S PROVE n - k \in Nat
    OBVIOUS
  <2> QED BY <2>1
<1>2. PICK x \in T : \A y \in T : ~(<<y, x>> \in OpToRel(<, Nat))
  <2> HIDE DEF T
  <2> QED BY <1>1, WFMin, NatLessThanWellFounded
<1>3. \A y \in T : ~(y < x)
  BY <1>1, <1>2 DEF OpToRel
<1>4. PICK k \in S : x = n - k
  OBVIOUS
<1>5. ASSUME NEW j \in S PROVE j <= k
  <2>1. n - j \in T /\ j \in 1..n /\ k \in 1..n
    OBVIOUS
  <2>2. ~(n - j < n - k)
    BY <1>3, <1>4, <2>1
  <2> QED BY <2>1, <2>2
<1> QED BY <1>5

\* The keys that are held when the play starts own their lanes.
LEMMA TypedInit == ASSUME PlayInit PROVE Typed
<1>1. /\ down \subseteq Keys /\ owner = [l \in Lane |-> Holder(down, l)] /\ frontier = -1
      /\ Init /\ KeysPerLane \in Nat /\ LastSample \in Nat
  BY PlayAssumption DEF PlayInit
<1>2. ASSUME NEW l \in Lane
      PROVE  /\ Holder(down, l) \in 0..KeysPerLane
             /\ Holder(down, l) # 0 => <<l, Holder(down, l)>> \in down
  <2> DEFINE keys == {k \in 1..KeysPerLane : <<l, k>> \in down}
  <2>1. CASE keys = {}
    BY <1>1, <2>1 DEF Holder
  <2>2. CASE keys # {}
    <3>1. \E k \in keys : \A j \in keys : j <= k
      BY <1>1, <2>2, GreatestOf
    <3>2. Holder(down, l) \in keys
      BY <2>2, <3>1 DEF Holder
    <3> QED BY <1>1, <3>2
  <2> QED BY <2>1, <2>2
<1>3. Owned
  BY <1>1, <1>2 DEF Owned
<1>4. InChart
  <2>1. \A l \in Lane : lanes[l].next = 1 /\ lanes[l].mine = 1 /\ lanes[l].hold.note = 0
    BY <1>1 DEF Init, NoHold
  <2> QED BY <2>1, ChartLengths DEF InChart
<1>5. frontier \in -1..LastSample
  BY <1>1
<1> QED BY <1>1, <1>3, <1>4, <1>5, PlayTypesInit, GaugeInit DEF Typed

\* The cursors of every lane stay in its chart, the gauges in their range, and the owner of a
\* lane is one of its keys that is down, across pauses, stale edges and keys held from the start.
THEOREM PlayTyped == PlaySpec => []PlayType
<1>1. PlayInit => Typed
  BY TypedInit
<1>2. Typed /\ [PlayNext]_play => Typed'
  BY TypedStep
<1>3. Typed => PlayType
  <2>1. SUFFICES ASSUME Typed PROVE PlayType
    OBVIOUS
  <2>2. ASSUME NEW l \in Lane
        PROVE  /\ lanes[l].next \in 1..(Len(Notes[l]) + 1)
               /\ lanes[l].mine \in 1..(Len(Mines[l]) + 1)
               /\ lanes[l].hold.note \in 0..Len(Notes[l])
    <3>1. /\ lanes[l].next \in Nat \ {0} /\ lanes[l].mine \in Nat \ {0}
          /\ lanes[l].hold.note \in Nat /\ Len(Notes[l]) \in Nat /\ Len(Mines[l]) \in Nat
      BY <2>1, LaneNumbers, ChartLengths DEF Typed, PlayTypes
    <3>2. /\ lanes[l].next <= Len(Notes[l]) + 1
          /\ lanes[l].mine <= Len(Mines[l]) + 1
          /\ lanes[l].hold.note <= Len(Notes[l])
      BY <2>1 DEF Typed, InChart
    <3> QED BY <3>1, <3>2
  <2>3. \A i \in DOMAIN replay : replay[i] \in [lane: Lane, state: States, at: Int]
    <3>1. replay \in Seq(Edges)
      BY <2>1 DEF Typed, PlayTypes, EngineType
    <3>2. \A i \in DOMAIN replay : replay[i] \in Edges
      BY <3>1, ElementOfSeq, LenProperties
    <3> QED BY <3>2 DEF Edges
  <2> QED BY <2>1, <2>2, <2>3 DEF PlayType, Typed, GaugeInv, Owned
<1> QED BY <1>1, <1>2, <1>3, PTL DEF PlaySpec

-----------------------------------------------------------------------------
(* The verifier agrees.  A play and its verification cut time differently, so   *)
(* they are compared as ways through the same turns.  A shot is what an engine  *)
(* has judged (its board), how many of the recorded edges it has taken, and the *)
(* key edge it is in.  Turn relates a shot to the next one: the first automatic *)
(* event before the next edge, or that edge, or a step of the press it makes.   *)
(* A live play only ever makes turns (Played), so its end can be reached from   *)
(* the start.  A shot has one turn, or two at an edge of the first sample, and  *)
(* nothing ever has to be taken back: whatever the verifier does, the end of    *)
(* the play stays reachable from its shot (Leads), and where it stops there is  *)
(* no turn left, so it is there.                                                *)

\* The premises on the chart.  The notes and the mines of a lane are in order.
Sorted ==
  \A l \in Lane :
    /\ \A i, j \in DOMAIN Notes[l] : i <= j => Notes[l][i].start <= Notes[l][j].start
    /\ \A i, j \in DOMAIN Mines[l] : i <= j => Mines[l][i].at <= Mines[l][j].at

\* Every mine lies before the play can end: some lane has a note whose earliest hit is
\* after it.  finalize_if_done does not wait for mines (finding 2).
MinesInTime ==
  \A l \in Lane : \A j \in DOMAIN Mines[l] : \E m \in Lane :
    Notes[m] # <<>> /\ Mines[l][j].at < Notes[m][Len(Notes[m])].start - BD

\* If keys may be held at the start, no mine lies there, and a press is not too early for
\* an empty POOR and near enough for a BAD at the same time.
LedIn ==
  StartKeys # {} => BD <= Early /\ \A l \in Lane : \A j \in DOMAIN Mines[l] : Mines[l][j].at > 0

\* What an engine has judged: the live one and that of the verifier.
Board == [lanes |-> lanes, gauge |-> gauge, log |-> log, over |-> over]
Board2 == [lanes |-> lanes2, gauge |-> gauge2, log |-> log2, over |-> over2]

\* The observations of the engine, of any board.
WaitsIn(b, l) == b.lanes[l].next <= Len(Notes[l])
HoldsIn(b, l) == b.lanes[l].hold.note # 0
NoteIn(b, l) == Notes[l][b.lanes[l].next]
DoneIn(b) == \A l \in Lane : ~WaitsIn(b, l) /\ ~HoldsIn(b, l)

\* What falls due in a lane of a board, as in Due.
MineIn(b, l) == IF b.lanes[l].mine <= Len(Mines[l]) THEN {Mines[l][b.lanes[l].mine].at} ELSE {}
MissIn(b, l) == IF WaitsIn(b, l) THEN {NoteIn(b, l).start + Miss + 1} ELSE {}
HoldIn(b, l) ==
  IF ~HoldsIn(b, l) THEN {}
  ELSE IF b.lanes[l].hold.kind = "charge" THEN {b.lanes[l].hold.end + HoldBreak + 1}
  ELSE {b.lanes[l].hold.end}
DueIn(b, l) == <<MineIn(b, l), MissIn(b, l), HoldIn(b, l)>>

\* The event (l, k) of sample s comes first on a board; nothing is due up to x.
FirstIn(b, l, k, s) ==
  /\ s \in DueIn(b, l)[k]
  /\ \A l2 \in Lane, k2 \in 1..3 : \A s2 \in DueIn(b, l2)[k2] :
       <<l2, k2>> # <<l, k>> => Earlier(s, l, k, s2, l2, k2)
NoneBy(b, x) == \A l \in Lane, k \in 1..3 : \A s \in DueIn(b, l)[k] : s > x

\* The effects of the engine, as boards: a judgement and what it does to the lanes,
Marked(b, ln, l, note, part, grade, halves, now) ==
  [lanes |-> ln, gauge |-> Judged(b.gauge, grade, halves),
   log |-> Append(b.log, [lane |-> l, note |-> note, part |-> part, grade |-> grade, due |-> now]),
   over |-> (b.over \/ (Dead(Judged(b.gauge, grade, halves)) /\ ~NoFail))]

\* a note given up,
Skipped(b, l, now, mask) ==
  Marked(b, [b.lanes EXCEPT ![l].next = @ + 1, ![l].mask = mask],
         l, b.lanes[l].next, "missed", MissGrade, 2, now)

\* a mine passed, which goes off under a key that is down,
BlownGauge(b, l) ==
  LET mine == Mines[l][b.lanes[l].mine]
  IN IF mine.kill THEN Killed(b.gauge) ELSE Damaged(b.gauge, mine.damage)

Passed(b, l, now) ==
  IF b.lanes[l].down
    THEN [lanes |-> [b.lanes EXCEPT ![l].mine = @ + 1, ![l].down = FALSE],
          gauge |-> BlownGauge(b, l),
          log |-> Append(b.log, [lane |-> l, note |-> b.lanes[l].mine, part |-> "mine",
                                 grade |-> "none", due |-> now]),
          over |-> (\/ b.over \/ Mines[l][b.lanes[l].mine].kill
                    \/ (Dead(BlownGauge(b, l)) /\ ~NoFail))]
    ELSE [lanes |-> [b.lanes EXCEPT ![l].mine = @ + 1],
          gauge |-> b.gauge, log |-> b.log, over |-> b.over]

\* a tail, a key moved without one, a key edge,
Settled(b, l, grade, now, pressed) ==
  Marked(b, [b.lanes EXCEPT ![l].hold = NoHold, ![l].down = pressed],
         l, b.lanes[l].hold.note, "tail", grade, 1, now)

PutDown(b, l, pressed) ==
  [lanes |-> [b.lanes EXCEPT ![l].down = pressed],
   gauge |-> b.gauge, log |-> b.log, over |-> b.over]

Edged(b, e) ==
  IF e.state = "Released" /\ HoldsIn(b, e.lane)
    THEN Settled(b, e.lane, TailGrade(b.lanes[e.lane].hold, e.at), e.at, FALSE)
    ELSE PutDown(b, e.lane, e.state = "Pressed")

\* a head hit,
HitOver(b, l, at) ==
  b.over \/ (Dead(Judged(b.gauge, Grade(at - NoteIn(b, l).start),
                         IF NoteIn(b, l).kind = "tap" THEN 2 ELSE 1)) /\ ~NoFail)
HitBoard(b, l, at) ==
  LET note == NoteIn(b, l)
  IN Marked(b, [b.lanes EXCEPT ![l].next = @ + 1,
                   ![l].hold = IF note.kind = "tap" \/ HitOver(b, l, at) THEN @
                               ELSE [note |-> b.lanes[l].next, end |-> note.end,
                                     kind |-> note.kind]],
            l, b.lanes[l].next, "head", Grade(at - note.start),
            IF note.kind = "tap" THEN 2 ELSE 1, at)

\* and an empty POOR.
Strayed(b, l, at) ==
  Marked(b, [b.lanes EXCEPT ![l].mask = at + Mask], l, 0, "poor", "PR", 2, at)

-----------------------------------------------------------------------------
\* A shot, and the first one.  mid says that the play failed inside a key edge,
\* after which finalize_if_done is not reached.
Shot(b, n, c, m) == [board |-> b, edges |-> n, call |-> c, mid |-> m]
Start == Shot([lanes |-> [l \in Lane |-> [next |-> 1, mine |-> 1, mask |-> 0, down |-> FALSE,
                                          hold |-> NoHold]],
               gauge |-> FullGauges, log |-> <<>>, over |-> FALSE], 0, Idle, FALSE)

\* The shot after the event k of lane l, which advance_chronological judges.
AfterAuto(x, l, k) ==
  LET b == x.board
      hold == b.lanes[l].hold
  IN Shot(CASE k = 1 -> Passed(b, l, Mines[l][b.lanes[l].mine].at)
            [] k = 2 -> Skipped(b, l, NoteIn(b, l).start + Miss + 1, NoteIn(b, l).start + Mask)
            [] k = 3 -> IF hold.kind = "charge"
                          THEN Settled(b, l, "BD", hold.end + HoldBreak + 1, b.lanes[l].down)
                          ELSE Settled(b, l, "PG", hold.end, b.lanes[l].down),
          x.edges, x.call, FALSE)

\* The shot after a recorded edge; the press it may make is still to come, unless it
\* was only synchronised, at the first sample.
EdgeCall(e) ==
  [Idle EXCEPT !.kind = "input", !.stage = "mines", !.lane = e.lane,
     !.state = e.state, !.at = e.at, !.until = e.at - 1]
AfterEdge(x, e) == Shot(Edged(x.board, e), x.edges + 1, EdgeCall(e), Edged(x.board, e).over)
StartEdge(e) == StartKeys # {} /\ e.at = 0 /\ e.state = "Pressed"
AfterStart(x, e) == Shot(Edged(x.board, e), x.edges + 1, Idle, FALSE)

\* The conditions of EdgeMine, EdgeDone, Skip, Hit and NoHit, of a board and a call.
MineAt(b, c) == b.lanes[c.lane].mine <= Len(Mines[c.lane])
                /\ Mines[c.lane][b.lanes[c.lane].mine].at <= c.at
MinesOn(b, c) == ~(b.over /\ c.blown) /\ MineAt(b, c)
StopsIn(b, c) == b.over \/ c.blown \/ c.state = "Released" \/ b.lanes[c.lane].mask > c.at
NearIn(b, c) == Abs(c.at - NoteIn(b, c.lane).start) <= BD
BetterIn(b, c) ==
  /\ Grade(c.at - NoteIn(b, c.lane).start) = "BD"
  /\ b.lanes[c.lane].next < Len(Notes[c.lane])
  /\ Abs(c.at - Notes[c.lane][b.lanes[c.lane].next + 1].start) <= GD
GivesUpIn(b, c) ==
  /\ WaitsIn(b, c.lane)
  /\ (c.at - NoteIn(b, c.lane).start > BD \/ (NearIn(b, c) /\ BetterIn(b, c)))
StraysIn(b, c) ==
  /\ ~c.gaveUp /\ WaitsIn(b, c.lane)
  /\ NoteIn(b, c.lane).start - c.at > BD /\ NoteIn(b, c.lane).start - c.at <= Early
SkippedBy(b, c) ==
  Skipped(b, c.lane, c.at, Later(b.lanes[c.lane].mask, NoteIn(b, c.lane).start + Mask))

\* The shot after one step of a press.
Turned(x, b, c) == Shot(b, x.edges, c, b.over)
AfterMines(x) ==
  LET b == x.board
      c == x.call
  IN IF MinesOn(b, c)
       THEN Turned(x, Passed(b, c.lane, c.at), [c EXCEPT !.blown = @ \/ b.lanes[c.lane].down])
       ELSE Turned(x, b, IF StopsIn(b, c) THEN Idle ELSE [c EXCEPT !.stage = "hit"])
AfterHit(x) ==
  LET b == x.board
      c == x.call
  IN IF GivesUpIn(b, c)
       THEN Turned(x, SkippedBy(b, c),
                   IF SkippedBy(b, c).over THEN Idle ELSE [c EXCEPT !.gaveUp = TRUE])
       ELSE IF WaitsIn(b, c.lane) /\ NearIn(b, c)
       THEN Turned(x, HitBoard(b, c.lane, c.at), Idle)
       ELSE Turned(x, IF StraysIn(b, c) THEN Strayed(b, c.lane, c.at) ELSE b, Idle)
AfterCall(x) == IF x.call.stage = "mines" THEN AfterMines(x) ELSE AfterHit(x)

\* How far the automatic events go: to the next of the edges R, and in the end to C.
Limit(R, C, n) == IF n < Len(R) THEN R[n + 1].at - 1 ELSE C

\* The turns a shot has, with the recorded edges R and the time C.
AutoTurn(R, C, x, y) ==
  \E l \in Lane, k \in 1..3 : \E s \in DueIn(x.board, l)[k] :
    FirstIn(x.board, l, k, s) /\ s <= Limit(R, C, x.edges) /\ y = AfterAuto(x, l, k)
EdgeTurn(R, x, y) ==
  /\ x.edges < Len(R)
  /\ LET e == R[x.edges + 1]
     IN /\ NoneBy(x.board, e.at - 1)
        /\ \/ y = AfterEdge(x, e)
           \/ StartEdge(e) /\ y = AfterStart(x, e)
Turn(R, C, x, y) ==
  /\ x.board.lanes \in [Lane -> LaneStates] /\ x.edges \in 0..Len(R)
  /\ IF x.call # Idle THEN y = AfterCall(x)
     ELSE /\ ~x.board.over /\ ~DoneIn(x.board)
          /\ AutoTurn(R, C, x, y) \/ EdgeTurn(R, x, y)

-----------------------------------------------------------------------------
\* A play without pauses and stale edges, which is all that is verified.
Steady == pauses = 0 /\ stale = 0

\* The shot the live play stands at, and what mid is then.
Striking == call.stage \in {"mines", "hit"}
LiveShot(m) == Shot(Board, Len(replay), IF Striking THEN call ELSE Idle, m)
MidOk(m) ==
  /\ m => over
  /\ call.stage \in {"automatic", "edge"} => ~m
  /\ call.stage = "idle" /\ Ended => (finished <=> AllDone /\ ~m)

\* The time up to which the live engine has been driven.
Horizon ==
  IF call.stage # "idle" THEN call.until
  ELSE IF Ended THEN LastSample
  ELSE IF replay = <<>> THEN frontier
  ELSE Later(frontier, replay[Len(replay)].at - 1)

\* Every mine still ahead is at x or later.
MinesFrom(x) == \A l \in Lane : \A s \in MineDue(l) : x <= s

\* What a call of the live engine knows of the clock and of the edges before it.
CallClock ==
  /\ call.stage = "idle" => call = Idle
  /\ call.stage # "idle" => ~finished
  /\ call.kind = "advance" =>
       /\ call.stage = "automatic" /\ call.until = frontier
       /\ baseline.todo = {}
       /\ \A s \in LastEdge : s <= frontier
  /\ call.kind = "input" =>
       /\ frontier < call.at /\ call.at <= LastSample /\ call.until = call.at - 1
       /\ baseline.todo = {}
       /\ \A s \in LastEdge : s <= call.at
       /\ call.stage \in {"automatic", "edge"} => ~call.blown /\ ~call.gaveUp
       /\ call.stage \in {"mines", "hit"} => call.at \in LastEdge
  /\ call.kind = "sync" =>
       /\ call.stage \in {"automatic", "edge"}
       /\ call.at = 0 /\ call.until = -1 /\ frontier = -1
       /\ ~lanes[call.lane].down
       /\ call.lane \notin baseline.todo
       /\ call.state = "Pressed" => StartKeys # {}
       /\ LastEdge \subseteq {0}

\* While the lanes are told their first state, nothing else has happened.
StartClock ==
  /\ baseline.at = 0
  /\ baseline.todo # {} =>
       /\ frontier = -1
       /\ LastEdge \subseteq {0}
       /\ down \subseteq StartKeys
       /\ \A l \in baseline.todo : ~lanes[l].down

\* The recorded edges lie in the play.
InPlay == \A i \in DOMAIN replay : replay[i].at \in 0..LastSample

\* Before a key edge nothing is due any more, and no mine lies before it afterwards.
AtEdge ==
  /\ call.stage = "edge" => ~over /\ ~AllDone /\ NoneBy(Board, call.until)
  /\ call.stage \in {"edge", "mines", "hit"} => MinesFrom(call.at)

\* Where a lane has no note left, the mines still ahead lie behind its last one.
PastNotes ==
  \A m \in Lane : Notes[m] # <<>> /\ ~Waiting(m) =>
     MinesFrom(Notes[m][Len(Notes[m])].start - BD)

\* What a play keeps that can be verified, together.
Flags == over \in BOOLEAN /\ finished \in BOOLEAN

Kept == Flags /\ CallClock /\ StartClock /\ InPlay /\ AtEdge /\ PastNotes
KeptSteady == Steady => Kept

\* A shot z can be reached from a by turns: no set closed under turns holds a without z.
Closed(R, C, S) == \A x \in S : \A y : Turn(R, C, x, y) => y \in S
Reaches(R, C, a, z) == \A S : (a \in S /\ Closed(R, C, S)) => z \in S

-----------------------------------------------------------------------------
\* The verifier at a shot with n edges, the call c and the flag d.  It is between two
\* calls,
CheckTyped ==
  /\ call2 \in Calls /\ finished2 \in BOOLEAN /\ over2 \in BOOLEAN
  /\ reached \in -1..LastSample /\ cursor \in 1..(Len(replay) + 1)
Resting(n, d) ==
  /\ call2 = Idle /\ n = cursor - 1 /\ (d => over2)
  /\ Again!Ended => (finished2 <=> DoneIn(Board2) /\ ~d)
  /\ reached = LastSample =>
      /\ cursor > Len(replay)
      /\ ~Again!Ended => NoneBy(Board2, LastSample) /\ ~DoneIn(Board2)

\* in an advance to the sample before the next edge,
Advancing(n, d) ==
  /\ call2 = [Idle EXCEPT !.kind = "advance", !.stage = "automatic", !.until = reached]
  /\ n = cursor - 1 /\ ~d /\ ~finished2
  /\ reached = Limit(replay, LastSample, n)

\* in a key edge it has not recorded yet,
Asked(e, stage) == [EdgeCall(e) EXCEPT !.stage = stage]
Entering(n, d) ==
  /\ n = cursor - 2 /\ n < Len(replay) /\ ~d /\ ~finished2 /\ reached < LastSample
  /\ \/ call2 = Asked(replay[n + 1], "automatic")
     \/ /\ call2 = Asked(replay[n + 1], "edge")
        /\ ~over2 /\ ~DoneIn(Board2) /\ NoneBy(Board2, call2.until)

\* in the press that the edge makes,
Hitting(n) ==
  call2.stage \in {"mines", "hit"} /\ n = cursor - 1 /\ ~finished2 /\ reached < LastSample

\* or in one that meets nothing: the live play only synchronised this edge.
Void(n, d) ==
  /\ call2.stage \in {"mines", "hit"} /\ n = cursor - 1 /\ ~finished2 /\ reached < LastSample
  /\ StartEdge(call2) /\ call2.lane \in Lane /\ ~over2 /\ ~call2.blown /\ ~d

\* It has recorded the first n edges of the play.
Follows(n, c, d) ==
  /\ CheckTyped /\ n \in 0..Len(replay) /\ d \in BOOLEAN
  /\ replay2 = SubSeq(replay, 1, n)
  /\ \/ c = Idle /\ (Resting(n, d) \/ Advancing(n, d) \/ Entering(n, d) \/ Void(n, d))
     \/ c = call2 /\ Hitting(n)

\* The play is over and is a record.
Closing(m) == Typed /\ Kept /\ Submitted /\ MidOk(m) /\ ReplayInOrder

\* The end of the play can be reached from where the verifier stands.
Leads(n, c, d, z) == Follows(n, c, d) /\ Reaches(replay, LastSample, Shot(Board2, n, c, d), z)

-----------------------------------------------------------------------------
\* The same names of what the engine observes and what is said of its board: what is due,
LEMMA LiveDue ==
  ASSUME NEW l \in Lane PROVE Due(l) = DueIn(Board, l) /\ MineDue(l) = MineIn(Board, l)
BY DEF Due, DueIn, MineDue, MissDue, HoldDue, MineIn, MissIn, HoldIn, Waiting, Holding, WaitsIn,
       HoldsIn,
       NextNote, NoteIn, Board

\* what waits, what is held and whether all is done,
LEMMA LiveState ==
  /\ \A l \in Lane : /\ Waiting(l) <=> WaitsIn(Board, l)
                     /\ Holding(l) <=> HoldsIn(Board, l)
                     /\ NextNote(l) = NoteIn(Board, l)
  /\ AllDone <=> DoneIn(Board)
BY DEF Waiting, Holding, WaitsIn, HoldsIn, NextNote, NoteIn, Board, AllDone, DoneIn

\* and likewise for the engine of the verifier,
LEMMA CheckDue == ASSUME NEW l \in Lane PROVE Again!Due(l) = DueIn(Board2, l)
BY DEF Again!Due, DueIn, Again!MineDue, Again!MissDue, Again!HoldDue, MineIn, MissIn, HoldIn,
       Again!Waiting, Again!Holding, WaitsIn, HoldsIn, Again!NextNote, NoteIn, Board2

\* whose definitions are other definitions to the prover.
LEMMA CheckState ==
  /\ \A l \in Lane : /\ Again!Waiting(l) <=> WaitsIn(Board2, l)
                     /\ Again!Holding(l) <=> HoldsIn(Board2, l)
                     /\ Again!NextNote(l) = NoteIn(Board2, l)
  /\ Again!AllDone <=> DoneIn(Board2)
<1>1. \A l \in Lane : /\ Again!Waiting(l) <=> WaitsIn(Board2, l)
                      /\ Again!Holding(l) <=> HoldsIn(Board2, l)
                      /\ Again!NextNote(l) = NoteIn(Board2, l)
  BY DEF Again!Waiting, Again!Holding, WaitsIn, HoldsIn, Again!NextNote, NoteIn, Board2
<1>2. Again!AllDone <=> DoneIn(Board2)
  <2>1. Again!AllDone <=> \A l \in Lane : ~Again!Waiting(l) /\ ~Again!Holding(l)
    BY DEF Again!AllDone, Again!Lane, Lane
  <2> QED BY <1>1, <2>1 DEF DoneIn
<1> QED BY <1>1, <1>2

\* The effects of the live engine on its board: a mine is passed,
LEMMA LivePass == ASSUME NEW l, NEW now, PassMine(l, now) PROVE Board' = Passed(Board, l, now)
BY DEF PassMine, Board, Passed, BlownGauge

\* a note is given up,
LEMMA LiveSkip ==
  ASSUME NEW l, NEW now, NEW mask, GiveUpNote(l, now, mask)
  PROVE Board' = Skipped(Board, l, now, mask)
BY DEF GiveUpNote, Judge, Board, Skipped, Marked

\* a hold gets its tail.
LEMMA LiveSettle ==
  ASSUME NEW l, NEW grade, NEW now, NEW pressed, SettleHold(l, grade, now, pressed)
  PROVE Board' = Settled(Board, l, grade, now, pressed)
BY DEF SettleHold, Judge, Board, Settled, Marked

\* The gauges of the verifier are computed as those of the play.
LEMMA SameGauges == ASSUME NEW g, NEW gr, NEW h
  PROVE /\ Again!Judged(g, gr, h) = Judged(g, gr, h) /\ (Again!Dead(g) <=> Dead(g))
        /\ Again!Killed(g) = Killed(g) /\ Again!Damaged(g, h) = Damaged(g, h)
<1>1. Again!Judged(g, gr, h) = Judged(g, gr, h)
  BY DEF Again!Judged, Judged, Again!Moved, Moved, Again!Delta, Delta, Again!Clamped, Clamped
<1> QED BY <1>1 DEF Again!Dead, Dead, Again!Killed, Killed, Again!Damaged, Damaged, Again!Moved,
               Moved,
       Again!Clamped, Clamped

\* A mine is passed in the verification.
LEMMA CheckPass ==
  ASSUME NEW l, NEW now, Again!PassMine(l, now) PROVE Board2' = Passed(Board2, l, now)
<1> DEFINE mine == Mines[l][lanes2[l].mine]
<1>1. CASE lanes2[l].down
  <2>1. /\ log2' = Append(log2, [lane |-> l, note |-> lanes2[l].mine, part |-> "mine",
                                grade |-> "none", due |-> now])
        /\ gauge2' = BlownGauge(Board2, l)
        /\ over2' = (over2 \/ mine.kill \/ (Dead(gauge2') /\ ~NoFail))
        /\ lanes2' = [lanes2 EXCEPT ![l].mine = @ + 1, ![l].down = FALSE]
    BY <1>1, SameGauges DEF Again!PassMine, BlownGauge, Board2
  <2> QED BY <1>1, <2>1 DEF Board2, Passed
<1>2. CASE ~lanes2[l].down
  BY <1>2 DEF Again!PassMine, Board2, Passed
<1> QED BY <1>1, <1>2

\* A judgement of the verifier marks its board;
LEMMA CheckJudge ==
  ASSUME NEW ln, lanes2' = ln, NEW l, NEW note, NEW part, NEW grade, NEW halves, NEW now,
  Again!Judge(l, note, part, grade, halves, now)
  PROVE Board2' = Marked(Board2, ln, l, note, part, grade, halves, now)
<1>1. /\ gauge2' = Judged(gauge2, grade, halves)
      /\ over2' = (over2 \/ (Dead(gauge2') /\ ~NoFail))
      /\ log2' = Append(log2, [lane |-> l, note |-> note, part |-> part, grade |-> grade, due |-> now])
  BY SameGauges DEF Again!Judge
<1> QED BY <1>1 DEF Board2, Marked

\* a note is given up,
LEMMA CheckSkip ==
  ASSUME NEW l, NEW now, NEW mask, Again!GiveUpNote(l, now, mask)
  PROVE Board2' = Skipped(Board2, l, now, mask)
<1>1. /\ lanes2' = [lanes2 EXCEPT ![l].next = @ + 1, ![l].mask = mask]
      /\ Again!Judge(l, lanes2[l].next, "missed", MissGrade, 2, now)
  BY DEF Again!GiveUpNote
<1>2. Board2.lanes = lanes2
  BY DEF Board2
<1> QED BY <1>1, <1>2, CheckJudge DEF Skipped

\* a hold gets its tail.
LEMMA CheckSettle ==
  ASSUME NEW l, NEW grade, NEW now, NEW pressed, Again!SettleHold(l, grade, now, pressed)
  PROVE Board2' = Settled(Board2, l, grade, now, pressed)
<1>1. /\ lanes2' = [lanes2 EXCEPT ![l].hold = NoHold, ![l].down = pressed]
      /\ Again!Judge(l, lanes2[l].hold.note, "tail", grade, 1, now)
  BY DEF Again!SettleHold, Again!NoHold, NoHold
<1>2. Board2.lanes = lanes2
  BY DEF Board2
<1> QED BY <1>1, <1>2, CheckJudge DEF Settled

\* A key edge of the live engine,
LEMMA LiveEdge ==
  ASSUME NEW e, e = [lane |-> call.lane, state |-> call.state, at |-> call.at], ApplyEdge
  PROVE Board' = Edged(Board, e)
<1>1. e.lane = call.lane /\ e.state = call.state /\ e.at = call.at
  OBVIOUS
<1>2. CASE e.state = "Released" /\ HoldsIn(Board, e.lane)
  <2>1. SettleHold(e.lane, TailGrade(lanes[e.lane].hold, e.at), e.at, FALSE)
    BY <1>1, <1>2 DEF ApplyEdge, Holding, HoldsIn, Board
  <2>2. lanes[e.lane].hold = Board.lanes[e.lane].hold
    BY DEF Board
  <2>3. SettleHold(e.lane, TailGrade(Board.lanes[e.lane].hold, e.at), e.at, FALSE)
    BY <2>1, <2>2
  <2>4. Board' = Settled(Board, e.lane, TailGrade(Board.lanes[e.lane].hold, e.at), e.at, FALSE)
    <3>1. PICK pressed : pressed = FALSE
      OBVIOUS
    <3>2. PICK grade : grade = TailGrade(Board.lanes[e.lane].hold, e.at)
      OBVIOUS
    <3>3. SettleHold(e.lane, grade, e.at, pressed)
      BY <2>3, <3>1, <3>2
    <3>4. Board' = Settled(Board, e.lane, grade, e.at, pressed)
      BY <3>3, LiveSettle
    <3> QED BY <3>1, <3>2, <3>4
  <2> QED BY <1>2, <2>4 DEF Edged
<1>3. CASE ~(e.state = "Released" /\ HoldsIn(Board, e.lane))
  <2>1. /\ lanes' = [lanes EXCEPT ![e.lane].down = (e.state = "Pressed")]
        /\ UNCHANGED <<log, gauge, over>>
    BY <1>1, <1>3 DEF ApplyEdge, Holding, HoldsIn, Board
  <2>2. Board' = PutDown(Board, e.lane, e.state = "Pressed")
    BY <2>1 DEF Board, PutDown
  <2> QED BY <1>3, <2>2 DEF Edged
<1> QED BY <1>2, <1>3

\* The verifier classifies as the play does,
LEMMA SameGrades == /\ \A t : Again!Grade(t) = Grade(t)
  /\ \A hold, t : Again!TailGrade(hold, t) = TailGrade(hold, t)
<1>1. \A t : Again!Abs(t) = Abs(t)
  BY DEF Again!Abs, Abs
<1>2. \A t : Again!Grade(t) = Grade(t)
  BY <1>1 DEF Again!Grade, Grade
<1> QED BY <1>2 DEF Again!TailGrade, TailGrade

\* and its key edge has the same effect.
LEMMA CheckEdge ==
  ASSUME NEW e, e = [lane |-> call2.lane, state |-> call2.state, at |-> call2.at],
         Again!ApplyEdge
  PROVE Board2' = Edged(Board2, e)
<1>1. e.lane = call2.lane /\ e.state = call2.state /\ e.at = call2.at
  OBVIOUS
<1>2. CASE e.state = "Released" /\ HoldsIn(Board2, e.lane)
  <2>1. Again!SettleHold(e.lane, Again!TailGrade(lanes2[e.lane].hold, e.at), e.at, FALSE)
    BY <1>1, <1>2 DEF Again!ApplyEdge, Again!Holding, HoldsIn, Board2
  <2>2. lanes2[e.lane].hold = Board2.lanes[e.lane].hold
    BY DEF Board2
  <2>3. Again!SettleHold(e.lane, TailGrade(Board2.lanes[e.lane].hold, e.at), e.at, FALSE)
    BY <2>1, <2>2, SameGrades
  <2>4. Board2' = Settled(Board2, e.lane, TailGrade(Board2.lanes[e.lane].hold, e.at), e.at, FALSE)
    <3>1. PICK pressed : pressed = FALSE
      OBVIOUS
    <3>2. PICK grade : grade = TailGrade(Board2.lanes[e.lane].hold, e.at)
      OBVIOUS
    <3>3. Again!SettleHold(e.lane, grade, e.at, pressed)
      BY <2>3, <3>1, <3>2
    <3>4. Board2' = Settled(Board2, e.lane, grade, e.at, pressed)
      BY <3>3, CheckSettle
    <3> QED BY <3>1, <3>2, <3>4
  <2> QED BY <1>2, <2>4 DEF Edged
<1>3. CASE ~(e.state = "Released" /\ HoldsIn(Board2, e.lane))
  <2>1. /\ lanes2' = [lanes2 EXCEPT ![e.lane].down = (e.state = "Pressed")]
        /\ UNCHANGED <<log2, gauge2, over2>>
    BY <1>1, <1>3 DEF Again!ApplyEdge, Again!Holding, HoldsIn, Board2
  <2>2. Board2' = PutDown(Board2, e.lane, e.state = "Pressed")
    BY <2>1 DEF Board2, PutDown
  <2> QED BY <1>3, <2>2 DEF Edged
<1> QED BY <1>2, <1>3

\* An automatic event of the live engine is the turn AfterAuto says,
LEMMA LiveAuto ==
  ASSUME NEW n, NEW l \in Lane, NEW k \in 1..3,
         \/ k = 1 /\ AutoMine(l)
         \/ k = 2 /\ AutoMiss(l)
         \/ k = 3 /\ AutoHold(l)
  PROVE  Shot(Board', n, Idle, FALSE) = AfterAuto(Shot(Board, n, Idle, FALSE), l, k)
<1> DEFINE x == Shot(Board, n, Idle, FALSE)
<1>1. /\ x.board = Board /\ x.edges = n /\ x.call = Idle /\ Board.lanes = lanes
      /\ NextNote(l) = NoteIn(Board, l)
  BY LiveState DEF Shot, Board
<1> HIDE DEF x
<1>2. CASE k = 1 /\ AutoMine(l)
  <2>1. PassMine(l, Mines[l][Board.lanes[l].mine].at)
    BY <1>1, <1>2 DEF AutoMine
  <2>2. Board' = Passed(Board, l, Mines[l][Board.lanes[l].mine].at)
    BY <2>1, LivePass
  <2>3. AfterAuto(x, l, 1) = Shot(Passed(Board, l, Mines[l][Board.lanes[l].mine].at), n, Idle, FALSE)
    BY <1>1 DEF AfterAuto
  <2> QED BY <1>2, <2>2, <2>3 DEF x
<1>3. CASE k = 2 /\ AutoMiss(l)
  <2>1. GiveUpNote(l, NoteIn(Board, l).start + Miss + 1, NoteIn(Board, l).start + Mask)
    BY <1>1, <1>3 DEF AutoMiss
  <2>2. Board' = Skipped(Board, l, NoteIn(Board, l).start + Miss + 1, NoteIn(Board, l).start + Mask)
    BY <2>1, LiveSkip
  <2>3. AfterAuto(x, l, 2)
          = Shot(Skipped(Board, l, NoteIn(Board, l).start + Miss + 1, NoteIn(Board, l).start + Mask),
                 n, Idle, FALSE)
    BY <1>1 DEF AfterAuto
  <2> QED BY <1>3, <2>2, <2>3 DEF x
<1>4. CASE k = 3 /\ AutoHold(l)
  <2> DEFINE hold == Board.lanes[l].hold
  <2>1. IF hold.kind = "charge"
          THEN SettleHold(l, "BD", hold.end + HoldBreak + 1, Board.lanes[l].down)
        ELSE SettleHold(l, "PG", hold.end, Board.lanes[l].down)
    BY <1>1, <1>4 DEF AutoHold
  <2>2. Board' = IF hold.kind = "charge"
                   THEN Settled(Board, l, "BD", hold.end + HoldBreak + 1, Board.lanes[l].down)
        ELSE Settled(Board, l, "PG", hold.end, Board.lanes[l].down)
    BY <2>1, LiveSettle
  <2>3. AfterAuto(x, l, 3)
          = Shot(IF hold.kind = "charge"
                    THEN Settled(Board, l, "BD", hold.end + HoldBreak + 1, Board.lanes[l].down)
                 ELSE Settled(Board, l, "PG", hold.end, Board.lanes[l].down), n, Idle, FALSE)
    BY <1>1 DEF AfterAuto
  <2> QED BY <1>4, <2>2, <2>3 DEF x
<1> QED BY <1>2, <1>3, <1>4

\* and so is one of the verifier.
LEMMA CheckAuto ==
  ASSUME NEW n, NEW l \in Lane, NEW k \in 1..3,
         \/ k = 1 /\ Again!AutoMine(l)
         \/ k = 2 /\ Again!AutoMiss(l)
         \/ k = 3 /\ Again!AutoHold(l)
  PROVE  Shot(Board2', n, Idle, FALSE) = AfterAuto(Shot(Board2, n, Idle, FALSE), l, k)
<1> DEFINE x == Shot(Board2, n, Idle, FALSE)
<1>1. /\ x.board = Board2 /\ x.edges = n /\ x.call = Idle /\ Board2.lanes = lanes2
      /\ Again!NextNote(l) = NoteIn(Board2, l)
  BY CheckState DEF Shot, Board2
<1> HIDE DEF x
<1>2. CASE k = 1 /\ Again!AutoMine(l)
  <2>1. Again!PassMine(l, Mines[l][Board2.lanes[l].mine].at)
    BY <1>1, <1>2 DEF Again!AutoMine
  <2>2. Board2' = Passed(Board2, l, Mines[l][Board2.lanes[l].mine].at)
    BY <2>1, CheckPass
  <2>3. AfterAuto(x, l, 1) = Shot(Passed(Board2, l, Mines[l][Board2.lanes[l].mine].at), n, Idle, FALSE)
    BY <1>1 DEF AfterAuto
  <2> QED BY <1>2, <2>2, <2>3 DEF x
<1>3. CASE k = 2 /\ Again!AutoMiss(l)
  <2>1. Again!GiveUpNote(l, NoteIn(Board2, l).start + Miss + 1, NoteIn(Board2, l).start + Mask)
    BY <1>1, <1>3 DEF Again!AutoMiss
  <2>2. Board2' = Skipped(Board2, l, NoteIn(Board2, l).start + Miss + 1, NoteIn(Board2, l).start + Mask)
    BY <2>1, CheckSkip
  <2>3. AfterAuto(x, l, 2)
          = Shot(Skipped(Board2, l, NoteIn(Board2, l).start + Miss + 1, NoteIn(Board2, l).start + Mask),
                 n, Idle, FALSE)
    BY <1>1 DEF AfterAuto
  <2> QED BY <1>3, <2>2, <2>3 DEF x
<1>4. CASE k = 3 /\ Again!AutoHold(l)
  <2> DEFINE hold == Board2.lanes[l].hold
  <2>1. IF hold.kind = "charge"
          THEN Again!SettleHold(l, "BD", hold.end + HoldBreak + 1, Board2.lanes[l].down)
        ELSE Again!SettleHold(l, "PG", hold.end, Board2.lanes[l].down)
    BY <1>1, <1>4 DEF Again!AutoHold
  <2>2. Board2' = IF hold.kind = "charge"
                   THEN Settled(Board2, l, "BD", hold.end + HoldBreak + 1, Board2.lanes[l].down)
        ELSE Settled(Board2, l, "PG", hold.end, Board2.lanes[l].down)
    BY <2>1, CheckSettle
  <2>3. AfterAuto(x, l, 3)
          = Shot(IF hold.kind = "charge"
                    THEN Settled(Board2, l, "BD", hold.end + HoldBreak + 1, Board2.lanes[l].down)
                 ELSE Settled(Board2, l, "PG", hold.end, Board2.lanes[l].down), n, Idle, FALSE)
    BY <1>1 DEF AfterAuto
  <2> QED BY <1>4, <2>2, <2>3 DEF x
<1> QED BY <1>2, <1>3, <1>4

\* A mine under the key edge, or none, is a step of the press.
LEMMA LiveMines ==
  ASSUME NEW n, NEW m, EdgeMine \/ EdgeDone
  PROVE  Shot(Board', n, call', over') = AfterCall(Shot(Board, n, call, m))
<1> DEFINE x == Shot(Board, n, call, m)
<1>1. /\ x.board = Board /\ x.edges = n /\ x.call = call /\ Board.lanes = lanes
      /\ Board.over = over
  BY DEF Shot, Board
<1>2. call.stage = "mines"
  BY DEF EdgeMine, EdgeDone
<1> HIDE DEF x
<1>3. MineAt(Board, call) <=> MineAtEdge
  BY <1>1 DEF MineAt, MineAtEdge
<1>4. Board'.over = over'
  BY DEF Board
<1>5. CASE EdgeMine
  <2>1. MinesOn(Board, call)
    BY <1>1, <1>3, <1>5 DEF EdgeMine, MinesOn
  <2>2. Board' = Passed(Board, call.lane, call.at)
    BY <1>5, LivePass DEF EdgeMine
  <2>3. call' = [call EXCEPT !.blown = @ \/ Board.lanes[call.lane].down]
    BY <1>1, <1>5 DEF EdgeMine
  <2>4. AfterCall(x) = Turned(x, Passed(Board, call.lane, call.at),
                              [call EXCEPT !.blown = @ \/ Board.lanes[call.lane].down])
    BY <1>1, <1>2, <2>1 DEF AfterCall, AfterMines
  <2>5. AfterCall(x) = Turned(x, Board', call')
    BY <2>2, <2>3, <2>4
  <2> QED BY <1>1, <1>4, <2>5 DEF Turned, x
<1>6. CASE EdgeDone
  <2>1. ~MinesOn(Board, call)
    BY <1>1, <1>3, <1>6 DEF EdgeDone, MinesOn
  <2>2. Board' = Board
    BY <1>6 DEF EdgeDone, Board
  <2>3. call' = IF StopsIn(Board, call) THEN Idle ELSE [call EXCEPT !.stage = "hit"]
    BY <1>1, <1>6 DEF EdgeDone, StopsIn
  <2>4. AfterCall(x) = Turned(x, Board,
                              IF StopsIn(Board, call) THEN Idle ELSE [call EXCEPT !.stage = "hit"])
    BY <1>1, <1>2, <2>1 DEF AfterCall, AfterMines
  <2>5. AfterCall(x) = Turned(x, Board', call')
    BY <2>2, <2>3, <2>4
  <2> QED BY <1>1, <1>4, <2>5 DEF Turned, x
<1> QED BY <1>5, <1>6

\* What a press looks at is on the board.
LEMMA LivePress ==
  ASSUME NEW l \in Lane, l = call.lane
  PROVE  /\ GiveUp(l) <=> GivesUpIn(Board, call)
         /\ InBad(NextNote(l)) <=> NearIn(Board, call)
         /\ StrayPress(l) <=> StraysIn(Board, call)
         /\ Waiting(l) <=> WaitsIn(Board, l)
         /\ NextNote(l) = NoteIn(Board, l) /\ Board.lanes = lanes
<1>1. /\ NextNote(l) = NoteIn(Board, l) /\ Board.lanes = lanes
      /\ (Waiting(l) <=> WaitsIn(Board, l))
  BY LiveState DEF Board
<1>2. InBad(NextNote(l)) <=> NearIn(Board, call)
  BY <1>1 DEF InBad, NearIn
<1>3. TooLate(NextNote(l)) <=> call.at - NoteIn(Board, l).start > BD
  BY <1>1 DEF TooLate
<1>4. BetterNext(l) <=> BetterIn(Board, call)
  BY <1>1 DEF BetterNext, BetterIn
<1>5. GiveUp(l) <=> GivesUpIn(Board, call)
  BY <1>1, <1>2, <1>3, <1>4 DEF GiveUp, GivesUpIn
<1>6. StrayPress(l) <=> StraysIn(Board, call)
  BY <1>1 DEF StrayPress, StraysIn
<1> QED BY <1>1, <1>2, <1>5, <1>6

\* A turn of try_hit_note is a step of the press.
LEMMA LiveHit ==
  ASSUME NEW n, NEW m, NEW l \in Lane, Skip(l) \/ Hit(l) \/ NoHit(l)
  PROVE  Shot(Board', n, call', over') = AfterCall(Shot(Board, n, call, m))
<1> DEFINE x == Shot(Board, n, call, m)
<1>1. x.board = Board /\ x.edges = n /\ x.call = call
  BY DEF Shot
<1>2. call.stage = "hit" /\ l = call.lane
  BY DEF Skip, Hit, NoHit
<1> HIDE DEF x
<1>3. /\ GiveUp(l) <=> GivesUpIn(Board, call)
      /\ InBad(NextNote(l)) <=> NearIn(Board, call)
      /\ StrayPress(l) <=> StraysIn(Board, call)
      /\ Waiting(l) <=> WaitsIn(Board, l)
      /\ NextNote(l) = NoteIn(Board, l) /\ Board.lanes = lanes
  BY <1>2, LivePress
<1>4. Board'.over = over' /\ Board.over = over /\ Board.gauge = gauge
  BY DEF Board
<1>5. AfterCall(x) = AfterHit(x)
  BY <1>1, <1>2 DEF AfterCall
<1>6. SUFFICES AfterCall(x) = Turned(x, Board', call')
  BY <1>1, <1>4 DEF Turned, x
<1>7. CASE Skip(l)
  <2>1. GivesUpIn(Board, call)
    BY <1>3, <1>7 DEF Skip
  <2> DEFINE mask == Later(Board.lanes[l].mask, NoteIn(Board, l).start + Mask)
  <2>2. GiveUpNote(l, call.at, mask)
    BY <1>3, <1>7 DEF Skip
  <2>3. Board' = Skipped(Board, l, call.at, mask)
    BY <2>2, LiveSkip
  <2>4. Board' = SkippedBy(Board, call)
    BY <1>2, <2>3 DEF SkippedBy
  <2>5. call' = IF Board'.over THEN Idle ELSE [call EXCEPT !.gaveUp = TRUE]
    BY <1>4, <1>7 DEF Skip
  <2> QED BY <1>1, <1>5, <2>1, <2>4, <2>5 DEF AfterHit
<1>8. CASE Hit(l)
  <2>1. /\ ~GivesUpIn(Board, call) /\ WaitsIn(Board, call.lane) /\ NearIn(Board, call)
        /\ call' = Idle
    BY <1>2, <1>3, <1>8 DEF Hit
  <2>2. Board' = HitBoard(Board, l, call.at)
    <3> DEFINE note == NoteIn(Board, l)
               halves == IF note.kind = "tap" THEN 2 ELSE 1
               g == Judged(gauge, Grade(call.at - note.start), halves)
    <3>1. Judge(l, lanes[l].next, "head", Grade(call.at - note.start), halves, call.at)
      BY <1>3, <1>8 DEF Hit
    <3>2. /\ gauge' = g
          /\ over' = (over \/ (Dead(g) /\ ~NoFail))
          /\ log' = Append(log, [lane |-> l, note |-> lanes[l].next, part |-> "head",
                                 grade |-> Grade(call.at - note.start), due |-> call.at])
      BY <3>1 DEF Judge
    <3>3. over' <=> HitOver(Board, l, call.at)
      BY <1>4, <3>2 DEF HitOver
    <3>4. lanes' = [lanes EXCEPT ![l].next = @ + 1,
                       ![l].hold = IF note.kind = "tap" \/ HitOver(Board, l, call.at) THEN @
                                   ELSE [note |-> lanes[l].next, end |-> note.end,
                                         kind |-> note.kind]]
      BY <1>3, <1>8, <3>3 DEF Hit
    <3> QED BY <3>2, <3>4 DEF HitBoard, Marked, Board
  <2> QED BY <1>1, <1>2, <1>5, <2>1, <2>2 DEF AfterHit
<1>9. CASE NoHit(l)
  <2>1. /\ ~GivesUpIn(Board, call) /\ ~(WaitsIn(Board, call.lane) /\ NearIn(Board, call))
        /\ call' = Idle
    <3>1. Waiting(l) => ~GiveUp(l) /\ ~InBad(NextNote(l))
      BY <1>9 DEF NoHit
    <3>2. GiveUp(l) => Waiting(l)
      BY DEF GiveUp
    <3>3. call' = Idle
      BY <1>9 DEF NoHit
    <3> QED BY <1>2, <1>3, <3>1, <3>2, <3>3
  <2>2. Board' = IF StraysIn(Board, call) THEN Strayed(Board, call.lane, call.at) ELSE Board
    <3>1. CASE StrayPress(l)
      <4>1. /\ Judge(l, 0, "poor", "PR", 2, call.at)
            /\ lanes' = [lanes EXCEPT ![l].mask = call.at + Mask]
        BY <1>9, <3>1 DEF NoHit
      <4>2. Board' = Strayed(Board, l, call.at)
        BY <4>1 DEF Judge, Strayed, Marked, Board
      <4> QED BY <1>2, <1>3, <3>1, <4>2
    <3>2. CASE ~StrayPress(l)
      <4>1. Board' = Board
        BY <1>9, <3>2 DEF NoHit, Board
      <4> QED BY <1>3, <3>2, <4>1
    <3> QED BY <3>1, <3>2
  <2> QED BY <1>1, <1>5, <2>1, <2>2 DEF AfterHit
<1> QED BY <1>7, <1>8, <1>9

\* The same of the verifier: the mines,
LEMMA CheckMines ==
  ASSUME NEW n, NEW m, Again!EdgeMine \/ Again!EdgeDone
  PROVE  Shot(Board2', n, call2', over2') = AfterCall(Shot(Board2, n, call2, m))
<1> DEFINE x == Shot(Board2, n, call2, m)
<1>1. /\ x.board = Board2 /\ x.edges = n /\ x.call = call2 /\ Board2.lanes = lanes2
      /\ Board2.over = over2
  BY DEF Shot, Board2
<1>2. call2.stage = "mines"
  BY DEF Again!EdgeMine, Again!EdgeDone
<1> HIDE DEF x
<1>3. MineAt(Board2, call2) <=> Again!MineAtEdge
  BY <1>1 DEF MineAt, Again!MineAtEdge
<1>4. Board2'.over = over2'
  BY DEF Board2
<1>5. CASE Again!EdgeMine
  <2>1. MinesOn(Board2, call2)
    BY <1>1, <1>3, <1>5 DEF Again!EdgeMine, MinesOn
  <2>2. Board2' = Passed(Board2, call2.lane, call2.at)
    BY <1>5, CheckPass DEF Again!EdgeMine
  <2>3. call2' = [call2 EXCEPT !.blown = @ \/ Board2.lanes[call2.lane].down]
    BY <1>1, <1>5 DEF Again!EdgeMine
  <2>4. AfterCall(x) = Turned(x, Passed(Board2, call2.lane, call2.at),
                              [call2 EXCEPT !.blown = @ \/ Board2.lanes[call2.lane].down])
    BY <1>1, <1>2, <2>1 DEF AfterCall, AfterMines
  <2>5. AfterCall(x) = Turned(x, Board2', call2')
    BY <2>2, <2>3, <2>4
  <2> QED BY <1>1, <1>4, <2>5 DEF Turned, x
<1>6. CASE Again!EdgeDone
  <2>1. ~MinesOn(Board2, call2)
    BY <1>1, <1>3, <1>6 DEF Again!EdgeDone, MinesOn
  <2>2. Board2' = Board2
    BY <1>6 DEF Again!EdgeDone, Board2
  <2>3. call2' = IF StopsIn(Board2, call2) THEN Idle ELSE [call2 EXCEPT !.stage = "hit"]
    BY <1>1, <1>6 DEF Again!EdgeDone, StopsIn, Again!Idle, Idle
  <2>4. AfterCall(x) = Turned(x, Board2,
                              IF StopsIn(Board2, call2) THEN Idle ELSE [call2 EXCEPT !.stage = "hit"])
    BY <1>1, <1>2, <2>1 DEF AfterCall, AfterMines
  <2>5. AfterCall(x) = Turned(x, Board2', call2')
    BY <2>2, <2>3, <2>4
  <2> QED BY <1>1, <1>4, <2>5 DEF Turned, x
<1> QED BY <1>5, <1>6

\* what it looks at,
LEMMA CheckPress ==
  ASSUME NEW l \in Lane, l = call2.lane
  PROVE  /\ Again!GiveUp(l) <=> GivesUpIn(Board2, call2)
         /\ Again!InBad(Again!NextNote(l)) <=> NearIn(Board2, call2)
         /\ Again!StrayPress(l) <=> StraysIn(Board2, call2)
         /\ Again!Waiting(l) <=> WaitsIn(Board2, l)
         /\ Again!NextNote(l) = NoteIn(Board2, l) /\ Board2.lanes = lanes2
<1>1. /\ Again!NextNote(l) = NoteIn(Board2, l) /\ Board2.lanes = lanes2
      /\ (Again!Waiting(l) <=> WaitsIn(Board2, l))
  BY CheckState DEF Board2
<1>2. Again!InBad(Again!NextNote(l)) <=> NearIn(Board2, call2)
  BY <1>1 DEF Again!InBad, NearIn, Again!Abs, Abs
<1>3. Again!TooLate(Again!NextNote(l)) <=> call2.at - NoteIn(Board2, l).start > BD
  BY <1>1 DEF Again!TooLate
<1>4. Again!BetterNext(l) <=> BetterIn(Board2, call2)
  BY <1>1, SameGrades DEF Again!BetterNext, BetterIn, Again!Abs, Abs
<1>5. Again!GiveUp(l) <=> GivesUpIn(Board2, call2)
  BY <1>1, <1>2, <1>3, <1>4 DEF Again!GiveUp, GivesUpIn
<1>6. Again!StrayPress(l) <=> StraysIn(Board2, call2)
  BY <1>1 DEF Again!StrayPress, StraysIn
<1> QED BY <1>1, <1>2, <1>5, <1>6

\* and the notes.
LEMMA CheckHit ==
  ASSUME NEW n, NEW m, NEW l \in Lane, Again!Skip(l) \/ Again!Hit(l) \/ Again!NoHit(l)
  PROVE  Shot(Board2', n, call2', over2') = AfterCall(Shot(Board2, n, call2, m))
<1> DEFINE x == Shot(Board2, n, call2, m)
<1>1. x.board = Board2 /\ x.edges = n /\ x.call = call2
  BY DEF Shot
<1>2. call2.stage = "hit" /\ l = call2.lane
  BY DEF Again!Skip, Again!Hit, Again!NoHit
<1> HIDE DEF x
<1>3. /\ Again!GiveUp(l) <=> GivesUpIn(Board2, call2)
      /\ Again!InBad(Again!NextNote(l)) <=> NearIn(Board2, call2)
      /\ Again!StrayPress(l) <=> StraysIn(Board2, call2)
      /\ Again!Waiting(l) <=> WaitsIn(Board2, l)
      /\ Again!NextNote(l) = NoteIn(Board2, l) /\ Board2.lanes = lanes2
  BY <1>2, CheckPress
<1>4. Board2'.over = over2' /\ Board2.over = over2 /\ Board2.gauge = gauge2
  BY DEF Board2
<1>5. AfterCall(x) = AfterHit(x)
  BY <1>1, <1>2 DEF AfterCall
<1>6. SUFFICES AfterCall(x) = Turned(x, Board2', call2')
  BY <1>1, <1>4 DEF Turned, x
<1>7. CASE Again!Skip(l)
  <2>1. GivesUpIn(Board2, call2)
    BY <1>3, <1>7 DEF Again!Skip
  <2> DEFINE mask == Later(Board2.lanes[l].mask, NoteIn(Board2, l).start + Mask)
  <2>2. Again!GiveUpNote(l, call2.at, mask)
    BY <1>3, <1>7 DEF Again!Skip, Again!Later, Later
  <2>3. Board2' = Skipped(Board2, l, call2.at, mask)
    BY <2>2, CheckSkip
  <2>4. Board2' = SkippedBy(Board2, call2)
    BY <1>2, <2>3 DEF SkippedBy
  <2>5. call2' = IF Board2'.over THEN Idle ELSE [call2 EXCEPT !.gaveUp = TRUE]
    BY <1>4, <1>7 DEF Again!Skip, Again!Idle, Idle
  <2> QED BY <1>1, <1>5, <2>1, <2>4, <2>5 DEF AfterHit
<1>8. CASE Again!Hit(l)
  <2>1. /\ ~GivesUpIn(Board2, call2) /\ WaitsIn(Board2, call2.lane) /\ NearIn(Board2, call2)
        /\ call2' = Idle
    BY <1>2, <1>3, <1>8 DEF Again!Hit, Again!Idle, Idle
  <2>2. Board2' = HitBoard(Board2, l, call2.at)
    <3> DEFINE note == NoteIn(Board2, l)
               halves == IF note.kind = "tap" THEN 2 ELSE 1
               g == Judged(gauge2, Grade(call2.at - note.start), halves)
    <3>1. Again!Judge(l, lanes2[l].next, "head", Grade(call2.at - note.start), halves, call2.at)
      BY <1>3, <1>8, SameGrades DEF Again!Hit
    <3>2. /\ gauge2' = g
          /\ over2' = (over2 \/ (Dead(g) /\ ~NoFail))
          /\ log2' = Append(log2, [lane |-> l, note |-> lanes2[l].next, part |-> "head",
                                 grade |-> Grade(call2.at - note.start), due |-> call2.at])
      BY <3>1, SameGauges DEF Again!Judge
    <3>3. over2' <=> HitOver(Board2, l, call2.at)
      BY <1>4, <3>2 DEF HitOver
    <3>4. lanes2' = [lanes2 EXCEPT ![l].next = @ + 1,
                       ![l].hold = IF note.kind = "tap" \/ HitOver(Board2, l, call2.at) THEN @
                                   ELSE [note |-> lanes2[l].next, end |-> note.end,
                                         kind |-> note.kind]]
      BY <1>3, <1>8, <3>3 DEF Again!Hit
    <3> QED BY <3>2, <3>4 DEF HitBoard, Marked, Board2
  <2> QED BY <1>1, <1>2, <1>5, <2>1, <2>2 DEF AfterHit
<1>9. CASE Again!NoHit(l)
  <2>1. /\ ~GivesUpIn(Board2, call2) /\ ~(WaitsIn(Board2, call2.lane) /\ NearIn(Board2, call2))
        /\ call2' = Idle
    <3>1. Again!Waiting(l) => ~Again!GiveUp(l) /\ ~Again!InBad(Again!NextNote(l))
      BY <1>9 DEF Again!NoHit
    <3>2. Again!GiveUp(l) => Again!Waiting(l)
      BY DEF Again!GiveUp
    <3>3. call2' = Idle
      BY <1>9 DEF Again!NoHit, Again!Idle, Idle
    <3> QED BY <1>2, <1>3, <3>1, <3>2, <3>3
  <2>2. Board2' = IF StraysIn(Board2, call2) THEN Strayed(Board2, call2.lane, call2.at) ELSE Board2
    <3>1. CASE Again!StrayPress(l)
      <4>1. /\ Again!Judge(l, 0, "poor", "PR", 2, call2.at)
            /\ lanes2' = [lanes2 EXCEPT ![l].mask = call2.at + Mask]
        BY <1>9, <3>1 DEF Again!NoHit
      <4>2. Board2' = Strayed(Board2, l, call2.at)
        <5>1. Board2.lanes = lanes2
          BY DEF Board2
        <5> QED BY <4>1, <5>1, CheckJudge DEF Strayed
      <4> QED BY <1>2, <1>3, <3>1, <4>2
    <3>2. CASE ~Again!StrayPress(l)
      <4>1. Board2' = Board2
        BY <1>9, <3>2 DEF Again!NoHit, Board2
      <4> QED BY <1>3, <3>2, <4>1
    <3> QED BY <3>1, <3>2
  <2> QED BY <1>1, <1>5, <2>1, <2>2 DEF AfterHit
<1> QED BY <1>7, <1>8, <1>9

-----------------------------------------------------------------------------
\* Reaching: every shot reaches itself,
LEMMA ReachSelf == ASSUME NEW R, NEW C, NEW a PROVE Reaches(R, C, a, a)
BY DEF Reaches

\* a turn more is reached as well,
LEMMA ReachOn == ASSUME NEW R, NEW C, NEW a, NEW z, NEW y, Reaches(R, C, a, z), Turn(R, C, z, y)
  PROVE Reaches(R, C, a, y)
BY DEF Reaches, Closed

\* and whatever more turns allow.
LEMMA ReachMore ==
  ASSUME NEW R, NEW C, NEW Q, NEW D, \A x, y : Turn(R, C, x, y) => Turn(Q, D, x, y),
   NEW a, NEW z, Reaches(R, C, a, z)
  PROVE Reaches(Q, D, a, z)
<1>1. \A S : Closed(Q, D, S) => Closed(R, C, S)
  BY DEF Closed
<1> QED BY <1>1 DEF Reaches

\* A shot with two turns at most that reaches another one reaches it from one of them;
LEMMA ReachFrom == ASSUME NEW R, NEW C, NEW a, NEW z, Reaches(R, C, a, z), a # z, NEW b, NEW c,
    \A y : Turn(R, C, a, y) => y \in {b, c}
  PROVE Reaches(R, C, b, z) \/ Reaches(R, C, c, z)
<1> SUFFICES ASSUME ~Reaches(R, C, b, z), ~Reaches(R, C, c, z) PROVE FALSE
  OBVIOUS
<1>1. PICK S : b \in S /\ Closed(R, C, S) /\ z \notin S
  BY DEF Reaches
<1>2. PICK T : c \in T /\ Closed(R, C, T) /\ z \notin T
  BY DEF Reaches
<1> DEFINE U == {a} \cup S \cup T
<1>3. Closed(R, C, U)
  BY <1>1, <1>2 DEF Closed
<1>4. a \in U /\ z \notin U
  BY <1>1, <1>2
<1> QED BY <1>3, <1>4 DEF Reaches

\* a shot without a turn reaches only itself.
LEMMA ReachEnd ==
  ASSUME NEW R, NEW C, NEW a, NEW z, Reaches(R, C, a, z), \A y : ~Turn(R, C, a, y)
  PROVE a = z
<1>1. Closed(R, C, {a})
  BY DEF Closed
<1> QED BY <1>1 DEF Reaches

\* A kind of event is due at one sample at most in a lane.
LEMMA DuesAreInt ==
  ASSUME NEW b, b.lanes \in [Lane -> LaneStates], NEW l \in Lane, NEW k \in 1..3
  PROVE DueIn(b, l)[k] \subseteq Int /\ \A s, t \in DueIn(b, l)[k] : s = t
<1>1. /\ b.lanes[l].next \in Nat \ {0} /\ b.lanes[l].mine \in Nat \ {0}
      /\ b.lanes[l].hold \in Holds
  BY DEF LaneStates
<1>2. Notes[l] \in Seq(ChartNotes) /\ Mines[l] \in Seq(ChartMines)
  BY EngineAssumption DEF ChartNotes, ChartMines
<1>3. Len(Notes[l]) \in Nat /\ Len(Mines[l]) \in Nat
  BY <1>2, LenProperties
<1>4. MineIn(b, l) \subseteq Int /\ \A s, t \in MineIn(b, l) : s = t
  <2>1. b.lanes[l].mine <= Len(Mines[l]) => Mines[l][b.lanes[l].mine] \in ChartMines
    BY <1>1, <1>2, <1>3, ElementOfSeq
  <2> QED BY <2>1 DEF MineIn, ChartMines
<1>5. MissIn(b, l) \subseteq Int /\ \A s, t \in MissIn(b, l) : s = t
  <2>1. WaitsIn(b, l) => NoteIn(b, l) \in ChartNotes
    BY <1>1, <1>2, <1>3, ElementOfSeq DEF WaitsIn, NoteIn
  <2> QED BY <2>1, Windows DEF MissIn, ChartNotes
<1>6. HoldIn(b, l) \subseteq Int /\ \A s, t \in HoldIn(b, l) : s = t
  BY <1>1, Windows DEF HoldIn, Holds
<1>7. /\ DueIn(b, l)[1] = MineIn(b, l) /\ DueIn(b, l)[2] = MissIn(b, l)
      /\ DueIn(b, l)[3] = HoldIn(b, l)
  BY DEF DueIn
<1> QED BY <1>4, <1>5, <1>6, <1>7

\* Only one event is the first.
LEMMA OnlyFirst ==
  ASSUME NEW b, b.lanes \in [Lane -> LaneStates], NEW l \in Lane, NEW k \in 1..3, NEW s,
         FirstIn(b, l, k, s),
    NEW m \in Lane, NEW j \in 1..3, NEW t, FirstIn(b, m, j, t)
  PROVE l = m /\ k = j
<1>1. s \in DueIn(b, l)[k] /\ t \in DueIn(b, m)[j] /\ s \in Int /\ t \in Int
  BY DuesAreInt DEF FirstIn
<1>2. SUFFICES ASSUME <<l, k>> # <<m, j>> PROVE FALSE
  OBVIOUS
<1>3. Earlier(s, l, k, t, m, j) /\ Earlier(t, m, j, s, l, k)
  BY <1>1, <1>2 DEF FirstIn
<1>4. l \in Int /\ m \in Int
  BY DEF Lane
<1> QED BY <1>1, <1>3, <1>4 DEF Earlier

\* With more time every turn is still there,
LEMMA TurnsLast ==
  ASSUME NEW R \in Seq(Edges), NEW C \in Int, NEW D \in Int, C <= D, NEW x, NEW y,
         Turn(R, C, x, y)
  PROVE Turn(R, D, x, y)
<1>1. CASE x.call # Idle
  BY <1>1 DEF Turn
<1>2. CASE x.call = Idle /\ EdgeTurn(R, x, y)
  BY <1>2 DEF Turn
<1>3. CASE x.call = Idle /\ AutoTurn(R, C, x, y)
  <2>0. PICK l \in Lane, k \in 1..3 : \E s \in DueIn(x.board, l)[k] :
          /\ FirstIn(x.board, l, k, s)
          /\ s <= Limit(R, C, x.edges)
          /\ y = AfterAuto(x, l, k)
    BY <1>3 DEF AutoTurn
  <2>1. PICK s \in DueIn(x.board, l)[k] :
          /\ FirstIn(x.board, l, k, s)
          /\ s <= Limit(R, C, x.edges)
          /\ y = AfterAuto(x, l, k)
    BY <2>0
  <2>2. s \in Int
    BY DuesAreInt DEF Turn
  <2>3. s <= Limit(R, D, x.edges)
    BY <2>1, <2>2 DEF Limit
  <2>4. AutoTurn(R, D, x, y)
    BY <2>1, <2>3 DEF AutoTurn
  <2> QED BY <1>3, <2>4 DEF Turn
<1> QED BY <1>1, <1>2, <1>3 DEF Turn

\* and with one more edge, if it comes after the time there was.
LEMMA TurnsOn ==
  ASSUME NEW R \in Seq(Edges), NEW C \in Int, NEW D \in Int, NEW e \in Edges, C <= e.at - 1,
         NEW x, NEW y, Turn(R, C, x, y)
  PROVE Turn(Append(R, e), D, x, y)
<1> DEFINE Q == Append(R, e)
           n == Len(R)
<1>0. e.at \in Int
  BY DEF Edges
<1>1. /\ n \in Nat /\ Len(Q) = n + 1 /\ Q[n + 1] = e
      /\ \A i \in 1..n : Q[i] = R[i]
  BY AppendProperties, LenProperties
<1> HIDE DEF Q, n
<1>2. x.edges \in 0..n /\ x.edges \in 0..(n + 1)
  BY <1>1 DEF Turn, n
<1>3. CASE x.call # Idle
  BY <1>1, <1>2, <1>3 DEF Turn, Q
<1>4. CASE x.call = Idle /\ EdgeTurn(R, x, y)
  <2>1. x.edges < n /\ x.edges < Len(Q) /\ Q[x.edges + 1] = R[x.edges + 1]
    BY <1>1, <1>2, <1>4 DEF EdgeTurn, n
  <2>2. EdgeTurn(Q, x, y)
    BY <1>4, <2>1 DEF EdgeTurn
  <2> QED BY <1>1, <1>2, <1>4, <2>2 DEF Turn, Q
<1>5. CASE x.call = Idle /\ AutoTurn(R, C, x, y)
  <2>0. PICK l \in Lane, k \in 1..3 : \E s \in DueIn(x.board, l)[k] :
          /\ FirstIn(x.board, l, k, s)
          /\ s <= Limit(R, C, x.edges)
          /\ y = AfterAuto(x, l, k)
    BY <1>5 DEF AutoTurn
  <2>1. PICK s \in DueIn(x.board, l)[k] :
          /\ FirstIn(x.board, l, k, s)
          /\ s <= Limit(R, C, x.edges)
          /\ y = AfterAuto(x, l, k)
    BY <2>0
  <2>2. s \in Int
    BY DuesAreInt DEF Turn
  <2>3. s <= Limit(Q, D, x.edges)
    <3>1. CASE x.edges < n
      <4>1. x.edges < Len(Q) /\ Q[x.edges + 1] = R[x.edges + 1]
        BY <1>1, <1>2, <3>1
      <4> QED BY <2>1, <3>1, <4>1 DEF Limit, n
    <3>2. CASE x.edges = n
      <4>1. s <= C
        BY <1>1, <2>1, <3>2 DEF Limit, n
      <4>2. Limit(Q, D, x.edges) = e.at - 1
        BY <1>1, <3>2 DEF Limit
      <4> QED BY <1>0, <2>2, <4>1, <4>2
    <3> QED BY <1>1, <1>2, <3>1, <3>2
  <2>4. AutoTurn(Q, D, x, y)
    BY <2>1, <2>3 DEF AutoTurn
  <2> QED BY <1>1, <1>2, <1>5, <2>4 DEF Turn, Q
<1> QED BY <1>3, <1>4, <1>5 DEF Turn

-----------------------------------------------------------------------------
\* The ends of the play are truth values.
LEMMA FlagsKept == ASSUME Flags, [Next]_engine PROVE Flags'
<1>1. over' \in BOOLEAN
  <2>1. CASE over' = over
    BY <2>1 DEF Flags
  <2>2. CASE \E x : over' = (over \/ x)
    BY <2>2
  <2>3. ASSUME NEW l, NEW a, NEW b, NEW c, NEW d, NEW e, Judge(l, a, b, c, d, e)
        PROVE  over' \in BOOLEAN
    BY <2>3 DEF Judge
  <2>4. ASSUME NEW l, NEW now, PassMine(l, now)
        PROVE  over' \in BOOLEAN
    BY <2>4 DEF PassMine, Flags
  <2>5. ASSUME ApplyEdge PROVE over' \in BOOLEAN
    BY <2>3, <2>5 DEF ApplyEdge, SettleHold, Flags
  <2>6. ASSUME NEW l \in Lane,
               AutoMine(l) \/ AutoMiss(l) \/ AutoHold(l) \/ Skip(l) \/ Hit(l) \/ NoHit(l)
        PROVE over' \in BOOLEAN
    BY <2>3, <2>4, <2>6 DEF AutoMine, AutoMiss, AutoHold, Skip, Hit, NoHit, GiveUpNote,
           SettleHold, Flags
  <2>7. ASSUME Finalize \/ InputEdge \/ SyncEdge \/ EdgeMine \/ EdgeDone
        PROVE over' \in BOOLEAN
    BY <2>4, <2>5, <2>7 DEF Finalize, InputEdge, SyncEdge, EdgeMine, EdgeDone, Flags
  <2>8. ASSUME ~Inside PROVE over' \in BOOLEAN
    BY <2>8 DEF Next, engine, HandleInput, SyncInputState, Advance, Flags
  <2> QED BY <2>6, <2>7, <2>8 DEF Inside
<1>2. finished' \in BOOLEAN
  BY DEF Flags, Next, Inside, engine, AutoMine, AutoMiss, AutoHold, Skip, Hit, NoHit, Finalize,
         InputEdge,
       SyncEdge, EdgeMine, EdgeDone, HandleInput, SyncInputState, Advance
<1> QED BY <1>1, <1>2 DEF Flags

\* A step takes every lane to the same or a later mine and note.
MovesOn ==
  \A m \in Lane :
    /\ \/ lanes'[m].mine = lanes[m].mine
       \/ lanes'[m].mine = lanes[m].mine + 1 /\ lanes[m].mine <= Len(Mines[m])
    /\ \/ lanes'[m].next = lanes[m].next
       \/ lanes'[m].next = lanes[m].next + 1 /\ Waiting(m)

\* Lanes that stay are no exception;
LEMMA StillMoves == ASSUME lanes' = lanes PROVE MovesOn
BY DEF MovesOn

\* a mine passed moves its lane, and presses no key;
LEMMA PassMoves ==
  ASSUME EngineType, NEW l \in Lane, lanes[l].mine <= Len(Mines[l]), NEW now, PassMine(l, now)
  PROVE MovesOn /\ \A m \in Lane : lanes'[m].down => lanes[m].down
<1>1. \/ lanes' = [lanes EXCEPT ![l].mine = @ + 1, ![l].down = FALSE]
      \/ lanes' = [lanes EXCEPT ![l].mine = @ + 1]
  BY DEF PassMine
<1>2. \A m \in Lane : m # l => lanes'[m] = lanes[m]
  BY <1>1 DEF EngineType
<1>3. lanes'[l].mine = lanes[l].mine + 1 /\ lanes'[l].next = lanes[l].next
  BY <1>1 DEF EngineType, LaneStates
<1>4. lanes'[l].down => lanes[l].down
  BY <1>1 DEF EngineType, LaneStates
<1> QED BY <1>2, <1>3, <1>4 DEF MovesOn

\* a note given up moves its lane and no key;
LEMMA GiveUpMoves ==
  ASSUME EngineType, NEW l \in Lane, Waiting(l), NEW now, NEW mask, GiveUpNote(l, now, mask)
  PROVE MovesOn /\ \A m \in Lane : lanes'[m].down = lanes[m].down
<1>1. lanes' = [lanes EXCEPT ![l].next = @ + 1, ![l].mask = mask]
  BY DEF GiveUpNote
<1>2. \A m \in Lane : m # l => lanes'[m] = lanes[m]
  BY <1>1 DEF EngineType
<1>3. lanes'[l].mine = lanes[l].mine /\ lanes'[l].next = lanes[l].next + 1
  BY <1>1 DEF EngineType, LaneStates
<1>4. lanes'[l].down = lanes[l].down
  BY <1>1 DEF EngineType, LaneStates
<1> QED BY <1>2, <1>3, <1>4 DEF MovesOn

\* a tail moves none, and changes one key;
LEMMA SettleMoves ==
  ASSUME EngineType, NEW l \in Lane, NEW grade, NEW now, NEW pressed,
         SettleHold(l, grade, now, pressed)
  PROVE MovesOn /\ lanes'[l].down = pressed /\ \A m \in Lane : m # l => lanes'[m].down = lanes[m].down
<1>1. lanes' = [lanes EXCEPT ![l].hold = NoHold, ![l].down = pressed]
  BY DEF SettleHold
<1>2. MovesOn
  BY <1>1 DEF MovesOn, EngineType, LaneStates
<1> QED BY <1>1, <1>2 DEF EngineType, LaneStates

\* so no automatic event presses a key,
LEMMA AutoMoves == ASSUME EngineType, NEW l \in Lane, AutoMine(l) \/ AutoMiss(l) \/ AutoHold(l)
  PROVE MovesOn /\ \A m \in Lane : lanes'[m].down => lanes[m].down
<1>1. CASE AutoMine(l)
  BY <1>1, PassMoves DEF AutoMine, Automatic, Due, MineDue
<1>2. CASE AutoMiss(l)
  BY <1>2, GiveUpMoves DEF AutoMiss, Automatic, Due, MissDue
<1>3. CASE AutoHold(l)
  <2>1. \E grade, now : SettleHold(l, grade, now, lanes[l].down)
    BY <1>3 DEF AutoHold
  <2> QED BY <2>1, SettleMoves
<1> QED BY <1>1, <1>2, <1>3

\* a key edge changes one key,
LEMMA EdgeMoves == ASSUME EngineType, call.lane \in Lane, ApplyEdge
  PROVE MovesOn /\ \A m \in Lane : m # call.lane => lanes'[m].down = lanes[m].down
<1> DEFINE l == call.lane
<1>1. CASE call.state = "Released" /\ Holding(l)
  <2>1. \E grade, now, pressed : SettleHold(l, grade, now, pressed)
    BY <1>1 DEF ApplyEdge
  <2> QED BY <2>1, SettleMoves
<1>2. CASE ~(call.state = "Released" /\ Holding(l))
  <2>1. lanes' = [lanes EXCEPT ![l].down = (call.state = "Pressed")]
    BY <1>2 DEF ApplyEdge
  <2> QED BY <2>1 DEF MovesOn, EngineType, LaneStates
<1> QED BY <1>1, <1>2

\* and a press moves its lane.
LEMMA HitMoves == ASSUME EngineType, NEW l \in Lane, Skip(l) \/ Hit(l) \/ NoHit(l)
  PROVE MovesOn
<1>1. CASE Skip(l)
  BY <1>1, GiveUpMoves DEF Skip, GiveUp
<1>2. CASE Hit(l)
  <2>1. \E h : lanes' = [lanes EXCEPT ![l].next = @ + 1, ![l].hold = h]
    BY <1>2 DEF Hit
  <2>2. Waiting(l)
    BY <1>2 DEF Hit
  <2> QED BY <2>1, <2>2 DEF MovesOn, EngineType, LaneStates
<1>3. CASE NoHit(l)
  <2>1. lanes' = lanes \/ lanes' = [lanes EXCEPT ![l].mask = call.at + Mask]
    BY <1>3 DEF NoHit
  <2>2. CASE lanes' = [lanes EXCEPT ![l].mask = call.at + Mask]
    BY <2>2 DEF MovesOn, EngineType, LaneStates
  <2> QED BY <2>1, <2>2, StillMoves
<1> QED BY <1>1, <1>2, <1>3

\* Every step of a call moves the lanes on.
LEMMA InsideMoves == ASSUME EngineType, Inside PROVE MovesOn
<1>1. ASSUME InputEdge \/ SyncEdge PROVE MovesOn
  BY <1>1, EdgeMoves, StillMoves DEF InputEdge, SyncEdge, EngineType
<1>2. ASSUME EdgeMine PROVE MovesOn
  BY <1>2, PassMoves DEF EdgeMine, MineAtEdge, EngineType
<1>3. ASSUME Finalize \/ EdgeDone PROVE MovesOn
  BY <1>3, StillMoves DEF Finalize, EdgeDone
<1> QED BY <1>1, <1>2, <1>3, AutoMoves, HitMoves DEF Inside

\* A lane that moves on has no mine before the ones it had, in a chart in order.
LEMMA MinesStay ==
  ASSUME EngineType, EngineType', Sorted, MovesOn, NEW x \in Int, MinesFrom(x)
  PROVE MinesFrom(x)'
<1>1. SUFFICES ASSUME NEW l \in Lane, lanes'[l].mine <= Len(Mines[l])
               PROVE  x <= Mines[l][lanes'[l].mine].at
  BY DEF MinesFrom, MineDue
<1>2. lanes[l].mine \in Nat \ {0} /\ lanes'[l].mine \in Nat \ {0} /\ Len(Mines[l]) \in Nat
  BY LaneNumbers, ChartLengths DEF EngineType, LaneStates
<1>3. lanes[l].mine <= lanes'[l].mine /\ lanes[l].mine <= Len(Mines[l])
  BY <1>1, <1>2 DEF MovesOn
<1>4. x <= Mines[l][lanes[l].mine].at
  BY <1>3 DEF MinesFrom, MineDue
<1>5. Mines[l] \in Seq(ChartMines)
  BY EngineAssumption DEF ChartMines
<1>6. DOMAIN Mines[l] = 1..Len(Mines[l]) /\ \A i \in 1..Len(Mines[l]) : Mines[l][i].at \in Int
  <2>1. \A i \in 1..Len(Mines[l]) : Mines[l][i] \in ChartMines
    BY <1>5, ElementOfSeq
  <2> QED BY <1>5, <2>1, LenProperties DEF ChartMines
<1>7. lanes[l].mine \in 1..Len(Mines[l]) /\ lanes'[l].mine \in 1..Len(Mines[l])
  BY <1>1, <1>2, <1>3
<1>8. Mines[l][lanes[l].mine].at <= Mines[l][lanes'[l].mine].at
  BY <1>3, <1>6, <1>7 DEF Sorted
<1>9. Mines[l][lanes[l].mine].at \in Int /\ Mines[l][lanes'[l].mine].at \in Int
  BY <1>6, <1>7
<1>10. PICK a \in Int, b \in Int :
         a = Mines[l][lanes[l].mine].at /\ b = Mines[l][lanes'[l].mine].at
  BY <1>9, Zenon
<1>11. x <= a /\ a <= b
  BY <1>4, <1>8, <1>10, Zenon
<1>12. x <= b
  BY <1>11
<1> QED BY <1>10, <1>12, Zenon

\* The board of the live engine is well formed.
LEMMA BoardTyped ==
  EngineType => Board.lanes = lanes /\ Board.lanes \in [Lane -> LaneStates] /\ (Board.over = over)
BY DEF EngineType, Board

\* The first event is the least sample due.
LEMMA FirstLeast ==
  ASSUME NEW b, b.lanes \in [Lane -> LaneStates], NEW l \in Lane, NEW k \in 1..3, NEW s,
         FirstIn(b, l, k, s),
    NEW m \in Lane, NEW j \in 1..3, NEW t \in DueIn(b, m)[j]
  PROVE s <= t
<1>1. s \in DueIn(b, l)[k] /\ s \in Int /\ t \in Int
  BY DuesAreInt DEF FirstIn
<1>2. CASE <<m, j>> = <<l, k>>
  <2>1. t \in DueIn(b, l)[k]
    BY <1>2
  <2>2. s = t
    BY <1>1, <2>1, DuesAreInt
  <2> QED BY <1>1, <2>2
<1>3. CASE <<m, j>> # <<l, k>>
  <2>1. Earlier(s, l, k, t, m, j)
    BY <1>3 DEF FirstIn
  <2> QED BY <1>1, <2>1 DEF Earlier
<1> QED BY <1>2, <1>3

\* The event the chronological loop takes is the first on the board,
LEMMA LiveFirst == ASSUME EngineType, NEW l \in Lane, NEW k \in 1..3, NEW s, IsNext(l, k, s)
  PROVE FirstIn(Board, l, k, s) /\ s \in Int /\ s <= call.until
<1>1. Board.lanes \in [Lane -> LaneStates] /\ \A m \in Lane : Due(m) = DueIn(Board, m)
  BY BoardTyped, LiveDue
<1>2. s \in DueIn(Board, l)[k] /\ s <= call.until
  BY <1>1 DEF IsNext
<1>3. s \in Int /\ call.until \in Int
  BY <1>1, <1>2, DuesAreInt DEF EngineType, Calls
<1>4. ASSUME NEW m \in Lane, NEW j \in 1..3, NEW t \in DueIn(Board, m)[j], <<m, j>> # <<l, k>>
      PROVE  Earlier(s, l, k, t, m, j)
  <2>1. t \in Int
    BY <1>1, DuesAreInt
  <2>2. CASE t <= call.until
    BY <1>1, <1>4, <2>2 DEF IsNext
  <2>3. CASE ~(t <= call.until)
    BY <1>2, <1>3, <2>1, <2>3 DEF Earlier
  <2> QED BY <2>2, <2>3
<1> QED BY <1>2, <1>3, <1>4 DEF FirstIn

\* so no mine lies before it.
LEMMA MinesAfterFirst ==
  ASSUME EngineType, NEW l \in Lane, NEW k \in 1..3, NEW s, IsNext(l, k, s)
  PROVE MinesFrom(s)
<1>1. FirstIn(Board, l, k, s) /\ Board.lanes \in [Lane -> LaneStates]
  BY LiveFirst, BoardTyped
<1>2. SUFFICES ASSUME NEW m \in Lane, NEW t \in MineDue(m)
               PROVE  s <= t
  BY DEF MinesFrom
<1>3. t \in DueIn(Board, m)[1]
  BY LiveDue DEF DueIn
<1> QED BY <1>1, <1>3, FirstLeast

\* A lane goes to its next note by a miss, a note given up or a hit.
LEMMA NextMoved == ASSUME EngineType, Inside, NEW m \in Lane, lanes'[m].next # lanes[m].next
  PROVE AutoMiss(m) \/ Skip(m) \/ Hit(m)
<1>1. ASSUME NEW l \in Lane, NEW now, PassMine(l, now)
      PROVE  lanes'[m].next = lanes[m].next
  <2>1. \/ lanes' = [lanes EXCEPT ![l].mine = @ + 1, ![l].down = FALSE]
        \/ lanes' = [lanes EXCEPT ![l].mine = @ + 1]
    BY <1>1 DEF PassMine
  <2>2. \E r \in LaneStates : lanes' = [lanes EXCEPT ![l] = r] /\ r.next = lanes[l].next
    <3>1. CASE lanes' = [lanes EXCEPT ![l].mine = @ + 1, ![l].down = FALSE]
      <4>1. lanes' = [lanes EXCEPT ![l] = [[lanes[l] EXCEPT !.mine = @ + 1] EXCEPT !.down = FALSE]]
        BY <3>1 DEF EngineType, LaneStates
      <4> QED BY <4>1 DEF EngineType, LaneStates
    <3>2. CASE lanes' = [lanes EXCEPT ![l].mine = @ + 1]
      BY <3>2 DEF EngineType, LaneStates
    <3> QED BY <2>1, <3>1, <3>2
  <2> QED BY <2>2 DEF EngineType
<1>2. ASSUME NEW l \in Lane, NEW grade, NEW now, NEW pressed, SettleHold(l, grade, now, pressed)
      PROVE  lanes'[m].next = lanes[m].next
  BY <1>2 DEF SettleHold, EngineType, LaneStates
<1>3. ASSUME NEW l \in Lane, AutoMine(l) \/ AutoHold(l)
      PROVE  FALSE
  BY <1>1, <1>2, <1>3 DEF AutoMine, AutoHold
<1>4. ASSUME NEW l \in Lane, NEW now, NEW mask, GiveUpNote(l, now, mask)
      PROVE  l = m
  <2>1. lanes' = [lanes EXCEPT ![l].next = @ + 1, ![l].mask = mask]
    BY <1>4 DEF GiveUpNote
  <2> QED BY <2>1 DEF EngineType, LaneStates
<1>5. ASSUME NEW l \in Lane, Hit(l)
      PROVE  l = m
  <2>1. \E h : lanes' = [lanes EXCEPT ![l].next = @ + 1, ![l].hold = h]
    BY <1>5 DEF Hit
  <2> QED BY <2>1 DEF EngineType, LaneStates
<1>6. ASSUME NEW l \in Lane, NoHit(l)
      PROVE  FALSE
  <2>1. lanes' = lanes \/ lanes' = [lanes EXCEPT ![l].mask = call.at + Mask]
    BY <1>6 DEF NoHit
  <2>2. CASE lanes' = [lanes EXCEPT ![l].mask = call.at + Mask]
    BY <2>2 DEF EngineType, LaneStates
  <2> QED BY <2>1, <2>2
<1>7. ASSUME ApplyEdge, call.lane \in Lane
      PROVE  FALSE
  <2>1. CASE lanes' = [lanes EXCEPT ![call.lane].down = (call.state = "Pressed")]
    BY <2>1, <1>7 DEF EngineType, LaneStates
  <2> QED BY <1>2, <1>7, <2>1 DEF ApplyEdge
<1>8. ~(Finalize \/ InputEdge \/ SyncEdge \/ EdgeMine \/ EdgeDone)
  BY <1>1, <1>7 DEF Finalize, InputEdge, SyncEdge, EdgeMine, EdgeDone, EngineType
<1>9. ASSUME NEW l \in Lane, AutoMiss(l) \/ Skip(l) \/ Hit(l)
      PROVE  l = m
  BY <1>4, <1>5, <1>9 DEF AutoMiss, Skip
<1> QED BY <1>3, <1>6, <1>8, <1>9 DEF Inside

\* PastNotes is inductive: a last note is left when its BAD window is reached.
LEMMA PastNotesKept ==
  ASSUME EngineType, EngineType', Sorted, AtEdge, PastNotes, Inside PROVE PastNotes'
<1> SUFFICES ASSUME NEW m \in Lane, Notes[m] # <<>>, ~Waiting(m)'
             PROVE  MinesFrom(Notes[m][Len(Notes[m])].start - BD)'
  BY DEF PastNotes, MinesFrom
<1> DEFINE last == Notes[m][Len(Notes[m])].start
<1>1. Notes[m] \in Seq(ChartNotes) /\ Len(Notes[m]) \in Nat
  BY EngineAssumption, LenProperties DEF ChartNotes
<1>2. Len(Notes[m]) \in 1..Len(Notes[m])
  BY <1>1, EmptySeq
<1>3. last \in Int /\ BD \in Nat /\ Miss \in Nat /\ last - BD \in Int
  <2>1. Notes[m][Len(Notes[m])] \in ChartNotes
    BY <1>1, <1>2, ElementOfSeq
  <2>2. BD \in Nat /\ Miss \in Nat
    BY EngineAssumption
  <2> QED BY <2>1, <2>2 DEF ChartNotes
<1>4. MovesOn
  BY InsideMoves
<1>5. MinesFrom(last - BD)
  <2>1. CASE ~Waiting(m)
    BY <2>1 DEF PastNotes
  <2>2. CASE Waiting(m)
    <3>1. lanes[m].next \in Nat /\ lanes'[m].next # lanes[m].next
      BY <2>2, LaneNumbers DEF Waiting
    <3>2. lanes[m].next = Len(Notes[m])
      BY <1>1, <1>4, <2>2, <3>1 DEF MovesOn, Waiting
    <3>3. NextNote(m).start = last
      BY <3>2 DEF NextNote
    <3>4. CASE AutoMiss(m)
      <4>1. PICK s \in Due(m)[2] : IsNext(m, 2, s)
        BY <3>4 DEF AutoMiss, Automatic
      <4>2. s = last + Miss + 1
        BY <2>2, <3>3, <4>1 DEF Due, MissDue
      <4>3. MinesFrom(s)
        BY <4>1, MinesAfterFirst
      <4>4. ASSUME NEW l \in Lane, NEW r \in MineDue(l)
            PROVE  last - BD <= r
        <5>1. s <= r
          BY <4>3 DEF MinesFrom
        <5>2. r \in Int
          BY DueType
        <5> QED BY <1>3, <4>2, <5>1, <5>2
      <4> QED BY <4>4 DEF MinesFrom
    <3>5. CASE Skip(m) \/ Hit(m)
      <4>1. MinesFrom(call.at) /\ call.at \in Int
        BY <3>5 DEF Skip, Hit, AtEdge, EngineType, Calls
      <4>2. last - BD <= call.at
        <5>1. TooLate(NextNote(m)) \/ InBad(NextNote(m))
          BY <3>5 DEF Skip, Hit, GiveUp
        <5> QED BY <1>3, <3>3, <4>1, <5>1 DEF TooLate, InBad, Abs
      <4>3. ASSUME NEW l \in Lane, NEW r \in MineDue(l)
            PROVE  last - BD <= r
        <5>1. call.at <= r
          BY <4>1 DEF MinesFrom
        <5>2. r \in Int
          BY DueType
        <5> QED BY <1>3, <4>1, <4>2, <5>1, <5>2
      <4> QED BY <4>3 DEF MinesFrom
    <3> QED BY <3>1, <3>4, <3>5, NextMoved
  <2> QED BY <2>1, <2>2
<1> QED BY <1>3, <1>4, <1>5, MinesStay

\* A loop that ends in a play that goes on has left nothing due.
LEMMA FinalizeLooks == ASSUME EngineType, Finalize, ~over PROVE NoneBy(Board, call.until)
<1>1. \A l \in Lane, k \in 1..3 : \A s \in Due(l)[k] : s > call.until
  BY DEF Finalize, NothingNext
<1> QED BY <1>1, LiveDue DEF NoneBy

\* The steps of each stage of a call,
LEMMA InStage == ASSUME EngineType, Inside
  PROVE /\ call.stage = "automatic" =>
             \/ Finalize
             \/ call' = call /\ \E l \in Lane : AutoMine(l) \/ AutoMiss(l) \/ AutoHold(l)
        /\ call.stage = "edge" => InputEdge \/ SyncEdge
        /\ call.stage = "mines" => EdgeMine \/ EdgeDone
        /\ call.stage = "hit" => \E l \in Lane : Skip(l) \/ Hit(l) \/ NoHit(l)
        /\ call.stage # "idle"
<1>1. ASSUME NEW l \in Lane, AutoMine(l) \/ AutoMiss(l) \/ AutoHold(l)
      PROVE  call.stage = "automatic" /\ call' = call
  BY <1>1 DEF AutoMine, AutoMiss, AutoHold, Automatic
<1>2. ASSUME NEW l \in Lane, Skip(l) \/ Hit(l) \/ NoHit(l)
      PROVE  call.stage = "hit"
  BY <1>2 DEF Skip, Hit, NoHit
<1>3. /\ Finalize => call.stage = "automatic"
      /\ InputEdge \/ SyncEdge => call.stage = "edge"
      /\ EdgeMine \/ EdgeDone => call.stage = "mines"
  BY DEF Finalize, InputEdge, SyncEdge, EdgeMine, EdgeDone
<1> QED BY <1>1, <1>2, <1>3 DEF Inside

\* and the stages that follow.
LEMMA NextStage ==
  ASSUME EngineType, Inside
  PROVE  /\ call.stage = "automatic" =>
              \/ call' = call
              \/ call' = Idle
              \/ Finalize /\ call' = [call EXCEPT !.stage = "edge"]
         /\ call.stage = "edge" =>
              \/ InputEdge /\ call' = [call EXCEPT !.stage = "mines"]
              \/ SyncEdge /\ call' = Idle
         /\ call.stage = "mines" =>
              \/ call' = Idle
              \/ call' = [call EXCEPT !.stage = "hit"]
              \/ \E x : call' = [call EXCEPT !.blown = x]
         /\ call.stage = "hit" => (call' = Idle \/ call' = [call EXCEPT !.gaveUp = TRUE])
<1>1. ASSUME call.stage = "automatic"
      PROVE  \/ call' = call
             \/ call' = Idle
             \/ Finalize /\ call' = [call EXCEPT !.stage = "edge"]
  <2>1. CASE Finalize
    BY <2>1 DEF Finalize
  <2> QED BY <1>1, <2>1, InStage
<1>2. ASSUME call.stage = "edge"
      PROVE  \/ InputEdge /\ call' = [call EXCEPT !.stage = "mines"]
             \/ SyncEdge /\ call' = Idle
  <2>1. InputEdge => call' = [call EXCEPT !.stage = "mines"]
    BY DEF InputEdge
  <2>2. SyncEdge => call' = Idle
    BY DEF SyncEdge
  <2> QED BY <1>2, <2>1, <2>2, InStage
<1>3. ASSUME call.stage = "mines"
      PROVE  \/ call' = Idle
             \/ call' = [call EXCEPT !.stage = "hit"]
             \/ \E x : call' = [call EXCEPT !.blown = x]
  BY <1>3, InStage DEF EdgeMine, EdgeDone
<1>4. ASSUME call.stage = "hit"
      PROVE  call' = Idle \/ call' = [call EXCEPT !.gaveUp = TRUE]
  BY <1>4, InStage DEF Skip, Hit, NoHit
<1> QED BY <1>1, <1>2, <1>3, <1>4

\* AtEdge is inductive: the loop before the edge has taken what lies before it.
LEMMA AtEdgeKept ==
  ASSUME EngineType, EngineType', Sorted, CallClock, AtEdge, Inside PROVE AtEdge'
<1>0. call \in Calls /\ call.at \in Int /\ call.until \in Int
  BY DEF EngineType, Calls
<1>1. CASE call'.stage \notin {"edge", "mines", "hit"}
  BY <1>1 DEF AtEdge
<1>2. CASE call'.stage = "edge"
  <2>1. Finalize
    BY <1>0, <1>2, InStage, NextStage DEF Idle, Calls
  <2>2. /\ UNCHANGED <<lanes, gauge, log, over>> /\ ~over /\ finished' = FALSE /\ ~AllDone
        /\ call' = [call EXCEPT !.stage = "edge"] /\ call.kind # "advance"
        /\ call.stage = "automatic"
    BY <1>2, <2>1 DEF Finalize, Idle
  <2>3. NoneBy(Board, call.until)
    BY <2>1, <2>2, FinalizeLooks
  <2>4. call'.at = call.at /\ call'.until = call.until
    BY <1>0, <2>2 DEF Calls
  <2>5. call.until = call.at - 1
    <3>1. call.kind \in {"input", "sync"}
      BY <1>0, <2>2 DEF EngineType, Calls
    <3> QED BY <1>0, <3>1 DEF CallClock
  <2>6. MinesFrom(call.at)
    <3>1. SUFFICES ASSUME NEW m \in Lane, NEW t \in MineDue(m)
                   PROVE  call.at <= t
      BY DEF MinesFrom
    <3>2. t \in DueIn(Board, m)[1] /\ t \in Int
      BY LiveDue, DueType DEF DueIn
    <3>3. t > call.until
      BY <2>3, <3>2 DEF NoneBy
    <3> QED BY <1>0, <2>5, <3>2, <3>3
  <2>7. \A l \in Lane : \A s \in MineDue(l)' : call'.at <= s
    BY <2>2, <2>4, <2>6 DEF MinesFrom, MineDue
  <2>8. Board' = Board
    BY <2>2 DEF Board
  <2>9. ~AllDone'
    BY <2>2 DEF AllDone, Waiting, Holding
  <2>10. NoneBy(Board', call'.until)
    BY <2>3, <2>4, <2>8
  <2> QED BY <1>2, <2>2, <2>7, <2>9, <2>10 DEF AtEdge, MinesFrom
<1>3. CASE call'.stage \in {"mines", "hit"}
  <2>1. call.stage \in {"edge", "mines", "hit"} /\ call'.at = call.at
    BY <1>0, <1>3, InStage, NextStage DEF Idle, Calls
  <2>2. MinesFrom(call.at)
    BY <2>1 DEF AtEdge
  <2>3. \A l \in Lane : \A s \in MineDue(l)' : call.at <= s
    <3>0. PICK x \in Int : x = call.at
      BY <1>0
    <3>1. MinesFrom(x)
      BY <3>0, <2>2
    <3>2. MinesFrom(x)'
      BY <3>1, InsideMoves, MinesStay
    <3> QED BY <3>0, <3>2 DEF MinesFrom
  <2> QED BY <1>3, <2>1, <2>3 DEF AtEdge, MinesFrom
<1> QED BY <1>1, <1>2, <1>3

\* What is recorded is the edge of the call, behind the others.
LEMMA Recording == ASSUME EngineType, call.lane \in Lane, Record
  PROVE /\ LastEdge' = {call.at}
        /\ LET e == [lane |-> call.lane, state |-> call.state, at |-> call.at]
           IN /\ e \in Edges /\ replay' = Append(replay, e) /\ Len(replay') = Len(replay) + 1
              /\ replay'[Len(replay) + 1] = e
        /\ \A i \in DOMAIN replay' : \/ replay'[i] = replay[i] /\ i \in DOMAIN replay
                                     \/ replay'[i].at = call.at
<1> DEFINE e == [lane |-> call.lane, state |-> call.state, at |-> call.at]
<1>1. e \in Edges /\ replay \in Seq(Edges) /\ e.at = call.at
  BY DEF EngineType, Calls, Edges
<1>2. replay' = Append(replay, e)
  BY DEF Record
<1> HIDE DEF e
<1>3. /\ replay' \in Seq(Edges) /\ Len(replay) \in Nat /\ Len(replay') = Len(replay) + 1
      /\ \A i \in 1..Len(replay) : replay'[i] = replay[i]
      /\ replay'[Len(replay) + 1] = e
  BY <1>1, <1>2, AppendProperties, LenProperties
<1>4. DOMAIN replay = 1..Len(replay) /\ DOMAIN replay' = 1..(Len(replay) + 1)
  BY <1>1, <1>3, LenProperties
<1>5. replay' # <<>>
  BY <1>3, EmptySeq
<1>6. LastEdge' = {call.at}
  BY <1>1, <1>3, <1>5 DEF LastEdge
<1>7. \A i \in DOMAIN replay' : \/ replay'[i] = replay[i] /\ i \in DOMAIN replay
                                \/ replay'[i].at = call.at
  BY <1>1, <1>3, <1>4
<1> QED BY <1>1, <1>2, <1>3, <1>6, <1>7 DEF e

\* InPlay is inductive.
LEMMA InPlayKept == ASSUME Typed, CallClock, InPlay, Inside PROVE InPlay'
<1>0. EngineType /\ call.at \in Int /\ frontier \in -1..LastSample /\ LastSample \in Nat
  BY PlayAssumption DEF Typed, PlayTypes, EngineType, Calls
<1>1. CASE replay' = replay
  BY <1>1 DEF InPlay
<1>2. CASE Record /\ (InputEdge \/ SyncEdge)
  <2>1. call.lane \in Lane /\ call.kind \in {"input", "sync"}
    BY <1>0, <1>2 DEF InputEdge, SyncEdge, EngineType
  <2>2. call.at \in 0..LastSample
    BY <1>0, <2>1 DEF CallClock
  <2>3. \A i \in DOMAIN replay' : \/ replay'[i] = replay[i] /\ i \in DOMAIN replay
                                  \/ replay'[i].at = call.at
    BY <1>0, <1>2, <2>1, Recording
  <2> QED BY <2>2, <2>3 DEF InPlay
<1> QED BY <1>1, <1>2 DEF Inside, AutoMine, AutoMiss, AutoHold, Automatic, Skip, Hit, NoHit,
               Finalize, InputEdge,
       SyncEdge, EdgeMine, EdgeDone

\* The clocks are inductive within a call.
LEMMA ClocksKept ==
  ASSUME PlayTypes, CallClock, StartClock, Inside, UNCHANGED keyboard
  PROVE CallClock' /\ StartClock'
<1>0. /\ EngineType /\ call \in Calls /\ baseline.todo \subseteq Lane
      /\ frontier' = frontier /\ baseline' = baseline /\ down' = down
  BY DEF PlayTypes, EngineType, keyboard
<1>1. CASE \E l \in Lane : AutoMine(l) \/ AutoMiss(l) \/ AutoHold(l)
  <2>1. call' = call /\ replay' = replay /\ finished' = finished
    BY <1>1 DEF AutoMine, AutoMiss, AutoHold
  <2>2. \A m \in Lane : lanes'[m].down => lanes[m].down
    BY <1>0, <1>1, AutoMoves
  <2>3. LastEdge' = LastEdge
    BY <2>1 DEF LastEdge
  <2>4. CallClock'
    <3>1. call.kind = "sync" => ~lanes'[call.lane].down
      BY <1>0, <2>2 DEF CallClock, EngineType
    <3> QED BY <1>0, <2>1, <2>3, <3>1 DEF CallClock
  <2>5. StartClock'
    BY <1>0, <2>2, <2>3 DEF StartClock
  <2> QED BY <2>4, <2>5
<1>2. CASE Finalize
  <2>1. /\ lanes' = lanes /\ replay' = replay /\ call.stage = "automatic"
        /\ \/ call' = Idle
           \/ call' = [call EXCEPT !.stage = "edge"] /\ ~finished' /\ call.kind # "advance"
    BY <1>2 DEF Finalize
  <2>2. LastEdge' = LastEdge
    BY <2>1 DEF LastEdge
  <2>3. StartClock'
    BY <1>0, <2>1, <2>2 DEF StartClock
  <2>4. CASE call' = Idle
    BY <2>3, <2>4 DEF CallClock, Idle
  <2>5. CASE call' = [call EXCEPT !.stage = "edge"] /\ ~finished' /\ call.kind # "advance"
    <3>1. /\ call'.stage = "edge" /\ call'.kind = call.kind /\ call'.at = call.at
          /\ call'.until = call.until
          /\ call'.lane = call.lane /\ call'.state = call.state /\ call'.blown = call.blown
          /\ call'.gaveUp = call.gaveUp
      BY <1>0, <2>5 DEF Calls
    <3>2. CASE call.kind = "input"
      BY <1>0, <2>1, <2>2, <2>3, <2>5, <3>1, <3>2 DEF CallClock
    <3>3. CASE call.kind = "sync"
      BY <1>0, <2>1, <2>2, <2>3, <2>5, <3>1, <3>3 DEF CallClock
    <3>4. CASE call.kind \notin {"input", "sync"}
      BY <1>0, <2>3, <2>5, <3>1, <3>4 DEF CallClock
    <3> QED BY <2>3, <3>2, <3>3, <3>4
  <2> QED BY <2>1, <2>4, <2>5
<1>3. CASE InputEdge
  <2>1. /\ call.kind = "input" /\ call.stage = "edge" /\ finished' = finished /\ Record
        /\ call' = [call EXCEPT !.stage = "mines"]
    BY <1>3 DEF InputEdge
  <2>2. LastEdge' = {call.at}
    BY <1>0, <2>1, Recording DEF EngineType
  <2>3. /\ call'.stage = "mines" /\ call'.kind = call.kind /\ call'.at = call.at
        /\ call'.until = call.until
    BY <1>0, <2>1 DEF Calls
  <2>4. call.at \in Int
    BY <1>0 DEF Calls
  <2>5. CallClock'
    BY <1>0, <2>1, <2>2, <2>3, <2>4 DEF CallClock
  <2>6. StartClock'
    BY <1>0, <2>1 DEF CallClock, StartClock
  <2> QED BY <2>5, <2>6
<1>4. CASE SyncEdge
  <2>1. call.kind = "sync" /\ call.stage = "edge" /\ call' = Idle /\ call.lane \in Lane
    BY <1>0, <1>4 DEF SyncEdge, EngineType
  <2>2. LastEdge' = LastEdge \/ LastEdge' = {call.at}
    <3>1. CASE Record
      BY <1>0, <2>1, <3>1, Recording
    <3>2. CASE ~Record
      BY <1>4, <3>2 DEF SyncEdge, LastEdge
    <3> QED BY <3>1, <3>2
  <2>3. \A m \in Lane : m # call.lane => lanes'[m].down = lanes[m].down
    <3>1. CASE ApplyEdge
      BY <1>0, <2>1, <3>1, EdgeMoves
    <3>2. CASE ~ApplyEdge
      BY <1>4, <3>2 DEF SyncEdge
    <3> QED BY <3>1, <3>2
  <2>4. CallClock'
    BY <2>1 DEF CallClock, Idle
  <2>5. StartClock'
    <3>1. call.at = 0 /\ call.lane \notin baseline.todo /\ LastEdge \subseteq {0}
      BY <2>1 DEF CallClock
    <3>2. LastEdge' \subseteq {0}
      BY <2>2, <3>1
    <3>3. \A m \in baseline.todo : ~lanes[m].down => ~lanes'[m].down
      BY <1>0, <2>3, <3>1
    <3> QED BY <1>0, <3>2, <3>3 DEF StartClock
  <2> QED BY <2>4, <2>5
<1>5. CASE call.stage \in {"mines", "hit"}
  <2>1. call.kind = "input"
    BY <1>0, <1>5 DEF EngineType, CallClock
  <2>2. UNCHANGED <<replay, finished>>
    BY <1>0, <1>5, InStage DEF EdgeMine, EdgeDone, Skip, Hit, NoHit
  <2>3. LastEdge' = LastEdge
    BY <2>2 DEF LastEdge
  <2>4. call' = Idle \/ (/\ call'.kind = call.kind /\ call'.at = call.at /\ call'.until = call.until
                         /\ call'.stage \in {"mines", "hit"})
    BY <1>0, <1>5, NextStage DEF Calls
  <2>5. StartClock'
    BY <1>0, <2>1 DEF CallClock, StartClock
  <2>6. CASE call' = Idle
    BY <2>5, <2>6 DEF CallClock, Idle
  <2>7. CASE call' # Idle
    BY <1>0, <1>5, <2>1, <2>2, <2>3, <2>4, <2>5, <2>7 DEF CallClock
  <2> QED BY <2>5, <2>6, <2>7
<1> QED BY <1>0, <1>1, <1>2, <1>3, <1>4, <1>5, InStage DEF Calls

\* The last edge lies in the play.
LEMMA LastInPlay == ASSUME EngineType, InPlay PROVE LastEdge \subseteq 0..LastSample
<1>1. CASE replay = <<>>
  BY <1>1 DEF LastEdge
<1>2. CASE replay # <<>>
  <2>1. replay \in Seq(Edges)
    BY DEF EngineType
  <2>2. Len(replay) \in DOMAIN replay
    BY <1>2, <2>1, LenProperties, EmptySeq
  <2>3. replay[Len(replay)].at \in 0..LastSample
    BY <2>2 DEF InPlay
  <2> QED BY <1>2, <2>3 DEF LastEdge
<1> QED BY <1>1, <1>2

\* What an engine keeps that does not move.
LEMMA SameEngine ==
  ASSUME Kept, UNCHANGED <<lanes, gauge, log, replay, finished, over>>
  PROVE  InPlay' /\ PastNotes' /\ LastEdge' = LastEdge
<1>1. InPlay'
  BY DEF Kept, InPlay
<1>2. PastNotes'
  BY DEF Kept, PastNotes, MinesFrom, MineDue, Waiting
<1> QED BY <1>1, <1>2 DEF LastEdge

\* A key edge begins: it is behind the clock and the other edges.
LEMMA NewEdgeKept ==
  ASSUME Typed, Kept, NEW l \in Lane, NEW state \in States, NEW t \in 0..LastSample,
         HandleInput(l, state, t), frontier < t, baseline.todo = {},
         baseline' = baseline, frontier' = frontier
  PROVE  CallClock' /\ StartClock' /\ AtEdge' /\ InPlay' /\ PastNotes'
<1>1. /\ EngineType /\ LastSample \in Nat /\ frontier \in Int /\ ~finished
      /\ UNCHANGED <<lanes, gauge, log, replay, finished, over>>
  BY PlayAssumption DEF Typed, PlayTypes, HandleInput, Ended
<1>2. /\ NotBefore(t) \in {t} \cup LastEdge
      /\ NotBefore(t) \in Int /\ t <= NotBefore(t)
      /\ \A s \in LastEdge : s \in Int /\ s <= NotBefore(t)
  BY <1>1, NotBeforeTime
<1>3. NotBefore(t) <= LastSample
  BY <1>1, <1>2, LastInPlay DEF Kept
<1>4. /\ call'.kind = "input" /\ call'.stage = "automatic" /\ call'.at = NotBefore(t)
      /\ call'.until = NotBefore(t) - 1 /\ ~call'.blown /\ ~call'.gaveUp
  BY DEF HandleInput, Idle
<1>5. InPlay' /\ PastNotes' /\ LastEdge' = LastEdge
  BY <1>1, SameEngine
<1>6. AtEdge'
  BY <1>4 DEF AtEdge
<1>7. StartClock'
  BY DEF Kept, StartClock
<1>8. CallClock'
  BY <1>1, <1>2, <1>3, <1>4, <1>5 DEF CallClock
<1> QED BY <1>5, <1>6, <1>7, <1>8

\* An advance begins.
LEMMA AdvanceKept ==
  ASSUME Typed, Kept, NEW t \in 0..LastSample, Advance(t), t > frontier,
         \A s \in LastEdge : s <= t,
         baseline.todo = {}, baseline' = baseline, frontier' = t
  PROVE  CallClock' /\ StartClock' /\ AtEdge' /\ InPlay' /\ PastNotes'
<1>1. /\ EngineType /\ LastSample \in Nat /\ frontier \in Int /\ ~finished
      /\ UNCHANGED <<lanes, gauge, log, replay, finished, over>>
  BY PlayAssumption DEF Typed, PlayTypes, Advance, Ended
<1>4. call'.kind = "advance" /\ call'.stage = "automatic" /\ call'.until = t
  BY DEF Advance, Idle
<1>5. InPlay' /\ PastNotes' /\ LastEdge' = LastEdge
  BY <1>1, SameEngine
<1>6. AtEdge'
  BY <1>4 DEF AtEdge
<1>7. StartClock'
  BY DEF Kept, StartClock
<1>8. CallClock'
  BY <1>1, <1>4, <1>5 DEF CallClock
<1> QED BY <1>5, <1>6, <1>7, <1>8

\* A lane is told its first state.
LEMMA RebaselineKept ==
  ASSUME Typed, Kept, NEW l \in Lane, Rebaseline(l)
  PROVE  CallClock' /\ StartClock' /\ AtEdge' /\ InPlay' /\ PastNotes'
<1>1. /\ EngineType /\ baseline \in [todo: SUBSET Lane, at: Int] /\ Owned /\ call.stage = "idle"
      /\ call = Idle
      /\ l \in baseline.todo /\ frontier' = frontier /\ down' = down
      /\ baseline' = [baseline EXCEPT !.todo = @ \ {l}]
      /\ UNCHANGED <<lanes, gauge, log, replay, finished, over>>
  BY DEF Typed, PlayTypes, Rebaseline, SyncInputState, engine, Kept, CallClock
<1>2. baseline'.at = baseline.at /\ baseline'.todo = baseline.todo \ {l}
  BY <1>1
<1>3. InPlay' /\ PastNotes' /\ LastEdge' = LastEdge
  BY <1>1, SameEngine
<1>4. baseline.at = 0 /\ frontier = -1 /\ LastEdge \subseteq {0} /\ down \subseteq StartKeys
      /\ \A m \in baseline.todo : ~lanes[m].down
  BY <1>1 DEF Kept, StartClock
<1>5. StartClock'
  BY <1>1, <1>2, <1>3, <1>4 DEF StartClock
<1>6. CASE Ended
  <2>1. call' = call
    BY <1>6 DEF Rebaseline, engine
  <2>2. CallClock' /\ AtEdge'
    BY <1>1, <2>1 DEF CallClock, AtEdge, Idle
  <2> QED BY <1>3, <1>5, <2>2
<1>7. CASE ~Ended
  <2>1. PICK state \in States : /\ SyncInputState(l, state, 0)
                                /\ state = "Pressed" => owner[l] # 0
    BY <1>4, <1>7 DEF Rebaseline, States
  <2>2. NotBefore(0) = 0
    BY <1>1, <1>4, NotBeforeTime
  <2>3. /\ call'.kind = "sync" /\ call'.stage = "automatic" /\ call'.at = 0 /\ call'.until = -1
        /\ call'.lane = l /\ call'.state = state
    BY <2>1, <2>2 DEF SyncInputState, Idle
  <2>4. state = "Pressed" => StartKeys # {}
    BY <1>1, <1>4, <2>1 DEF Owned
  <2>5. CallClock'
    BY <1>1, <1>2, <1>3, <1>4, <1>7, <2>3, <2>4 DEF CallClock, Ended
  <2>6. AtEdge'
    BY <2>3 DEF AtEdge
  <2> QED BY <1>3, <1>5, <2>5, <2>6
<1> QED BY <1>6, <1>7

\* A step that moves neither the engine nor the clock keeps all.
LEMMA StillKept ==
  ASSUME Kept, UNCHANGED engine, frontier' = frontier, baseline' = baseline,
         down' = down \/ baseline.todo = {}
  PROVE  CallClock' /\ StartClock' /\ AtEdge' /\ InPlay' /\ PastNotes'
<1>1. UNCHANGED <<lanes, gauge, log, replay, finished, over, call>>
  BY DEF engine
<1>2. InPlay' /\ PastNotes' /\ LastEdge' = LastEdge
  BY <1>1, SameEngine
<1>3. CallClock'
  BY <1>1, <1>2 DEF Kept, CallClock
<1>4. StartClock'
  BY <1>1, <1>2 DEF Kept, StartClock
<1>5. Board' = Board /\ (AllDone' <=> AllDone) /\ \A l \in Lane : MineDue(l)' = MineDue(l)
  BY <1>1 DEF Board, AllDone, Waiting, Holding, MineDue
<1>6. AtEdge'
  BY <1>1, <1>5 DEF Kept, AtEdge, MinesFrom, NoneBy
<1> QED BY <1>2, <1>3, <1>4, <1>6

\* A step that leaves a play steady keeps what such a play keeps,
LEMMA KeptStep ==
  ASSUME Sorted, Late = 0, Typed, Typed', KeptSteady, [PlayNext]_play, Steady'
  PROVE  Steady /\ Kept'
<1>1. /\ PlayTypes /\ EngineType /\ EngineType' /\ pauses \in Nat /\ stale \in Nat
      /\ frontier \in Int /\ LastSample \in Nat
  BY PlayAssumption DEF Typed, PlayTypes
<1>2. [Next]_engine
  BY <1>1, PlayDrives
<1>3. ASSUME \E key \in Keys, t \in Samples : CatchUp(key, t)
      PROVE  FALSE
  BY <1>1, <1>3 DEF CatchUp, Steady
<1>4. ASSUME \E held \in SUBSET Keys, t \in Samples : Resume(held, t)
      PROVE  FALSE
  BY <1>1, <1>4 DEF Resume, Steady
<1>5. SUFFICES ASSUME pauses' = pauses, stale' = stale,
                 \/ Inside /\ UNCHANGED keyboard
                 \/ \E key \in Keys, t \in Samples : KeyEdge(key, t)
                 \/ \E t \in Samples : Callback(t)
                 \/ \E l \in Lane : Rebaseline(l)
                 \/ UNCHANGED <<engine, keyboard>>
               PROVE  Steady /\ Kept'
  <2>1. \/ Inside /\ UNCHANGED keyboard
        \/ \E key \in Keys, t \in Samples : KeyEdge(key, t)
        \/ \E t \in Samples : Callback(t)
        \/ \E l \in Lane : Rebaseline(l)
        \/ UNCHANGED <<engine, keyboard>>
    BY <1>3, <1>4, PlayStep
  <2>2. pauses' = pauses /\ stale' = stale
    BY <2>1 DEF keyboard, KeyEdge, Callback, Rebaseline
  <2> QED BY <1>5, <2>1, <2>2
<1>6. Steady /\ Kept
  BY <1>5 DEF KeptSteady, Steady
<1>7. Flags'
  BY <1>2, <1>6, FlagsKept DEF Kept
<1>8. CallClock' /\ StartClock' /\ AtEdge' /\ InPlay' /\ PastNotes'
  <2>1. CASE Inside /\ UNCHANGED keyboard
    <3>1. CallClock' /\ StartClock'
      BY <1>1, <1>6, <2>1, ClocksKept DEF Kept
    <3>2. AtEdge'
      BY <1>1, <1>6, <2>1, AtEdgeKept DEF Kept
    <3>3. InPlay'
      BY <1>6, <2>1, InPlayKept DEF Kept
    <3>4. PastNotes'
      BY <1>1, <1>6, <2>1, PastNotesKept DEF Kept
    <3> QED BY <3>1, <3>2, <3>3, <3>4
  <2>2. ASSUME NEW key \in Keys, NEW t \in Samples, KeyEdge(key, t)
        PROVE  CallClock' /\ StartClock' /\ AtEdge' /\ InPlay' /\ PastNotes'
    <3>1. /\ baseline.todo = {} /\ baseline' = baseline /\ frontier' = frontier /\ frontier < t
          /\ t \in 0..LastSample /\ key[1] \in Lane
      BY <1>1, <2>2, KeyLane DEF KeyEdge, Playing, InTime, Samples
    <3>2. CASE UNCHANGED engine
      BY <1>6, <3>1, <3>2, StillKept
    <3>3. CASE \E state \in States : HandleInput(key[1], state, t)
      BY <1>6, <3>1, <3>3, NewEdgeKept
    <3> QED BY <2>2, <3>2, <3>3 DEF KeyEdge, States
  <2>3. ASSUME NEW t \in Samples, Callback(t)
        PROVE  CallClock' /\ StartClock' /\ AtEdge' /\ InPlay' /\ PastNotes'
    BY <1>6, <2>3, AdvanceKept DEF Callback, Playing, Samples
  <2>4. ASSUME NEW l \in Lane, Rebaseline(l)
        PROVE  CallClock' /\ StartClock' /\ AtEdge' /\ InPlay' /\ PastNotes'
    BY <1>6, <2>4, RebaselineKept
  <2>5. CASE UNCHANGED <<engine, keyboard>>
    BY <1>6, <2>5, StillKept DEF keyboard
  <2> QED BY <1>5, <2>1, <2>2, <2>3, <2>4, <2>5
<1> QED BY <1>6, <1>7, <1>8 DEF Kept

\* and the start has it.
LEMMA KeptInit == ASSUME PlayInit PROVE Kept
<1>1. /\ Init /\ frontier = -1 /\ baseline = [todo |-> Lane, at |-> 0]
      /\ down \subseteq StartKeys
      /\ replay = <<>> /\ call = Idle /\ finished = FALSE /\ over = FALSE
      /\ \A l \in Lane : ~lanes[l].down /\ lanes[l].next = 1
  BY DEF PlayInit, Init
<1>2. Flags
  BY <1>1 DEF Flags
<1>3. CallClock
  BY <1>1 DEF CallClock, Idle
<1>4. StartClock
  BY <1>1 DEF StartClock, LastEdge
<1>5. InPlay
  BY <1>1 DEF InPlay
<1>6. AtEdge
  BY <1>1 DEF AtEdge, Idle
<1>7. PastNotes
  <2>1. \A m \in Lane : Notes[m] # <<>> => Waiting(m)
    <3>1. SUFFICES ASSUME NEW m \in Lane, Notes[m] # <<>>
                   PROVE  1 <= Len(Notes[m])
      BY <1>1 DEF Waiting
    <3>2. Notes[m] \in Seq(ChartNotes)
      BY EngineAssumption DEF ChartNotes
    <3> QED BY <3>1, <3>2, LenProperties, EmptySeq
  <2> QED BY <2>1 DEF PastNotes
<1> QED BY <1>2, <1>3, <1>4, <1>5, <1>6, <1>7 DEF Kept

-----------------------------------------------------------------------------
\* The last recorded edge, as a set.
LEMMA LastEdges == ASSUME EngineType
  PROVE  /\ replay \in Seq(Edges) /\ Len(replay) \in Nat /\ LastEdge \subseteq Int
         /\ replay # <<>> => LastEdge = {replay[Len(replay)].at}
         /\ replay = <<>> => LastEdge = {}
<1>1. replay \in Seq(Edges) /\ Len(replay) \in Nat
  BY LenProperties DEF EngineType
<1>2. replay # <<>> => replay[Len(replay)] \in Edges
  BY <1>1, EmptySeq, ElementOfSeq
<1> QED BY <1>1, <1>2 DEF LastEdge, Edges

\* Between two calls the horizon is the clock, or the sample before a later edge,
LEMMA HorizonIs == ASSUME EngineType, frontier \in Int, call.stage = "idle", ~Ended
  PROVE  /\ Horizon \in Int /\ frontier <= Horizon
         /\ \A s \in LastEdge : s - 1 <= Horizon
         /\ \A x \in Int : frontier <= x /\ (\A s \in LastEdge : s - 1 <= x) => Horizon <= x
<1>1. /\ replay # <<>> => replay[Len(replay)].at \in Int /\ LastEdge = {replay[Len(replay)].at}
      /\ replay = <<>> => LastEdge = {}
  BY LastEdges
<1>2. CASE replay = <<>>
  BY <1>1, <1>2 DEF Horizon
<1>3. CASE replay # <<>>
  <2>1. Horizon = Later(frontier, replay[Len(replay)].at - 1)
    BY <1>3 DEF Horizon
  <2> QED BY <1>1, <1>3, <2>1 DEF Later
<1> QED BY <1>2, <1>3

\* now
LEMMA HorizonNow == EngineType /\ frontier \in Int /\ call.stage = "idle" /\ ~Ended =>
            /\ Horizon \in Int /\ frontier <= Horizon
            /\ \A s \in LastEdge : s - 1 <= Horizon
BY HorizonIs

\* and after a step.
LEMMA HorizonNext == (EngineType /\ frontier \in Int /\ call.stage = "idle" /\ ~Ended =>
            /\ Horizon \in Int /\ frontier <= Horizon
            /\ \A s \in LastEdge : s - 1 <= Horizon)'
BY HorizonNow, PTL

\* The horizon is a sample.
LEMMA HorizonInt == ASSUME Typed PROVE Horizon \in Int
<1>1. EngineType /\ frontier \in Int /\ LastSample \in Int /\ call.until \in Int
  BY PlayAssumption DEF Typed, PlayTypes, EngineType, Calls
<1> QED BY <1>1, HorizonIs DEF Horizon

\* The horizon never goes back, as the clock does not and inputs do not trail it.
LEMMA HorizonGrows ==
  ASSUME Typed, Typed', Kept, Kept', [PlayNext]_play, Late = 0, UNCHANGED <<pauses, stale>>
  PROVE  Horizon <= Horizon'
<1>1. /\ EngineType /\ EngineType' /\ frontier \in Int /\ frontier' \in Int
      /\ frontier' <= LastSample /\ LastSample \in Nat
      /\ call.at \in Int /\ call.until \in Int /\ Horizon \in Int /\ pauses \in Nat
      /\ stale \in Nat
  <2>1. EngineType /\ EngineType' /\ frontier \in Int /\ pauses \in Nat /\ stale \in Nat
    BY DEF Typed, PlayTypes
  <2>2. frontier' \in -1..LastSample /\ LastSample \in Nat
    BY PlayAssumption DEF Typed
  <2>3. call.at \in Int /\ call.until \in Int
    BY <2>1 DEF EngineType, Calls
  <2> QED BY <2>1, <2>2, <2>3, HorizonInt
<1>2. /\ call'.stage = "idle" /\ ~Ended' =>
           /\ Horizon' \in Int /\ frontier' <= Horizon'
           /\ \A s \in LastEdge' : s - 1 <= Horizon'
      /\ call'.stage = "idle" /\ Ended' => Horizon' = LastSample
      /\ call'.stage # "idle" => Horizon' = call'.until
  <2>1. call'.stage = "idle" /\ ~Ended' =>
           /\ Horizon' \in Int /\ frontier' <= Horizon'
           /\ \A s \in LastEdge' : s - 1 <= Horizon'
    <3> QED BY <1>1, HorizonNext
  <2> QED BY <2>1 DEF Horizon
<1>3. CASE Inside /\ UNCHANGED keyboard
  <2>0. frontier' = frontier
    BY <1>3 DEF keyboard
  <2>1. call.stage # "idle" /\ Horizon = call.until
    BY <1>1, <1>3, InStage DEF Horizon
  <2>2. CASE call'.stage # "idle"
    <3>1. call'.until = call.until
      BY <1>1, <1>3, <2>1, <2>2, NextStage DEF EngineType, Calls, Idle
    <3> QED BY <1>1, <1>2, <2>1, <2>2, <3>1
  <2>3. CASE call'.stage = "idle" /\ Ended'
    <3>1. call.until <= LastSample
      <4>1. call.kind \in {"advance", "input", "sync"}
        BY <1>1, <2>1 DEF EngineType, Calls
      <4> QED BY <1>1, <2>0, <4>1 DEF Kept, CallClock
    <3> QED BY <1>2, <2>1, <2>3, <3>1
  <2>4. CASE call'.stage = "idle" /\ ~Ended'
    <3>1. CASE call.kind \in {"advance", "sync"}
      <4>1. call.until = frontier
        BY <3>1 DEF Kept, CallClock
      <4> QED BY <1>1, <1>2, <2>0, <2>1, <2>4, <4>1
    <3>2. CASE call.kind = "input"
      <4>1. call.until = call.at - 1
        BY <3>2 DEF Kept, CallClock
      <4>2. call.stage \in {"mines", "hit"}
        <5>1. call.stage # "automatic"
          <6>1. ASSUME call.stage = "automatic" PROVE FALSE
            <7>1. call'.stage = call.stage \/ Finalize
              BY <1>1, <1>3, <6>1, InStage
            <7>2. Finalize
              BY <2>4, <6>1, <7>1
            <7>3. call'.stage = "edge"
              BY <1>1, <2>4, <3>2, <7>2 DEF Finalize, Ended, EngineType, Calls
            <7> QED BY <2>4, <7>3
          <6> QED BY <6>1
        <5>2. call.stage # "edge"
          <6>1. ASSUME call.stage = "edge" PROVE FALSE
            <7>1. InputEdge
              BY <1>1, <1>3, <3>2, <6>1, InStage DEF SyncEdge
            <7>2. call'.stage = "mines"
              BY <1>1, <7>1 DEF InputEdge, EngineType, Calls
            <7> QED BY <2>4, <7>2
          <6> QED BY <6>1
        <5> QED BY <1>1, <2>1, <5>1, <5>2 DEF EngineType, Calls
      <4>3. call.at \in LastEdge
        BY <3>2, <4>2 DEF Kept, CallClock
      <4>4. LastEdge' = LastEdge
        <5>1. replay' = replay
          BY <1>1, <1>3, <4>2, InStage DEF EdgeMine, EdgeDone, Skip, Hit, NoHit
        <5> QED BY <5>1 DEF LastEdge
      <4> QED BY <1>1, <1>2, <2>1, <2>4, <4>1, <4>3, <4>4
    <3>3. call.kind \in {"advance", "input", "sync"}
      BY <1>1, <2>1 DEF EngineType, Calls
    <3> QED BY <3>1, <3>2, <3>3
  <2> QED BY <2>2, <2>3, <2>4
<1>4. ASSUME NEW x \in Int, call'.stage # "idle", call'.until = x, call.stage = "idle", ~Ended,
             frontier <= x, \A s \in LastEdge : s - 1 <= x
      PROVE  Horizon <= Horizon'
  BY <1>1, <1>2, <1>4, HorizonIs
<1>5. CASE UNCHANGED engine /\ frontier' = frontier
  <2>1. Horizon' = Horizon
    BY <1>5 DEF Horizon, engine, Ended
  <2> QED BY <1>1, <2>1
<1>6. ASSUME NEW l, NEW state, NEW t \in Int, HandleInput(l, state, t), frontier < t
      PROVE  Horizon <= Horizon'
  <2>1. /\ call'.stage = "automatic" /\ call'.until = NotBefore(t) - 1 /\ call.stage = "idle"
        /\ ~Ended
    BY <1>6 DEF HandleInput, Idle
  <2>2. /\ NotBefore(t) \in Int /\ t <= NotBefore(t)
        /\ \A s \in LastEdge : s \in Int /\ s <= NotBefore(t)
    BY <1>1, NotBeforeTime
  <2>3. /\ NotBefore(t) - 1 \in Int /\ frontier <= NotBefore(t) - 1
        /\ \A s \in LastEdge : s - 1 <= NotBefore(t) - 1
    BY <1>1, <1>6, <2>2
  <2> QED BY <1>4, <2>1, <2>3
<1>7. ASSUME NEW t \in Int, Advance(t), frontier < t, \A s \in LastEdge : s <= t
      PROVE  Horizon <= Horizon'
  <2>1. call'.stage = "automatic" /\ call'.until = t /\ call.stage = "idle" /\ ~Ended
    BY <1>7 DEF Advance, Idle
  <2>2. LastEdge \subseteq Int
    BY <1>1, LastEdges
  <2> QED BY <1>1, <1>4, <1>7, <2>1, <2>2
<1>8. ASSUME NEW l \in Lane, Rebaseline(l)
      PROVE  Horizon <= Horizon'
  <2>1. /\ baseline.at = 0 /\ frontier = -1 /\ LastEdge \subseteq {0} /\ frontier' = frontier
    BY <1>8 DEF Rebaseline, Kept, StartClock
  <2>2. CASE Ended
    BY <1>5, <1>8, <2>1, <2>2 DEF Rebaseline
  <2>3. CASE ~Ended
    <3>1. PICK state : SyncInputState(l, state, 0)
      BY <1>8, <2>1, <2>3 DEF Rebaseline
    <3>2. NotBefore(0) = 0
      BY <1>1, <2>1, NotBeforeTime
    <3>3. call'.stage = "automatic" /\ call'.until = -1 /\ call.stage = "idle"
      BY <3>1, <3>2 DEF SyncInputState, Idle
    <3> QED BY <1>1, <1>4, <2>1, <2>3, <3>3
  <2> QED BY <2>2, <2>3
<1>9. ASSUME NEW key \in Keys, NEW t \in Samples, KeyEdge(key, t)
      PROVE  Horizon <= Horizon'
  <2>1. frontier < t /\ t \in Int /\ frontier' = frontier
    BY <1>1, <1>9 DEF KeyEdge, InTime, Samples
  <2> QED BY <1>5, <1>6, <1>9, <2>1 DEF KeyEdge
<1>10. ASSUME NEW t \in Samples, Callback(t)
       PROVE  Horizon <= Horizon'
  BY <1>1, <1>7, <1>10 DEF Callback, Samples
<1>11. ~\E key \in Keys, t \in Samples : CatchUp(key, t)
  BY <1>1 DEF CatchUp
<1>12. ~\E held \in SUBSET Keys, t \in Samples : Resume(held, t)
  BY <1>1 DEF Resume
<1> QED BY <1>3, <1>5, <1>8, <1>9, <1>10, <1>11, <1>12, PlayStep DEF keyboard

\* The live play stands at a shot that turns have led to.
Played == \E m \in BOOLEAN : MidOk(m) /\ Reaches(replay, Horizon, Start, LiveShot(m))

\* What the start reaches in less time it reaches in more,
LEMMA ReachLonger ==
  ASSUME NEW R \in Seq(Edges), NEW C \in Int, NEW D \in Int, C <= D, NEW z,
         Reaches(R, C, Start, z)
  PROVE Reaches(R, D, Start, z)
BY ReachMore, TurnsLast

\* and with one more edge.
LEMMA ReachEdge ==
  ASSUME NEW R \in Seq(Edges), NEW C \in Int, NEW D \in Int, NEW e \in Edges, C <= e.at - 1,
         NEW z, Reaches(R, C, Start, z)
  PROVE Reaches(Append(R, e), D, Start, z)
BY ReachMore, TurnsOn

\* Where every note is judged, no mine is left.
LEMMA MinesBeforeEnd == ASSUME EngineType, MinesInTime, PastNotes, AllDone, NEW l \in Lane
  PROVE MineDue(l) = {}
<1> SUFFICES ASSUME NEW s, s \in MineDue(l) PROVE FALSE
  OBVIOUS
<1>1. /\ s = Mines[l][lanes[l].mine].at /\ lanes[l].mine \in DOMAIN Mines[l] /\ s \in Int
  <2>1. lanes[l].mine <= Len(Mines[l]) /\ s = Mines[l][lanes[l].mine].at
    BY DEF MineDue
  <2>2. Mines[l] \in Seq(ChartMines)
    BY EngineAssumption DEF ChartMines
  <2>3. DOMAIN Mines[l] = 1..Len(Mines[l]) /\ Len(Mines[l]) \in Nat
    BY <2>2, LenProperties
  <2> QED BY <2>1, <2>3, LaneNumbers, DueType
<1>2. PICK m \in Lane : Notes[m] # <<>> /\ s < Notes[m][Len(Notes[m])].start - BD
  BY <1>1 DEF MinesInTime
<1>3. Notes[m][Len(Notes[m])].start - BD <= s
  BY <1>2 DEF PastNotes, AllDone, MinesFrom
<1>4. Notes[m][Len(Notes[m])].start \in Int /\ BD \in Int
  <2>1. Notes[m] \in Seq(ChartNotes)
    BY EngineAssumption DEF ChartNotes
  <2>2. Len(Notes[m]) \in 1..Len(Notes[m])
    BY <1>2, <2>1, EmptySeq, LenProperties
  <2>3. Notes[m][Len(Notes[m])] \in ChartNotes
    BY <2>1, <2>2, ElementOfSeq
  <2> QED BY <2>3, Windows DEF ChartNotes
<1> QED BY <1>1, <1>2, <1>3, <1>4

\* The horizon is a sample after a step, too.
LEMMA HorizonTyped == (Typed => Horizon \in Int)'
<1>1. Typed => Horizon \in Int
  BY HorizonInt
<1> QED BY HorizonInt, PTL

\* A step that leaves the shot as it is, and one that makes a turn, keep Played:
LEMMA SamePlayed ==
  ASSUME Typed, Typed', Horizon <= Horizon', replay' = replay, NEW m \in BOOLEAN,
         Reaches(replay, Horizon, Start, LiveShot(m)), LiveShot(m)' = LiveShot(m), MidOk(m)'
  PROVE  Played'
<1>1. replay \in Seq(Edges) /\ Horizon \in Int /\ Horizon' \in Int
  BY HorizonInt, HorizonTyped DEF Typed, PlayTypes, EngineType
<1>2. Reaches(replay, Horizon', Start, LiveShot(m))
  BY <1>1, ReachLonger
<1>3. Reaches(replay', Horizon', Start, LiveShot(m)')
  BY <1>2
<1> QED BY <1>3 DEF Played

\* the turn was there before the step.
LEMMA TurnPlayed ==
  ASSUME Typed, Typed', Horizon <= Horizon', replay' = replay, NEW m \in BOOLEAN,
         Reaches(replay, Horizon, Start, LiveShot(m)),
         NEW n \in BOOLEAN, MidOk(n)', Turn(replay, Horizon, LiveShot(m), LiveShot(n)')
  PROVE  Played'
<1>1. replay \in Seq(Edges) /\ Horizon \in Int /\ Horizon' \in Int
  BY HorizonInt, HorizonTyped DEF Typed, PlayTypes, EngineType
<1>2. Reaches(replay, Horizon, Start, LiveShot(n)')
  BY ReachOn
<1>3. Reaches(replay, Horizon', Start, LiveShot(n)')
  BY <1>1, <1>2, ReachLonger
<1>4. Reaches(replay', Horizon', Start, LiveShot(n)')
  BY <1>3
<1> QED BY <1>4 DEF Played

\* An automatic event is a turn.
LEMMA AutoPlayed ==
  ASSUME Typed, Typed', Kept, MinesInTime, Played, Horizon <= Horizon',
         NEW l \in Lane, AutoMine(l) \/ AutoMiss(l) \/ AutoHold(l)
  PROVE  Played'
<1>0. EngineType /\ call.until \in Int /\ Horizon \in Int
  BY HorizonInt DEF Typed, PlayTypes, EngineType, Calls
<1>1. PICK k \in 1..3 : /\ \/ k = 1 /\ AutoMine(l)
                           \/ k = 2 /\ AutoMiss(l)
                           \/ k = 3 /\ AutoHold(l)
                        /\ Automatic(l, k)
  BY DEF AutoMine, AutoMiss, AutoHold
<1>2. call.stage = "automatic" /\ ~over /\ call' = call /\ replay' = replay
  BY <1>1 DEF Automatic, AutoMine, AutoMiss, AutoHold
<1>3. PICK s \in Due(l)[k] : IsNext(l, k, s)
  BY <1>1 DEF Automatic
<1>4. PICK m \in BOOLEAN : MidOk(m) /\ Reaches(replay, Horizon, Start, LiveShot(m))
  BY DEF Played
<1>5. m = FALSE
  BY <1>2, <1>4 DEF MidOk
<1>6. PICK n \in Nat : n = Len(replay)
  BY <1>0, LastEdges
<1>7. /\ LiveShot(m) = Shot(Board, n, Idle, FALSE)
      /\ LiveShot(m)' = Shot(Board', n, Idle, FALSE)
  BY <1>2, <1>5, <1>6 DEF LiveShot, Striking
<1>8. LiveShot(m)' = AfterAuto(LiveShot(m), l, k)
  BY <1>1, <1>7, LiveAuto
<1>9. Turn(replay, Horizon, LiveShot(m), LiveShot(m)')
  <2> DEFINE x == LiveShot(m)
  <2>1. x.board = Board /\ x.edges = n /\ x.call = Idle
    BY <1>7 DEF Shot
  <2> HIDE DEF x
  <2>2. x.board.lanes \in [Lane -> LaneStates] /\ ~x.board.over /\ x.edges \in 0..Len(replay)
    BY <1>0, <1>2, <1>6, <2>1, BoardTyped
  <2>3. ~AllDone
    <3>1. CASE k = 1
      BY <1>0, <1>3, <3>1, MinesBeforeEnd DEF Kept, Due
    <3>2. CASE k = 2
      BY <1>3, <3>2 DEF AllDone, Due, MissDue
    <3>3. CASE k = 3
      BY <1>3, <3>3 DEF AllDone, Due, HoldDue
    <3> QED BY <3>1, <3>2, <3>3
  <2>4. ~DoneIn(x.board)
    BY <2>1, <2>3, LiveState
  <2>5. FirstIn(Board, l, k, s) /\ s \in Int /\ s <= call.until
    BY <1>0, <1>3, LiveFirst
  <2>6. Limit(replay, Horizon, x.edges) = call.until
    BY <1>2, <1>6, <2>1 DEF Limit, Horizon
  <2>7. s \in DueIn(x.board, l)[k]
    BY <2>1, <2>5 DEF FirstIn
  <2>8. AutoTurn(replay, Horizon, x, LiveShot(m)')
    BY <1>8, <2>1, <2>5, <2>6, <2>7 DEF AutoTurn, x
  <2> QED BY <2>1, <2>2, <2>4, <2>8 DEF Turn, x
<1>10. MidOk(m)'
  BY <1>2, <1>5 DEF MidOk
<1> QED BY <1>2, <1>4, <1>9, <1>10, TurnPlayed

\* The end of the loop leaves the shot, and settles mid.
LEMMA FinalizePlayed ==
  ASSUME Typed, Typed', Kept, Kept', Played, Horizon <= Horizon', Finalize
  PROVE  Played'
<1>1. /\ call.stage = "automatic" /\ UNCHANGED <<lanes, gauge, log, replay, over>>
      /\ call'.stage \in {"idle", "edge"} /\ ~finished /\ finished' = (finished \/ AllDone)
  BY DEF Finalize, Idle, Kept, CallClock, Typed, PlayTypes, EngineType, Calls
<1>2. PICK m \in BOOLEAN : MidOk(m) /\ Reaches(replay, Horizon, Start, LiveShot(m))
  BY DEF Played
<1>3. ~m
  BY <1>1, <1>2 DEF MidOk
<1>4. LiveShot(m)' = LiveShot(m)
  BY <1>1 DEF LiveShot, Board, Striking
<1>5. AllDone' <=> AllDone
  BY <1>1 DEF AllDone, Waiting, Holding
<1>6. MidOk(m)'
  BY <1>1, <1>3, <1>5 DEF MidOk
<1> QED BY <1>1, <1>2, <1>4, <1>6, SamePlayed

\* A step of a press is a turn.
LEMMA CallPlayed ==
  ASSUME Typed, Typed', Kept, Played, Horizon <= Horizon', call.stage \in {"mines", "hit"},
         Inside, over' \in BOOLEAN
  PROVE  Played'
<1>1. EngineType /\ call \in Calls
  BY DEF Typed, PlayTypes, EngineType
<1>2. \/ EdgeMine \/ EdgeDone
      \/ \E l \in Lane : Skip(l) \/ Hit(l) \/ NoHit(l)
  BY <1>1, InStage
<1>3. UNCHANGED <<replay, finished>>
  BY <1>2 DEF EdgeMine, EdgeDone, Skip, Hit, NoHit
<1>4. call' = Idle \/ call'.stage \in {"mines", "hit"}
  BY <1>1, NextStage DEF Calls
<1>5. PICK m \in BOOLEAN : MidOk(m) /\ Reaches(replay, Horizon, Start, LiveShot(m))
  BY DEF Played
<1>6. PICK n \in Nat : n = Len(replay)
  BY <1>1, LastEdges
<1>7. PICK o \in BOOLEAN : o = over'
  OBVIOUS
<1>8. LiveShot(m) = Shot(Board, n, call, m)
  BY <1>6 DEF LiveShot, Striking
<1>9. LiveShot(o)' = Shot(Board', n, call', over')
  BY <1>3, <1>4, <1>6, <1>7 DEF LiveShot, Striking, Idle
<1>10. LiveShot(o)' = AfterCall(LiveShot(m))
  BY <1>2, <1>8, <1>9, LiveMines, LiveHit
<1>11. Turn(replay, Horizon, LiveShot(m), LiveShot(o)')
  <2> DEFINE x == LiveShot(m)
  <2>1. x.board = Board /\ x.edges = n /\ x.call = call
    BY <1>8 DEF Shot
  <2> HIDE DEF x
  <2>2. x.board.lanes \in [Lane -> LaneStates] /\ x.edges \in 0..Len(replay) /\ x.call # Idle
    BY <1>1, <1>6, <2>1, BoardTyped DEF Idle
  <2> QED BY <1>10, <2>2 DEF Turn, x
<1>12. MidOk(o)'
  BY <1>3, <1>4, <1>7 DEF MidOk, Kept, CallClock, Ended, Idle
<1> QED BY <1>3, <1>5, <1>11, <1>12, TurnPlayed

\* Two calls that agree in everything are the same.
LEMMA SameCall ==
  ASSUME NEW c \in Calls, NEW d \in Calls, c.kind = d.kind, c.stage = d.stage, c.lane = d.lane,
    c.state = d.state, c.at = d.at, c.until = d.until, c.gaveUp = d.gaveUp, c.blown = d.blown
  PROVE c = d
BY DEF Calls

\* The press an edge makes is a call.
LEMMA EdgeCallType == ASSUME EngineType, NEW e \in Edges
  PROVE /\ EdgeCall(e) \in Calls
        /\ EdgeCall(e) = [kind |-> "input", stage |-> "mines", lane |-> e.lane,
                          state |-> e.state, at |-> e.at, until |-> e.at - 1,
                          gaveUp |-> FALSE, blown |-> FALSE]
<1>1. Idle \in Calls
  BY CallRecords
<1>2. e.lane \in Lane /\ e.state \in States /\ e.at \in Int /\ e.at - 1 \in Int
  BY DEF Edges
<1>3. EdgeCall(e) \in Calls
  BY <1>1, <1>2 DEF EdgeCall, Calls
<1> DEFINE r == [kind |-> "input", stage |-> "mines", lane |-> e.lane, state |-> e.state, at |-> e.at,
                           until |-> e.at - 1, gaveUp |-> FALSE, blown |-> FALSE]
<1>4. r \in Calls
  BY <1>2 DEF Calls
<1>5. /\ EdgeCall(e).kind = "input" /\ EdgeCall(e).stage = "mines" /\ EdgeCall(e).lane = e.lane
      /\ EdgeCall(e).state = e.state /\ EdgeCall(e).at = e.at /\ EdgeCall(e).until = e.at - 1
      /\ EdgeCall(e).gaveUp = FALSE /\ EdgeCall(e).blown = FALSE
  BY <1>1 DEF EdgeCall, Idle
<1> QED BY <1>3, <1>4, <1>5, SameCall

\* An edge that is recorded is a turn with the longer recording.
LEMMA RecordPlayed ==
  ASSUME Typed, Typed', Kept, Record, ApplyEdge, call.stage = "edge",
         call.kind \in {"input", "sync"},
         NEW m \in BOOLEAN, Reaches(replay, Horizon, Start, LiveShot(m)), ~m,
         NEW o \in BOOLEAN, MidOk(o)',
         \/ o = over' /\ call' = [call EXCEPT !.stage = "mines"] /\ call.kind = "input"
         \/ o = FALSE /\ call' = Idle /\ StartEdge(call)
  PROVE  Played'
<1>0. /\ EngineType /\ call.lane \in Lane /\ call \in Calls /\ call.at \in Int
      /\ Horizon \in Int /\ Horizon' \in Int
  BY HorizonInt, HorizonTyped DEF Typed, PlayTypes, EngineType, Calls
<1>1. PICK e \in Edges : /\ e = [lane |-> call.lane, state |-> call.state, at |-> call.at]
                         /\ replay' = Append(replay, e) /\ Len(replay') = Len(replay) + 1
                         /\ replay'[Len(replay) + 1] = e
  BY <1>0, Recording
<1>2. e.lane = call.lane /\ e.state = call.state /\ e.at = call.at
  BY <1>1
<1>3. PICK n \in Nat : n = Len(replay) /\ n + 1 = Len(replay')
  BY <1>0, <1>1, LastEdges
<1>4. LiveShot(m) = Shot(Board, n, Idle, FALSE)
  BY <1>3 DEF LiveShot, Striking
<1>5. Board' = Edged(Board, e)
  BY <1>1, LiveEdge
<1>6. Horizon = call.at - 1 /\ call.until = call.at - 1
  BY <1>0 DEF Horizon, Kept, CallClock
<1>7. Reaches(replay', Horizon', Start, LiveShot(m))
  <2>1. replay \in Seq(Edges)
    BY <1>0, LastEdges
  <2>2. Reaches(Append(replay, e), Horizon', Start, LiveShot(m))
    BY <1>0, <1>2, <1>6, <2>1, ReachEdge
  <2> QED BY <1>1, <2>2
<1>8. ~over /\ ~AllDone /\ NoneBy(Board, call.until)
  BY DEF Kept, AtEdge
<1>9. Turn(replay', Horizon', LiveShot(m), LiveShot(o)')
  <2> DEFINE x == LiveShot(m)
  <2>1. x.board = Board /\ x.edges = n /\ x.call = Idle
    BY <1>4 DEF Shot
  <2>2. LiveShot(o)' = Shot(Board', n + 1, IF call'.stage \in {"mines", "hit"} THEN call' ELSE Idle, o)
    BY <1>3 DEF LiveShot, Striking
  <2> HIDE DEF x
  <2>3. /\ x.board.lanes \in [Lane -> LaneStates] /\ ~x.board.over
        /\ x.edges \in 0..Len(replay') /\ ~DoneIn(x.board)
        /\ x.edges < Len(replay') /\ replay'[x.edges + 1] = e /\ NoneBy(x.board, e.at - 1)
    BY <1>0, <1>1, <1>2, <1>3, <1>6, <1>8, <2>1, BoardTyped, LiveState
  <2>4. CASE o = over' /\ call' = [call EXCEPT !.stage = "mines"] /\ call.kind = "input"
    <3>1. ~call.blown /\ ~call.gaveUp
      BY <2>4 DEF Kept, CallClock
    <3>2. call' = EdgeCall(e)
      <4>1. call.blown = FALSE /\ call.gaveUp = FALSE
        BY <1>0, <3>1 DEF Calls
      <4>2. call' = [kind |-> "input", stage |-> "mines", lane |-> e.lane,
                     state |-> e.state, at |-> e.at, until |-> e.at - 1,
                     gaveUp |-> FALSE, blown |-> FALSE]
        BY <1>0, <1>2, <1>6, <2>4, <4>1 DEF Calls
      <4>3. EdgeCall(e) = [kind |-> "input", stage |-> "mines", lane |-> e.lane,
                           state |-> e.state, at |-> e.at, until |-> e.at - 1,
                           gaveUp |-> FALSE, blown |-> FALSE]
        BY <1>0, EdgeCallType
      <4> QED BY <4>2, <4>3
    <3>3. o = Edged(Board, e).over
      BY <1>5, <2>4 DEF Board
    <3>4. LiveShot(o)' = Shot(Edged(Board, e), n + 1, EdgeCall(e), Edged(Board, e).over)
      BY <1>0, <1>5, <2>2, <2>4, <3>2, <3>3 DEF Calls
    <3>5. LiveShot(o)' = AfterEdge(x, e)
      BY <2>1, <3>4 DEF AfterEdge
    <3>6. EdgeTurn(replay', x, LiveShot(o)')
      BY <2>3, <3>5 DEF EdgeTurn
    <3> QED BY <2>1, <2>3, <3>6 DEF Turn, x
  <2>5. CASE o = FALSE /\ call' = Idle /\ StartEdge(call)
    <3>1. StartEdge(e)
      BY <1>2, <2>5 DEF StartEdge
    <3>2. LiveShot(o)' = Shot(Edged(Board, e), n + 1, Idle, FALSE)
      BY <1>5, <2>2, <2>5 DEF Idle
    <3>3. LiveShot(o)' = AfterStart(x, e)
      BY <2>1, <3>2 DEF AfterStart
    <3>4. EdgeTurn(replay', x, LiveShot(o)')
      BY <2>3, <3>1, <3>3 DEF EdgeTurn
    <3> QED BY <2>1, <2>3, <3>4 DEF Turn, x
  <2> QED BY <2>4, <2>5
<1>10. Reaches(replay', Horizon', Start, LiveShot(o)')
  BY <1>7, <1>9, ReachOn
<1> QED BY <1>10 DEF Played

\* So is a key edge; a state that is no edge leaves the shot.
LEMMA EdgePlayed ==
  ASSUME Typed, Typed', Kept, Kept', Played, Horizon <= Horizon', InputEdge \/ SyncEdge
  PROVE  Played'
<1>0. /\ EngineType /\ call \in Calls /\ call.lane \in Lane /\ call.kind \in {"input", "sync"}
      /\ call.stage = "edge" /\ finished' = finished /\ ~finished /\ ~over
  BY DEF Typed, PlayTypes, EngineType, InputEdge, SyncEdge, Kept, CallClock, AtEdge
<1>1. PICK m \in BOOLEAN : MidOk(m) /\ Reaches(replay, Horizon, Start, LiveShot(m))
  BY DEF Played
<1>2. ~m
  BY <1>0, <1>1 DEF MidOk
<1>3. CASE InputEdge
  <2>1. PICK o \in BOOLEAN : o = over'
    BY DEF Kept, Flags
  <2>2. call' = [call EXCEPT !.stage = "mines"] /\ call.kind = "input" /\ Record /\ ApplyEdge
    BY <1>3 DEF InputEdge
  <2>3. MidOk(o)'
    BY <1>0, <2>1, <2>2 DEF MidOk, Calls
  <2> QED BY <1>0, <1>1, <1>2, <2>1, <2>2, <2>3, RecordPlayed
<1>4. CASE SyncEdge /\ lanes[call.lane].down = (call.state = "Pressed")
  <2>1. UNCHANGED <<lanes, gauge, log, replay, over>> /\ call' = Idle
    BY <1>4 DEF SyncEdge
  <2>2. LiveShot(m)' = LiveShot(m)
    BY <1>0, <2>1 DEF LiveShot, Board, Striking, Idle
  <2>3. MidOk(m)'
    BY <1>0, <1>2, <2>1 DEF MidOk, Idle, Ended
  <2> QED BY <1>1, <2>1, <2>2, <2>3, SamePlayed
<1>5. CASE SyncEdge /\ lanes[call.lane].down # (call.state = "Pressed")
  <2>1. Record /\ ApplyEdge /\ call' = Idle /\ call.kind = "sync"
    BY <1>5 DEF SyncEdge
  <2>2. ~lanes[call.lane].down /\ call.at = 0 /\ (call.state = "Pressed" => StartKeys # {})
    BY <2>1 DEF Kept, CallClock
  <2>3. call.state = "Pressed"
    <3>1. lanes[call.lane].down \in BOOLEAN
      BY <1>0 DEF EngineType, LaneStates
    <3> QED BY <1>5, <2>2, <3>1
  <2>4. over' = over
    BY <2>1, <2>3 DEF ApplyEdge
  <2>5. PICK o \in BOOLEAN : o = FALSE
    OBVIOUS
  <2>6. MidOk(o)'
    BY <1>0, <2>1, <2>4, <2>5 DEF MidOk, Idle, Ended
  <2>7. StartEdge(call)
    BY <2>2, <2>3 DEF StartEdge
  <2> QED BY <1>0, <1>1, <1>2, <2>1, <2>5, <2>6, <2>7, RecordPlayed
<1> QED BY <1>3, <1>4, <1>5

\* The beginning of a call leaves the shot.
LEMMA BegunPlayed ==
  ASSUME Typed, Typed', Kept, Played, Horizon <= Horizon',
         UNCHANGED <<lanes, gauge, log, replay, finished, over>>,
         call' = call \/ (call.stage = "idle" /\ ~Ended /\ call'.stage = "automatic")
  PROVE  Played'
<1>1. PICK m \in BOOLEAN : MidOk(m) /\ Reaches(replay, Horizon, Start, LiveShot(m))
  BY DEF Played
<1>2. LiveShot(m)' = LiveShot(m)
  BY DEF LiveShot, Board, Striking
<1>3. AllDone' <=> AllDone
  BY DEF AllDone, Waiting, Holding
<1>4. MidOk(m)'
  BY <1>1, <1>3 DEF MidOk, Ended
<1> QED BY <1>1, <1>2, <1>4, SamePlayed

\* Played is inductive,
LEMMA PlayedStep ==
  ASSUME MinesInTime, Late = 0, Typed, Typed', Kept, Kept', UNCHANGED <<pauses, stale>>, Played,
         [PlayNext]_play
  PROVE  Played'
<1>1. Horizon <= Horizon'
  BY HorizonGrows
<1>2. EngineType /\ pauses \in Nat /\ stale \in Nat
  BY DEF Typed, PlayTypes
<1>3. CASE Inside
  <2>1. CASE call.stage = "automatic"
    BY <1>1, <1>2, <1>3, <2>1, InStage, FinalizePlayed, AutoPlayed
  <2>2. CASE call.stage = "edge"
    BY <1>1, <1>2, <1>3, <2>2, InStage, EdgePlayed
  <2>3. CASE call.stage \in {"mines", "hit"}
    BY <1>1, <1>3, <2>3, CallPlayed DEF Kept, Flags
  <2> QED BY <1>2, <1>3, <2>1, <2>2, <2>3, InStage DEF EngineType, Calls
<1>4. ASSUME UNCHANGED engine
      PROVE  Played'
  BY <1>1, <1>4, BegunPlayed DEF engine
<1>5. ASSUME NEW l, NEW state, NEW t,
             HandleInput(l, state, t) \/ SyncInputState(l, state, t) \/ Advance(t)
      PROVE  Played'
  BY <1>1, <1>5, BegunPlayed DEF HandleInput, SyncInputState, Advance, Idle
<1>6. /\ ~(\E key \in Keys, t \in Samples : CatchUp(key, t))
      /\ ~(\E held \in SUBSET Keys, t \in Samples : Resume(held, t))
  BY <1>2 DEF CatchUp, Resume
<1> QED BY <1>3, <1>4, <1>5, <1>6, PlayStep DEF KeyEdge, Callback, Rebaseline

\* and holds at the start.
LEMMA PlayedInit == ASSUME PlayInit PROVE Played
<1>1. PICK f \in BOOLEAN : f = FALSE
  OBVIOUS
<1>2. LiveShot(f) = Start
  BY <1>1 DEF PlayInit, Init, LiveShot, Start, Board, Striking, Idle
<1>3. MidOk(f)
  BY <1>1 DEF PlayInit, Init, MidOk, Ended
<1> QED BY <1>2, <1>3, ReachSelf DEF Played

-----------------------------------------------------------------------------
\* The event the verifier takes is the first on its board.
LEMMA CheckFirst ==
  ASSUME lanes2 \in [Lane -> LaneStates], NEW l \in Lane, NEW k \in 1..3, NEW s,
         Again!IsNext(l, k, s), call2.until \in Int
  PROVE FirstIn(Board2, l, k, s) /\ s \in Int /\ s <= call2.until
<1>1. Board2.lanes \in [Lane -> LaneStates] /\ \A m \in Lane : Again!Due(m) = DueIn(Board2, m)
  BY CheckDue DEF Board2
<1>2. s \in DueIn(Board2, l)[k] /\ s <= call2.until
  BY <1>1 DEF Again!IsNext
<1>3. s \in Int
  BY <1>1, <1>2, DuesAreInt
<1>4. ASSUME NEW m \in Lane, NEW j \in 1..3, NEW t \in DueIn(Board2, m)[j], <<m, j>> # <<l, k>>
      PROVE  Earlier(s, l, k, t, m, j)
  <2>1. t \in Int
    BY <1>1, DuesAreInt
  <2>2. CASE t <= call2.until
    <3>1. Again!Earlier(s, l, k, t, m, j)
      BY <1>1, <1>4, <2>2 DEF Again!IsNext, Again!Lane, Lane
    <3> QED BY <3>1 DEF Again!Earlier, Earlier
  <2>3. CASE ~(t <= call2.until)
    BY <1>2, <1>3, <2>1, <2>3 DEF Earlier
  <2> QED BY <2>2, <2>3
<1> QED BY <1>2, <1>3, <1>4 DEF FirstIn

\* A loop of the verifier that ends has left nothing due.
LEMMA CheckLooks == ASSUME Again!Finalize, ~over2 PROVE NoneBy(Board2, call2.until)
<1>1. \A l \in Lane, k \in 1..3 : \A s \in Again!Due(l)[k] : s > call2.until
  BY DEF Again!Finalize, Again!NothingNext, Again!Lane, Lane
<1> QED BY <1>1, CheckDue DEF NoneBy

\* The steps of each stage of a call of the verifier.
LEMMA CheckStage == ASSUME Again!Inside
  PROVE /\ call2.stage = "automatic" =>
             \/ Again!Finalize
             \/ \E l \in Lane : Again!AutoMine(l) \/ Again!AutoMiss(l) \/ Again!AutoHold(l)
        /\ call2.stage = "edge" => Again!InputEdge \/ Again!SyncEdge
        /\ call2.stage = "mines" => Again!EdgeMine \/ Again!EdgeDone
        /\ call2.stage = "hit" => \E l \in Lane : Again!Skip(l) \/ Again!Hit(l) \/ Again!NoHit(l)
        /\ call2.stage # "idle"
<1>1. ASSUME NEW l \in Lane, Again!AutoMine(l) \/ Again!AutoMiss(l) \/ Again!AutoHold(l)
      PROVE  call2.stage = "automatic"
  BY <1>1 DEF Again!AutoMine, Again!AutoMiss, Again!AutoHold, Again!Automatic
<1>2. ASSUME NEW l \in Lane, Again!Skip(l) \/ Again!Hit(l) \/ Again!NoHit(l)
      PROVE  call2.stage = "hit"
  BY <1>2 DEF Again!Skip, Again!Hit, Again!NoHit
<1>3. /\ Again!Finalize => call2.stage = "automatic"
      /\ Again!InputEdge \/ Again!SyncEdge => call2.stage = "edge"
      /\ Again!EdgeMine \/ Again!EdgeDone => call2.stage = "mines"
  BY DEF Again!Finalize, Again!InputEdge, Again!SyncEdge, Again!EdgeMine, Again!EdgeDone
<1>4. \/ \E l \in Lane : \/ Again!AutoMine(l) \/ Again!AutoMiss(l) \/ Again!AutoHold(l)
                         \/ Again!Skip(l) \/ Again!Hit(l) \/ Again!NoHit(l)
      \/ Again!Finalize \/ Again!InputEdge \/ Again!SyncEdge \/ Again!EdgeMine \/ Again!EdgeDone
  BY DEF Again!Inside, Again!Lane, Lane
<1> QED BY <1>1, <1>2, <1>3, <1>4

\* What is known of a play that is over.
LEMMA Ending == ASSUME NEW m \in BOOLEAN, Closing(m)
  PROVE /\ LiveShot(m) = Shot(Board, Len(replay), Idle, m)
        /\ Board.lanes = lanes /\ Board.over = over /\ lanes \in [Lane -> LaneStates]
        /\ EngineType /\ replay \in Seq(Edges) /\ Len(replay) \in Nat /\ LastSample \in Nat
        /\ \A i \in 1..Len(replay) : replay[i] \in Edges /\ replay[i].at \in 0..LastSample
        /\ finished \/ over
        /\ finished <=> AllDone /\ ~m
        /\ AllDone <=> DoneIn(Board)
        /\ m => over
        /\ PastNotes
<1>1. EngineType /\ LastSample \in Nat /\ call.stage = "idle" /\ Ended /\ PastNotes
  BY PlayAssumption DEF Closing, Typed, PlayTypes, Submitted, Over, Kept
<1>2. replay \in Seq(Edges) /\ Len(replay) \in Nat
  BY <1>1, LastEdges
<1>3. DOMAIN replay = 1..Len(replay)
  BY <1>2, LenProperties
<1>4. \A i \in 1..Len(replay) : replay[i] \in Edges /\ replay[i].at \in 0..LastSample
  BY <1>2, <1>3, ElementOfSeq DEF Closing, Kept, InPlay
<1>5. LiveShot(m) = Shot(Board, Len(replay), Idle, m)
  BY <1>1 DEF LiveShot, Striking
<1>6. Board.lanes = lanes /\ Board.over = over /\ lanes \in [Lane -> LaneStates]
  BY <1>1 DEF Board, EngineType
<1>7. (finished \/ over) /\ (finished <=> AllDone /\ ~m) /\ (m => over)
  BY <1>1 DEF Closing, MidOk, Ended
<1> QED BY <1>1, <1>2, <1>4, <1>5, <1>6, <1>7, LiveState

\* Shots are equal where all their parts are.
LEMMA SameShot ==
  ASSUME NEW b, NEW n, NEW c, NEW d, NEW b2, NEW n2, NEW c2, NEW d2,
         Shot(b, n, c, d) = Shot(b2, n2, c2, d2)
  PROVE b = b2 /\ n = n2 /\ c = c2 /\ d = d2
<1>1. /\ Shot(b, n, c, d).board = Shot(b2, n2, c2, d2).board
      /\ Shot(b, n, c, d).edges = Shot(b2, n2, c2, d2).edges
      /\ Shot(b, n, c, d).call = Shot(b2, n2, c2, d2).call
      /\ Shot(b, n, c, d).mid = Shot(b2, n2, c2, d2).mid
  OBVIOUS
<1> QED BY <1>1 DEF Shot

\* The event (l, k) of a board comes before the next edge.
AutoFirst(R, C, b, n, l, k) ==
  /\ b.lanes \in [Lane -> LaneStates] /\ l \in Lane /\ k \in 1..3
  /\ n < Len(R) => R[n + 1].at \in Int
  /\ \E s \in Int : FirstIn(b, l, k, s) /\ s <= Limit(R, C, n)

\* A shot has no turn but that to w.
OneTurn(R, C, x, w) == \A y : Turn(R, C, x, y) => y = w

\* Where an event is due before the next edge, the shot has one turn;
LEMMA AutoOnly ==
  ASSUME NEW R, NEW C, NEW b, NEW n, NEW l, NEW k, AutoFirst(R, C, b, n, l, k)
  PROVE OneTurn(R, C, Shot(b, n, Idle, FALSE), AfterAuto(Shot(b, n, Idle, FALSE), l, k))
<1> SUFFICES ASSUME NEW y, Turn(R, C, Shot(b, n, Idle, FALSE), y)
             PROVE  y = AfterAuto(Shot(b, n, Idle, FALSE), l, k)
  BY DEF OneTurn
<1>0. /\ b.lanes \in [Lane -> LaneStates] /\ l \in Lane /\ k \in 1..3
      /\ n < Len(R) => R[n + 1].at \in Int
  BY DEF AutoFirst
<1>9. PICK s \in Int : FirstIn(b, l, k, s) /\ s <= Limit(R, C, n)
  BY DEF AutoFirst
<1> DEFINE x == Shot(b, n, Idle, FALSE)
<1>1. x.board = b /\ x.edges = n /\ x.call = Idle
  BY DEF Shot
<1> HIDE DEF x
<1>2. AutoTurn(R, C, x, y) \/ EdgeTurn(R, x, y)
  BY <1>1 DEF Turn, x
<1>3. ~EdgeTurn(R, x, y)
  <2>1. SUFFICES ASSUME EdgeTurn(R, x, y) PROVE FALSE
    OBVIOUS
  <2>2. n < Len(R) /\ NoneBy(b, R[n + 1].at - 1)
    BY <1>1, <2>1 DEF EdgeTurn
  <2>3. s <= R[n + 1].at - 1
    BY <1>9, <2>2 DEF Limit
  <2>4. s > R[n + 1].at - 1
    BY <1>0, <1>9, <2>2 DEF NoneBy, FirstIn
  <2> QED BY <1>0, <2>2, <2>3, <2>4
<1>4. PICK l2 \in Lane, k2 \in 1..3 :
             \E s2 \in DueIn(b, l2)[k2] : FirstIn(b, l2, k2, s2) /\ y = AfterAuto(x, l2, k2)
  BY <1>1, <1>2, <1>3 DEF AutoTurn
<1>5. PICK s2 \in DueIn(b, l2)[k2] : FirstIn(b, l2, k2, s2) /\ y = AfterAuto(x, l2, k2)
  BY <1>4
<1>6. l2 = l /\ k2 = k
  BY <1>0, <1>5, <1>9, OnlyFirst
<1> QED BY <1>5, <1>6 DEF x

\* so that what can be reached from the shot can be reached from there;
LEMMA AutoReaches ==
  ASSUME NEW R, NEW C, NEW b, NEW n, NEW l, NEW k, NEW z, AutoFirst(R, C, b, n, l, k),
         Reaches(R, C, Shot(b, n, Idle, FALSE), z), Shot(b, n, Idle, FALSE) # z
  PROVE  Reaches(R, C, AfterAuto(Shot(b, n, Idle, FALSE), l, k), z)
<1>1. OneTurn(R, C, Shot(b, n, Idle, FALSE), AfterAuto(Shot(b, n, Idle, FALSE), l, k))
  BY AutoOnly
<1> QED BY <1>1, ReachFrom DEF OneTurn

\* where none is, it has the edge, recorded by a press or by a synchronised state.
LEMMA EdgeOnly ==
  ASSUME NEW R, NEW C, NEW b, NEW n, n < Len(R), R[n + 1].at \in Int,
         NoneBy(b, R[n + 1].at - 1),
     NEW y, Turn(R, C, Shot(b, n, Idle, FALSE), y)
  PROVE \/ y = AfterEdge(Shot(b, n, Idle, FALSE), R[n + 1])
        \/ StartEdge(R[n + 1]) /\ y = AfterStart(Shot(b, n, Idle, FALSE), R[n + 1])
<1> DEFINE x == Shot(b, n, Idle, FALSE)
<1>1. x.board = b /\ x.edges = n /\ x.call = Idle
  BY DEF Shot
<1> HIDE DEF x
<1>2. AutoTurn(R, C, x, y) \/ EdgeTurn(R, x, y)
  BY <1>1 DEF Turn, x
<1>3. ~AutoTurn(R, C, x, y)
  <2>1. SUFFICES ASSUME AutoTurn(R, C, x, y) PROVE FALSE
    OBVIOUS
  <2>2. PICK l \in Lane, k \in 1..3 : \E s \in DueIn(b, l)[k] : s <= Limit(R, C, n)
    BY <1>1, <2>1 DEF AutoTurn
  <2>3. PICK s \in DueIn(b, l)[k] : s <= R[n + 1].at - 1
    BY <2>2 DEF Limit
  <2>4. s > R[n + 1].at - 1
    BY <2>3 DEF NoneBy
  <2>5. s \in Int
    <3>1. b.lanes \in [Lane -> LaneStates]
      BY <1>1 DEF Turn, x
    <3> QED BY <2>3, <3>1, DuesAreInt
  <2> QED BY <2>3, <2>4, <2>5
<1> QED BY <1>1, <1>2, <1>3 DEF EdgeTurn, x

\* The first n edges of a recording.
LEMMA Prefix == ASSUME NEW R \in Seq(Edges), NEW n \in 0..Len(R)
  PROVE /\ SubSeq(R, 1, n) \in Seq(Edges) /\ Len(SubSeq(R, 1, n)) = n
        /\ \A i \in 1..n : SubSeq(R, 1, n)[i] = R[i]
<1>1. Len(R) \in Nat /\ \A i \in 1..Len(R) : R[i] \in Edges
  BY LenProperties, ElementOfSeq
<1>2. \A i \in 1..n : R[i] \in Edges
  BY <1>1
<1>3. 1 \in Int /\ n \in Int
  BY <1>1
<1> QED BY <1>1, <1>2, <1>3, SubSeqProperties

\* One edge more.
LEMMA PrefixGrows == ASSUME NEW R \in Seq(Edges), NEW n \in 0..Len(R), n < Len(R)
  PROVE Append(SubSeq(R, 1, n), R[n + 1]) = SubSeq(R, 1, n + 1)
<1> DEFINE p == SubSeq(R, 1, n)
           q == SubSeq(R, 1, n + 1)
<1>1. Len(R) \in Nat /\ n + 1 \in 0..Len(R) /\ n \in Nat /\ n + 1 \in 1..Len(R)
  BY LenProperties
<1>2. R[n + 1] \in Edges
  BY <1>1, ElementOfSeq
<1>3. p \in Seq(Edges) /\ Len(p) = n /\ \A i \in 1..n : p[i] = R[i]
  BY Prefix
<1>4. q \in Seq(Edges) /\ Len(q) = n + 1 /\ \A i \in 1..(n + 1) : q[i] = R[i]
  BY <1>1, Prefix
<1> HIDE DEF p, q
<1>5. /\ Append(p, R[n + 1]) \in Seq(Edges) /\ Len(Append(p, R[n + 1])) = n + 1
      /\ \A i \in 1..n : Append(p, R[n + 1])[i] = R[i]
      /\ Append(p, R[n + 1])[n + 1] = R[n + 1]
  BY <1>2, <1>3, AppendProperties
<1>6. \A i \in 1..(n + 1) : Append(p, R[n + 1])[i] = q[i]
  BY <1>1, <1>4, <1>5
<1>7. Append(p, R[n + 1]) = q
  BY <1>4, <1>5, <1>6, SeqEqual
<1> QED BY <1>7 DEF p, q

\* The call in which an edge has not been recorded yet.
LEMMA AskedIs == ASSUME EngineType, NEW e \in Edges, NEW stage \in {"automatic", "edge"}
  PROVE /\ Asked(e, stage) \in Calls
        /\ Asked(e, stage).kind = "input" /\ Asked(e, stage).stage = stage
        /\ Asked(e, stage).lane = e.lane
        /\ Asked(e, stage).state = e.state /\ Asked(e, stage).at = e.at
        /\ Asked(e, stage).until = e.at - 1
        /\ Asked(e, stage).gaveUp = FALSE /\ Asked(e, stage).blown = FALSE
<1>1. /\ EdgeCall(e) \in Calls
      /\ EdgeCall(e) = [kind |-> "input", stage |-> "mines", lane |-> e.lane,
                        state |-> e.state, at |-> e.at, until |-> e.at - 1,
                        gaveUp |-> FALSE, blown |-> FALSE]
  BY EdgeCallType
<1>2. Asked(e, stage) \in Calls
  BY <1>1 DEF Asked, Calls
<1> QED BY <1>1, <1>2 DEF Asked

\* Every recorded edge lies in the play.
LEMMA NextEdge ==
  ASSUME EngineType, NEW i \in 1..Len(replay), InPlay
  PROVE replay[i] \in Edges /\ replay[i].at \in 0..LastSample
<1>1. replay \in Seq(Edges)
  BY DEF EngineType
<1>2. DOMAIN replay = 1..Len(replay)
  BY <1>1, LenProperties
<1> QED BY <1>1, <1>2, ElementOfSeq DEF InPlay

\* A verifier without a call is between two calls.
LEMMA IdleRests ==
  ASSUME EngineType, InPlay, NEW n, NEW c, NEW d, Follows(n, c, d), call2.stage = "idle"
  PROVE c = Idle /\ Resting(n, d)
<1>1. ~Advancing(n, d)
  BY DEF Advancing, Idle
<1>2. ~Entering(n, d)
  <2>1. SUFFICES ASSUME Entering(n, d) PROVE FALSE
    OBVIOUS
  <2>2. n + 1 \in 1..Len(replay)
    <3>1. Len(replay) \in Nat /\ n \in 0..Len(replay)
      BY LastEdges DEF Follows
    <3> QED BY <2>1, <3>1 DEF Entering
  <2>3. replay[n + 1] \in Edges
    BY <2>2, NextEdge
  <2> QED BY <2>1, <2>3, AskedIs DEF Entering
<1> QED BY <1>1, <1>2 DEF Follows, Void, Hitting

\* A step that leaves the shot leaves what it leads to.
LEMMA StillLeads == ASSUME NEW n, NEW c, NEW d, NEW z, Leads(n, c, d, z), replay' = replay,
    UNCHANGED <<lanes2, gauge2, log2, replay2, over2>>, Follows(n, c, d)'
  PROVE Leads(n, c, d, z)'
<1>1. Board2' = Board2
  BY DEF Board2
<1> QED BY <1>1 DEF Leads

\* The verifier begins an advance,
LEMMA AdvanceLeads ==
  ASSUME NEW m \in BOOLEAN, Closing(m), NEW z, NEW n, NEW c, NEW d, Leads(n, c, d, z), Ready,
         replay' = replay,
         NEW t \in -1..LastSample, t = Limit(replay, LastSample, n), Again!Advance(t),
         reached' = t, cursor' = cursor
  PROVE  \E n2, c2, d2 : Leads(n2, c2, d2, z)'
<1>0. EngineType /\ InPlay /\ LastSample \in Nat /\ Follows(n, c, d)
  BY PlayAssumption DEF Closing, Typed, PlayTypes, Kept, Leads
<1>1. c = Idle /\ Resting(n, d)
  BY <1>0, IdleRests DEF Ready
<1>2. /\ call2' = [Idle EXCEPT !.kind = "advance", !.stage = "automatic", !.until = t]
      /\ UNCHANGED <<lanes2, gauge2, log2, replay2, finished2, over2>> /\ ~finished2 /\ ~over2
  BY DEF Again!Advance, Again!Idle, Idle, Again!Ended
<1>3. call2' \in Calls
  <2>1. Idle \in Calls
    BY <1>0, CallRecords
  <2>2. t \in Int
    BY <1>0
  <2> QED BY <1>2, <2>1, <2>2 DEF Calls
<1>4. CheckTyped'
  BY <1>0, <1>2, <1>3 DEF Follows, CheckTyped
<1>5. Advancing(n, d)'
  BY <1>1, <1>2 DEF Advancing, Resting
<1>6. Follows(n, c, d)'
  BY <1>0, <1>1, <1>2, <1>4, <1>5 DEF Follows
<1> QED BY <1>2, <1>6, StillLeads

\* to the sample before the next edge,
LEMMA SeekLeads ==
  ASSUME NEW m \in BOOLEAN, Closing(m), NEW z, NEW n, NEW c, NEW d, Leads(n, c, d, z), Seek,
         replay' = replay
  PROVE  \E n2, c2, d2 : Leads(n2, c2, d2, z)'
<1>0. /\ EngineType /\ InPlay /\ LastSample \in Nat /\ Follows(n, c, d) /\ Len(replay) \in Nat
      /\ CheckTyped
  BY PlayAssumption, LastEdges DEF Closing, Typed, PlayTypes, Kept, Leads, Follows
<1>1. /\ Ready /\ Again!Advance(replay[cursor].at - 1) /\ reached' = replay[cursor].at - 1
      /\ cursor' = cursor /\ cursor <= Len(replay)
  BY DEF Seek, Edge
<1>2. n = cursor - 1 /\ cursor \in 1..Len(replay)
  BY <1>0, <1>1, IdleRests DEF Ready, Resting, CheckTyped
<1>3. replay[cursor].at \in 0..LastSample
  BY <1>0, <1>2, NextEdge
<1>4. replay[cursor].at - 1 = Limit(replay, LastSample, n)
  BY <1>0, <1>2 DEF Limit
<1>5. replay[cursor].at - 1 \in -1..LastSample
  BY <1>0, <1>3
<1> QED BY <1>1, <1>4, <1>5, AdvanceLeads

\* or past the chart.
LEMMA RunOutLeads ==
  ASSUME NEW m \in BOOLEAN, Closing(m), NEW z, NEW n, NEW c, NEW d, Leads(n, c, d, z), RunOut,
         replay' = replay
  PROVE  \E n2, c2, d2 : Leads(n2, c2, d2, z)'
<1>0. /\ EngineType /\ InPlay /\ LastSample \in Nat /\ Follows(n, c, d) /\ Len(replay) \in Nat
      /\ CheckTyped
  BY PlayAssumption, LastEdges DEF Closing, Typed, PlayTypes, Kept, Leads, Follows
<1>1. /\ Ready /\ Again!Advance(LastSample) /\ reached' = LastSample /\ cursor' = cursor
      /\ cursor > Len(replay)
  BY DEF RunOut
<1>2. n = cursor - 1 /\ cursor \in Int
  BY <1>0, <1>1, IdleRests DEF Ready, Resting, CheckTyped
<1>3. LastSample = Limit(replay, LastSample, n)
  BY <1>0, <1>1, <1>2 DEF Limit
<1>4. LastSample \in -1..LastSample
  BY <1>0
<1> QED BY <1>1, <1>3, <1>4, AdvanceLeads

\* It begins a key edge.
LEMMA FeedLeads ==
  ASSUME NEW m \in BOOLEAN, Closing(m), NEW z, NEW n, NEW c, NEW d, Leads(n, c, d, z), Feed,
         replay' = replay
  PROVE  \E n2, c2, d2 : Leads(n2, c2, d2, z)'
<1>0. /\ EngineType /\ InPlay /\ LastSample \in Nat /\ Follows(n, c, d) /\ Len(replay) \in Nat
      /\ replay \in Seq(Edges)
      /\ CheckTyped
  BY PlayAssumption, LastEdges DEF Closing, Typed, PlayTypes, Kept, Leads, Follows
<1>1. /\ call2.stage = "idle" /\ cursor' = cursor + 1 /\ reached' = reached
      /\ cursor <= Len(replay)
      /\ Again!HandleInput(replay[cursor].lane, replay[cursor].state, replay[cursor].at)
  BY DEF Feed, Edge, Ready
<1>2. n = cursor - 1 /\ cursor \in 1..Len(replay) /\ c = Idle /\ Resting(n, d)
  BY <1>0, <1>1, IdleRests DEF Resting, CheckTyped
<1>3. PICK e \in Edges : e = replay[cursor] /\ e.at \in 0..LastSample
  BY <1>0, <1>2, NextEdge
<1>4. Again!NotBefore(e.at) = e.at
  <2>1. n \in 0..Len(replay) /\ n \in Nat /\ replay2 = SubSeq(replay, 1, n)
    BY <1>0, <1>2 DEF Follows
  <2>2. replay2 \in Seq(Edges) /\ Len(replay2) = n /\ \A i \in 1..n : replay2[i] = replay[i]
    BY <1>0, <2>1, Prefix
  <2>3. CASE replay2 = <<>>
    BY <2>3 DEF Again!NotBefore, Again!LastEdge
  <2>4. CASE replay2 # <<>>
    <3>1. n \in 1..n
      BY <2>1, <2>2, <2>4, EmptySeq
    <3>2. Again!LastEdge = {replay[n].at} /\ replay2[Len(replay2)].at = replay[n].at
      BY <2>2, <2>4, <3>1 DEF Again!LastEdge
    <3>3. replay[n].at <= e.at
      <4>1. DOMAIN replay = 1..Len(replay)
        BY <1>0, LenProperties
      <4>2. n \in DOMAIN replay /\ cursor \in DOMAIN replay /\ n <= cursor
        BY <1>2, <2>1, <3>1, <4>1
      <4> QED BY <1>3, <4>2 DEF Closing, ReplayInOrder
    <3>4. replay[n].at \in Int
      <4>1. n \in 1..Len(replay)
        BY <2>1, <3>1
      <4>2. replay[n] \in Edges
        BY <1>0, <4>1, NextEdge
      <4> QED BY <4>2 DEF Edges
    <3> QED BY <1>3, <3>2, <3>3, <3>4 DEF Again!NotBefore
  <2> QED BY <2>3, <2>4
<1>5. /\ call2' = [Idle EXCEPT !.kind = "input", !.stage = "automatic", !.lane = e.lane,
                     !.state = e.state, !.at = e.at, !.until = e.at - 1]
      /\ UNCHANGED <<lanes2, gauge2, log2, replay2, finished2, over2>> /\ ~finished2 /\ ~over2
  BY <1>1, <1>3, <1>4 DEF Again!HandleInput, Again!Idle, Idle, Again!Ended
<1>6. call2' = Asked(e, "automatic")
  <2>1. /\ Idle \in Calls /\ e.lane \in Lane /\ e.state \in States /\ e.at \in Int
        /\ e.at - 1 \in Int
    BY <1>0, CallRecords DEF Edges
  <2>2. call2' \in Calls
    BY <1>5, <2>1 DEF Calls
  <2>3. /\ call2'.kind = "input" /\ call2'.stage = "automatic" /\ call2'.lane = e.lane
        /\ call2'.state = e.state /\ call2'.at = e.at /\ call2'.until = e.at - 1
        /\ call2'.gaveUp = FALSE /\ call2'.blown = FALSE
    BY <1>5 DEF Idle
  <2>4. /\ Asked(e, "automatic") \in Calls
        /\ Asked(e, "automatic").kind = "input" /\ Asked(e, "automatic").stage = "automatic"
        /\ Asked(e, "automatic").lane = e.lane /\ Asked(e, "automatic").state = e.state
        /\ Asked(e, "automatic").at = e.at /\ Asked(e, "automatic").until = e.at - 1
        /\ Asked(e, "automatic").gaveUp = FALSE /\ Asked(e, "automatic").blown = FALSE
    BY <1>0, AskedIs
  <2> HIDE DEF Asked
  <2> QED BY <2>2, <2>3, <2>4, SameCall, Zenon
<1>7. reached < LastSample /\ reached \in -1..LastSample
  BY <1>0, <1>1, <1>2 DEF Resting, CheckTyped
<1>8. CheckTyped'
  <2>1. call2' \in Calls
    BY <1>0, <1>6, AskedIs
  <2> QED BY <1>0, <1>1, <1>2, <1>5, <2>1 DEF CheckTyped
<1>9. Entering(n, d)'
  <2>1. n + 1 = cursor /\ n = cursor' - 2 /\ n < Len(replay)
    BY <1>0, <1>1, <1>2
  <2> QED BY <1>1, <1>2, <1>3, <1>5, <1>6, <1>7, <2>1 DEF Entering, Resting
<1>10. Follows(n, c, d)'
  BY <1>0, <1>2, <1>5, <1>8, <1>9 DEF Follows
<1> QED BY <1>5, <1>10, StillLeads

\* The end of the verification is a truth value.
LEMMA CheckFlags == ASSUME over2 \in BOOLEAN, Again!Inside PROVE over2' \in BOOLEAN
<1>1. ASSUME NEW l, NEW a, NEW b, NEW c, NEW d, NEW e, Again!Judge(l, a, b, c, d, e)
      PROVE  over2' \in BOOLEAN
  BY <1>1 DEF Again!Judge
<1>2. ASSUME NEW l, NEW now, Again!PassMine(l, now)
      PROVE  over2' \in BOOLEAN
  BY <1>2 DEF Again!PassMine
<1>3. ASSUME Again!ApplyEdge PROVE over2' \in BOOLEAN
  BY <1>1, <1>3 DEF Again!ApplyEdge, Again!SettleHold
<1>4. ASSUME NEW l, \/ Again!AutoMine(l) \/ Again!AutoMiss(l) \/ Again!AutoHold(l)
                    \/ Again!Skip(l) \/ Again!Hit(l) \/ Again!NoHit(l)
      PROVE over2' \in BOOLEAN
  BY <1>1, <1>2, <1>4 DEF Again!AutoMine, Again!AutoMiss, Again!AutoHold, Again!Skip, Again!Hit,
         Again!NoHit,
       Again!GiveUpNote, Again!SettleHold
<1>5. ASSUME Again!Finalize \/ Again!InputEdge \/ Again!SyncEdge \/ Again!EdgeMine \/ Again!EdgeDone
      PROVE over2' \in BOOLEAN
  BY <1>2, <1>3, <1>5 DEF Again!Finalize, Again!InputEdge, Again!SyncEdge, Again!EdgeMine,
         Again!EdgeDone
<1> QED BY <1>4, <1>5 DEF Again!Inside

\* A call that goes on is a call.
LEMMA CallParts == ASSUME NEW c \in Calls
  PROVE /\ \A st \in {"idle", "automatic", "edge", "mines", "hit"} : [c EXCEPT !.stage = st] \in Calls
        /\ [c EXCEPT !.gaveUp = TRUE] \in Calls
        /\ \A b \in BOOLEAN : [c EXCEPT !.blown = @ \/ b] \in Calls
<1>1. c.blown \in BOOLEAN
  BY DEF Calls
<1> QED BY <1>1 DEF Calls

\* The verifier is at the end of the play, or has a turn ahead.
LEMMA TurnAhead ==
  ASSUME NEW m \in BOOLEAN, Closing(m), NEW z, z = LiveShot(m), NEW n, NEW c, NEW d,
         Leads(n, c, d, z)
  PROVE  /\ lanes2 \in [Lane -> LaneStates] /\ Board2.lanes = lanes2 /\ Board2.over = over2
         /\ \/ Board2 = Board /\ n = Len(replay) /\ c = Idle /\ d = m
            \/ /\ Shot(Board2, n, c, d) # z
               /\ c = Idle => ~over2 /\ ~DoneIn(Board2)
<1> DEFINE a == Shot(Board2, n, c, d)
<1>0. Board2.lanes = lanes2 /\ Board2.over = over2
  BY DEF Board2
<1>1. CASE a = z
  <2>1. Board2 = Board /\ n = Len(replay) /\ c = Idle /\ d = m
    <3>1. Shot(Board2, n, c, d) = Shot(Board, Len(replay), Idle, m)
      BY <1>1, Ending
    <3> QED BY <3>1, SameShot
  <2>2. lanes2 \in [Lane -> LaneStates]
    BY <1>0, <2>1, Ending
  <2> QED BY <1>0, <2>1, <2>2
<1>2. CASE a # z
  <2>1. PICK y : Turn(replay, LastSample, a, y)
    BY <1>2, ReachEnd DEF Leads
  <2>2. a.board = Board2 /\ a.call = c
    BY DEF Shot
  <2> HIDE DEF a
  <2>3. lanes2 \in [Lane -> LaneStates] /\ (c = Idle => ~over2 /\ ~DoneIn(Board2))
    BY <1>0, <2>1, <2>2 DEF Turn
  <2> QED BY <1>0, <1>2, <2>3 DEF a
<1> QED BY <1>1, <1>2

\* An automatic event of the verifier is the one turn of its shot.
LEMMA AutoLeads ==
  ASSUME NEW m \in BOOLEAN, Closing(m), MinesInTime, NEW z, z = LiveShot(m), NEW n, NEW c,
         NEW d, Leads(n, c, d, z),
         UNCHANGED <<replay, cursor, reached>>, Again!Inside,
         NEW l \in Lane, Again!AutoMine(l) \/ Again!AutoMiss(l) \/ Again!AutoHold(l)
  PROVE  \E n2, c2, d2 : Leads(n2, c2, d2, z)'
<1>0. /\ Follows(n, c, d) /\ CheckTyped /\ n \in 0..Len(replay) /\ Len(replay) \in Nat
      /\ EngineType /\ LastSample \in Nat
  BY Ending DEF Leads, Follows
<1>1. PICK k \in 1..3 : /\ \/ k = 1 /\ Again!AutoMine(l)
                           \/ k = 2 /\ Again!AutoMiss(l)
                           \/ k = 3 /\ Again!AutoHold(l)
                        /\ Again!Automatic(l, k)
  BY DEF Again!AutoMine, Again!AutoMiss, Again!AutoHold
<1>2. call2.stage = "automatic" /\ ~over2 /\ UNCHANGED <<replay2, finished2, call2>>
  BY <1>1 DEF Again!Automatic, Again!AutoMine, Again!AutoMiss, Again!AutoHold
<1>3. PICK s \in Again!Due(l)[k] : Again!IsNext(l, k, s)
  BY <1>1 DEF Again!Automatic
<1>4. c = Idle /\ (Advancing(n, d) \/ Entering(n, d)) /\ d = FALSE
  <2>1. ~Resting(n, d) /\ ~Void(n, d) /\ ~Hitting(n)
    BY <1>2 DEF Resting, Void, Hitting, Idle
  <2> QED BY <1>0, <2>1 DEF Follows, Advancing, Entering
<1>5. /\ call2.until = Limit(replay, LastSample, n)
      /\ (n < Len(replay) => replay[n + 1].at \in Int)
  <2>1. n < Len(replay) => replay[n + 1] \in Edges /\ replay[n + 1].at \in Int
    <3>1. n < Len(replay) => n + 1 \in 1..Len(replay)
      BY <1>0
    <3> QED BY <3>1, Ending
  <2>2. CASE Advancing(n, d)
    BY <2>1, <2>2 DEF Advancing
  <2>3. CASE Entering(n, d)
    <3>1. call2 = Asked(replay[n + 1], "automatic") /\ n < Len(replay)
      <4>1. Asked(replay[n + 1], "edge").stage = "edge"
        BY <1>0, <2>1, <2>3, AskedIs DEF Entering
      <4> QED BY <1>2, <2>3, <4>1 DEF Entering
    <3>2. call2.until = replay[n + 1].at - 1
      BY <1>0, <2>1, <3>1, AskedIs
    <3> QED BY <2>1, <3>1, <3>2 DEF Limit
  <2> QED BY <1>4, <2>1, <2>2, <2>3
<1>6. lanes2 \in [Lane -> LaneStates] /\ Board2.lanes = lanes2
  BY TurnAhead
<1>7. FirstIn(Board2, l, k, s) /\ s \in Int /\ s <= call2.until
  <2>1. call2.until \in Int
    BY <1>0 DEF CheckTyped, Calls
  <2> QED BY <1>3, <1>6, <2>1, CheckFirst
<1>8. Shot(Board2, n, c, d) # z
  <2>1. SUFFICES ASSUME Shot(Board2, n, c, d) = z PROVE FALSE
    OBVIOUS
  <2>2. Board2 = Board /\ m = FALSE
    BY <1>4, <2>1, TurnAhead
  <2>3. ~over
    BY <1>2, <2>2, TurnAhead, Ending
  <2>4. AllDone /\ PastNotes
    BY <2>2, <2>3, Ending
  <2>5. s \in Due(l)[k]
    BY <1>7, <2>2, LiveDue DEF FirstIn
  <2>6. CASE k = 1
    BY <1>0, <2>4, <2>5, <2>6, MinesBeforeEnd DEF Due
  <2>7. CASE k = 2
    BY <2>4, <2>5, <2>7 DEF AllDone, Due, MissDue
  <2>8. CASE k = 3
    BY <2>4, <2>5, <2>8 DEF AllDone, Due, HoldDue
  <2> QED BY <2>6, <2>7, <2>8
<1>9. Shot(Board2', n, Idle, FALSE) = AfterAuto(Shot(Board2, n, Idle, FALSE), l, k)
  BY <1>1, CheckAuto
<1>10. Reaches(replay, LastSample, Shot(Board2', n, Idle, FALSE), z)
  <2>1. AutoFirst(replay, LastSample, Board2, n, l, k)
    BY <1>5, <1>6, <1>7 DEF AutoFirst
  <2>2. /\ Reaches(replay, LastSample, Shot(Board2, n, Idle, FALSE), z)
        /\ Shot(Board2, n, Idle, FALSE) # z
    BY <1>4, <1>8 DEF Leads
  <2>3. Reaches(replay, LastSample, AfterAuto(Shot(Board2, n, Idle, FALSE), l, k), z)
    BY <2>1, <2>2, AutoReaches
  <2> QED BY <1>9, <2>3
<1>11. Follows(n, c, d)'
  <2>1. CheckTyped'
    BY <1>0, <1>2, CheckFlags DEF CheckTyped
  <2>2. Advancing(n, d) => Advancing(n, d)'
    BY <1>2 DEF Advancing
  <2>3. Entering(n, d) => Entering(n, d)'
    <3>1. ASSUME Entering(n, d) PROVE call2 = Asked(replay[n + 1], "automatic")
      <4>1. n + 1 \in 1..Len(replay)
        BY <1>0, <3>1 DEF Entering
      <4>2. Asked(replay[n + 1], "edge").stage = "edge"
        BY <1>0, <4>1, Ending, AskedIs
      <4> QED BY <1>2, <3>1, <4>2 DEF Entering
    <3> QED BY <1>2, <3>1 DEF Entering, Asked, EdgeCall
  <2> QED BY <1>0, <1>2, <1>4, <2>1, <2>2, <2>3 DEF Follows
<1>12. Leads(n, c, d, z)'
  BY <1>4, <1>10, <1>11 DEF Leads
<1> QED BY <1>12

\* The end of its loop leaves the shot; it cannot end the verification before the play.
LEMMA FinalizeLeads ==
  ASSUME NEW m \in BOOLEAN, Closing(m), NEW z, z = LiveShot(m), NEW n, NEW c, NEW d,
         Leads(n, c, d, z),
         UNCHANGED <<replay, cursor, reached>>, Again!Finalize
  PROVE  \E n2, c2, d2 : Leads(n2, c2, d2, z)'
<1>0. /\ Follows(n, c, d) /\ CheckTyped /\ n \in 0..Len(replay) /\ Len(replay) \in Nat
      /\ EngineType /\ LastSample \in Nat
      /\ call2.until \in Int /\ cursor \in Int
  BY Ending DEF Leads, Follows, CheckTyped, Calls
<1>1. /\ call2.stage = "automatic" /\ UNCHANGED <<lanes2, gauge2, log2, replay2, over2>>
      /\ finished2' = (finished2 \/ DoneIn(Board2))
      /\ call2' = IF call2.kind = "advance" \/ finished2' \/ over2 THEN Idle
                  ELSE [call2 EXCEPT !.stage = "edge"]
  BY CheckState DEF Again!Finalize, Again!Idle, Idle
<1>2. c = Idle /\ (Advancing(n, d) \/ Entering(n, d)) /\ d = FALSE /\ finished2 = FALSE
  <2>1. ~Resting(n, d) /\ ~Void(n, d) /\ ~Hitting(n)
    BY <1>1 DEF Resting, Void, Hitting, Idle
  <2> QED BY <1>0, <2>1 DEF Follows, Advancing, Entering, CheckTyped
<1>3. /\ Board2' = Board2 /\ finished2' \in BOOLEAN /\ (finished2' <=> DoneIn(Board2))
      /\ over2' \in BOOLEAN
  BY <1>0, <1>1, <1>2 DEF Board2, CheckTyped
<1>4. CASE Advancing(n, d)
  <2>1. /\ call2.kind = "advance" /\ call2.until = reached /\ n = cursor - 1
        /\ reached = Limit(replay, LastSample, n)
    BY <1>4 DEF Advancing, Idle
  <2>2. call2' = Idle
    BY <1>1, <2>1
  <2>3. CheckTyped'
    BY <1>0, <1>3, <2>2, CallRecords DEF CheckTyped
  <2>4. reached = LastSample => cursor > Len(replay)
    <3>1. SUFFICES ASSUME n < Len(replay), reached = LastSample PROVE FALSE
      BY <1>0, <2>1
    <3>2. n + 1 \in 1..Len(replay)
      BY <1>0, <3>1
    <3>3. replay[n + 1].at \in 0..LastSample
      BY <3>2, Ending
    <3> QED BY <1>0, <2>1, <3>1, <3>3 DEF Limit
  <2>5. (Again!Ended <=> finished2 \/ over2)'
    BY DEF Again!Ended
  <2>6. ASSUME reached = LastSample, ~Again!Ended'
        PROVE  NoneBy(Board2, LastSample) /\ ~DoneIn(Board2)
    BY <1>1, <1>3, <2>1, <2>5, <2>6, CheckLooks
  <2>7. /\ (DoneIn(Board2)' <=> DoneIn(Board2))
        /\ (NoneBy(Board2, LastSample)' <=> NoneBy(Board2, LastSample))
    BY <1>3
  <2>8. Resting(n, d)'
    BY <1>2, <1>3, <2>1, <2>2, <2>4, <2>6, <2>7 DEF Resting
  <2>9. Follows(n, c, d)'
    BY <1>0, <1>1, <1>2, <2>3, <2>8 DEF Follows
  <2> QED BY <1>1, <2>9, StillLeads
<1>5. CASE Entering(n, d)
  <2>1. n + 1 \in 1..Len(replay) /\ n < Len(replay) /\ n = cursor - 2 /\ reached < LastSample
    BY <1>0, <1>5 DEF Entering
  <2>2. PICK e \in Edges : e = replay[n + 1]
    BY <2>1, Ending
  <2>3. call2 = Asked(e, "automatic")
    BY <1>0, <1>1, <1>5, <2>2, AskedIs DEF Entering
  <2>4. ~over2 /\ ~DoneIn(Board2)
    BY <1>0, <1>2, <2>1, TurnAhead
  <2>5. call2' = Asked(e, "edge")
    <3>1. call2.kind = "input"
      BY <1>0, <2>3, AskedIs
    <3>2. call2' = [call2 EXCEPT !.stage = "edge"]
      BY <1>1, <1>3, <2>4, <3>1
    <3> QED BY <2>3, <3>2 DEF Asked
  <2>6. CheckTyped'
    BY <1>0, <1>3, <2>5, AskedIs DEF CheckTyped
  <2>7. NoneBy(Board2, call2'.until)
    <3>1. call2'.until = call2.until
      BY <1>0, <2>3, <2>5, AskedIs
    <3> QED BY <2>4, <3>1, CheckLooks
  <2>8. Entering(n, d)'
    <3>1. ~finished2' /\ ~over2'
      BY <1>1, <1>3, <2>4
    <3>2. /\ (DoneIn(Board2)' <=> DoneIn(Board2))
          /\ (NoneBy(Board2, call2.until)' <=> NoneBy(Board2, call2'.until))
      BY <1>3
    <3> QED BY <1>2, <2>1, <2>2, <2>4, <2>5, <2>7, <3>1, <3>2 DEF Entering, Asked, EdgeCall
  <2>9. Follows(n, c, d)'
    BY <1>0, <1>1, <1>2, <2>6, <2>8 DEF Follows
  <2> QED BY <1>1, <2>9, StillLeads
<1> QED BY <1>2, <1>4, <1>5

\* The edge it records is one of the turns, pressed or synchronised.
LEMMA EdgeLeads ==
  ASSUME NEW m \in BOOLEAN, Closing(m), NEW z, z = LiveShot(m), NEW n, NEW c, NEW d,
         Leads(n, c, d, z),
         UNCHANGED <<replay, cursor, reached>>, Again!Inside, Again!InputEdge \/ Again!SyncEdge
  PROVE  \E n2, c2, d2 : Leads(n2, c2, d2, z)'
<1>0. /\ Follows(n, c, d) /\ CheckTyped /\ n \in 0..Len(replay) /\ Len(replay) \in Nat
      /\ EngineType /\ LastSample \in Nat
      /\ cursor \in Int /\ replay \in Seq(Edges) /\ replay2 = SubSeq(replay, 1, n)
  BY Ending DEF Leads, Follows, CheckTyped
<1>1. call2.stage = "edge" /\ finished2' = finished2
  BY DEF Again!InputEdge, Again!SyncEdge
<1>2. c = Idle /\ Entering(n, d) /\ d = FALSE
  <2>1. ~Resting(n, d) /\ ~Void(n, d) /\ ~Hitting(n)
    BY <1>1 DEF Resting, Void, Hitting, Idle
  <2>2. ~Advancing(n, d)
    BY <1>1 DEF Advancing, Idle
  <2> QED BY <1>0, <2>1, <2>2 DEF Follows, Entering
<1>3. /\ n + 1 \in 1..Len(replay) /\ n < Len(replay) /\ n = cursor - 2 /\ reached < LastSample
      /\ finished2 = FALSE
  BY <1>0, <1>2 DEF Entering, CheckTyped
<1>4. PICK e \in Edges : e = replay[n + 1]
  BY <1>3, Ending
<1>5. /\ call2 = Asked(e, "edge") /\ over2 = FALSE /\ ~DoneIn(Board2)
      /\ NoneBy(Board2, call2.until)
  <2>1. Asked(e, "automatic").stage = "automatic"
    BY <1>0, AskedIs
  <2> QED BY <1>0, <1>1, <1>2, <1>4, <2>1 DEF Entering, CheckTyped
<1>6. /\ call2.kind = "input" /\ call2.lane = e.lane /\ call2.state = e.state /\ call2.at = e.at
      /\ call2.until = e.at - 1
  BY <1>0, <1>5, AskedIs
<1>7. Again!Record /\ Again!ApplyEdge /\ call2' = [call2 EXCEPT !.stage = "mines"]
  BY <1>6 DEF Again!InputEdge, Again!SyncEdge
<1>8. /\ e = [lane |-> call2.lane, state |-> call2.state, at |-> call2.at] /\ e.at \in Int
      /\ e.lane \in Lane
  BY <1>6 DEF Edges
<1>9. Board2' = Edged(Board2, e)
  BY <1>7, <1>8, CheckEdge
<1>10. replay2' = SubSeq(replay, 1, n + 1)
  <2>1. replay2' = Append(SubSeq(replay, 1, n), replay[n + 1])
    BY <1>0, <1>4, <1>7, <1>8 DEF Again!Record
  <2> QED BY <1>0, <1>3, <2>1, PrefixGrows
<1>11. call2' = EdgeCall(e)
  <2>1. EdgeCall(e) \in Calls /\ EdgeCall(e).stage = "mines"
    BY <1>0, EdgeCallType
  <2>2. Asked(e, "edge") \in Calls /\ call2' = [Asked(e, "edge") EXCEPT !.stage = "mines"]
    BY <1>0, <1>5, <1>7, AskedIs
  <2>3. Asked(e, "edge") = [EdgeCall(e) EXCEPT !.stage = "edge"]
    BY DEF Asked
  <2> QED BY <2>1, <2>2, <2>3, SameCall DEF Calls
<1>12. CheckTyped' /\ n + 1 \in 0..Len(replay)
  <2>1. call2' \in Calls
    BY <1>0, <1>11, EdgeCallType
  <2> QED BY <1>0, <1>1, <1>3, <2>1, CheckFlags DEF CheckTyped
<1>13. /\ Shot(Board2, n, Idle, FALSE) # z
       /\ Reaches(replay, LastSample, Shot(Board2, n, Idle, FALSE), z)
  <2>1. n # Len(replay)
    BY <1>0, <1>3
  <2> QED BY <1>2, <2>1, TurnAhead DEF Leads
<1>14. /\ call2'.stage = "mines" /\ call2'.lane = e.lane /\ call2'.state = e.state
       /\ call2'.at = e.at /\ call2'.blown = FALSE
  BY <1>0, <1>11, EdgeCallType
<1>15. Edged(Board2, e).over = over2'
  BY <1>9 DEF Board2
<1> DEFINE b1 == Shot(Board2', n + 1, call2', over2')
           b2 == Shot(Board2', n + 1, Idle, FALSE)
<1>16. \A y : Turn(replay, LastSample, Shot(Board2, n, Idle, FALSE), y) =>
              y = b1 \/ (StartEdge(e) /\ y = b2)
  <2>1. NoneBy(Board2, e.at - 1)
    BY <1>5, <1>6
  <2>2. SUFFICES ASSUME NEW y, Turn(replay, LastSample, Shot(Board2, n, Idle, FALSE), y)
                 PROVE  y = b1 \/ (StartEdge(e) /\ y = b2)
    OBVIOUS
  <2>3. n < Len(replay) /\ replay[n + 1].at \in Int /\ NoneBy(Board2, replay[n + 1].at - 1)
    BY <1>3, <1>4, <1>8, <2>1
  <2>4. \/ y = AfterEdge(Shot(Board2, n, Idle, FALSE), replay[n + 1])
        \/ StartEdge(replay[n + 1]) /\ y = AfterStart(Shot(Board2, n, Idle, FALSE), replay[n + 1])
    <3> HIDE DEF b1, b2
    <3> QED BY <2>2, <2>3, EdgeOnly
  <2>5. /\ AfterEdge(Shot(Board2, n, Idle, FALSE), e)
             = Shot(Edged(Board2, e), n + 1, EdgeCall(e), Edged(Board2, e).over)
        /\ AfterStart(Shot(Board2, n, Idle, FALSE), e) = Shot(Edged(Board2, e), n + 1, Idle, FALSE)
    BY DEF AfterEdge, AfterStart, Shot
  <2> QED BY <1>4, <1>9, <1>11, <1>15, <2>4, <2>5
<1>17. Reaches(replay, LastSample, b1, z) \/ (StartEdge(e) /\ Reaches(replay, LastSample, b2, z))
  <2> HIDE DEF b1, b2
  <2>1. CASE StartEdge(e)
    <3>1. \A y : Turn(replay, LastSample, Shot(Board2, n, Idle, FALSE), y) => y \in {b1, b2}
      BY <1>16
    <3> QED BY <1>13, <2>1, <3>1, ReachFrom
  <2>2. CASE ~StartEdge(e)
    <3>1. \A y : Turn(replay, LastSample, Shot(Board2, n, Idle, FALSE), y) => y \in {b1, b1}
      BY <1>16, <2>2
    <3> QED BY <1>13, <3>1, ReachFrom
  <2> QED BY <2>1, <2>2
<1>18. CASE Reaches(replay, LastSample, b1, z)
  <2>1. Hitting(n + 1)'
    BY <1>0, <1>1, <1>3, <1>14 DEF Hitting
  <2>2. PICK c2 : c2 = call2'
    OBVIOUS
  <2>3. PICK d2 \in BOOLEAN : d2 = over2'
    BY <1>12 DEF CheckTyped
  <2>4. Follows(n + 1, c2, d2)'
    BY <1>10, <1>12, <2>1, <2>2 DEF Follows
  <2>5. Leads(n + 1, c2, d2, z)'
    BY <1>18, <2>2, <2>3, <2>4 DEF Leads
  <2> QED BY <2>5
<1>19. CASE StartEdge(e) /\ Reaches(replay, LastSample, b2, z)
  <2>1. Void(n + 1, FALSE)'
    <3>1. StartEdge(call2)' /\ (call2.lane \in Lane)' /\ (~call2.blown)'
      BY <1>8, <1>14, <1>19 DEF StartEdge
    <3>2. ~over2'
      <4>1. e.state = "Pressed"
        BY <1>19 DEF StartEdge
      <4>2. Edged(Board2, e) = PutDown(Board2, e.lane, TRUE)
        BY <4>1 DEF Edged
      <4> QED BY <1>5, <1>15, <4>2 DEF PutDown, Board2
    <3> QED BY <1>0, <1>1, <1>3, <1>14, <3>1, <3>2 DEF Void
  <2>2. Follows(n + 1, Idle, FALSE)'
    BY <1>10, <1>12, <2>1 DEF Follows
  <2>3. Leads(n + 1, Idle, FALSE, z)'
    BY <1>19, <2>2 DEF Leads
  <2> QED BY <2>3
<1> QED BY <1>17, <1>18, <1>19

\* A step of the press is the one turn of its shot.
LEMMA HitLeads ==
  ASSUME NEW m \in BOOLEAN, Closing(m), NEW z, z = LiveShot(m), NEW n, NEW c, NEW d,
         Leads(n, c, d, z),
         UNCHANGED <<replay, cursor, reached>>, Again!Inside, Hitting(n), c = call2
  PROVE  \E n2, c2, d2 : Leads(n2, c2, d2, z)'
<1>0. /\ Follows(n, c, d) /\ CheckTyped /\ n \in 0..Len(replay) /\ Len(replay) \in Nat
      /\ EngineType /\ LastSample \in Nat
      /\ replay2 = SubSeq(replay, 1, n)
  BY Ending DEF Leads, Follows
<1>1. call2.stage \in {"mines", "hit"} /\ n = cursor - 1 /\ ~finished2 /\ reached < LastSample
  BY DEF Hitting
<1>2. c # Idle
  BY <1>1 DEF Idle
<1>3. Shot(Board2, n, c, d) # z /\ Reaches(replay, LastSample, Shot(Board2, n, c, d), z)
  BY <1>2, TurnAhead DEF Leads
<1>4. \/ Again!EdgeMine \/ Again!EdgeDone
      \/ \E l \in Lane : Again!Skip(l) \/ Again!Hit(l) \/ Again!NoHit(l)
  BY <1>1, CheckStage
<1>5. UNCHANGED <<replay2, finished2>>
  BY <1>4 DEF Again!EdgeMine, Again!EdgeDone, Again!Skip, Again!Hit, Again!NoHit
<1>6. Shot(Board2', n, call2', over2') = AfterCall(Shot(Board2, n, c, d))
  <2>1. CASE Again!EdgeMine \/ Again!EdgeDone
    BY <2>1, CheckMines
  <2>2. CASE \E l \in Lane : Again!Skip(l) \/ Again!Hit(l) \/ Again!NoHit(l)
    BY <2>2, CheckHit
  <2> QED BY <1>4, <2>1, <2>2
<1>7. Reaches(replay, LastSample, Shot(Board2', n, call2', over2'), z)
  <2> DEFINE a == Shot(Board2, n, c, d)
             b == AfterCall(a)
  <2>1. \A y : Turn(replay, LastSample, a, y) => y = b
    <3>1. a.call = c
      BY DEF Shot
    <3> HIDE DEF a
    <3> QED BY <1>2, <3>1 DEF Turn
  <2> HIDE DEF a, b
  <2>2. Reaches(replay, LastSample, a, z) /\ a # z
    BY <1>3 DEF a
  <2>3. Reaches(replay, LastSample, b, z)
    BY <2>1, <2>2, ReachFrom
  <2> QED BY <1>6, <2>3 DEF a, b
<1>8. call2' \in Calls /\ (call2' = Idle \/ call2'.stage \in {"mines", "hit"})
  <2>1. call2 \in Calls /\ Idle \in Calls
    BY <1>0, CallRecords DEF CheckTyped
  <2>2. CASE Again!EdgeMine
    <3>1. /\ call2' = [call2 EXCEPT !.blown = @ \/ lanes2[call2.lane].down]
          /\ call2.stage = "mines"
      BY <2>2 DEF Again!EdgeMine
    <3>2. call2' = [call2 EXCEPT !.blown = call2.blown \/ lanes2[call2.lane].down]
      BY <3>1
    <3>3. (call2.blown \/ lanes2[call2.lane].down) \in BOOLEAN
      OBVIOUS
    <3> QED BY <1>1, <2>1, <3>1, <3>2, <3>3 DEF Calls
  <2>3. CASE Again!EdgeDone
    <3>1. call2' = Idle \/ call2' = [call2 EXCEPT !.stage = "hit"]
      BY <2>3 DEF Again!EdgeDone, Again!Idle, Idle
    <3> QED BY <2>1, <3>1 DEF Calls
  <2>4. CASE \E l \in Lane : Again!Skip(l) \/ Again!Hit(l) \/ Again!NoHit(l)
    <3>1. call2' = Idle \/ (call2' = [call2 EXCEPT !.gaveUp = TRUE] /\ call2.stage = "hit")
      BY <2>4 DEF Again!Skip, Again!Hit, Again!NoHit, Again!Idle, Idle
    <3>2. [call2 EXCEPT !.gaveUp = TRUE].stage = call2.stage
      BY <2>1 DEF Calls
    <3> QED BY <2>1, <3>1, <3>2, CallParts
  <2> QED BY <1>4, <2>2, <2>3, <2>4
<1>9. CheckTyped'
  BY <1>0, <1>5, <1>8, CheckFlags DEF CheckTyped
<1>10. PICK d2 \in BOOLEAN : d2 = over2'
  BY <1>9 DEF CheckTyped
<1>11. PICK c2 : c2 = call2'
  OBVIOUS
<1>12. Follows(n, c2, d2)'
  <2>1. CASE call2' = Idle
    <3>1. Resting(n, d2)'
      <4>1. Again!Ended' => over2'
        BY <1>1, <1>5 DEF Again!Ended
      <4>2. reached' # LastSample
        BY <1>0, <1>1 DEF CheckTyped
      <4> QED BY <1>1, <1>5, <1>10, <2>1, <4>1, <4>2 DEF Resting
    <3> QED BY <1>0, <1>5, <1>9, <1>11, <2>1, <3>1 DEF Follows
  <2>2. CASE call2'.stage \in {"mines", "hit"}
    <3>1. Hitting(n)'
      BY <1>1, <1>5, <2>2 DEF Hitting
    <3> QED BY <1>0, <1>5, <1>9, <1>11, <3>1 DEF Follows
  <2> QED BY <1>8, <2>1, <2>2
<1>13. Leads(n, c2, d2, z)'
  BY <1>7, <1>10, <1>11, <1>12 DEF Leads
<1> QED BY <1>13

\* A press at the start, where the play only synchronised the key, meets neither a mine
\* nor a note, and is no stray press either.
LEMMA VoidLeads ==
  ASSUME Sorted, LedIn, NEW m \in BOOLEAN, Closing(m), NEW z, z = LiveShot(m), NEW n, NEW c,
         NEW d, Leads(n, c, d, z),
         UNCHANGED <<replay, cursor, reached>>, Again!Inside, Void(n, d), c = Idle
  PROVE  \E n2, c2, d2 : Leads(n2, c2, d2, z)'
<1>0. /\ Follows(n, c, d) /\ CheckTyped /\ n \in 0..Len(replay) /\ Len(replay) \in Nat
      /\ EngineType /\ LastSample \in Nat
      /\ call2 \in Calls
  BY Ending DEF Leads, Follows, CheckTyped
<1>1. /\ call2.stage \in {"mines", "hit"} /\ n = cursor - 1 /\ ~finished2
      /\ reached < LastSample
      /\ StartKeys # {} /\ call2.at = 0 /\ call2.state = "Pressed" /\ call2.lane \in Lane
      /\ ~over2 /\ ~call2.blown /\ ~d
  BY DEF Void, StartEdge
<1>2. PICK l \in Lane : l = call2.lane
  BY <1>1
<1>3. lanes2[l].mine \in Nat \ {0} /\ lanes2[l].next \in Nat \ {0}
  BY TurnAhead DEF LaneStates
<1>4. ~Again!EdgeMine
  <2>1. SUFFICES ASSUME Again!MineAtEdge PROVE FALSE
    BY DEF Again!EdgeMine
  <2>2. lanes2[l].mine <= Len(Mines[l]) /\ Mines[l][lanes2[l].mine].at <= 0
    BY <1>1, <1>2, <2>1 DEF Again!MineAtEdge
  <2>3. Mines[l] \in Seq(ChartMines)
    BY EngineAssumption DEF ChartMines
  <2>4. DOMAIN Mines[l] = 1..Len(Mines[l]) /\ Len(Mines[l]) \in Nat
    BY <2>3, LenProperties
  <2>5. lanes2[l].mine \in DOMAIN Mines[l]
    BY <1>3, <2>2, <2>4
  <2>6. Mines[l][lanes2[l].mine].at > 0 /\ Mines[l][lanes2[l].mine].at \in Int
    <3>1. Mines[l][lanes2[l].mine] \in ChartMines
      BY <2>3, <2>4, <2>5, ElementOfSeq
    <3>2. Mines[l][lanes2[l].mine].at > 0
      BY <1>1, <2>5 DEF LedIn
    <3> QED BY <3>1, <3>2 DEF ChartMines
  <2> QED BY <2>2, <2>6
<1>5. Again!Waiting(l) => /\ Again!NextNote(l).start \in Int
                         /\ Again!NextNote(l).start > BD /\ Again!NextNote(l).start > Early
  <2>1. SUFFICES ASSUME Again!Waiting(l)
                 PROVE  /\ Again!NextNote(l).start \in Int /\ Again!NextNote(l).start > BD
                        /\ Again!NextNote(l).start > Early
    OBVIOUS
  <2>2. lanes2[l].next <= Len(Notes[l]) /\ Again!NextNote(l) = Notes[l][lanes2[l].next]
    BY <2>1 DEF Again!Waiting, Again!NextNote
  <2>3. Notes[l] \in Seq(ChartNotes)
    BY EngineAssumption DEF ChartNotes
  <2>4. DOMAIN Notes[l] = 1..Len(Notes[l]) /\ Len(Notes[l]) \in Nat
    BY <2>3, LenProperties
  <2>5. lanes2[l].next \in DOMAIN Notes[l] /\ 1 \in DOMAIN Notes[l] /\ 1 <= lanes2[l].next
    BY <1>3, <2>2, <2>4
  <2>6. Notes[l] # <<>>
    BY <2>4, <2>5
  <2>7. Notes[l][1].start > Early /\ Notes[l][1].start <= Notes[l][lanes2[l].next].start
    BY <1>1, <2>5, <2>6, LeadIn DEF Sorted
  <2>8. Notes[l][lanes2[l].next] \in ChartNotes /\ Notes[l][1] \in ChartNotes
    BY <2>3, <2>4, <2>5, ElementOfSeq
  <2>9. /\ Notes[l][lanes2[l].next].start \in Int /\ Notes[l][1].start \in Int /\ Early \in Int
        /\ BD \in Int /\ BD <= Early
    <3>1. BD <= Early
      BY <1>1 DEF LedIn
    <3>2. Early \in Int /\ BD \in Int
      BY EngineAssumption
    <3> QED BY <2>8, <3>1, <3>2 DEF ChartNotes
  <2> QED BY <2>2, <2>7, <2>9
<1>6. BD \in Int /\ BD >= 0 /\ Early \in Int
  BY EngineAssumption
<1>7. \/ Again!EdgeDone
      \/ call2.stage = "hit" /\ Again!NoHit(l) /\ ~Again!StrayPress(l)
  <2>1. CASE call2.stage = "mines"
    BY <1>4, <2>1, CheckStage
  <2>2. CASE call2.stage = "hit"
    <3>1. PICK k \in Lane : Again!Skip(k) \/ Again!Hit(k) \/ Again!NoHit(k)
      BY <2>2, CheckStage
    <3>2. k = l
      BY <1>2, <3>1 DEF Again!Skip, Again!Hit, Again!NoHit
    <3>3. Again!Waiting(l) => ~Again!InBad(Again!NextNote(l)) /\ ~Again!TooLate(Again!NextNote(l))
      BY <1>1, <1>5, <1>6 DEF Again!InBad, Again!TooLate, Again!Abs
    <3>4. ~Again!StrayPress(l)
      BY <1>1, <1>5, <1>6 DEF Again!StrayPress
    <3>5. ~Again!Skip(l) /\ ~Again!Hit(l)
      BY <3>3 DEF Again!Skip, Again!GiveUp, Again!Hit
    <3> QED BY <2>2, <3>1, <3>2, <3>4, <3>5
  <2> QED BY <1>1, <2>1, <2>2
<1>8. /\ UNCHANGED <<lanes2, gauge2, log2, replay2, finished2, over2>>
      /\ call2' = Idle \/ call2' = [call2 EXCEPT !.stage = "hit"]
  BY <1>7 DEF Again!EdgeDone, Again!NoHit, Again!Idle, Idle
<1>9. CheckTyped'
  <2>1. call2' \in Calls
    BY <1>0, <1>8, CallParts, CallRecords
  <2> QED BY <1>0, <1>8, <2>1 DEF CheckTyped
<1>10. Follows(n, c, d)'
  <2>1. CASE call2' = Idle
    <3>1. Resting(n, d)'
      <4>1. ~Again!Ended'
        BY <1>1, <1>8 DEF Again!Ended
      <4>2. reached' # LastSample
        BY <1>0, <1>1 DEF CheckTyped
      <4> QED BY <1>1, <2>1, <4>1, <4>2 DEF Resting
    <3> QED BY <1>0, <1>8, <1>9, <3>1 DEF Follows
  <2>2. CASE call2' = [call2 EXCEPT !.stage = "hit"]
    <3>1. /\ call2'.stage = "hit" /\ call2'.lane = call2.lane /\ call2'.state = call2.state
          /\ call2'.at = call2.at /\ call2'.blown = call2.blown
      BY <1>0, <2>2 DEF Calls
    <3>2. StartEdge(call2)'
      BY <1>1, <3>1 DEF StartEdge
    <3>3. Void(n, d)'
      BY <1>1, <1>8, <3>1, <3>2 DEF Void
    <3> QED BY <1>0, <1>8, <1>9, <3>3 DEF Follows
  <2> QED BY <1>8, <2>1, <2>2
<1> QED BY <1>8, <1>10, StillLeads

\* Every step of a call of the verifier leads to the end of the play.
LEMMA InsideLeads ==
  ASSUME Sorted, MinesInTime, LedIn, NEW m \in BOOLEAN, Closing(m), NEW z, z = LiveShot(m),
         NEW n, NEW c, NEW d, Leads(n, c, d, z),
         UNCHANGED <<replay, cursor, reached>>, Again!Inside
  PROVE  \E n2, c2, d2 : Leads(n2, c2, d2, z)'
<1>1. CASE call2.stage = "automatic"
  BY <1>1, CheckStage, AutoLeads, FinalizeLeads
<1>2. CASE call2.stage = "edge"
  BY <1>2, CheckStage, EdgeLeads
<1>3. CASE call2.stage \in {"mines", "hit"}
  <2>1. Follows(n, c, d) /\ EngineType /\ n \in 0..Len(replay) /\ Len(replay) \in Nat
    BY Ending DEF Leads, Follows
  <2>2. ~Resting(n, d)
    BY <1>3 DEF Resting, Idle
  <2>5. ~Advancing(n, d)
    BY <1>3 DEF Advancing, Idle
  <2>3. ~Entering(n, d)
    <3>1. SUFFICES ASSUME Entering(n, d) PROVE FALSE
      OBVIOUS
    <3>2. n + 1 \in 1..Len(replay)
      BY <2>1, <3>1 DEF Entering
    <3>3. replay[n + 1] \in Edges
      BY <3>2, Ending
    <3> QED BY <1>3, <2>1, <3>1, <3>3, AskedIs DEF Entering
  <2>4. (c = Idle /\ Void(n, d)) \/ (c = call2 /\ Hitting(n))
    BY <2>1, <2>2, <2>3, <2>5 DEF Follows
  <2> QED BY <2>4, VoidLeads, HitLeads
<1>4. CheckTyped
  BY DEF Leads, Follows
<1> QED BY <1>1, <1>2, <1>3, <1>4, CheckStage DEF CheckTyped, Calls

-----------------------------------------------------------------------------
\* The verifier has not begun; it follows the play; and the invariant of the theorem.
Fresh == Again!Init /\ cursor = 1 /\ reached = -1
Following == \E m \in BOOLEAN : MidOk(m) /\ \E n, c, d : Leads(n, c, d, LiveShot(m))
Agreeing ==
  /\ Sorted /\ MinesInTime /\ LedIn /\ Late = 0
  /\ Typed /\ InOrder
  /\ Steady => Kept /\ Played
  /\ ~Submitted => Fresh
  /\ Submitted => Following

\* A play that is over and is a record stays what it is.
LEMMA Frozen ==
  ASSUME Typed, Submitted, [PlayNext]_play
  PROVE  /\ UNCHANGED <<engine, pauses, stale>>
         /\ UNCHANGED verifier \/ Verify
<1>1. EngineType /\ call.stage = "idle" /\ Ended
  BY DEF Typed, PlayTypes, Submitted, Over
<1>2. ~Inside
  BY <1>1, InStage
<1>3. ASSUME NEW key \in Keys, NEW t \in Samples
      PROVE  ~KeyEdge(key, t) /\ ~CatchUp(key, t)
  BY <1>1 DEF KeyEdge, CatchUp, Playing
<1>4. ASSUME NEW held, NEW t \in Samples
      PROVE  ~Resume(held, t)
  BY <1>1 DEF Resume, Playing
<1>5. ASSUME NEW l \in Lane, Rebaseline(l)
      PROVE  UNCHANGED <<engine, pauses, stale>> /\ UNCHANGED verifier
  BY <1>1, <1>5 DEF Rebaseline
<1>6. ASSUME Live
      PROVE  UNCHANGED <<engine, pauses, stale>> /\ UNCHANGED verifier
  <2>1. CASE \E key \in Keys, t \in Samples : KeyEdge(key, t) \/ CatchUp(key, t)
    BY <1>3, <2>1
  <2>2. CASE \E t \in Samples : Callback(t)
    BY <1>1, <2>2 DEF Callback, Playing
  <2>3. CASE \E held \in SUBSET Keys, t \in Samples : Resume(held, t)
    BY <1>4, <2>3
  <2>4. CASE \E l \in Lane : Rebaseline(l)
    BY <1>5, <2>4
  <2> QED BY <1>2, <1>6, <2>1, <2>2, <2>3, <2>4 DEF Live
<1>7. ASSUME Verify PROVE UNCHANGED <<engine, pauses, stale>>
  BY <1>7 DEF Verify, Seek, Feed, RunOut, keyboard
<1>8. ASSUME Rest \/ UNCHANGED play
      PROVE  UNCHANGED <<engine, pauses, stale>> /\ UNCHANGED verifier
  BY <1>8 DEF Rest, play, keyboard
<1> QED BY <1>6, <1>7, <1>8 DEF PlayNext

\* The verifier waits for that.
LEMMA Waits ==
  ASSUME ~Submitted, Fresh, [PlayNext]_play
  PROVE  UNCHANGED verifier
<1>1. ~Again!Inside
  <2>1. call2.stage = "idle"
    BY DEF Fresh, Again!Init, Again!Idle
  <2> QED BY <2>1, CheckStage
<1>2. ~Verify
  BY <1>1 DEF Verify, Seek, Feed, RunOut, Ready
<1>3. ASSUME Live PROVE UNCHANGED verifier
  BY <1>3 DEF Live, KeyEdge, CatchUp, Callback, Resume, Rebaseline
<1>4. ASSUME Rest \/ UNCHANGED play PROVE UNCHANGED verifier
  BY <1>4 DEF Rest, play
<1> QED BY <1>2, <1>3, <1>4 DEF PlayNext

\* The end of the play can be reached from where the verifier starts,
LEMMA FreshLeads ==
  ASSUME Typed, Played, Submitted, Fresh
  PROVE  Following
<1>1. EngineType /\ LastSample \in Nat /\ call.stage = "idle" /\ Ended
  BY PlayAssumption DEF Typed, PlayTypes, Submitted, Over
<1>2. replay \in Seq(Edges) /\ Len(replay) \in Nat
  BY <1>1, LastEdges
<1>3. Horizon = LastSample
  BY <1>1 DEF Horizon
<1>4. PICK m \in BOOLEAN : MidOk(m) /\ Reaches(replay, LastSample, Start, LiveShot(m))
  BY <1>3 DEF Played
<1>5. /\ lanes2 = [l \in Lane |-> [next |-> 1, mine |-> 1, mask |-> 0, down |-> FALSE, hold |-> NoHold]]
      /\ gauge2 = FullGauges /\ log2 = <<>> /\ replay2 = <<>> /\ finished2 = FALSE
      /\ over2 = FALSE
      /\ call2 = Idle /\ cursor = 1 /\ reached = -1
  BY DEF Fresh, Again!Init, Again!Lane, Lane, Again!NoHold, NoHold, Again!FullGauges,
         FullGauges, Again!Idle, Idle
<1>6. Shot(Board2, 0, Idle, FALSE) = Start
  BY <1>5 DEF Start, Board2
<1>7. Follows(0, Idle, FALSE)
  <2>1. CheckTyped
    <3>1. Idle \in Calls
      BY <1>1, CallRecords
    <3>2. -1 \in -1..LastSample /\ 1 \in 1..(Len(replay) + 1)
      BY <1>1, <1>2
    <3> QED BY <1>5, <3>1, <3>2 DEF CheckTyped
  <2>2. 0 \in 0..Len(replay) /\ SubSeq(replay, 1, 0) = <<>>
    <3>1. 0 \in 0..Len(replay)
      BY <1>2
    <3>2. SubSeq(replay, 1, 0) \in Seq(Edges) /\ Len(SubSeq(replay, 1, 0)) = 0
      BY <1>2, <3>1, Prefix
    <3> QED BY <3>1, <3>2, EmptySeq
  <2>3. Resting(0, FALSE)
    <3>1. ~Again!Ended /\ reached # LastSample
      BY <1>1, <1>5 DEF Again!Ended
    <3> QED BY <1>5, <3>1 DEF Resting
  <2> QED BY <1>5, <2>1, <2>2, <2>3 DEF Follows
<1>8. Leads(0, Idle, FALSE, LiveShot(m))
  BY <1>4, <1>6, <1>7 DEF Leads
<1> QED BY <1>4, <1>8 DEF Following

\* after a step as well.
LEMMA FreshLeadsNext == (Typed /\ Played /\ Submitted /\ Fresh => Following)'
<1>1. Typed /\ Played /\ Submitted /\ Fresh => Following
  BY FreshLeads
<1> QED BY <1>1, PTL

\* Every step of the verifier keeps the end in reach.
LEMMA FollowingStep ==
  ASSUME Sorted, MinesInTime, LedIn, Typed, InOrder, Kept, Submitted, Following, [PlayNext]_play
  PROVE  Following'
<1>1. UNCHANGED <<engine, pauses, stale>> /\ (UNCHANGED verifier \/ Verify)
  BY Frozen
<1>2. PICK m \in BOOLEAN : MidOk(m) /\ \E n, c, d : Leads(n, c, d, LiveShot(m))
  BY DEF Following
<1>3. PICK z : z = LiveShot(m)
  OBVIOUS
<1>4. PICK n, c, d : Leads(n, c, d, z)
  BY <1>2, <1>3
<1>5. Closing(m)
  BY <1>2 DEF Closing, InOrder
<1>6. MidOk(m)' /\ z = LiveShot(m)' /\ replay' = replay
  <2>1. UNCHANGED <<lanes, gauge, log, replay, finished, over, call>>
    BY <1>1 DEF engine
  <2> QED BY <1>2, <1>3, <2>1 DEF MidOk, LiveShot, Board, Striking, Ended, AllDone, Waiting,
                 Holding
<1>7. \E n2, c2, d2 : Leads(n2, c2, d2, z)'
  <2>1. CASE UNCHANGED verifier
    <3>1. UNCHANGED <<lanes2, gauge2, log2, replay2, finished2, over2, call2, cursor, reached>>
      BY <2>1 DEF verifier, checked
    <3>2. Follows(n, c, d)'
      <4>1. Follows(n, c, d)
        BY <1>4 DEF Leads
      <4> QED BY <1>6, <3>1, <4>1 DEF Follows, CheckTyped, Resting, Advancing, Entering,
                     Hitting, Void,
                Board2, Again!Ended
    <3> QED BY <1>4, <1>6, <3>1, <3>2, StillLeads
  <2>2. CASE Seek
    BY <1>4, <1>5, <1>6, <2>2, SeekLeads
  <2>3. CASE Feed
    BY <1>4, <1>5, <1>6, <2>3, FeedLeads
  <2>4. CASE RunOut
    BY <1>4, <1>5, <1>6, <2>4, RunOutLeads
  <2>5. CASE Again!Inside /\ UNCHANGED <<engine, keyboard, cursor, reached>>
    BY <1>3, <1>4, <1>5, <1>6, <2>5, InsideLeads
  <2> QED BY <1>1, <2>1, <2>2, <2>3, <2>4, <2>5 DEF Verify
<1>8. PICK n2, c2, d2 : Leads(n2, c2, d2, z)'
  BY <1>7
<1>9. Leads(n2, c2, d2, LiveShot(m))'
  BY <1>6, <1>8 DEF Leads
<1> QED BY <1>6, <1>9 DEF Following

\* The invariant is inductive,
LEMMA AgreeingStep ==
  ASSUME Agreeing, [PlayNext]_play
  PROVE  Agreeing'
<1>0. Sorted /\ MinesInTime /\ LedIn /\ Late = 0
  BY DEF Agreeing
<1>1. Typed /\ Typed' /\ InOrder /\ InOrder'
  <2>1. [Next]_engine /\ EngineType /\ Typed'
    BY PlayDrives, TypedStep DEF Agreeing, Typed, PlayTypes
  <2> QED BY <2>1, InOrderStep DEF Agreeing
<1>2. ASSUME Steady' PROVE Kept' /\ Played'
  <2>1. Steady /\ Kept'
    BY <1>0, <1>1, <1>2, KeptStep DEF Agreeing, KeptSteady
  <2>2. UNCHANGED <<pauses, stale>>
    BY <1>2, <2>1 DEF Steady
  <2> QED BY <1>0, <1>1, <2>1, <2>2, PlayedStep DEF Agreeing
<1>3. CASE Submitted
  <2>1. Submitted'
    BY <1>1, <1>3, Frozen DEF Submitted, Over, Ended, engine
  <2>2. Kept
    BY <1>3 DEF Agreeing, Steady, Submitted
  <2>3. Following'
    BY <1>0, <1>1, <1>3, <2>2, FollowingStep DEF Agreeing
  <2> QED BY <1>0, <1>1, <1>2, <2>1, <2>3 DEF Agreeing
<1>4. CASE ~Submitted
  <2>1. Fresh'
    <3>1. UNCHANGED verifier /\ Fresh
      BY <1>4, Waits DEF Agreeing
    <3> QED BY <3>1 DEF Fresh, verifier, checked, Again!Init
  <2>2. Submitted' => Following'
    <3>1. Submitted' => Steady'
      BY DEF Submitted, Steady
    <3> QED BY <1>1, <1>2, <2>1, <3>1, FreshLeadsNext
  <2> QED BY <1>0, <1>1, <1>2, <2>1, <2>2 DEF Agreeing
<1> QED BY <1>3, <1>4

\* holds at the start,
LEMMA AgreeingInit == ASSUME Sorted, MinesInTime, LedIn, Late = 0, PlayInit PROVE Agreeing
<1>1. Typed
  BY TypedInit
<1>2. replay = <<>> /\ call = Idle /\ finished = FALSE /\ over = FALSE
  BY DEF PlayInit, Init
<1>3. InOrder
  BY <1>2 DEF InOrder, ReplayInOrder, Idle
<1>4. ~Submitted
  BY <1>2 DEF Submitted, Over, Ended
<1>5. Fresh
  BY DEF PlayInit, Fresh
<1> QED BY <1>1, <1>3, <1>4, <1>5, KeptInit, PlayedInit DEF Agreeing

\* and where the verifier stops it has no turn left, so it is at the end of the play.
LEMMA AgreesAtLast ==
  ASSUME Agreeing PROVE VerifierAgrees
<1> SUFFICES ASSUME Verified
             PROVE  log2 = log /\ gauge2 = gauge /\ over2 = over /\ finished2 = finished
  BY DEF VerifierAgrees
<1>1. Submitted /\ call2.stage = "idle" /\ (Again!Ended \/ reached = LastSample) /\ Kept
  BY DEF Verified, Agreeing, Submitted, Steady
<1>2. PICK m \in BOOLEAN : MidOk(m) /\ \E n, c, d : Leads(n, c, d, LiveShot(m))
  BY <1>1 DEF Agreeing, Following
<1>3. PICK z : z = LiveShot(m)
  OBVIOUS
<1>4. PICK n, c, d : Leads(n, c, d, z)
  BY <1>2, <1>3
<1>5. Closing(m)
  BY <1>1, <1>2 DEF Closing, Agreeing, InOrder
<1>6. /\ Follows(n, c, d) /\ CheckTyped /\ EngineType /\ InPlay /\ n \in 0..Len(replay)
      /\ Len(replay) \in Nat
      /\ cursor \in Int
  BY <1>1, <1>4, <1>5, Ending DEF Leads, Follows, Kept, CheckTyped
<1>7. c = Idle /\ Resting(n, d)
  BY <1>1, <1>6, IdleRests
<1>8. \/ Board2 = Board /\ d = m
      \/ Shot(Board2, n, Idle, d) # z /\ ~over2 /\ ~DoneIn(Board2)
  BY <1>3, <1>4, <1>5, <1>7, TurnAhead
<1>9. ~(Shot(Board2, n, Idle, d) # z /\ ~over2 /\ ~DoneIn(Board2))
  <2>1. SUFFICES ASSUME Shot(Board2, n, Idle, d) # z, ~over2, ~DoneIn(Board2) PROVE FALSE
    OBVIOUS
  <2>2. ~Again!Ended
    BY <1>7, <2>1 DEF Again!Ended, Resting
  <2>3. n = Len(replay) /\ NoneBy(Board2, LastSample)
    BY <1>1, <1>6, <1>7, <2>2 DEF Resting
  <2>4. ASSUME NEW y, Turn(replay, LastSample, Shot(Board2, n, Idle, d), y) PROVE FALSE
    <3> DEFINE x == Shot(Board2, n, Idle, d)
    <3>1. x.board = Board2 /\ x.edges = n /\ x.call = Idle
      BY DEF Shot
    <3> HIDE DEF x
    <3>2. ~EdgeTurn(replay, x, y)
      BY <1>6, <2>3, <3>1 DEF EdgeTurn
    <3>3. AutoTurn(replay, LastSample, x, y) /\ x.board.lanes \in [Lane -> LaneStates]
      BY <2>4, <3>1, <3>2 DEF Turn, x
    <3>4. PICK l \in Lane, k \in 1..3 : \E s \in DueIn(Board2, l)[k] : s <= Limit(replay, LastSample, n)
      BY <3>1, <3>3 DEF AutoTurn
    <3>5. PICK s \in DueIn(Board2, l)[k] : s <= LastSample
      BY <1>6, <2>3, <3>4 DEF Limit
    <3>6. s > LastSample /\ s \in Int /\ LastSample \in Int
      BY <2>3, <3>1, <3>3, <3>5, DuesAreInt, PlayAssumption DEF NoneBy
    <3> QED BY <3>5, <3>6
  <2> QED BY <1>4, <1>7, <2>1, <2>4, ReachEnd DEF Leads
<1>10. Board2 = Board /\ d = m
  BY <1>8, <1>9
<1>11. log2 = log /\ gauge2 = gauge /\ over2 = over
  <2>1. Board2.log = Board.log /\ Board2.gauge = Board.gauge /\ Board2.over = Board.over
    BY <1>10
  <2> QED BY <2>1 DEF Board, Board2
<1>12. finished2 = finished
  <2>1. /\ finished \in BOOLEAN /\ finished2 \in BOOLEAN /\ (finished <=> DoneIn(Board2) /\ ~d)
        /\ (finished \/ over)
    BY <1>1, <1>5, <1>6, <1>10, Ending DEF Kept, Flags, CheckTyped
  <2>2. Again!Ended
    <3>1. SUFFICES ASSUME ~Again!Ended PROVE FALSE
      OBVIOUS
    <3>2. ~over2 /\ ~DoneIn(Board2)
      BY <1>1, <1>7, <3>1 DEF Resting, Again!Ended
    <3> QED BY <1>11, <2>1, <3>2
  <2>3. finished2 <=> finished
    BY <1>7, <2>1, <2>2 DEF Resting
  <2> QED BY <2>1, <2>3
<1> QED BY <1>11, <1>12

\* The verification reproduces the play, whatever the chart, the gauges, the keyboard, the
\* keys and the callbacks: the same judgements in the same order, the same gauges and the
\* same end.  The chart is in order and has no mine behind the end of the play, none at
\* the first sample when keys may be held there, and no input arrives behind an advance
\* (verify_replay_against_chart, ReplayVerifier.cpp; GameplayEngine.cpp:158-160).
THEOREM VerifierReproduces ==
  Sorted /\ MinesInTime /\ LedIn /\ Late = 0 /\ PlaySpec => []VerifierAgrees
<1>1. Sorted /\ MinesInTime /\ LedIn /\ Late = 0 /\ PlayInit => Agreeing
  BY AgreeingInit
<1>2. Agreeing /\ [PlayNext]_play => Agreeing'
  BY AgreeingStep
<1>3. Agreeing => VerifierAgrees
  BY AgreesAtLast
<1> QED BY <1>1, <1>2, <1>3, PTL DEF PlaySpec
=============================================================================
