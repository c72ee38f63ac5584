------------------------ MODULE GameplayEngineProofs ------------------------
(* For every chart, every gauge and every sequence of calls: the recorded    *)
(* edges are in order, nothing is judged twice, a gauge that has failed      *)
(* stays at zero, and the tier that is shown never gets harder.              *)
EXTENDS GameplayEngine, SequenceTheorems, WellFoundedInduction, TLAPS

ChartNotes == [start: Int, end: Int, kind: Kinds]
ChartMines == [at: Int, damage: Nat, kill: BOOLEAN]
Parts == {"head", "tail", "missed", "poor", "mine"}
Holds == [note: Nat, end: Int, kind: Kinds]
LaneStates == [next: Nat \ {0}, mine: Nat \ {0}, mask: Int, down: BOOLEAN, hold: Holds]
Entries == [lane: Lane, note: Nat, part: Parts, grade: Grades \cup {"none"}, due: Int]
Edges == [lane: Lane, state: States, at: Int]
Calls == [kind: {"none", "input", "sync", "advance"},
          stage: {"idle", "automatic", "edge", "mines", "hit"},
          lane: Lane \cup {0}, state: States, at: Int, until: Int,
          gaveUp: BOOLEAN, blown: BOOLEAN]

EngineType ==
  /\ lanes \in [Lane -> LaneStates]
  /\ log \in Seq(Entries)
  /\ replay \in Seq(Edges)
  /\ call \in Calls
  /\ call.kind \in {"input", "sync"} => call.lane \in Lane
  /\ call.stage \in {"edge", "mines", "hit"} => call.kind \in {"input", "sync"}
  /\ call.stage = "automatic" => call.kind # "none"

USE DEF Lane, States

-----------------------------------------------------------------------------
\* The note a lane waits for has a start, an end and a kind.
LEMMA NoteType ==
  ASSUME NEW l \in Lane, EngineType, Waiting(l)
  PROVE  NextNote(l) \in ChartNotes
<1>1. Notes[l] \in Seq(ChartNotes)
  BY EngineAssumption DEF ChartNotes
<1>2. lanes[l].next \in Nat \ {0}
  BY DEF EngineType, LaneStates
<1>3. Len(Notes[l]) \in Nat
  BY <1>1, LenProperties
<1>4. lanes[l].next \in 1..Len(Notes[l])
  BY <1>2, <1>3 DEF Waiting
<1> QED BY <1>1, <1>4, ElementOfSeq DEF NextNote

\* It starts at an integer.
LEMMA NoteStart ==
  ASSUME NEW l \in Lane, EngineType, Waiting(l)
  PROVE  NextNote(l).start \in Int
<1>1. NextNote(l) \in ChartNotes
  BY NoteType
<1> QED BY <1>1 DEF ChartNotes

\* The next mine of a lane has a sample, a damage and a kill flag.
LEMMA MineType ==
  ASSUME NEW l \in Lane, EngineType, lanes[l].mine <= Len(Mines[l])
  PROVE  Mines[l][lanes[l].mine].at \in Int
<1>1. Mines[l] \in Seq(ChartMines)
  BY EngineAssumption DEF ChartMines
<1>2. lanes[l].mine \in Nat \ {0}
  BY DEF EngineType, LaneStates
<1>3. Len(Mines[l]) \in Nat
  BY <1>1, LenProperties
<1>4. lanes[l].mine \in 1..Len(Mines[l])
  BY <1>2, <1>3
<1>5. Mines[l][lanes[l].mine] \in ChartMines
  BY <1>1, <1>4, ElementOfSeq
<1> QED BY <1>5 DEF ChartMines

\* Every window is an integer.
LEMMA Windows == {PG, GR, GD, BD, Miss, Early, HoldBreak, Mask} \subseteq Int
BY EngineAssumption

\* classify_judgement gives one of the grades at any distance.
LEMMA GradeType == \A d \in Int : Grade(d) \in Grades
BY DEF Grade, Grades

\* So does the judgement of a tail.
LEMMA TailGradeType ==
  ASSUME NEW hold \in Holds, NEW t \in Int
  PROVE  TailGrade(hold, t) \in Grades
<1>1. t - hold.end \in Int
  BY DEF Holds
<1> QED BY <1>1, GradeType DEF TailGrade, Grades

\* Putting a record of the right kind in one lane keeps the lanes well formed.
LEMMA OneLane ==
  ASSUME EngineType, NEW l \in Lane, NEW r \in LaneStates, lanes' = [lanes EXCEPT ![l] = r]
  PROVE  lanes' \in [Lane -> LaneStates]
BY DEF EngineType

\* What the steps do to the record of a lane.
LEMMA LaneRecords ==
  ASSUME NEW r \in LaneStates
  PROVE  /\ \A m \in Int : [r EXCEPT !.mask = m] \in LaneStates
         /\ \A d \in BOOLEAN : [r EXCEPT !.down = d] \in LaneStates
         /\ \A h \in Holds : [r EXCEPT !.hold = h] \in LaneStates
         /\ [r EXCEPT !.next = @ + 1] \in LaneStates
         /\ [r EXCEPT !.mine = @ + 1] \in LaneStates
BY DEF LaneStates

\* A judgement (apply_judgement) leaves the log, the gauges and the game-over flag well formed.
LEMMA JudgeType ==
  ASSUME EngineType, NEW l \in Lane, NEW note \in Nat, NEW part \in Parts,
         NEW grade \in Grades, NEW halves, NEW now \in Int,
         Judge(l, note, part, grade, halves, now)
  PROVE  log' \in Seq(Entries)
<1>1. [lane |-> l, note |-> note, part |-> part, grade |-> grade, due |-> now] \in Entries
  BY DEF Entries
<1> QED BY <1>1 DEF EngineType, Judge

\* A missed note keeps the types and moves the lane to its next note.
LEMMA GiveUpType ==
  ASSUME EngineType, NEW l \in Lane, NEW now \in Int, NEW mask \in Int,
         GiveUpNote(l, now, mask)
  PROVE  log' \in Seq(Entries) /\ lanes' \in [Lane -> LaneStates]
<1>1. lanes[l].next \in Nat /\ "missed" \in Parts /\ MissGrade \in Grades
  BY EngineAssumption DEF EngineType, LaneStates, Parts, Grades
<1>2. log' \in Seq(Entries)
  BY <1>1, JudgeType DEF GiveUpNote
<1>3. [[lanes[l] EXCEPT !.next = @ + 1] EXCEPT !.mask = mask] \in LaneStates
  BY LaneRecords DEF EngineType
<1>4. lanes' = [lanes EXCEPT ![l] = [[lanes[l] EXCEPT !.next = @ + 1] EXCEPT !.mask = mask]]
  BY DEF EngineType, GiveUpNote
<1>5. lanes' \in [Lane -> LaneStates]
  BY <1>3, <1>4, OneLane
<1> QED BY <1>2, <1>5

\* A passed mine keeps the types, whether or not it goes off.
LEMMA PassMineType ==
  ASSUME EngineType, NEW l \in Lane, NEW now \in Int, PassMine(l, now)
  PROVE  log' \in Seq(Entries) /\ lanes' \in [Lane -> LaneStates]
<1>1. [lane |-> l, note |-> lanes[l].mine, part |-> "mine", grade |-> "none", due |-> now]
        \in Entries
  BY DEF EngineType, LaneStates, Entries, Parts
<1>2. \/ log' = log
      \/ log' = Append(log, [lane |-> l, note |-> lanes[l].mine, part |-> "mine",
                             grade |-> "none", due |-> now])
  BY DEF PassMine
<1>3. log' \in Seq(Entries)
  <2>1. log \in Seq(Entries)
    BY DEF EngineType
  <2> QED BY <1>1, <1>2, <2>1, AppendProperties
<1>4. [lanes[l] EXCEPT !.mine = @ + 1] \in LaneStates
  BY LaneRecords DEF EngineType
<1>5. [[lanes[l] EXCEPT !.mine = @ + 1] EXCEPT !.down = FALSE] \in LaneStates
  BY <1>4, LaneRecords
<1>6. \/ lanes' = [lanes EXCEPT ![l] = [lanes[l] EXCEPT !.mine = @ + 1]]
      \/ lanes' = [lanes EXCEPT ![l] = [[lanes[l] EXCEPT !.mine = @ + 1] EXCEPT !.down = FALSE]]
  BY DEF EngineType, PassMine
<1>7. lanes' \in [Lane -> LaneStates]
  BY <1>4, <1>5, <1>6, OneLane
<1> QED BY <1>3, <1>7

\* A judged tail keeps the types and empties the lane's hold.
LEMMA SettleType ==
  ASSUME EngineType, NEW l \in Lane, NEW grade \in Grades, NEW now \in Int,
         NEW down \in BOOLEAN, SettleHold(l, grade, now, down)
  PROVE  log' \in Seq(Entries) /\ lanes' \in [Lane -> LaneStates]
<1>1. lanes[l].hold.note \in Nat /\ "tail" \in Parts
  BY DEF EngineType, LaneStates, Holds, Parts
<1>2. log' \in Seq(Entries)
  BY <1>1, JudgeType DEF SettleHold
<1>3. NoHold \in Holds
  BY DEF NoHold, Holds, Kinds
<1>4. [[lanes[l] EXCEPT !.hold = NoHold] EXCEPT !.down = down] \in LaneStates
  BY <1>3, LaneRecords DEF EngineType
<1>5. lanes' = [lanes EXCEPT ![l] = [[lanes[l] EXCEPT !.hold = NoHold] EXCEPT !.down = down]]
  BY DEF EngineType, SettleHold
<1>6. lanes' \in [Lane -> LaneStates]
  BY <1>4, <1>5, OneLane
<1> QED BY <1>2, <1>6

\* An applied key edge keeps the types, with and without a hold to settle.
LEMMA ApplyEdgeType ==
  ASSUME EngineType, call.lane \in Lane, ApplyEdge
  PROVE  log' \in Seq(Entries) /\ lanes' \in [Lane -> LaneStates]
<1> DEFINE l == call.lane
<1>1. CASE call.state = "Released" /\ Holding(l)
  <2>1. lanes[l].hold \in Holds /\ call.at \in Int
    BY DEF EngineType, LaneStates, Calls
  <2>2. TailGrade(lanes[l].hold, call.at) \in Grades
    BY <2>1, TailGradeType
  <2>3. SettleHold(l, TailGrade(lanes[l].hold, call.at), call.at, FALSE)
    BY <1>1 DEF ApplyEdge
  <2> QED BY <2>1, <2>2, <2>3, SettleType
<1>2. CASE ~(call.state = "Released" /\ Holding(l))
  <2>1. lanes' = [lanes EXCEPT ![l].down = (call.state = "Pressed")] /\ log' = log
    BY <1>2 DEF ApplyEdge
  <2>2. [lanes[l] EXCEPT !.down = (call.state = "Pressed")] \in LaneStates
    BY DEF EngineType, LaneStates
  <2>3. lanes' = [lanes EXCEPT ![l] = [lanes[l] EXCEPT !.down = (call.state = "Pressed")]]
    BY <2>1 DEF EngineType
  <2> QED BY <2>1, <2>2, <2>3, OneLane DEF EngineType
<1> QED BY <1>1, <1>2

\* The sample an edge is recorded at is an integer, not before the last recorded edge.
LEMMA NotBeforeType ==
  ASSUME EngineType, NEW t \in Int
  PROVE  /\ NotBefore(t) \in Int
         /\ replay # <<>> => replay[Len(replay)].at <= NotBefore(t)
<1>1. replay # <<>> => replay[Len(replay)] \in Edges
  BY DEF EngineType
<1> QED BY <1>1 DEF NotBefore, LastEdge, Edges

\* What the steps do to the call.
LEMMA CallRecords ==
  ASSUME EngineType
  PROVE  /\ Idle \in Calls
         /\ \A st \in {"idle", "automatic", "edge", "mines", "hit"} :
              /\ [call EXCEPT !.stage = st] \in Calls
              /\ [call EXCEPT !.stage = st].kind = call.kind
              /\ [call EXCEPT !.stage = st].lane = call.lane
         /\ [call EXCEPT !.gaveUp = TRUE] \in Calls
         /\ \A b \in BOOLEAN : [call EXCEPT !.blown = @ \/ b] \in Calls
<1>1. call \in Calls
  BY DEF EngineType
<1>2. Idle \in Calls
  BY DEF Idle, Calls
<1>3. \A st \in {"idle", "automatic", "edge", "mines", "hit"} :
        /\ [call EXCEPT !.stage = st] \in Calls
        /\ [call EXCEPT !.stage = st].kind = call.kind
        /\ [call EXCEPT !.stage = st].lane = call.lane
  BY <1>1 DEF Calls
<1>4. [call EXCEPT !.gaveUp = TRUE] \in Calls
  BY <1>1 DEF Calls
<1>5. ASSUME NEW b \in BOOLEAN
      PROVE  [call EXCEPT !.blown = @ \/ b] \in Calls
  <2>1. (call.blown \/ b) \in BOOLEAN
    OBVIOUS
  <2>2. \A c \in BOOLEAN : [call EXCEPT !.blown = c] \in Calls
    BY <1>1 DEF Calls
  <2> QED BY <2>1, <2>2
<1> QED BY <1>2, <1>3, <1>4, <1>5

\* A new call (handle_input, sync_input_state, advance) keeps the types.
LEMMA NewCall ==
  ASSUME EngineType, NEW l \in Lane, NEW state \in States, NEW t \in Int,
         HandleInput(l, state, t) \/ SyncInputState(l, state, t)
  PROVE  EngineType'
<1>1. NotBefore(t) \in Int
  BY NotBeforeType
<1>2. \E k \in {"input", "sync"} :
        call' = [Idle EXCEPT !.kind = k, !.stage = "automatic", !.lane = l, !.state = state,
                   !.at = NotBefore(t), !.until = NotBefore(t) - 1]
  BY DEF HandleInput, SyncInputState
<1>3. call' \in Calls /\ call'.lane = l /\ call'.kind \in {"input", "sync"}
      /\ call'.stage = "automatic"
  <2>1. PICK k \in {"input", "sync"} :
        call' = [kind |-> k, stage |-> "automatic", lane |-> l, state |-> state,
                 at |-> NotBefore(t), until |-> NotBefore(t) - 1, gaveUp |-> FALSE, blown |-> FALSE]
    BY <1>2 DEF Idle
  <2>2. NotBefore(t) - 1 \in Int
    BY <1>1
  <2> HIDE DEF States
  <2>3. call' \in Calls
    BY <1>1, <2>1, <2>2 DEF Calls
  <2> QED BY <2>1, <2>3
<1>4. UNCHANGED <<lanes, log, replay>>
  BY DEF HandleInput, SyncInputState
<1> QED BY <1>3, <1>4 DEF EngineType

\* The steps that change neither the call nor the recorded edges.
LEMMA AutoType ==
  ASSUME EngineType, NEW l \in Lane, AutoMine(l) \/ AutoMiss(l) \/ AutoHold(l)
  PROVE  EngineType'
<1>1. CASE AutoMine(l)
  <2>1. lanes[l].mine <= Len(Mines[l])
    BY <1>1 DEF AutoMine, Automatic, Due, MineDue
  <2>2. Mines[l][lanes[l].mine].at \in Int
    BY <2>1, MineType
  <2>3. log' \in Seq(Entries) /\ lanes' \in [Lane -> LaneStates]
    BY <1>1, <2>2, PassMineType DEF AutoMine
  <2> QED BY <1>1, <2>3 DEF AutoMine, EngineType
<1>2. CASE AutoMiss(l)
  <2>1. Waiting(l)
    BY <1>2 DEF AutoMiss, Automatic, Due, MissDue
  <2>2. NextNote(l).start + Miss + 1 \in Int /\ NextNote(l).start + Mask \in Int
    <3>1. NextNote(l).start \in Int
      BY <2>1, NoteStart
    <3> QED BY <3>1, Windows
  <2>3. log' \in Seq(Entries) /\ lanes' \in [Lane -> LaneStates]
    BY <1>2, <2>2, GiveUpType DEF AutoMiss
  <2> QED BY <1>2, <2>3 DEF AutoMiss, EngineType
<1>3. CASE AutoHold(l)
  <2>1. lanes[l].hold.end \in Int /\ lanes[l].hold.end + HoldBreak + 1 \in Int
    <3>1. lanes[l].hold \in Holds
      BY DEF EngineType, LaneStates
    <3>2. lanes[l].hold.end \in Int
      BY <3>1 DEF Holds
    <3> QED BY <3>2, Windows
  <2>2. lanes[l].down \in BOOLEAN /\ {"BD", "PG"} \subseteq Grades
    BY DEF EngineType, LaneStates, Grades
  <2>3. \/ SettleHold(l, "BD", lanes[l].hold.end + HoldBreak + 1, lanes[l].down)
        \/ SettleHold(l, "PG", lanes[l].hold.end, lanes[l].down)
    BY <1>3 DEF AutoHold
  <2>4. log' \in Seq(Entries) /\ lanes' \in [Lane -> LaneStates]
    BY <2>1, <2>2, <2>3, SettleType
  <2> QED BY <1>3, <2>4 DEF AutoHold, EngineType
<1> QED BY <1>1, <1>2, <1>3

\* Recording the edge and passing the mines of its sample keeps the types.
LEMMA EdgeType ==
  ASSUME EngineType, InputEdge \/ SyncEdge \/ EdgeMine \/ EdgeDone
  PROVE  EngineType'
<1>0. call \in Calls /\ call.lane \in Lane /\ call.at \in Int
  BY DEF EngineType, Calls, InputEdge, SyncEdge, EdgeMine, EdgeDone
<1>1. [lane |-> call.lane, state |-> call.state, at |-> call.at] \in Edges
  BY <1>0 DEF Edges, Calls
<1>2. Record => replay' \in Seq(Edges)
  <2>1. replay \in Seq(Edges)
    BY DEF EngineType
  <2> QED BY <1>1, <2>1, AppendProperties DEF Record
<1>3. CASE InputEdge
  <2>1. call' \in Calls /\ call'.kind = call.kind /\ call'.lane = call.lane
    BY <1>3, CallRecords DEF InputEdge
  <2>2. log' \in Seq(Entries) /\ lanes' \in [Lane -> LaneStates]
    BY <1>0, <1>3, ApplyEdgeType DEF InputEdge
  <2> QED BY <1>0, <1>2, <1>3, <2>1, <2>2 DEF InputEdge, EngineType
<1>4. CASE SyncEdge
  <2>1. call' \in Calls /\ call'.kind = "none" /\ call'.stage = "idle"
    BY <1>4, CallRecords DEF SyncEdge, Idle
  <2>2. \/ UNCHANGED <<lanes, log, replay>>
        \/ Record /\ ApplyEdge
    BY <1>4 DEF SyncEdge
  <2>3. log' \in Seq(Entries) /\ lanes' \in [Lane -> LaneStates] /\ replay' \in Seq(Edges)
    BY <1>0, <1>2, <2>2, ApplyEdgeType DEF EngineType
  <2> QED BY <2>1, <2>3 DEF EngineType
<1>5. CASE EdgeMine
  <2>1. log' \in Seq(Entries) /\ lanes' \in [Lane -> LaneStates]
    BY <1>0, <1>5, PassMineType DEF EdgeMine
  <2>2. lanes[call.lane].down \in BOOLEAN
    BY <1>0 DEF EngineType, LaneStates
  <2>3. call' = [call EXCEPT !.blown = @ \/ lanes[call.lane].down]
    BY <1>5 DEF EdgeMine
  <2>4. call' \in Calls
    BY <2>2, <2>3, CallRecords
  <2>5. call'.kind = call.kind /\ call'.lane = call.lane /\ call'.stage = call.stage
    BY <1>0, <2>3 DEF Calls
  <2> QED BY <1>5, <2>1, <2>4, <2>5 DEF EdgeMine, EngineType
<1>6. CASE EdgeDone
  <2>1. call' = Idle \/ call' = [call EXCEPT !.stage = "hit"]
    BY <1>6 DEF EdgeDone
  <2>2. call' \in Calls
    BY <2>1, CallRecords
  <2>3. CASE call' = Idle
    BY <1>6, <2>2, <2>3 DEF EdgeDone, EngineType, Idle
  <2>4. CASE call' = [call EXCEPT !.stage = "hit"]
    <3>1. call'.kind = call.kind /\ call'.lane = call.lane
      BY <2>4, CallRecords
    <3>2. call.kind \in {"input", "sync"}
      BY <1>6 DEF EdgeDone, EngineType
    <3> QED BY <1>0, <1>6, <2>2, <3>1, <3>2 DEF EdgeDone, EngineType
  <2> QED BY <2>1, <2>3, <2>4
<1> QED BY <1>3, <1>4, <1>5, <1>6

\* try_hit_note keeps the types: a note given up, a hit, a stray press.
LEMMA HitType ==
  ASSUME EngineType, NEW l \in Lane, Skip(l) \/ Hit(l) \/ NoHit(l)
  PROVE  EngineType'
<1>0. call \in Calls /\ call.lane = l /\ call.at \in Int /\ call.stage = "hit"
  BY DEF EngineType, Calls, Skip, Hit, NoHit
<1>1. CASE Skip(l)
  <2>1. Waiting(l)
    BY <1>1 DEF Skip, GiveUp
  <2>2. NextNote(l).start + Mask \in Int /\ lanes[l].mask \in Int
    <3>1. NextNote(l).start \in Int
      BY <2>1, NoteStart
    <3>2. lanes[l].mask \in Int
      BY DEF EngineType, LaneStates
    <3> QED BY <3>1, <3>2, Windows
  <2>3. Later(lanes[l].mask, NextNote(l).start + Mask) \in Int
    BY <2>2 DEF Later
  <2>4. log' \in Seq(Entries) /\ lanes' \in [Lane -> LaneStates]
    BY <1>0, <1>1, <2>3, GiveUpType DEF Skip
  <2>5. call' = Idle \/ call' = [call EXCEPT !.gaveUp = TRUE]
    BY <1>1 DEF Skip
  <2>6. call' \in Calls
    BY <2>5, CallRecords
  <2>7. \/ call'.kind = "none" /\ call'.stage = "idle"
        \/ call'.kind = call.kind /\ call'.lane = call.lane /\ call'.stage = call.stage
    BY <1>0, <2>5 DEF Idle, Calls
  <2> QED BY <1>1, <2>4, <2>6, <2>7 DEF Skip, EngineType
<1>2. CASE Hit(l)
  <2> DEFINE note == NextNote(l)
             held == [note |-> lanes[l].next, end |-> note.end, kind |-> note.kind]
  <2>1. note \in ChartNotes
    BY <1>2, NoteType DEF Hit
  <2>2. Grade(call.at - note.start) \in Grades /\ lanes[l].next \in Nat /\ "head" \in Parts
    BY <1>0, <2>1, GradeType DEF ChartNotes, EngineType, LaneStates, Parts
  <2>3. log' \in Seq(Entries)
    BY <1>0, <1>2, <2>2, JudgeType DEF Hit
  <2>4. held \in Holds
    BY <2>1, <2>2 DEF Holds, ChartNotes
  <2>5. \E h \in Holds : lanes' = [lanes EXCEPT ![l] = [[lanes[l] EXCEPT !.next = @ + 1]
                                                          EXCEPT !.hold = h]]
    <3>1. lanes[l].hold \in Holds
      BY DEF EngineType, LaneStates
    <3>2. lanes' = [lanes EXCEPT ![l].next = @ + 1,
                      ![l].hold = IF note.kind = "tap" \/ over' THEN @ ELSE held]
      BY <1>2 DEF Hit
    <3>3. CASE note.kind = "tap" \/ over'
      <4>1. lanes' = [lanes EXCEPT ![l] = [[lanes[l] EXCEPT !.next = @ + 1]
                                             EXCEPT !.hold = lanes[l].hold]]
        BY <3>2, <3>3 DEF EngineType, LaneStates
      <4> QED BY <3>1, <4>1
    <3>4. CASE ~(note.kind = "tap" \/ over')
      <4>1. lanes' = [lanes EXCEPT ![l] = [[lanes[l] EXCEPT !.next = @ + 1] EXCEPT !.hold = held]]
        BY <3>2, <3>4 DEF EngineType, LaneStates
      <4> QED BY <2>4, <4>1
    <3> QED BY <3>3, <3>4
  <2>6. lanes' \in [Lane -> LaneStates]
    <3>1. PICK h \in Holds : lanes' = [lanes EXCEPT ![l] = [[lanes[l] EXCEPT !.next = @ + 1]
                                                               EXCEPT !.hold = h]]
      BY <2>5
    <3>2. [lanes[l] EXCEPT !.next = @ + 1] \in LaneStates
      BY LaneRecords DEF EngineType
    <3>3. [[lanes[l] EXCEPT !.next = @ + 1] EXCEPT !.hold = h] \in LaneStates
      BY <3>2, LaneRecords
    <3> QED BY <3>1, <3>3, OneLane
  <2>7. call' \in Calls /\ call'.kind = "none" /\ call'.stage = "idle"
    BY <1>2, CallRecords DEF Hit, Idle
  <2> QED BY <1>2, <2>3, <2>6, <2>7 DEF Hit, EngineType
<1>3. CASE NoHit(l)
  <2>1. StrayPress(l) => log' \in Seq(Entries) /\ lanes' \in [Lane -> LaneStates]
    <3>0. SUFFICES ASSUME StrayPress(l)
                   PROVE  log' \in Seq(Entries) /\ lanes' \in [Lane -> LaneStates]
      OBVIOUS
    <3>1. Judge(l, 0, "poor", "PR", 2, call.at)
          /\ lanes' = [lanes EXCEPT ![l].mask = call.at + Mask]
      BY <1>3, <3>0 DEF NoHit
    <3>2. "poor" \in Parts /\ "PR" \in Grades /\ call.at + Mask \in Int
      BY <1>0, Windows DEF Parts, Grades
    <3>3. log' \in Seq(Entries)
      BY <1>0, <3>1, <3>2, JudgeType
    <3>4. [lanes[l] EXCEPT !.mask = call.at + Mask] \in LaneStates
      BY <3>2, LaneRecords DEF EngineType
    <3>5. lanes' = [lanes EXCEPT ![l] = [lanes[l] EXCEPT !.mask = call.at + Mask]]
      BY <3>1 DEF EngineType
    <3> QED BY <3>3, <3>4, <3>5, OneLane
  <2>3. log' \in Seq(Entries) /\ lanes' \in [Lane -> LaneStates]
    <3>1. ~StrayPress(l) => UNCHANGED <<lanes, log>>
      BY <1>3 DEF NoHit
    <3> QED BY <3>1, <2>1 DEF EngineType
  <2>4. call' \in Calls /\ call'.kind = "none" /\ call'.stage = "idle"
    BY <1>3, CallRecords DEF NoHit, Idle
  <2> QED BY <1>3, <2>3, <2>4 DEF NoHit, EngineType
<1> QED BY <1>1, <1>2, <1>3

\* The end of the automatic loop and of a key edge keeps the types, and so does a stutter.
LEMMA OtherType ==
  ASSUME EngineType, Finalize \/ UNCHANGED engine \/ \E t \in Int : Advance(t)
  PROVE  EngineType'
<1>1. CASE Finalize
  <2>1. CASE call' = Idle
    <3>1. Idle \in Calls /\ Idle.kind = "none" /\ Idle.stage = "idle"
      BY CallRecords DEF Idle
    <3> QED BY <1>1, <2>1, <3>1 DEF Finalize, EngineType
  <2>2. CASE call' # Idle
    <3>1. call' = [call EXCEPT !.stage = "edge"] /\ call.kind # "advance"
      BY <1>1, <2>2 DEF Finalize
    <3>2. call' \in Calls /\ call'.kind = call.kind /\ call'.lane = call.lane
      BY <3>1, CallRecords
    <3>3. call.kind \in {"input", "sync"}
      BY <1>1, <3>1 DEF Finalize, EngineType, Calls
    <3>4. call'.stage = "edge"
      BY <3>1 DEF EngineType, Calls
    <3> QED BY <1>1, <3>2, <3>3, <3>4 DEF Finalize, EngineType
  <2> QED BY <2>1, <2>2
<1>2. CASE UNCHANGED engine
  BY <1>2 DEF engine, EngineType
<1>3. ASSUME NEW t \in Int, Advance(t)
      PROVE  EngineType'
  <2>1. call' = [kind |-> "advance", stage |-> "automatic", lane |-> 0, state |-> "Released",
                 at |-> 0, until |-> t, gaveUp |-> FALSE, blown |-> FALSE]
    BY <1>3 DEF Advance, Idle
  <2>2. call' \in Calls
    BY <2>1 DEF Calls
  <2> QED BY <1>3, <2>1, <2>2 DEF Advance, EngineType
<1> QED BY <1>1, <1>2, <1>3

\* Every step of the engine keeps the types.
LEMMA TypeStep ==
  ASSUME EngineType, [Next]_engine
  PROVE  EngineType'
BY NewCall, AutoType, EdgeType, HitType, OtherType DEF Next, Inside

\* The constructed engine has the types.
LEMMA TypeInit == Init => EngineType
<1>1. SUFFICES ASSUME Init PROVE EngineType
  OBVIOUS
<1>2. Idle \in Calls /\ Idle.kind = "none" /\ Idle.stage = "idle"
  BY DEF Idle, Calls
<1>3. NoHold \in Holds
  BY DEF NoHold, Holds, Kinds
<1>4. [next |-> 1, mine |-> 1, mask |-> 0, down |-> FALSE, hold |-> NoHold] \in LaneStates
  BY <1>3 DEF LaneStates
<1>5. <<>> \in Seq(Entries) /\ <<>> \in Seq(Edges)
  BY EmptySeq
<1> QED BY <1>1, <1>2, <1>4, <1>5 DEF Init, EngineType

-----------------------------------------------------------------------------
\* The edge of the call in progress is not before the last recorded one.
InOrder ==
  /\ ReplayInOrder
  /\ call.kind \in {"input", "sync"} /\ call.stage \in {"automatic", "edge"} /\ replay # <<>> =>
       replay[Len(replay)].at <= call.at

\* Appending an edge that is not before the last one keeps the recorded edges in order.
LEMMA RecordInOrder ==
  ASSUME EngineType, InOrder, call.stage = "edge", Record
  PROVE  ReplayInOrder'
<1> DEFINE e == [lane |-> call.lane, state |-> call.state, at |-> call.at]
           n == Len(replay)
<1>1. call.at \in Int /\ e \in Edges /\ replay \in Seq(Edges)
  BY DEF EngineType, Calls, Edges
<1>2. /\ replay' \in Seq(Edges) /\ n \in Nat /\ Len(replay') = n + 1
      /\ \A i \in 1..n : replay'[i] = replay[i]
      /\ replay'[n + 1] = e
  BY <1>1, AppendProperties, LenProperties DEF Record
<1>3. DOMAIN replay = 1..n /\ DOMAIN replay' = 1..(n + 1)
  BY <1>1, <1>2, LenProperties
<1>4. \A i \in 1..n : replay[i].at \in Int
  <2>1. \A i \in 1..n : replay[i] \in Edges
    BY <1>1, ElementOfSeq
  <2> QED BY <2>1 DEF Edges
<1>5. \A i \in 1..n : replay[i].at <= call.at
  <2>1. SUFFICES ASSUME NEW i \in 1..n PROVE replay[i].at <= call.at
    OBVIOUS
  <2>2. replay # <<>> /\ n \in 1..n
    BY <1>1, <1>2, <2>1, EmptySeq
  <2>3. replay[i].at <= replay[n].at
    BY <1>2, <1>3, <2>1, <2>2 DEF InOrder, ReplayInOrder
  <2>4. replay[n].at <= call.at
    BY <2>2 DEF InOrder, EngineType
  <2> QED BY <1>1, <1>4, <2>1, <2>2, <2>3, <2>4
<1>6. ASSUME NEW i \in 1..(n + 1), NEW j \in 1..(n + 1), i <= j
      PROVE  replay'[i].at <= replay'[j].at
  <2>1. CASE j \in 1..n
    BY <1>2, <1>3, <1>6, <2>1 DEF InOrder, ReplayInOrder
  <2>2. CASE j = n + 1 /\ i \in 1..n
    BY <1>2, <1>5, <2>2
  <2>3. CASE j = n + 1 /\ i = n + 1
    BY <1>1, <1>2, <2>3
  <2> QED BY <1>2, <2>1, <2>2, <2>3
<1> QED BY <1>3, <1>6 DEF ReplayInOrder

\* Every step keeps the recorded edges in order, and the edge under way not before them.
LEMMA InOrderStep ==
  ASSUME EngineType, InOrder, [Next]_engine
  PROVE  InOrder'
<1>1. ASSUME UNCHANGED <<replay, call>>
      PROVE  InOrder'
  BY <1>1 DEF InOrder, ReplayInOrder
<1>2. ASSUME UNCHANGED replay, call'.kind \in {"none", "advance"} \/ call'.stage \in {"mines", "hit"}
      PROVE  InOrder'
  BY <1>2 DEF InOrder, ReplayInOrder
<1>3. ASSUME NEW l \in Lane, NEW state \in States, NEW t \in Int,
             HandleInput(l, state, t) \/ SyncInputState(l, state, t)
      PROVE  InOrder'
  <2>1. call'.at = NotBefore(t) /\ replay' = replay
    BY <1>3 DEF HandleInput, SyncInputState, Idle
  <2> QED BY <2>1, NotBeforeType DEF InOrder, ReplayInOrder
<1>4. ASSUME NEW t \in Int, Advance(t)
      PROVE  InOrder'
  <2>1. call'.kind = "advance" /\ UNCHANGED replay
    BY <1>4 DEF Advance, Idle
  <2> QED BY <1>2, <2>1
<1>5. ASSUME NEW l \in Lane, AutoMine(l) \/ AutoMiss(l) \/ AutoHold(l)
      PROVE  InOrder'
  BY <1>1, <1>5 DEF AutoMine, AutoMiss, AutoHold
<1>6. ASSUME NEW l \in Lane, Skip(l) \/ Hit(l) \/ NoHit(l)
      PROVE  InOrder'
  <2>1. UNCHANGED replay /\ (call' = Idle \/ call' = [call EXCEPT !.gaveUp = TRUE])
        /\ call.stage = "hit"
    BY <1>6 DEF Skip, Hit, NoHit
  <2>2. call'.kind = "none" \/ call'.stage = "hit"
    BY <2>1 DEF Idle, EngineType, Calls
  <2> QED BY <1>2, <2>1, <2>2
<1>7. CASE Finalize
  <2>1. CASE call' = Idle
    BY <1>2, <1>7, <2>1 DEF Finalize, Idle
  <2>2. CASE call' # Idle
    <3>1. call' = [call EXCEPT !.stage = "edge"] /\ call.stage = "automatic" /\ replay' = replay
      BY <1>7, <2>2 DEF Finalize
    <3>2. call'.kind = call.kind /\ call'.at = call.at
      BY <3>1 DEF EngineType, Calls
    <3> QED BY <3>1, <3>2 DEF InOrder, ReplayInOrder
  <2> QED BY <2>1, <2>2
<1>8. CASE InputEdge
  <2>1. call'.stage = "mines"
    BY <1>8 DEF InputEdge, EngineType, Calls
  <2>2. ReplayInOrder'
    BY <1>8, RecordInOrder DEF InputEdge
  <2> QED BY <2>1, <2>2 DEF InOrder
<1>9. CASE SyncEdge
  <2>1. call'.kind = "none"
    BY <1>9 DEF SyncEdge, Idle
  <2>2. replay' = replay \/ Record
    BY <1>9 DEF SyncEdge
  <2>3. ReplayInOrder'
    BY <1>9, <2>2, RecordInOrder DEF SyncEdge, InOrder, ReplayInOrder
  <2> QED BY <2>1, <2>3 DEF InOrder
<1>10. CASE EdgeMine \/ EdgeDone
  <2>1. UNCHANGED replay /\ call.stage = "mines"
        /\ \/ call' = Idle
           \/ call' = [call EXCEPT !.stage = "hit"]
           \/ call' = [call EXCEPT !.blown = @ \/ lanes[call.lane].down]
    BY <1>10 DEF EdgeMine, EdgeDone
  <2>2. call'.kind = "none" \/ call'.stage \in {"mines", "hit"}
    BY <2>1 DEF Idle, EngineType, Calls
  <2> QED BY <1>2, <2>1, <2>2
<1>11. CASE UNCHANGED engine
  BY <1>1, <1>11 DEF engine
<1> QED BY <1>3, <1>4, <1>5, <1>6, <1>7, <1>8, <1>9, <1>10, <1>11 DEF Next, Inside

\* The recorded edges of every play are in order, whatever samples the inputs
\* carry and however the calls follow each other: handle_input and
\* sync_input_state pull a late edge up to the last recorded one.
THEOREM EdgesInOrder == Spec => []ReplayInOrder
<1>1. Init => EngineType /\ InOrder
  <2>1. Init => replay = <<>> /\ call = Idle
    BY DEF Init
  <2>2. DOMAIN <<>> = {}
    OBVIOUS
  <2> QED BY <2>1, <2>2, TypeInit DEF InOrder, ReplayInOrder, Idle
<1>2. EngineType /\ InOrder /\ [Next]_engine => (EngineType /\ InOrder)'
  BY TypeStep, InOrderStep
<1>3. InOrder => ReplayInOrder
  BY DEF InOrder
<1> QED BY <1>1, <1>2, <1>3, PTL DEF Spec

-----------------------------------------------------------------------------
\* An entry lies behind the lane: its note or mine has been passed, and a tail
\* is not the one that is held.
Behind(e) ==
  /\ e.part \in {"head", "missed", "tail"} => e.note < lanes[e.lane].next
  /\ e.part = "mine" => e.note < lanes[e.lane].mine
  /\ e.part = "tail" => e.note # 0 /\ e.note # lanes[e.lane].hold.note

Logged == {log[i] : i \in DOMAIN log}

Once ==
  /\ JudgedOnce
  /\ \A e \in Entries : e \in Logged => Behind(e)
  /\ \A l \in Lane : lanes[l].hold.note < lanes[l].next

\* The lanes only move on, and take up no hold but that of the next note.
LaneMovesOn(l) ==
  /\ lanes[l].next <= lanes'[l].next
  /\ lanes[l].mine <= lanes'[l].mine
  /\ lanes'[l].hold.note \in {0, lanes[l].hold.note, lanes[l].next}
  /\ lanes'[l].hold.note < lanes'[l].next

\* The indices of a lane are integers.
LEMMA LaneNumbers ==
  ASSUME EngineType, NEW l \in Lane
  PROVE  lanes[l].next \in Nat \ {0} /\ lanes[l].mine \in Nat \ {0} /\ lanes[l].hold.note \in Nat
BY DEF EngineType, LaneStates, Holds

\* What the log says of a lane stays behind a lane that moves on.
LEMMA StaysBehind ==
  ASSUME EngineType, EngineType', NEW e \in Entries, Behind(e), LaneMovesOn(e.lane)
  PROVE  Behind(e)'
<1>1. e.lane \in Lane /\ e.note \in Nat
  BY DEF Entries
<1>2. /\ lanes[e.lane].next \in Nat /\ lanes[e.lane].mine \in Nat
      /\ lanes[e.lane].hold.note \in Nat
  BY <1>1, LaneNumbers
<1>3. /\ lanes'[e.lane].next \in Nat /\ lanes'[e.lane].mine \in Nat
      /\ lanes'[e.lane].hold.note \in Nat
  BY <1>1 DEF EngineType, LaneStates, Holds
<1> QED BY <1>1, <1>2, <1>3 DEF Behind, LaneMovesOn

\* An appended entry is the last one, and the earlier entries stay.
LEMMA LogGrows ==
  ASSUME EngineType, NEW e \in Entries, log' = Append(log, e)
  PROVE  /\ Len(log) \in Nat /\ DOMAIN log = 1..Len(log)
         /\ DOMAIN log' = 1..(Len(log) + 1)
         /\ \A i \in 1..Len(log) : log'[i] = log[i]
         /\ log'[Len(log) + 1] = e
         /\ Logged' = Logged \cup {e}
<1>1. log \in Seq(Entries)
  BY DEF EngineType
<1>2. Len(log) \in Nat /\ DOMAIN log = 1..Len(log)
  BY <1>1, LenProperties
<1>3. /\ log' \in Seq(Entries) /\ Len(log') = Len(log) + 1
      /\ \A i \in 1..Len(log) : log'[i] = log[i]
      /\ log'[Len(log) + 1] = e
  BY <1>1, AppendProperties
<1>4. DOMAIN log' = 1..(Len(log) + 1)
  BY <1>3, LenProperties
<1>5. 1..(Len(log) + 1) = (1..Len(log)) \cup {Len(log) + 1}
  BY <1>2
<1>6. Logged' = Logged \cup {e}
  BY <1>2, <1>3, <1>4, <1>5 DEF Logged
<1> QED BY <1>2, <1>3, <1>4, <1>6

\* If all lanes move on, and a new entry is unlike all earlier ones and behind its lane, nothing is judged twice.
LEMMA NothingTwice ==
  ASSUME EngineType, EngineType', Once, \A l \in Lane : LaneMovesOn(l),
         \/ log' = log
         \/ \E e \in Entries : /\ log' = Append(log, e) /\ Behind(e)'
                               /\ \A f \in Entries : f \in Logged => ~Alike(f, e)
  PROVE  Once'
<1>1. \A e \in Entries : e \in Logged => Behind(e)'
  BY StaysBehind DEF Once, Entries
<1>2. (\A l \in Lane : lanes[l].hold.note < lanes[l].next)'
  BY DEF LaneMovesOn
<1>3. CASE log' = log
  BY <1>1, <1>2, <1>3 DEF Once, JudgedOnce, Logged
<1>4. ASSUME NEW e \in Entries, log' = Append(log, e), Behind(e)',
             \A f \in Entries : f \in Logged => ~Alike(f, e)
      PROVE  Once'
  <2> DEFINE n == Len(log)
  <2>1. /\ n \in Nat /\ DOMAIN log = 1..n /\ DOMAIN log' = 1..(n + 1)
        /\ \A i \in 1..n : log'[i] = log[i]
        /\ log'[n + 1] = e
        /\ Logged' = Logged \cup {e}
    BY <1>4, LogGrows
  <2>2. \A i \in 1..(n + 1) : i \in 1..n \/ i = n + 1
    BY <2>1
  <2>3. \A i \in 1..n : ~Alike(log[i], e) /\ ~Alike(e, log[i])
    <3>1. \A i \in 1..n : log[i] \in Entries /\ log[i] \in Logged
      <4>1. log \in Seq(Entries)
        BY DEF EngineType
      <4> QED BY <2>1, <4>1, ElementOfSeq DEF Logged
    <3>2. \A i \in 1..n : ~Alike(log[i], e)
      BY <1>4, <3>1
    <3> QED BY <3>2 DEF Alike
  <2>4. JudgedOnce'
    <3>1. SUFFICES ASSUME NEW i \in 1..(n + 1), NEW j \in 1..(n + 1), Alike(log'[i], log'[j])
                   PROVE  i = j
      BY <2>1 DEF JudgedOnce, Alike
    <3>2. CASE i \in 1..n /\ j \in 1..n
      BY <2>1, <3>1, <3>2 DEF Once, JudgedOnce
    <3>3. CASE i \in 1..n /\ j = n + 1
      BY <2>1, <2>3, <3>1, <3>3
    <3>4. CASE i = n + 1 /\ j \in 1..n
      BY <2>1, <2>3, <3>1, <3>4
    <3> QED BY <2>2, <3>2, <3>3, <3>4
  <2>5. (\A f \in Entries : f \in Logged => Behind(f))'
    <3>1. SUFFICES ASSUME NEW f \in Entries, f \in Logged'
                   PROVE  Behind(f)'
      BY DEF Entries
    <3>2. f \in Logged \/ f = e
      BY <2>1, <3>1
    <3> QED BY <1>1, <1>4, <3>2
  <2> QED BY <1>2, <2>4, <2>5 DEF Once
<1> QED BY <1>3, <1>4

\* A lane that did not change, or whose flags alone did, has moved on.
LEMMA SameLane ==
  ASSUME EngineType, Once, NEW m \in Lane,
         /\ lanes'[m].next = lanes[m].next /\ lanes'[m].mine = lanes[m].mine
         /\ lanes'[m].hold = lanes[m].hold
  PROVE  LaneMovesOn(m)
BY LaneNumbers DEF LaneMovesOn, Once

\* A missed note was neither hit nor missed before.
LEMMA GiveUpOnce ==
  ASSUME EngineType, EngineType', Once, NEW l \in Lane, NEW now \in Int, NEW mask \in Int,
         GiveUpNote(l, now, mask)
  PROVE  Once'
<1> DEFINE e == [lane |-> l, note |-> lanes[l].next, part |-> "missed",
                 grade |-> MissGrade, due |-> now]
<1>1. e \in Entries /\ log' = Append(log, e)
  BY EngineAssumption, LaneNumbers DEF Entries, Parts, Grades, GiveUpNote, Judge
<1>2. lanes' = [lanes EXCEPT ![l].next = @ + 1, ![l].mask = mask]
  BY DEF GiveUpNote
<1>3. /\ lanes'[l].next = lanes[l].next + 1 /\ lanes'[l].mine = lanes[l].mine
      /\ lanes'[l].hold = lanes[l].hold
      /\ \A m \in Lane : m # l => lanes'[m] = lanes[m]
  BY <1>2 DEF EngineType, LaneStates
<1>4. \A m \in Lane : LaneMovesOn(m)
  <2>1. LaneMovesOn(l)
    BY <1>3, LaneNumbers DEF LaneMovesOn, Once
  <2> QED BY <1>3, <2>1, SameLane
<1>5. \A f \in Entries : f \in Logged => ~Alike(f, e)
  BY LaneNumbers DEF Once, Behind, Alike, Entries
<1>6. \A g \in Entries : g = e => Behind(g)'
  BY <1>3, LaneNumbers DEF Behind
<1> QED BY <1>1, <1>4, <1>5, <1>6, NothingTwice

\* A mine that goes off never did before.
LEMMA PassMineOnce ==
  ASSUME EngineType, EngineType', Once, NEW l \in Lane, NEW now \in Int, PassMine(l, now)
  PROVE  Once'
<1> DEFINE e == [lane |-> l, note |-> lanes[l].mine, part |-> "mine", grade |-> "none",
                 due |-> now]
<1>1. e \in Entries /\ (log' = log \/ log' = Append(log, e))
  BY LaneNumbers DEF Entries, Parts, PassMine
<1>2. \/ lanes' = [lanes EXCEPT ![l].mine = @ + 1, ![l].down = FALSE]
      \/ lanes' = [lanes EXCEPT ![l].mine = @ + 1]
  BY DEF PassMine
<1>3. /\ lanes'[l].next = lanes[l].next /\ lanes'[l].mine = lanes[l].mine + 1
      /\ lanes'[l].hold = lanes[l].hold
      /\ \A m \in Lane : m # l => lanes'[m] = lanes[m]
  BY <1>2 DEF EngineType, LaneStates
<1>4. \A m \in Lane : LaneMovesOn(m)
  <2>1. LaneMovesOn(l)
    BY <1>3, LaneNumbers DEF LaneMovesOn, Once
  <2> QED BY <1>3, <2>1, SameLane
<1>5. \A f \in Entries : f \in Logged => ~Alike(f, e)
  BY LaneNumbers DEF Once, Behind, Alike, Entries
<1>6. \A g \in Entries : g = e => Behind(g)'
  BY <1>3, LaneNumbers DEF Behind
<1> QED BY <1>1, <1>4, <1>5, <1>6, NothingTwice

\* A tail that is judged never was before, since its hold is still there and goes now.
LEMMA SettleOnce ==
  ASSUME EngineType, EngineType', Once, NEW l \in Lane, NEW grade \in Grades, NEW now \in Int,
         NEW down \in BOOLEAN, Holding(l), SettleHold(l, grade, now, down)
  PROVE  Once'
<1> DEFINE e == [lane |-> l, note |-> lanes[l].hold.note, part |-> "tail",
                 grade |-> grade, due |-> now]
<1>1. e \in Entries /\ log' = Append(log, e)
  BY LaneNumbers DEF Entries, Parts, SettleHold, Judge
<1>2. lanes' = [lanes EXCEPT ![l].hold = NoHold, ![l].down = down]
  BY DEF SettleHold
<1>3. /\ lanes'[l].next = lanes[l].next /\ lanes'[l].mine = lanes[l].mine
      /\ lanes'[l].hold.note = 0
      /\ \A m \in Lane : m # l => lanes'[m] = lanes[m]
  BY <1>2 DEF EngineType, LaneStates, NoHold
<1>4. \A m \in Lane : LaneMovesOn(m)
  <2>1. LaneMovesOn(l)
    BY <1>3, LaneNumbers DEF LaneMovesOn
  <2> QED BY <1>3, <2>1, SameLane
<1>5. \A f \in Entries : f \in Logged => ~Alike(f, e)
  BY LaneNumbers DEF Once, Behind, Alike, Entries
<1>6. \A g \in Entries : g = e => Behind(g)'
  BY <1>3, LaneNumbers DEF Behind, Once, Holding
<1> QED BY <1>1, <1>4, <1>5, <1>6, NothingTwice

\* Steps that change only the flags and the mask of a lane judge nothing twice.
LEMMA FlagsOnce ==
  ASSUME EngineType, EngineType', Once, log' = log,
         \A m \in Lane : /\ lanes'[m].next = lanes[m].next /\ lanes'[m].mine = lanes[m].mine
                         /\ lanes'[m].hold = lanes[m].hold
  PROVE  Once'
BY SameLane, NothingTwice

\* A key edge judges at most the tail of the lane's hold, once.
LEMMA ApplyEdgeOnce ==
  ASSUME EngineType, EngineType', Once, call.lane \in Lane, ApplyEdge
  PROVE  Once'
<1>1. CASE call.state = "Released" /\ Holding(call.lane)
  <2>1. lanes[call.lane].hold \in Holds /\ call.at \in Int
    BY DEF EngineType, LaneStates, Calls
  <2>2. TailGrade(lanes[call.lane].hold, call.at) \in Grades
    BY <2>1, TailGradeType
  <2>3. SettleHold(call.lane, TailGrade(lanes[call.lane].hold, call.at), call.at, FALSE)
    BY <1>1 DEF ApplyEdge
  <2> QED BY <1>1, <2>1, <2>2, <2>3, SettleOnce
<1>2. CASE ~(call.state = "Released" /\ Holding(call.lane))
  <2>1. log' = log /\ lanes' = [lanes EXCEPT ![call.lane].down = (call.state = "Pressed")]
    BY <1>2 DEF ApplyEdge
  <2>2. \A m \in Lane : /\ lanes'[m].next = lanes[m].next /\ lanes'[m].mine = lanes[m].mine
                        /\ lanes'[m].hold = lanes[m].hold
    BY <2>1 DEF EngineType, LaneStates
  <2> QED BY <2>1, <2>2, FlagsOnce
<1> QED BY <1>1, <1>2

\* The automatic events judge nothing twice.
LEMMA AutoOnce ==
  ASSUME EngineType, EngineType', Once, NEW l \in Lane, AutoMine(l) \/ AutoMiss(l) \/ AutoHold(l)
  PROVE  Once'
<1>1. CASE AutoMine(l)
  <2>1. lanes[l].mine <= Len(Mines[l])
    BY <1>1 DEF AutoMine, Automatic, Due, MineDue
  <2> QED BY <1>1, <2>1, MineType, PassMineOnce DEF AutoMine
<1>2. CASE AutoMiss(l)
  <2>1. Waiting(l)
    BY <1>2 DEF AutoMiss, Automatic, Due, MissDue
  <2>2. NextNote(l).start + Miss + 1 \in Int /\ NextNote(l).start + Mask \in Int
    BY <2>1, NoteType, Windows DEF ChartNotes
  <2> QED BY <1>2, <2>2, GiveUpOnce DEF AutoMiss
<1>3. CASE AutoHold(l)
  <2>1. Holding(l)
    BY <1>3 DEF AutoHold, Automatic, Due, HoldDue
  <2>2. lanes[l].hold.end \in Int /\ lanes[l].hold.end + HoldBreak + 1 \in Int
    <3>1. lanes[l].hold \in Holds
      BY DEF EngineType, LaneStates
    <3> QED BY <3>1, Windows DEF Holds
  <2>3. lanes[l].down \in BOOLEAN /\ {"BD", "PG"} \subseteq Grades
    BY DEF EngineType, LaneStates, Grades
  <2>4. \/ SettleHold(l, "BD", lanes[l].hold.end + HoldBreak + 1, lanes[l].down)
        \/ SettleHold(l, "PG", lanes[l].hold.end, lanes[l].down)
    BY <1>3 DEF AutoHold
  <2> QED BY <2>1, <2>2, <2>3, <2>4, SettleOnce
<1> QED BY <1>1, <1>2, <1>3

\* A hit note was neither hit nor missed before, and its hold has no judged tail.
LEMMA HitOnce ==
  ASSUME EngineType, EngineType', Once, NEW l \in Lane, Hit(l)
  PROVE  Once'
<1> DEFINE note == NextNote(l)
           e == [lane |-> l, note |-> lanes[l].next, part |-> "head",
                 grade |-> Grade(call.at - note.start), due |-> call.at]
<1>1. call.at \in Int /\ note \in ChartNotes
  BY NoteType DEF EngineType, Calls, Hit
<1>2. Grade(call.at - note.start) \in Grades
  BY <1>1, GradeType DEF ChartNotes
<1>3. e \in Entries /\ log' = Append(log, e)
  BY <1>1, <1>2, LaneNumbers DEF Entries, Parts, Hit, Judge
<1>4. lanes' = [lanes EXCEPT ![l].next = @ + 1,
                  ![l].hold = IF note.kind = "tap" \/ over' THEN @
                              ELSE [note |-> lanes[l].next, end |-> note.end,
                                    kind |-> note.kind]]
  BY DEF Hit
<1>5. /\ lanes'[l].next = lanes[l].next + 1 /\ lanes'[l].mine = lanes[l].mine
      /\ lanes'[l].hold = (IF note.kind = "tap" \/ over' THEN lanes[l].hold
                          ELSE [note |-> lanes[l].next, end |-> note.end, kind |-> note.kind])
      /\ \A m \in Lane : m # l => lanes'[m] = lanes[m]
  BY <1>4 DEF EngineType, LaneStates
<1>6. lanes'[l].hold.note \in {lanes[l].hold.note, lanes[l].next}
  BY <1>5
<1>7. \A m \in Lane : LaneMovesOn(m)
  <2>1. LaneMovesOn(l)
    BY <1>5, <1>6, LaneNumbers DEF LaneMovesOn, Once
  <2> QED BY <1>5, <2>1, SameLane
<1>8. \A f \in Entries : f \in Logged => ~Alike(f, e)
  BY LaneNumbers DEF Once, Behind, Alike, Entries
<1>9. \A g \in Entries : g = e => Behind(g)'
  BY <1>5, LaneNumbers DEF Behind
<1> QED BY <1>3, <1>7, <1>8, <1>9, NothingTwice

\* A press without a note adds at most an empty POOR, which may repeat.
LEMMA NoHitOnce ==
  ASSUME EngineType, EngineType', Once, NEW l \in Lane, NoHit(l)
  PROVE  Once'
<1> DEFINE e == [lane |-> l, note |-> 0, part |-> "poor", grade |-> "PR", due |-> call.at]
<1>1. CASE StrayPress(l)
  <2>1. e \in Entries /\ log' = Append(log, e)
    BY <1>1 DEF Entries, Parts, Grades, NoHit, Judge, EngineType, Calls
  <2>2. lanes' = [lanes EXCEPT ![l].mask = call.at + Mask]
    BY <1>1 DEF NoHit
  <2>3. \A m \in Lane : /\ lanes'[m].next = lanes[m].next /\ lanes'[m].mine = lanes[m].mine
                        /\ lanes'[m].hold = lanes[m].hold
    BY <2>2 DEF EngineType, LaneStates
  <2>4. \A f \in Entries : f \in Logged => ~Alike(f, e)
    BY DEF Alike
  <2>5. \A g \in Entries : g = e => Behind(g)'
    BY DEF Behind
  <2> QED BY <2>1, <2>3, <2>4, <2>5, SameLane, NothingTwice
<1>2. CASE ~StrayPress(l)
  BY <1>2, FlagsOnce DEF NoHit
<1> QED BY <1>1, <1>2

\* Every step of the engine judges nothing twice.
LEMMA OnceStep ==
  ASSUME EngineType, Once, [Next]_engine
  PROVE  Once'
<1>0. EngineType'
  BY TypeStep
<1>1. ASSUME UNCHANGED <<lanes, log>>
      PROVE  Once'
  BY <1>0, <1>1, FlagsOnce
<1>2. ASSUME NEW l \in Lane, Skip(l)
      PROVE  Once'
  <2>1. Waiting(l) /\ call.lane = l
    BY <1>2 DEF Skip, GiveUp
  <2>2. NextNote(l).start + Mask \in Int /\ lanes[l].mask \in Int /\ call.at \in Int
    <3>1. NextNote(l).start \in Int
      BY <2>1, NoteStart
    <3>2. lanes[l].mask \in Int /\ call.at \in Int
      BY DEF EngineType, LaneStates, Calls
    <3> QED BY <3>1, <3>2, Windows
  <2>3. Later(lanes[l].mask, NextNote(l).start + Mask) \in Int
    BY <2>2 DEF Later
  <2> QED BY <1>0, <1>2, <2>2, <2>3, GiveUpOnce DEF Skip
<1>3. ASSUME InputEdge \/ SyncEdge \/ EdgeMine
      PROVE  Once'
  <2>1. call.lane \in Lane /\ call.at \in Int
    BY <1>3 DEF EngineType, Calls, InputEdge, SyncEdge, EdgeMine
  <2>2. \/ UNCHANGED <<lanes, log>>
        \/ ApplyEdge
        \/ PassMine(call.lane, call.at)
    BY <1>3 DEF InputEdge, SyncEdge, EdgeMine
  <2> QED BY <1>0, <1>1, <2>1, <2>2, ApplyEdgeOnce, PassMineOnce
<1>4. ASSUME Finalize \/ EdgeDone \/ UNCHANGED engine
      PROVE  Once'
  BY <1>1, <1>4 DEF Finalize, EdgeDone, engine
<1>5. ASSUME NEW l \in Lane, NEW state \in States, NEW t \in Int,
             HandleInput(l, state, t) \/ SyncInputState(l, state, t)
      PROVE  Once'
  BY <1>1, <1>5 DEF HandleInput, SyncInputState
<1>6. ASSUME NEW t \in Int, Advance(t)
      PROVE  Once'
  BY <1>1, <1>6 DEF Advance
<1> QED BY <1>0, <1>2, <1>3, <1>4, <1>5, <1>6, AutoOnce, HitOnce, NoHitOnce DEF Next, Inside

\* Nothing is judged twice, in any chart and under any calls: no note is both
\* hit and missed, no tail is scored a second time after an early release
\* (GameplayEngine.cpp:731-812), no mine goes off twice.
THEOREM NothingJudgedTwice == Spec => []JudgedOnce
<1>1. Init => EngineType /\ Once
  <2>1. Init => log = <<>> /\ Logged = {}
    BY DEF Init, Logged
  <2>2. Init => \A l \in Lane : lanes[l].hold.note < lanes[l].next
    BY DEF Init, NoHold
  <2> QED BY <2>1, <2>2, TypeInit DEF Once, JudgedOnce
<1>2. EngineType /\ Once /\ [Next]_engine => (EngineType /\ Once)'
  BY TypeStep, OnceStep
<1>3. Once => JudgedOnce
  BY DEF Once
<1> QED BY <1>1, <1>2, <1>3, PTL DEF Spec

-----------------------------------------------------------------------------
\* Once the play has failed, what is left of the call in progress is harmless:
\* no edge is applied, no note is tried, and no key is down for the mines.
Harmless ==
  over => /\ call.stage \notin {"edge", "hit"}
          /\ call.stage = "mines" => call.blown \/ ~lanes[call.lane].down

\* A failed play stays harmless: no step of the engine begins to judge again.
LEMMA HarmlessStep ==
  ASSUME EngineType, Harmless, [Next]_engine
  PROVE  Harmless'
<1>0. call \in Calls
  BY DEF EngineType
<1>1. ASSUME call'.stage \in {"idle", "automatic"}
      PROVE  Harmless'
  BY <1>1 DEF Harmless
<1>2. ASSUME NEW l \in Lane, NEW state \in States, NEW t \in Int,
             HandleInput(l, state, t) \/ SyncInputState(l, state, t)
      PROVE  Harmless'
  BY <1>1, <1>2 DEF HandleInput, SyncInputState, Idle
<1>11. ASSUME NEW t \in Int, Advance(t)
       PROVE  Harmless'
  BY <1>1, <1>11 DEF Advance, Idle
<1>3. ASSUME NEW l \in Lane, AutoMine(l) \/ AutoMiss(l) \/ AutoHold(l)
      PROVE  Harmless'
  BY <1>1, <1>3 DEF AutoMine, AutoMiss, AutoHold, Automatic
<1>4. ASSUME NEW l \in Lane, Skip(l) \/ Hit(l) \/ NoHit(l)
      PROVE  Harmless'
  <2>1. call' = Idle \/ (call' = [call EXCEPT !.gaveUp = TRUE] /\ call.stage = "hit" /\ ~over')
    BY <1>4 DEF Skip, Hit, NoHit
  <2> QED BY <1>1, <2>1 DEF Idle, Harmless
<1>5. CASE Finalize
  <2>1. call' = Idle \/ ~over'
    BY <1>5 DEF Finalize
  <2> QED BY <1>1, <2>1 DEF Idle, Harmless
<1>6. CASE InputEdge
  <2>1. ~over /\ call' = [call EXCEPT !.stage = "mines"] /\ call.lane \in Lane
    BY <1>6 DEF InputEdge, Harmless, EngineType
  <2>2. call'.stage = "mines" /\ call'.lane = call.lane
    BY <1>0, <2>1 DEF Calls
  <2>3. over' => ~lanes'[call.lane].down
    <3>1. CASE call.state = "Released" /\ Holding(call.lane)
      <4>1. lanes' = [lanes EXCEPT ![call.lane].hold = NoHold, ![call.lane].down = FALSE]
        BY <1>6, <3>1 DEF InputEdge, ApplyEdge, SettleHold
      <4> QED BY <2>1, <4>1 DEF EngineType, LaneStates
    <3>2. CASE ~(call.state = "Released" /\ Holding(call.lane))
      BY <1>6, <2>1, <3>2 DEF InputEdge, ApplyEdge
    <3> QED BY <3>1, <3>2
  <2> QED BY <2>2, <2>3 DEF Harmless
<1>7. CASE SyncEdge
  BY <1>1, <1>7 DEF SyncEdge, Idle
<1>8. CASE EdgeMine
  <2>1. call' = [call EXCEPT !.blown = @ \/ lanes[call.lane].down] /\ call.lane \in Lane
        /\ call.stage = "mines"
    BY <1>8 DEF EdgeMine, EngineType
  <2>2. call'.stage = "mines" /\ call'.lane = call.lane
        /\ call'.blown = (call.blown \/ lanes[call.lane].down)
    BY <1>0, <2>1 DEF Calls
  <2>3. CASE lanes[call.lane].down
    BY <2>2, <2>3 DEF Harmless
  <2>4. CASE ~lanes[call.lane].down
    <3>1. lanes' = [lanes EXCEPT ![call.lane].mine = @ + 1]
      BY <1>8, <2>4 DEF EdgeMine, PassMine
    <3>2. ~lanes'[call.lane].down
      BY <2>1, <2>4, <3>1 DEF EngineType, LaneStates
    <3> QED BY <2>2, <3>2 DEF Harmless
  <2> QED BY <2>3, <2>4
<1>9. CASE EdgeDone
  <2>1. call' = Idle \/ ~over'
    BY <1>9 DEF EdgeDone
  <2> QED BY <1>1, <2>1 DEF Idle, Harmless
<1>10. CASE UNCHANGED engine
  BY <1>10 DEF engine, Harmless
<1> QED BY <1>2, <1>3, <1>4, <1>5, <1>6, <1>7, <1>8, <1>9, <1>10, <1>11
   DEF Next, Inside

\* What is left of the call in progress then changes neither log nor gauges.
LEMMA FailedStep ==
  ASSUME EngineType, Harmless, [Next]_engine, over
  PROVE  UNCHANGED <<log, gauge>>
<1>1. CASE EdgeMine
  <2>1. ~lanes[call.lane].down
    BY <1>1 DEF EdgeMine, Harmless
  <2> QED BY <1>1, <2>1 DEF EdgeMine, PassMine
<1>2. ~(InputEdge \/ SyncEdge)
  BY DEF InputEdge, SyncEdge, Harmless
<1>3. \A l \in Lane : ~(Skip(l) \/ Hit(l) \/ NoHit(l))
  BY DEF Skip, Hit, NoHit, Harmless
<1>4. \A l \in Lane : ~(AutoMine(l) \/ AutoMiss(l) \/ AutoHold(l))
  BY DEF AutoMine, AutoMiss, AutoHold, Automatic
<1>5. CASE Finalize \/ EdgeDone
  BY <1>5 DEF Finalize, EdgeDone
<1>6. CASE \E t \in Int : Advance(t)
  BY <1>6 DEF Advance
<1>7. CASE \E l \in Lane, state \in States, t \in Int :
             HandleInput(l, state, t) \/ SyncInputState(l, state, t)
  BY <1>7 DEF HandleInput, SyncInputState
<1>8. CASE UNCHANGED engine
  BY <1>8 DEF engine
<1> QED BY <1>1, <1>2, <1>3, <1>4, <1>5, <1>6, <1>7, <1>8 DEF Next, Inside

\* A failed play judges nothing more: every loop of the engine that may meet
\* the end of the play leaves it (game_over_ in advance_chronological,
\* process_mines_until, try_hit_note), and no later call is answered.
THEOREM FailureStands == Spec => FailureIsFinal
<1>1. Init => EngineType /\ Harmless
  BY TypeInit DEF Init, Harmless
<1>2. EngineType /\ Harmless /\ [Next]_engine => (EngineType /\ Harmless)'
  BY TypeStep, HarmlessStep
<1>3. EngineType /\ Harmless /\ [Next]_engine => [over => UNCHANGED <<log, gauge>>]_engine
  BY FailedStep
<1> QED BY <1>1, <1>2, <1>3, PTL DEF Spec, FailureIsFinal

-----------------------------------------------------------------------------
(* The gauges.  A gauge that has failed stays at zero, and the tier that is  *)
(* shown never gets harder (GaugeOnlyFalls), for every table of gauges,      *)
(* every chart and every sequence of calls.                                  *)
(*                                                                           *)
(* That a failed tier is not touched says nothing of its value; the          *)
(* invariant adds that it is zero.  The tier shown is the least one that     *)
(* survives, which must be shown to exist before anything can be said about  *)
(* it.                                                                       *)

Tier == DOMAIN Tiers
GaugeValues == [value: 0..Full, over: BOOLEAN]
TierTable == [delta: [Grades -> Int], softens: Grades, below: Nat, tenths: 0..10]
FailedAtZero(g) == g.over => g.value = 0

GaugeInv ==
  /\ gauge \in Gauges
  /\ \A k \in Tier : FailedAtZero(gauge[k])

(* What a step may do to the gauges: the types are kept, and what has failed    *)
(* stays failed, at zero.                                                       *)
OnlyFalls(g, h) ==
  /\ h \in Gauges
  /\ \A k \in Tier : FailedAtZero(h[k]) /\ (g[k].over => h[k].over)

-----------------------------------------------------------------------------
\* A tier has what add_delta reads: what each grade adds, and when it softens.
LEMMA TierType == ASSUME NEW k \in Tier PROVE Tiers[k] \in TierTable
<1>1. Tiers \in Seq(TierTable)
  BY GaugeAssumption DEF TierTable
<1>2. Tier = 1..Len(Tiers)
  BY <1>1, LenProperties DEF Tier
<1> QED BY <1>1, <1>2, ElementOfSeq

\* The tiers are numbered from one, and there is at least one.
LEMMA TierNumbers == Len(Tiers) \in Nat \ {0} /\ Tier = 1..Len(Tiers)
<1>1. Tiers \in Seq(TierTable) /\ Tiers # <<>>
  BY GaugeAssumption DEF TierTable
<1>2. Len(Tiers) \in Nat /\ Tier = 1..Len(Tiers)
  BY <1>1, LenProperties DEF Tier
<1>3. Len(Tiers) # 0
  BY <1>1, EmptySeq
<1> QED BY <1>2, <1>3

\* What a judgement adds is an integer, softened or not.
LEMMA DeltaType ==
  ASSUME NEW k \in Tier, NEW v \in Int, NEW grade \in Grades, NEW halves \in Int
  PROVE  Delta(Tiers[k], v, grade, halves) \in Int
<1> DEFINE plain == Tiers[k].delta[grade] * halves
<1>1. Tiers[k] \in TierTable
  BY TierType
<1>2. Tiers[k].delta[grade] \in Int /\ Tiers[k].tenths \in Int
  BY <1>1 DEF TierTable
<1>3. plain \in Int
  BY <1>2
<1>4. plain * Tiers[k].tenths \in Int
  <2> HIDE DEF plain
  <2> QED BY <1>2, <1>3
<1>5. (plain * Tiers[k].tenths) \div 10 \in Int
  <2> DEFINE full == plain * Tiers[k].tenths
  <2> HIDE DEF full
  <2>1. full \in Int
    BY <1>4 DEF full
  <2>2. full \div 10 \in Int
    BY <2>1
  <2> QED BY <2>2 DEF full
<1> HIDE DEF plain
<1> QED BY <1>3, <1>5 DEF Delta, plain

\* A value is kept between zero and the full gauge.
LEMMA ClampedType == \A v \in Int : Clamped(v) \in 0..Full
BY GaugeAssumption DEF Clamped

\* One tier: what has failed is left alone, and what fails stands at zero.
LEMMA MovedFalls ==
  ASSUME NEW g \in GaugeValues, FailedAtZero(g), NEW d \in Int
  PROVE  /\ Moved(g, d) \in GaugeValues
         /\ FailedAtZero(Moved(g, d))
         /\ g.over => Moved(g, d).over
<1>1. CASE g.over
  BY <1>1 DEF Moved
<1>2. CASE ~g.over
  <2>1. g.value + d \in Int
    BY GaugeAssumption DEF GaugeValues
  <2>2. Clamped(g.value + d) \in 0..Full
    BY <2>1, ClampedType
  <2>3. Moved(g, d) = [value |-> Clamped(g.value + d), over |-> Clamped(g.value + d) <= 0]
    BY <1>2 DEF Moved
  <2>4. Moved(g, d) \in GaugeValues
    BY <2>2, <2>3 DEF GaugeValues
  <2>5. Clamped(g.value + d) <= 0 => Clamped(g.value + d) = 0
    BY <2>2, GaugeAssumption
  <2>6. /\ Moved(g, d).over = (Clamped(g.value + d) <= 0)
        /\ Moved(g, d).value = Clamped(g.value + d)
    <3> DEFINE c == Clamped(g.value + d)
    <3> HIDE DEF c
    <3>1. Moved(g, d) = [value |-> c, over |-> c <= 0]
      BY <2>3 DEF c
    <3>2. Moved(g, d).over = (c <= 0) /\ Moved(g, d).value = c
      BY <3>1
    <3> QED BY <3>2 DEF c
  <2> QED BY <1>2, <2>4, <2>5, <2>6 DEF FailedAtZero
<1> QED BY <1>1, <1>2 DEF GaugeValues

\* A judgement moves every tier (GaugeShiftState in apply_judgement).
LEMMA JudgedFalls ==
  ASSUME GaugeInv, NEW grade \in Grades, NEW halves \in Int
  PROVE  OnlyFalls(gauge, Judged(gauge, grade, halves))
<1>1. gauge \in [Tier -> GaugeValues]
  BY DEF GaugeInv, Gauges, GaugeValues, Tier
<1> DEFINE d(k) == Delta(Tiers[k], gauge[k].value, grade, halves)
<1>2. Judged(gauge, grade, halves) = [k \in Tier |-> Moved(gauge[k], d(k))]
  BY <1>1 DEF Judged
<1>3. ASSUME NEW k \in Tier
      PROVE  d(k) \in Int
  <2>1. gauge[k].value \in Int
    BY <1>1, GaugeAssumption DEF GaugeValues
  <2> QED BY <2>1, DeltaType
<1> HIDE DEF d
<1>4. ASSUME NEW k \in Tier
      PROVE  /\ Moved(gauge[k], d(k)) \in GaugeValues
             /\ FailedAtZero(Moved(gauge[k], d(k)))
             /\ gauge[k].over => Moved(gauge[k], d(k)).over
  <2>1. gauge[k] \in GaugeValues /\ FailedAtZero(gauge[k]) /\ d(k) \in Int
    BY <1>1, <1>3 DEF GaugeInv
  <2> QED BY <2>1, MovedFalls
<1> QED BY <1>2, <1>4 DEF OnlyFalls, Gauges, GaugeValues, Tier

\* So does a mine, by its damage.
LEMMA DamagedFalls ==
  ASSUME GaugeInv, NEW damage \in Int
  PROVE  OnlyFalls(gauge, Damaged(gauge, damage))
<1>1. gauge \in [Tier -> GaugeValues]
  BY DEF GaugeInv, Gauges, GaugeValues, Tier
<1>2. Damaged(gauge, damage) = [k \in Tier |-> Moved(gauge[k], -damage)]
  BY <1>1 DEF Damaged
<1>3. ASSUME NEW k \in Tier
      PROVE  /\ Moved(gauge[k], -damage) \in GaugeValues
             /\ FailedAtZero(Moved(gauge[k], -damage))
             /\ gauge[k].over => Moved(gauge[k], -damage).over
  <2>1. gauge[k] \in GaugeValues /\ FailedAtZero(gauge[k]) /\ -damage \in Int
    BY <1>1 DEF GaugeInv
  <2> QED BY <2>1, MovedFalls
<1> QED BY <1>2, <1>3 DEF OnlyFalls, Gauges, GaugeValues, Tier

\* A killing mine fails all tiers at once.
LEMMA KilledFalls ==
  ASSUME GaugeInv
  PROVE  OnlyFalls(gauge, Killed(gauge))
<1>1. Killed(gauge) = [k \in Tier |-> [value |-> 0, over |-> TRUE]]
  BY DEF Killed, GaugeInv, Gauges, Tier
<1>2. 0 \in 0..Full
  BY GaugeAssumption
<1> QED BY <1>1, <1>2 DEF OnlyFalls, FailedAtZero, Gauges, Tier

\* A step without judgement leaves the gauges alone.
LEMMA StillFalls == GaugeInv => OnlyFalls(gauge, gauge)
BY DEF GaugeInv, OnlyFalls

-----------------------------------------------------------------------------
\* Every action of the engine leaves the gauges alone or does one of the three.
LEMMA JudgeFalls ==
  ASSUME GaugeInv, NEW l, NEW note, NEW part, NEW grade \in Grades, NEW halves \in Int,
         NEW now, Judge(l, note, part, grade, halves, now)
  PROVE  OnlyFalls(gauge, gauge')
BY JudgedFalls DEF Judge

\* A mine that is passed in its lane.
LEMMA PassMineFalls ==
  ASSUME GaugeInv, EngineType, NEW l \in Lane, NEW now, PassMine(l, now),
         lanes[l].mine <= Len(Mines[l])
  PROVE  OnlyFalls(gauge, gauge')
<1>1. Mines[l][lanes[l].mine].damage \in Int
  <2>1. Mines[l] \in Seq(ChartMines)
    BY EngineAssumption DEF ChartMines
  <2>2. lanes[l].mine \in 1..Len(Mines[l])
    <3>1. lanes[l].mine \in Nat \ {0} /\ Len(Mines[l]) \in Nat
      BY <2>1, LenProperties DEF EngineType, LaneStates
    <3> QED BY <3>1
  <2>3. Mines[l][lanes[l].mine] \in ChartMines
    BY <2>1, <2>2, ElementOfSeq
  <2> QED BY <2>3 DEF ChartMines
<1>2. \/ gauge' = gauge \/ gauge' = Killed(gauge)
      \/ gauge' = Damaged(gauge, Mines[l][lanes[l].mine].damage)
  BY DEF PassMine
<1> QED BY <1>1, <1>2, StillFalls, KilledFalls, DamagedFalls

\* The tail of a hold that a key edge releases.
LEMMA ApplyEdgeFalls ==
  ASSUME GaugeInv, EngineType, call.lane \in Lane, ApplyEdge
  PROVE  OnlyFalls(gauge, gauge')
<1>1. CASE call.state = "Released" /\ Holding(call.lane)
  <2>1. lanes[call.lane].hold \in Holds /\ call.at \in Int
    BY DEF EngineType, LaneStates, Calls
  <2>2. TailGrade(lanes[call.lane].hold, call.at) \in Grades
    BY <2>1, TailGradeType
  <2>3. Judge(call.lane, lanes[call.lane].hold.note, "tail",
              TailGrade(lanes[call.lane].hold, call.at), 1, call.at)
    BY <1>1 DEF ApplyEdge, SettleHold
  <2> QED BY <2>2, <2>3, JudgeFalls
<1>2. CASE ~(call.state = "Released" /\ Holding(call.lane))
  BY <1>2, StillFalls DEF ApplyEdge
<1> QED BY <1>1, <1>2

\* No step lets a failed tier recover.
LEMMA StepFalls ==
  ASSUME GaugeInv, EngineType, [Next]_engine
  PROVE  OnlyFalls(gauge, gauge')
<1>1. ASSUME NEW l \in Lane, AutoMine(l)
      PROVE  OnlyFalls(gauge, gauge')
  <2>1. lanes[l].mine <= Len(Mines[l])
    BY <1>1 DEF AutoMine, Automatic, Due, MineDue
  <2> QED BY <1>1, <2>1, PassMineFalls DEF AutoMine
<1>2. ASSUME NEW l \in Lane, AutoMiss(l) \/ Skip(l)
      PROVE  OnlyFalls(gauge, gauge')
  <2>1. MissGrade \in Grades
    BY EngineAssumption DEF Grades
  <2>2. \E now : Judge(l, lanes[l].next, "missed", MissGrade, 2, now)
    BY <1>2 DEF AutoMiss, Skip, GiveUpNote
  <2> QED BY <2>1, <2>2, JudgeFalls
<1>3. ASSUME NEW l \in Lane, AutoHold(l)
      PROVE  OnlyFalls(gauge, gauge')
  <2>1. \E grade \in {"BD", "PG"} : \E now : Judge(l, lanes[l].hold.note, "tail", grade, 1, now)
    BY <1>3 DEF AutoHold, SettleHold
  <2> QED BY <2>1, JudgeFalls DEF Grades
<1>4. ASSUME NEW l \in Lane, Hit(l)
      PROVE  OnlyFalls(gauge, gauge')
  <2>1. NextNote(l).start \in Int /\ call.at \in Int
    BY <1>4, NoteStart DEF Hit, EngineType, Calls
  <2>2. Grade(call.at - NextNote(l).start) \in Grades
    BY <2>1, GradeType
  <2>3. \E halves \in {1, 2} :
          Judge(l, lanes[l].next, "head", Grade(call.at - NextNote(l).start), halves, call.at)
    BY <1>4 DEF Hit
  <2> QED BY <2>2, <2>3, JudgeFalls
<1>5. ASSUME NEW l \in Lane, NoHit(l)
      PROVE  OnlyFalls(gauge, gauge')
  <2>1. "PR" \in Grades
    BY DEF Grades
  <2>2. gauge' = gauge \/ Judge(l, 0, "poor", "PR", 2, call.at)
    BY <1>5 DEF NoHit
  <2> QED BY <2>1, <2>2, JudgeFalls, StillFalls
<1>6. CASE InputEdge \/ SyncEdge
  <2>1. call.lane \in Lane
    BY <1>6 DEF InputEdge, SyncEdge, EngineType
  <2>2. gauge' = gauge \/ ApplyEdge
    BY <1>6 DEF InputEdge, SyncEdge
  <2> QED BY <2>1, <2>2, ApplyEdgeFalls, StillFalls
<1>7. CASE EdgeMine
  <2>1. call.lane \in Lane /\ lanes[call.lane].mine <= Len(Mines[call.lane])
    BY <1>7 DEF EdgeMine, MineAtEdge, EngineType
  <2> QED BY <1>7, <2>1, PassMineFalls DEF EdgeMine
<1>8. CASE Finalize \/ EdgeDone \/ UNCHANGED engine
  BY <1>8, StillFalls DEF Finalize, EdgeDone, engine
<1>9. CASE \E l \in Lane, state \in States, t \in Int :
             HandleInput(l, state, t) \/ SyncInputState(l, state, t)
  BY <1>9, StillFalls DEF HandleInput, SyncInputState
<1>10. CASE \E t \in Int : Advance(t)
  BY <1>10, StillFalls DEF Advance
<1> QED BY <1>1, <1>2, <1>3, <1>4, <1>5, <1>6, <1>7, <1>8, <1>9, <1>10 DEF Next, Inside

\* A play starts with full gauges (reset).
LEMMA GaugeInit == Init => GaugeInv
<1>1. Full \in 0..Full
  BY GaugeAssumption
<1> QED BY <1>1 DEF Init, FullGauges, GaugeInv, Gauges, FailedAtZero, Tier

-----------------------------------------------------------------------------
\* While a tier survives, there is a first one, and it is the one shown.
LEMMA FirstSurvivor ==
  ASSUME NEW g \in Gauges, ~Dead(g)
  PROVE  /\ Shown(g) \in Tier /\ ~g[Shown(g)].over
         /\ \A j \in 1..(Shown(g) - 1) : g[j].over
<1> DEFINE Survivors == {k \in Tier : ~g[k].over}
<1>1. DOMAIN g = Tier
  BY DEF Gauges, Tier
<1>2. Survivors \subseteq Nat /\ Survivors # {}
  BY <1>1, TierNumbers DEF Dead
<1>3. PICK k \in Survivors : \A j \in Survivors : ~(<<j, k>> \in OpToRel(<, Nat))
  <2> HIDE DEF Survivors
  <2>1. IsWellFoundedOn(OpToRel(<, Nat), Nat)
    BY NatLessThanWellFounded
  <2> QED BY <1>2, <2>1, WFMin
<1>4. \A j \in Survivors : ~(j < k)
  <2>1. \A j, i \in Nat : j < i => <<j, i>> \in OpToRel(<, Nat)
    BY DEF OpToRel
  <2> QED BY <1>2, <1>3, <2>1
<1>5. k \in DOMAIN g /\ ~g[k].over
  BY <1>1
<1>6. \A j \in 1..(k - 1) : g[j].over
  <2>1. k \in 1..Len(Tiers) /\ Len(Tiers) \in Nat
    BY TierNumbers
  <2>2. ASSUME NEW j \in 1..(k - 1)
        PROVE  g[j].over
    <3>1. j \in Tier /\ j < k
      BY <2>1, TierNumbers
    <3>2. j \notin Survivors
      BY <1>4, <3>1
    <3> QED BY <3>1, <3>2
  <2> QED BY <2>2
<1>7. Shown(g) = CHOOSE i \in DOMAIN g : ~g[i].over /\ \A j \in 1..(i - 1) : g[j].over
  BY DEF Shown
<1>8. /\ Shown(g) \in DOMAIN g /\ ~g[Shown(g)].over
      /\ \A j \in 1..(Shown(g) - 1) : g[j].over
  BY <1>5, <1>6, <1>7
<1> QED BY <1>1, <1>8

\* When none does, Easy is shown, the last one.
LEMMA NoSurvivor ==
  ASSUME NEW g \in Gauges, Dead(g)
  PROVE  Shown(g) = Len(Tiers)
<1>1. g \in [1..Len(Tiers) -> GaugeValues] /\ Len(Tiers) \in Nat
  BY TierNumbers DEF Gauges, GaugeValues, Tier
<1>2. g \in Seq(GaugeValues)
  BY <1>1, SeqDef
<1>3. Len(g) = Len(Tiers)
  BY <1>1, <1>2, LenProperties
<1> QED BY <1>3 DEF Shown

\* What has failed stays failed, so the tier that is shown never gets harder.
LEMMA ShownFalls ==
  ASSUME NEW g \in Gauges, NEW h \in Gauges, \A k \in Tier : g[k].over => h[k].over
  PROVE  Shown(g) <= Shown(h)
<1>0. Len(Tiers) \in Nat /\ Tier = 1..Len(Tiers)
  BY TierNumbers
<1>1. Shown(g) \in 1..Len(Tiers)
  <2>1. CASE Dead(g)
    BY <2>1, NoSurvivor, TierNumbers
  <2>2. CASE ~Dead(g)
    BY <1>0, <2>2, FirstSurvivor
  <2> QED BY <2>1, <2>2
<1>2. CASE Dead(h)
  BY <1>0, <1>1, <1>2, NoSurvivor
<1>3. CASE ~Dead(h)
  <2>1. Shown(h) \in Tier /\ ~h[Shown(h)].over
    BY <1>3, FirstSurvivor
  <2>2. ~g[Shown(h)].over
    BY <2>1
  <2>3. ~Dead(g)
    BY <2>1, <2>2 DEF Dead, Gauges, Tier
  <2>4. \A j \in 1..(Shown(g) - 1) : g[j].over
    BY <2>3, FirstSurvivor
  <2>5. Shown(h) \notin 1..(Shown(g) - 1)
    BY <2>2, <2>4
  <2> QED BY <1>0, <1>1, <2>1, <2>5
<1> QED BY <1>2, <1>3

\* The gauges of a play only fall in rank: a tier that has reached zero never
\* comes back, not even under practice_no_fail, and the tier on display
\* (active_gauge) never gets harder, whatever is judged or detonated.
THEOREM GaugesOnlyFall == Spec => GaugeOnlyFalls
<1>1. Init => EngineType /\ GaugeInv
  BY TypeInit, GaugeInit
<1>2. EngineType /\ GaugeInv /\ [Next]_engine => (EngineType /\ GaugeInv)'
  <2>1. ASSUME EngineType, GaugeInv, [Next]_engine
        PROVE  GaugeInv'
    BY <2>1, StepFalls DEF OnlyFalls, GaugeInv
  <2> QED BY <2>1, TypeStep
<1>3. EngineType /\ GaugeInv /\ [Next]_engine
        => [/\ \A k \in DOMAIN gauge : gauge[k].over => gauge'[k].over /\ gauge'[k].value = 0
            /\ Shown(gauge) <= Shown(gauge')]_engine
  <2>1. SUFFICES ASSUME EngineType, GaugeInv, Next
                 PROVE  /\ \A k \in DOMAIN gauge : gauge[k].over =>
                             gauge'[k].over /\ gauge'[k].value = 0
                        /\ Shown(gauge) <= Shown(gauge')
    OBVIOUS
  <2>2. OnlyFalls(gauge, gauge')
    BY <2>1, StepFalls
  <2>3. gauge \in Gauges /\ DOMAIN gauge = Tier
    BY <2>1 DEF GaugeInv, Gauges, Tier
  <2>4. Shown(gauge) <= Shown(gauge')
    BY <2>2, <2>3, ShownFalls DEF OnlyFalls
  <2> QED BY <2>2, <2>3, <2>4 DEF OnlyFalls, FailedAtZero
<1> QED BY <1>1, <1>2, <1>3, PTL DEF Spec, GaugeOnlyFalls
=============================================================================
