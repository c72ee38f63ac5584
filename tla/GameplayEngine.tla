--------------------------- MODULE GameplayEngine ---------------------------
(* The judgement engine (gameplay/GameplayEngine.cpp) under the current      *)
(* ruleset: chronological judgement, immediate and strict hold releases.     *)
(* The engine runs under its caller's mutex, so a call is a sequence of      *)
(* steps that no other call interrupts: `call' says which one is running and *)
(* how far it is, every other step of the engine belongs to it, and the      *)
(* loops of the code are steps that repeat.                                  *)
EXTENDS Gauge, FiniteSets

CONSTANTS LaneCount,
          Notes,       \* per lane, in order of start: [start, end, kind]
          Mines,       \* per lane, in order: [at, damage, kill]
          PG, GR, GD, BD,             \* hit windows, in samples
          Miss,                       \* a note is missed this long after its start
          Early,                      \* how far ahead a stray press costs an empty POOR
          HoldBreak,                  \* how long a charge note waits for its release
          Mask,                       \* how long a lane ignores presses after a miss
          MissGrade,                  \* indirect_miss_enabled: "PR", otherwise "BD"
          NoFail                      \* practice_no_fail_enabled

Lane == 1..LaneCount
Kinds == {"tap", "hold", "charge"}
States == {"Pressed", "Released"}

ASSUME EngineAssumption ==
  /\ LaneCount \in Nat
  /\ Notes \in [Lane -> Seq([start: Int, end: Int, kind: Kinds])]
  /\ Mines \in [Lane -> Seq([at: Int, damage: Nat, kill: BOOLEAN])]
  /\ {PG, GR, GD, BD, Miss, Early, HoldBreak, Mask} \subseteq Nat
  /\ MissGrade \in {"BD", "PR"}
  /\ NoFail \in BOOLEAN

VARIABLES lanes,     \* per lane: next note, next mine, mask_until, key_down, hold
          gauge,     \* gauge_shift_states_ from the starting tier on
          log,       \* everything judged or detonated, in the order it happened
          replay,    \* the recorded key edges
          finished, over,
          call       \* the call in progress
engine == <<lanes, gauge, log, replay, finished, over, call>>

NoHold == [note |-> 0, end |-> 0, kind |-> "tap"]
Idle == [kind |-> "none", stage |-> "idle", lane |-> 0, state |-> "Released",
         at |-> 0, until |-> 0, gaveUp |-> FALSE, blown |-> FALSE]

Init ==
  /\ lanes = [l \in Lane |-> [next |-> 1, mine |-> 1, mask |-> 0, down |-> FALSE,
                              hold |-> NoHold]]
  /\ gauge = FullGauges
  /\ log = <<>> /\ replay = <<>>
  /\ finished = FALSE /\ over = FALSE
  /\ call = Idle

Abs(x) == IF x < 0 THEN -x ELSE x
Later(x, y) == IF x < y THEN y ELSE x

\* classify_judgement
Grade(delta) ==
  CASE Abs(delta) <= PG -> "PG"
    [] Abs(delta) > PG /\ Abs(delta) <= GR -> "GR"
    [] Abs(delta) > GR /\ Abs(delta) <= GD -> "GD"
    [] OTHER -> "BD"

Holding(l) == lanes[l].hold.note # 0
Waiting(l) == lanes[l].next <= Len(Notes[l])
NextNote(l) == Notes[l][lanes[l].next]
AllDone == \A l \in Lane : ~Waiting(l) /\ ~Holding(l)
Ended == finished \/ over

-----------------------------------------------------------------------------
\* What every judgement does: the entry, the gauges, the end of the play.
Judge(l, note, part, grade, halves, now) ==
  /\ log' = Append(log, [lane |-> l, note |-> note, part |-> part, grade |-> grade, due |-> now])
  /\ gauge' = Judged(gauge, grade, halves)
  /\ over' = (over \/ (Dead(gauge') /\ ~NoFail))

\* A missed note counts whole, even when it is a hold.
GiveUpNote(l, now, mask) ==
  /\ Judge(l, lanes[l].next, "missed", MissGrade, 2, now)
  /\ lanes' = [lanes EXCEPT ![l].next = @ + 1, ![l].mask = mask]

\* One turn of process_mines_until: the mine is passed; a key that is down
\* sets it off, and counts as up from then on.
PassMine(l, now) ==
  LET mine == Mines[l][lanes[l].mine]
  IN IF lanes[l].down
       THEN /\ log' = Append(log, [lane |-> l, note |-> lanes[l].mine, part |-> "mine",
                                   grade |-> "none", due |-> now])
            /\ gauge' = IF mine.kill THEN Killed(gauge) ELSE Damaged(gauge, mine.damage)
            /\ over' = (over \/ mine.kill \/ (Dead(gauge') /\ ~NoFail))
            /\ lanes' = [lanes EXCEPT ![l].mine = @ + 1, ![l].down = FALSE]
       ELSE /\ lanes' = [lanes EXCEPT ![l].mine = @ + 1]
            /\ UNCHANGED <<log, gauge, over>>

\* The tail of the lane's hold, released at t.  A standard hold that is let go
\* before the tolerance fails, whatever the window says.
TailGrade(hold, t) ==
  IF hold.kind = "hold" /\ t - hold.end < -GR THEN "BD" ELSE Grade(t - hold.end)

\* Mutant: the hold outlives its tail.
SettleAndHold(l, grade, now, down) ==
  /\ Judge(l, lanes[l].hold.note, "tail", grade, 1, now)
  /\ lanes' = [lanes EXCEPT ![l].down = down]

SettleHold(l, grade, now, down) ==
  /\ Judge(l, lanes[l].hold.note, "tail", grade, 1, now)
  /\ lanes' = [lanes EXCEPT ![l].hold = NoHold, ![l].down = down]

-----------------------------------------------------------------------------
\* The three calls.  They do nothing once the play has ended.
LastEdge == IF replay = <<>> THEN {} ELSE {replay[Len(replay)].at}
\* Mutant: an edge is recorded at its own sample.
AtItsOwn(t) == t
NotBefore(t) == IF \E s \in LastEdge : t < s THEN replay[Len(replay)].at ELSE t

\* Mutant: the events of the sample before the edge wait for the next advance.
HandleInputHastily(l, state, t) ==
  /\ call.stage = "idle" /\ ~Ended
  /\ call' = [Idle EXCEPT !.kind = "input", !.stage = "automatic", !.lane = l,
                !.state = state, !.at = NotBefore(t), !.until = NotBefore(t) - 2]
  /\ UNCHANGED <<lanes, gauge, log, replay, finished, over>>

HandleInput(l, state, t) ==
  /\ call.stage = "idle" /\ ~Ended
  /\ call' = [Idle EXCEPT !.kind = "input", !.stage = "automatic", !.lane = l,
                !.state = state, !.at = NotBefore(t), !.until = NotBefore(t) - 1]
  /\ UNCHANGED <<lanes, gauge, log, replay, finished, over>>

SyncInputState(l, state, t) ==
  /\ call.stage = "idle" /\ ~Ended
  /\ call' = [Idle EXCEPT !.kind = "sync", !.stage = "automatic", !.lane = l,
                !.state = state, !.at = NotBefore(t), !.until = NotBefore(t) - 1]
  /\ UNCHANGED <<lanes, gauge, log, replay, finished, over>>

Advance(t) ==
  /\ call.stage = "idle" /\ ~Ended
  /\ call' = [Idle EXCEPT !.kind = "advance", !.stage = "automatic", !.until = t]
  /\ UNCHANGED <<lanes, gauge, log, replay, finished, over>>

-----------------------------------------------------------------------------
\* advance_chronological: the automatic events of all lanes up to call.until,
\* by sample, then lane, then mines before misses before holds.
MineDue(l) == IF lanes[l].mine <= Len(Mines[l]) THEN {Mines[l][lanes[l].mine].at} ELSE {}
MissDue(l) == IF Waiting(l) THEN {NextNote(l).start + Miss + 1} ELSE {}
\* Mutant: a charge note waits for its release for ever.
HoldDueUnlessCharge(l) ==
  IF ~Holding(l) \/ lanes[l].hold.kind = "charge" THEN {} ELSE {lanes[l].hold.end}
HoldDue(l) == IF ~Holding(l) THEN {}
              ELSE IF lanes[l].hold.kind = "charge" THEN {lanes[l].hold.end + HoldBreak + 1}
              ELSE {lanes[l].hold.end}
Due(l) == <<MineDue(l), MissDue(l), HoldDue(l)>>

\* Mutant: lane after lane, as the loop before chronological judgement did.
EarlierLane(s, l, k, s2, l2, k2) ==
  l < l2 \/ (l = l2 /\ (k < k2 \/ (k = k2 /\ s < s2)))
Earlier(s, l, k, s2, l2, k2) ==
  s < s2 \/ (s = s2 /\ (l < l2 \/ (l = l2 /\ k < k2)))

\* s is the sample of the k-th kind of event of lane l, and it comes first.
IsNext(l, k, s) ==
  /\ s \in Due(l)[k] /\ s <= call.until
  /\ \A l2 \in Lane, k2 \in 1..3 : \A s2 \in Due(l2)[k2] :
       s2 <= call.until /\ <<l2, k2>> # <<l, k>> => Earlier(s, l, k, s2, l2, k2)

Automatic(l, k) == call.stage = "automatic" /\ ~over /\ \E s \in Due(l)[k] : IsNext(l, k, s)

AutoMine(l) ==
  /\ Automatic(l, 1)
  /\ PassMine(l, Mines[l][lanes[l].mine].at)
  /\ UNCHANGED <<replay, finished, call>>

AutoMiss(l) ==
  /\ Automatic(l, 2)
  /\ GiveUpNote(l, NextNote(l).start + Miss + 1, NextNote(l).start + Mask)
  /\ UNCHANGED <<replay, finished, call>>

\* A standard hold that was kept is a PG; a charge note kept too long fails.
AutoHold(l) ==
  /\ Automatic(l, 3)
  /\ LET hold == lanes[l].hold
     IN IF hold.kind = "charge"
          THEN SettleHold(l, "BD", hold.end + HoldBreak + 1, lanes[l].down)
          ELSE SettleHold(l, "PG", hold.end, lanes[l].down)
  /\ UNCHANGED <<replay, finished, call>>

NothingNext == over \/ \A l \in Lane, k \in 1..3 : \A s \in Due(l)[k] : s > call.until

\* The loop is over: finalize_if_done; an advance returns, the other calls go
\* on to their key edge unless the play has ended.
Finalize ==
  /\ call.stage = "automatic" /\ NothingNext
  /\ finished' = (finished \/ AllDone)
  /\ call' = IF call.kind = "advance" \/ finished' \/ over THEN Idle
             ELSE [call EXCEPT !.stage = "edge"]
  /\ UNCHANGED <<lanes, gauge, log, replay, over>>

-----------------------------------------------------------------------------
\* The key edge is recorded and applied (update_lane_input_state).  The mines
\* before it were passed by the loop above, in this lane too.
Record == replay' = Append(replay, [lane |-> call.lane, state |-> call.state, at |-> call.at])

\* Mutant: a hold that is dropped before its end is forgotten.
ApplyEdgeForgets ==
  LET l == call.lane
  IN IF call.state = "Released" /\ Holding(l) /\ call.at >= lanes[l].hold.end
       THEN SettleHold(l, TailGrade(lanes[l].hold, call.at), call.at, FALSE)
       ELSE /\ lanes' = [lanes EXCEPT ![l].down = (call.state = "Pressed"),
                           ![l].hold = IF call.state = "Released" THEN NoHold ELSE @]
            /\ UNCHANGED <<log, gauge, over>>

ApplyEdge ==
  LET l == call.lane
  IN IF call.state = "Released" /\ Holding(l)
       THEN SettleHold(l, TailGrade(lanes[l].hold, call.at), call.at, FALSE)
       ELSE /\ lanes' = [lanes EXCEPT ![l].down = (call.state = "Pressed")]
            /\ UNCHANGED <<log, gauge, over>>

InputEdge ==
  /\ call.stage = "edge" /\ call.kind = "input"
  /\ Record /\ ApplyEdge
  /\ call' = [call EXCEPT !.stage = "mines"]
  /\ UNCHANGED finished

\* A state that did not change is not an edge.
SyncEdge ==
  /\ call.stage = "edge" /\ call.kind = "sync"
  /\ IF lanes[call.lane].down = (call.state = "Pressed")
       THEN UNCHANGED <<lanes, gauge, log, replay, over>>
       ELSE Record /\ ApplyEdge
  /\ call' = Idle
  /\ UNCHANGED finished

\* The mines of this very sample, with the key in its new state.
MineAtEdge == lanes[call.lane].mine <= Len(Mines[call.lane])
              /\ Mines[call.lane][lanes[call.lane].mine].at <= call.at

EdgeMine ==
  /\ call.stage = "mines" /\ ~(over /\ call.blown) /\ MineAtEdge
  /\ PassMine(call.lane, call.at)
  /\ call' = [call EXCEPT !.blown = @ \/ lanes[call.lane].down]
  /\ UNCHANGED <<replay, finished>>

\* Only a press that no mine answered, in a lane that is not masked, goes on.
EdgeDone ==
  /\ call.stage = "mines" /\ ((over /\ call.blown) \/ ~MineAtEdge)
  /\ call' = IF \/ over \/ call.blown
                \/ call.state = "Released"
                \/ lanes[call.lane].mask > call.at
               THEN Idle ELSE [call EXCEPT !.stage = "hit"]
  /\ UNCHANGED <<lanes, gauge, log, replay, finished, over>>

-----------------------------------------------------------------------------
\* try_hit_note, one turn of its loop per step.
InBad(note) == Abs(call.at - note.start) <= BD
TooLate(note) == call.at - note.start > BD

\* A BAD hit is given up for a next note that the press meets well.
BetterNext(l) ==
  /\ Grade(call.at - NextNote(l).start) = "BD"
  /\ lanes[l].next < Len(Notes[l])
  /\ Abs(call.at - Notes[l][lanes[l].next + 1].start) <= GD

GiveUp(l) == Waiting(l) /\ (TooLate(NextNote(l)) \/ (InBad(NextNote(l)) /\ BetterNext(l)))

\* Mutant: a note given up at the end of the play does not end the loop.
SkipOn(l) ==
  /\ call.stage = "hit" /\ l = call.lane /\ GiveUp(l)
  /\ GiveUpNote(l, call.at, Later(lanes[l].mask, NextNote(l).start + Mask))
  /\ call' = [call EXCEPT !.gaveUp = TRUE]
  /\ UNCHANGED <<replay, finished>>

Skip(l) ==
  /\ call.stage = "hit" /\ l = call.lane /\ GiveUp(l)
  /\ GiveUpNote(l, call.at, Later(lanes[l].mask, NextNote(l).start + Mask))
  /\ call' = IF over' THEN Idle ELSE [call EXCEPT !.gaveUp = TRUE]
  /\ UNCHANGED <<replay, finished>>

\* The head of a hold weighs half, and starts the hold if the play goes on.
Hit(l) ==
  /\ call.stage = "hit" /\ l = call.lane /\ Waiting(l) /\ ~GiveUp(l) /\ InBad(NextNote(l))
  /\ LET note == NextNote(l)
     IN /\ Judge(l, lanes[l].next, "head", Grade(call.at - note.start),
                 IF note.kind = "tap" THEN 2 ELSE 1, call.at)
        /\ lanes' = [lanes EXCEPT ![l].next = @ + 1,
                       ![l].hold = IF note.kind = "tap" \/ over' THEN @
                                   ELSE [note |-> lanes[l].next, end |-> note.end,
                                         kind |-> note.kind]]
  /\ call' = Idle
  /\ UNCHANGED <<replay, finished>>

\* No note is near: a press far ahead of the next one costs an empty POOR and
\* masks the lane, unless this press has given up a note.
StrayPress(l) ==
  /\ ~call.gaveUp /\ Waiting(l)
  /\ NextNote(l).start - call.at > BD /\ NextNote(l).start - call.at <= Early

NoHit(l) ==
  /\ call.stage = "hit" /\ l = call.lane
  /\ Waiting(l) => ~GiveUp(l) /\ ~InBad(NextNote(l))
  /\ IF StrayPress(l)
       THEN /\ Judge(l, 0, "poor", "PR", 2, call.at)
            /\ lanes' = [lanes EXCEPT ![l].mask = call.at + Mask]
       ELSE UNCHANGED <<lanes, gauge, log, over>>
  /\ call' = Idle
  /\ UNCHANGED <<replay, finished>>

\* A step of the call in progress.
Inside ==
  \/ \E l \in Lane : AutoMine(l) \/ AutoMiss(l) \/ AutoHold(l) \/ Skip(l) \/ Hit(l) \/ NoHit(l)
  \/ Finalize \/ InputEdge \/ SyncEdge \/ EdgeMine \/ EdgeDone

\* The engine under any caller.
Next ==
  \/ \E l \in Lane, state \in States, t \in Int : HandleInput(l, state, t)
                                               \/ SyncInputState(l, state, t)
  \/ \E t \in Int : Advance(t)
  \/ Inside

Spec == Init /\ [][Next]_engine

-----------------------------------------------------------------------------
\* Two entries about the same thing: a mine, a tail, or a note, which is either
\* hit (its head) or missed.
Alike(e, f) ==
  /\ e.lane = f.lane /\ e.note = f.note
  /\ \/ e.part = f.part /\ e.part # "poor"
     \/ {e.part, f.part} = {"head", "missed"}

\* No note, tail or mine counts twice, however the calls of the engine follow
\* each other: next_index, next_mine_index and the reset of lane.hold
\* (GameplayEngine.cpp:575-812) must keep pace with apply_judgement.
JudgedOnce == \A i, j \in DOMAIN log : Alike(log[i], log[j]) => i = j

\* The recorded edges never go back in time, although the samples of the inputs
\* may (GameplayEngine.cpp:158-163).
ReplayInOrder == \A i, j \in DOMAIN replay : i <= j => replay[i].at <= replay[j].at

\* A hold whose head was hit is still held, or its tail has been judged; the
\* score counts on two judgements per hold (GameplayEngine.cpp:96).
TailsSettle ==
  ~over => \A i \in DOMAIN log :
    LET e == log[i]
    IN e.part = "head" /\ Notes[e.lane][e.note].kind # "tap" =>
         \/ lanes[e.lane].hold.note = e.note
         \/ \E f \in {log[j] : j \in DOMAIN log} :
              f.part = "tail" /\ f.lane = e.lane /\ f.note = e.note

\* Judgements happen in the order of the samples that cause them, across lanes
\* and kinds, and before the key edge of a later sample (advance_chronological).
\* It is stated for charts whose holds outlast the BAD window: the tail of a
\* shorter one, hit after its end, falls due before its head.
JudgedInOrder == \A i, j \in DOMAIN log : i <= j => log[i].due <= log[j].due

\* A failed play judges nothing more, even in the middle of a loop.
FailureIsFinal == [][over => UNCHANGED <<log, gauge>>]_engine

\* A tier that has failed never comes back, not under practice_no_fail either,
\* and the tier that is shown never gets harder.
GaugeOnlyFalls ==
  [][/\ \A k \in DOMAIN gauge : gauge[k].over => gauge'[k].over /\ gauge'[k].value = 0
     /\ Shown(gauge) <= Shown(gauge')]_engine
=============================================================================
