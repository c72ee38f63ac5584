-------------------------------- MODULE Play --------------------------------
(* One attempt: the keys of the player and the audio callback drive an       *)
(* engine (app/GameSessionTail.inl, input/LaneBindingState.h); when it has   *)
(* ended, a second engine is driven by the recorded edges, as the replay     *)
(* verifier does (app/ReplayVerifier.cpp).                                   *)
EXTENDS GameplayEngine

CONSTANTS LastSample,    \* duration_samples plus the slack of the verifier
          KeysPerLane,   \* bindings of a lane
          StartKeys,     \* those that may be held when the play starts
          Late,          \* by how much an input may trail the last advance
          MaxEdges, MaxPauses, MaxStale

Keys == Lane \X (1..KeysPerLane)

ASSUME PlayAssumption ==
  /\ {LastSample, KeysPerLane, Late, MaxEdges, MaxPauses, MaxStale} \subseteq Nat
  /\ StartKeys \subseteq Keys

\* The chart starts after a lead-in of 3 s, and Early stands for 1 s: a press at
\* sample 0 is far from every note.
ASSUME LeadIn == StartKeys # {} => \A l \in Lane : Notes[l] # <<>> => Notes[l][1].start > Early

VARIABLES down,       \* the keys LaneBindingState takes for pressed
          owner,      \* the key that owns each lane, 0 when none does
          frontier,   \* the sample of the last advance
          baseline,   \* lanes still to be synchronised, and the sample
          pauses, stale
keyboard == <<down, owner, frontier, baseline, pauses, stale>>

VARIABLES lanes2, gauge2, log2, replay2, finished2, over2, call2,
          cursor,     \* the next recorded edge
          reached     \* the sample the verifier has advanced to
checked == <<lanes2, gauge2, log2, replay2, finished2, over2, call2>>
verifier == <<checked, cursor, reached>>

Again == INSTANCE GameplayEngine WITH
  lanes <- lanes2, gauge <- gauge2, log <- log2, replay <- replay2,
  finished <- finished2, over <- over2, call <- call2

\* Every key that is held takes its lane; the highest is the last one applied.
Holder(held, l) ==
  LET keys == {k \in 1..KeysPerLane : <<l, k>> \in held}
  IN IF keys = {} THEN 0 ELSE CHOOSE k \in keys : \A j \in keys : j <= k

PlayInit ==
  /\ Init /\ Again!Init
  /\ down \in SUBSET StartKeys /\ owner = [l \in Lane |-> Holder(down, l)]
  /\ frontier = -1
  /\ baseline = [todo |-> Lane, at |-> 0]
  /\ pauses = 0 /\ stale = 0
  /\ cursor = 1 /\ reached = -1

Over == Ended /\ call.stage = "idle"
Playing == call.stage = "idle" /\ ~Ended /\ baseline.todo = {}
Samples == 0..LastSample

-----------------------------------------------------------------------------
\* LaneBindingState::apply: every fresh press strikes the lane and owns it; only
\* the release of the owner releases the lane.
Press(key) == /\ key \notin down
              /\ down' = down \cup {key}
              /\ owner' = [owner EXCEPT ![key[1]] = key[2]]

\* Mutant: the lane keeps the owner it lost.
ReleaseOnly(key) == /\ key \in down /\ owner[key[1]] = key[2]
                    /\ down' = down \ {key}
                    /\ UNCHANGED owner

Release(key) == /\ key \in down /\ owner[key[1]] = key[2]
                /\ down' = down \ {key}
                /\ owner' = [owner EXCEPT ![key[1]] = 0]

Surrendered(key) == /\ key \in down /\ owner[key[1]] # key[2]
                    /\ down' = down \ {key}
                    /\ UNCHANGED owner

Struck(key) == /\ key \in down
               /\ owner' = [owner EXCEPT ![key[1]] = key[2]]
               /\ UNCHANGED down

Tapped(key) == /\ key \notin down
               /\ owner' = [owner EXCEPT ![key[1]] = 0]
               /\ UNCHANGED down

InTime(t) == t > frontier - Late

\* An edge of the input queue, dispatched at the sample its time is mapped to.
KeyEdge(key, t) ==
  /\ Playing /\ InTime(t) /\ Len(replay) < MaxEdges
  /\ \/ Press(key) /\ HandleInput(key[1], "Pressed", t)
     \/ Release(key) /\ HandleInput(key[1], "Released", t)
     \/ Surrendered(key) /\ UNCHANGED engine
  /\ UNCHANGED <<frontier, baseline, pauses, stale, verifier>>

\* The edges of a lane that waited too long: only the state they end in is
\* passed on.  A press and a release of one key leave nobody in the lane, the
\* reverse leaves it to that key.
CatchUp(key, t) ==
  /\ Playing /\ stale < MaxStale
  /\ \/ (Press(key) \/ Struck(key)) /\ SyncInputState(key[1], "Pressed", t)
     \/ (Release(key) \/ Tapped(key)) /\ SyncInputState(key[1], "Released", t)
  /\ stale' = stale + 1
  /\ UNCHANGED <<frontier, baseline, pauses, verifier>>

\* The end of an audio callback.  The clock does not step back, and the inputs
\* of the callback are not ahead of it.
Callback(t) ==
  /\ Playing /\ t > frontier /\ (\A s \in LastEdge : s <= t)
  /\ Advance(t)
  /\ frontier' = t
  /\ UNCHANGED <<down, owner, baseline, pauses, stale, verifier>>

\* Pause and resume: whatever was pressed or released meanwhile, a lane stays
\* with its owner only if that key is still held, and nobody takes it over.  An
\* input may have carried the last advance past the sample the play resumes at.
Resume(held, t) ==
  /\ Playing /\ pauses < MaxPauses /\ InTime(t)
  /\ down' = held
  /\ owner' = [l \in Lane |-> IF <<l, owner[l]>> \in held THEN owner[l] ELSE 0]
  /\ baseline' = [todo |-> Lane, at |-> t]
  /\ pauses' = pauses + 1
  /\ UNCHANGED <<engine, frontier, stale, verifier>>

\* rebaseline_gameplay_start_input_state: at the start and after a pause every
\* lane is told its state, in their order.
Rebaseline(l) ==
  /\ l \in baseline.todo /\ \A m \in baseline.todo : l <= m
  /\ call.stage = "idle"
  /\ IF Ended THEN UNCHANGED engine
     ELSE SyncInputState(l, IF owner[l] # 0 THEN "Pressed" ELSE "Released", baseline.at)
  /\ baseline' = [baseline EXCEPT !.todo = @ \ {l}]
  /\ UNCHANGED <<down, owner, frontier, pauses, stale, verifier>>

Live ==
  \/ Inside /\ UNCHANGED <<keyboard, verifier>>
  \/ \E key \in Keys, t \in Samples : KeyEdge(key, t) \/ CatchUp(key, t)
  \/ \E t \in Samples : Callback(t)
  \/ \E held \in SUBSET Keys, t \in Samples : Resume(held, t)
  \/ \E l \in Lane : Rebaseline(l)

-----------------------------------------------------------------------------
\* A play that was paused, or that caught up with stale edges, is no record.
Submitted == Over /\ pauses = 0 /\ stale = 0

\* The verifier: before each group of edges of one sample an advance to the
\* sample before, then the edges, and at the end an advance past the chart.
Ready == Submitted /\ call2.stage = "idle" /\ ~Again!Ended
Edge == replay[cursor]

Seek ==
  /\ Ready /\ cursor <= Len(replay) /\ Edge.at > 0 /\ reached < Edge.at - 1
  /\ Again!Advance(Edge.at - 1)
  /\ reached' = Edge.at - 1
  /\ UNCHANGED <<engine, keyboard, cursor>>

Feed ==
  /\ Ready /\ cursor <= Len(replay) /\ (Edge.at <= 0 \/ reached >= Edge.at - 1)
  /\ Again!HandleInput(Edge.lane, Edge.state, Edge.at)
  /\ cursor' = cursor + 1
  /\ UNCHANGED <<engine, keyboard, reached>>

RunOut ==
  /\ Ready /\ cursor > Len(replay) /\ reached < LastSample
  /\ Again!Advance(LastSample)
  /\ reached' = LastSample
  /\ UNCHANGED <<engine, keyboard, cursor>>

Verified == Submitted /\ call2.stage = "idle" /\ (Again!Ended \/ reached = LastSample)

Verify == \/ Seek \/ Feed \/ RunOut
          \/ Again!Inside /\ UNCHANGED <<engine, keyboard, cursor, reached>>

\* The session is over, and the verdict is known where there is one.
Rest == Over /\ (Submitted => Verified) /\ UNCHANGED <<engine, keyboard, verifier>>

PlayNext == Live \/ Verify \/ Rest
play == <<engine, keyboard, verifier>>
PlaySpec == PlayInit /\ [][PlayNext]_play

\* The audio device keeps calling back, a call returns, the verifier goes on.
PlayFair ==
  /\ PlaySpec
  /\ WF_play(Inside /\ UNCHANGED <<keyboard, verifier>>)
  /\ \A l \in Lane : WF_play(Rebaseline(l))
  /\ WF_play(\E t \in Samples : Callback(t))

-----------------------------------------------------------------------------
PlayType ==
  /\ \A l \in Lane : /\ lanes[l].next \in 1..(Len(Notes[l]) + 1)
                     /\ lanes[l].mine \in 1..(Len(Mines[l]) + 1)
                     /\ lanes[l].hold.note \in 0..Len(Notes[l])
  /\ gauge \in Gauges
  /\ \A i \in DOMAIN replay : replay[i] \in [lane: Lane, state: States, at: Int]
  /\ down \subseteq Keys
  /\ \A l \in Lane : owner[l] # 0 => <<l, owner[l]>> \in down
  /\ frontier \in -1..LastSample

\* The verifier reproduces the play: the same judgements in the same order, the
\* same gauges, the same end (GameplayEngine.cpp:158-160).
VerifierAgrees ==
  Verified => log2 = log /\ gauge2 = gauge /\ over2 = over /\ finished2 = finished

\* A play comes to its end, whatever the player does: every note is judged or
\* missed, every hold is released or runs out.
PlayEnds == <>Over
=============================================================================
