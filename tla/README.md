# TenRiff, specified

TLA+ modules, TLC configurations and machine-checked proofs about TenRiff, a
rhythm game in C++. This file says which parts the program has, which of them
are modelled and how, what each run shows and what is proved.

## 1. The system

The program is one process with several threads (menu and game thread, render
thread, input thread, audio callback, and a worker per service) and, in
multiplayer, several processes that exchange frames over TCP.

| Component | State it keeps | Operations | Talks to |
|---|---|---|---|
| Multiplayer room (`network/PeerSession.cpp`, `app/MenuAppMultiplayer.cpp`) | snapshot `current` (participants, leader, rate, votes), `active_round_nonce`, `last_closed_round_nonce`, pending launch/begin/score, `join_order`, links; in the menu: matched chart, screen, match flags | host, join, disconnect, set_local_chart, set_ready, set_rate, send_launch, mark_loaded, send_begin, publish_score, reset_round; one handler per frame on each side | the other processes by TCP; menu and game thread by calls and snapshots under a mutex |
| Peer wire format (`network/PeerProtocol.cpp`) | none | encode, decode, sanity of scores | room |
| LAN discovery (`network/LanDiscovery.cpp`) | rooms seen, with their expiry | announce, browse | menu |
| Gameplay engine (`gameplay/GameplayEngine.cpp`) | lanes (next note, hold, mines), recorded edges, score, combo | handle_input, sync_input_state, advance, finalize | game session (calls), replay |
| Gauge (`game/GaugeManager.cpp`) | the values of seven gauges, the active one | apply_judgement, auto-shift | engine |
| Replay (`gameplay/Replay.cpp`, `app/ReplayVerifier.cpp`) | recorded lane events, header | record, load, verify by running the engine again | engine |
| Game session (`app/GameSession.cpp`) | phase of one play | init, run, pause, quit, shutdown | engine, audio, input, render |
| Input (`input/`, `LaneBindingState`) | owners of each key, its debounce, last polled state, event queue, lane bindings | pump RawInput messages, poll, filter, fall back to polling, push, pop, focus loss | the operating system, game session |
| Audio output and clock (`audio/`, `timing/ClockSync.cpp`) | backend, mixed samples, filtered clock | start, callback, fall back to another backend, sync | game session |
| Audio streaming (`app/GameSessionTail.inl`, `ChartAudioStreaming.h`, `ChartAudioDedup.h`) | load state of each file, load queue, registry of decoded sounds, voices, what was already heard | plan the start, prefetch, decode, publish, schedule, mix, end the play, join | two loader threads, the audio callback, the session's loop |
| Score upload (`app/SitesLeaderboardClient.cpp`, `SitesLeaderboardConnection.cpp`, `MenuAppAccount.cpp`) | Guest or Online, permission of the play, queue of scores, generation, two connection files | choose the mode, enqueue, cancel, post, retry, import and clear a connection | menu, its worker, the site by HTTP |
| Song index (`app/SongIndex.cpp`, `app/SongIndexerThread.cpp`) | snapshot of songs, job in progress | scan, cancel, publish | menu |
| Menu application (`app/MenuApp.cpp`) | screens, settings | navigation, launch | everything |
| Menu music and previews | latest request, playing track | request, decode, stop | menu, audio |
| Global chat and leaderboards | queue of requests, last answers | poll, submit, retry | menu, HTTP |
| Charts (`chart/`), mode conversion, rendering, configuration | none across calls | parsing, conversion, drawing | menu, session |

**What is hard in it.** (1) The room: every process acts on its own copy while
frames cross in both directions, players leave at any point of a round, and the
menu thread changes the copy optimistically. (2) The engine: inputs arrive out of
order and late, holds and misses compete for the same instant, and a replay must
reproduce the play. (3) Threads that hand over work through bounded buffers and
latest-request mailboxes (input, audio, indexer, menu music). (4) Fallbacks
(audio backends) and retries (HTTP clients).

**What makes each part correct.** Room: no vote outlives the settings it was
given for; nobody plays before everybody has loaded; a round outlives its
players; late frames never cost a healthy player the connection; everybody gets
back to the lobby; participants, links and order of joining agree. Engine: every
note is judged exactly once, in the order of the samples, and the result does not
depend on how the inputs are cut into calls; the gauge never leaves its limits
and never recovers after failing. Replay: re-simulation gives the recorded
result. Input: a key that nobody holds is up in the game, whatever mirrors, lost
edges and fallbacks lie on the way, and a bounce never passes as a press. Chart
audio: a sound of one chart time is begun once, no copy is dropped for nothing,
the first seconds are loaded, the end is heard. Score upload: a play that Guest mode
has touched never leaves the machine, an old key is never used again, the result
screen tells the truth. Audio output: one backend at a time, the clock never steps back.
Indexer, music: a cancelled or superseded job publishes nothing.

## 2. The plan

Done:

1. **PeerRoom** (section 3), its runs, and the theorems about its seats, its frames, its
   rounds, its votes and its matches: every safety property the runs check is proved.
2. **Gauge, GameplayEngine, Play** (section 4): the engine with its gauges, an attempt
   driven by keys and callbacks, its re-simulation by the verifier; every safety
   property the runs check is proved.
3. **KeyStateTracker, InputThread** (section 5): the filter of the keyboards, the
   thread around it and the queue to the session.
4. **SitesUploads** (section 6): what becomes of a score after the play.
5. **ChartAudioLoader, ChartAudio** (section 7): the loader threads, and the callback
   that mixes what they publish.

Every safety property that a passing run checks is also a theorem, for every value of
the constants (`KeepsTurns`, which holds in rooms of two, for every value with at most two seats); the liveness properties stay with TLC, since the prover reasons neither
about fairness nor about ENABLED.

Next, in this order:

1. **AudioClock**: start, fallback and the clock filter; monotonic time, which is
   what `Play` assumes of its callbacks.
2. **Mailbox**: indexer, menu music and chat workers (latest request wins,
   cancellation), liveness of the last request.
3. **PeerRoom, continued**: the exchange of the chart libraries, the optimistic calls
   around a launch.
4. **InputThread, continued**: gamepads, and the ring buffer with its memory order.

## 3. PeerRoom

`PeerRoom.tla` is the state machine, `MCPeerRoom.tla` gives it initial states for
the runs. `PeerRoomProofs.tla` holds the theorems about seats, types, rounds and votes,
`RoomMatchProofs.tla` what each end knows of a match and the refinement, and
`RoomPlayProofs.tla` those about playing, loading and finishing. `RoomTurns.tla` is the abstract
specification: who is there, who leads, and whether a round is loaded, played or
over, without frames, votes or copies of the room. `PeerRoom` maps the coordinator's
copy to it (`Stage`, `Turns`) and must implement it (`KeepsTurns`). With two seats it
does. With three or more one step does not (finding 5); `SkipsHeir` says which, and
`KeepsTurnsOrSkips` that every other step is one of `RoomTurns`.

### State

| TLA+ | Code |
|---|---|
| `view[p]` | `PeerSession::Impl` of process p: `current` and the private fields next to it. At the host it is the authoritative room, at a joiner the last roster plus the optimistic effects of its own calls |
| `view[p].id, state, members, leader` | `local_player_id`, `state`, the ids of `participants`, `leader_player_id` |
| `.ready, .loaded, .reset, .chart, .score` | the flags of each participant, as sets of ids and functions of the id; a score is `none`, `live` or `final` |
| `.rate, .rev, .ratePending, .pendingRev, .roundRate` | `rate_milli`, `rate_revision`, `rate_change_pending`, `pending_rate_revision`, `round_rate_milli` |
| `.active, .closed, .begun, .finalSent, .launch, .begin, .dirty` | `active_round_nonce`, `last_closed_round_nonce`, `begin_sent`, `local_final_score_sent`, `pending_launch`, `pending_begin`, `pending_score_dirty` |
| `ui[p]` | the menu and game thread: the lobby, loading a chart, waiting in the barrier as leader or follower, playing, result; the chart file it found and the one it searches |
| `order`, `link[c]`, `seat[c]` | `join_order`; `RoomLink` (accepted, handshake complete, to be dropped, gone) and its `player_id` |
| `controls`, `batch`, `broadcasts`, `phase` | the host's queue of local calls, how many of them this pass has swapped out, the frames to distribute, and where the worker is in its pass |
| `up[c]`, `down[c]` | the two directions of the TCP connection, with the socket buffers and wire queues at both ends |
| `faults`, `loadedFor`, `vote`, `rounds`, `spent` | history for the properties, and the bounds |

### Actions

The host's worker loops (`run_host`): `HostLocal` (one local call of the batch),
`HostFlush` (`distribute_broadcasts`), then for any link `HostGreet`,
`HostForget`, `HostReceive`, `HostTimeout`, then `HostEndPass` and, for each link
that was dropped, `HostRemove`. `HostReceive` is `apply_host_action_locked`:
`Rejects` collects the conditions under which a handler returns false (which
drops the link), `Handle` is the state it leaves and what it broadcasts. A
joiner's `Receive` is `apply_client_message_locked`, with `Breaks` for the frames
it fails on. The calls of the menu (`ChooseChart`, `StartMatch`, `FinishMatch`,
`SetReady`, `SetRate`, `SendLaunch`, `Chat`) and of the game thread
(`PollLaunch`, `MarkLoaded`, `LeadBegin`, `FollowBegin`, `AbortLoad`,
`LiveScore`, `FinishGame`, `LeaveResult`) each change the caller's view and queue a
frame in one step, as they hold the session's mutex. `Sever` is the end of a
joiner, whatever the reason: the Disconnect frame overtakes what was not yet
collected and a broken socket loses what was not sent, so the host reads a prefix
and then the end.

Mutants are operators of the same module placed before the definition they
replace; they are not part of the specification.

### Abstractions

A chart fingerprint is a model value, a nonce is the number of the launch
(so two launches never share one, as the code's time stamps make practically
certain), names, chat text, scores beyond none/live/final, round trip times and
statuses are left out. A link delivers in order without loss until it ends (TCP).
The heartbeat appears as `HostTimeout`, which may strike at any time. The chart
libraries are assumed exchanged: every chart is common. A process joins at most
once; that a seat is taken again is covered by a second joiner. The follower's
menu keeps which chart it looks for and which it has found, and not whether the search goes on
(`multiplayer_chart_match_active_`): `FinishMatch` may also find a chart whose search has ended.

### Bounds

`MaxRounds` bounds launches, `MaxExtras` the optional calls and failures in a
behaviour, `UpBound` and `DownBound` the frames under way: a process that has
`UpBound` frames out makes no call until one is processed, and the host
distributes when every joiner is below `DownBound`. One optional event is enough
to reach each hazard listed, since a hazard here is one event (a departure, a
Ready taken back, a new rate) at an unlucky step of a round; two frames per
direction let a call cross a roster and be followed by another one.

A run starts in several rooms that the room reaches by itself (`MCPeerRoom`), each with so
much of the bounds used up. The room of `room_trio` that is ready for its first round has two
launches and two events: a joiner can still have the launch of the first round before it
when that round has been called off and the second one launched. `room_pair` has 215,182
states, `room_trio` 1,347,211. Two joiners are the least at which a departure
leaves a room that goes on, and three seats the least at which a rotation can
skip somebody.

### Runs

| Run | Instance | Shows |
|---|---|---|
| `room_pair` | two seats, two charts, two rates, every call, fair threads. From an empty room that two candidates find, with one event or one round to come; and from a full room ready for its second round, led by the joiner, with one event or with somebody else at the door | `TypeOK`; `VotesFresh`: a counted Ready is for the present settings; `SameRate`: all who load or play a round do so at one rate; `KeepsTurns` while the room fills up, plays and empties; `EverybodyReturns`: who enters a match gets back to the lobby |
| `room_trio` | three seats, departures, timeouts, a Ready taken back. From three players ready for their second round, led by a joiner, with one event; from two with the third coming; and from two ready for their first round with two launches and two events | `SeatsAgree`, `BarrierHolds`, `RoundOutlivesPlay`, `RoundFramesAccepted`; `RoundKnown`: a joiner's round is the coordinator's present or last one, never an older one, however late its rosters are; `ClosedInFull`: a round that began closes when everybody who stays has sent a final score and is back in the lobby; `KeepsTurnsOrSkips`: rounds run from launch to begin to end, only a played one passes the lead, to the next in the order of joining, and a departing leader hands it to whoever came after, except in the step of finding 5 |
| `room_heir` | violated | the player after a departing leader is passed over (finding 5) |
| `room_rematch` | violated | a follower never announces the same chart twice (finding 1) |

The deadlock check is off in every run of the room: a room closes, and a
behaviour uses up its launches.

### Fairness

`SpecFair` assumes weak fairness of each game thread (it loads, plays to the end
and finally leaves the result screen), of the joiners' workers and of the host's
worker (each is a loop that never blocks: `select` has a time limit), and strong
fairness of `HostReceive`, because a pass of the host reads every readable link
while the model lets it end the pass early. Choosing a chart, pressing Ready or Start is
never assumed.

### Findings

1. **A rematch on the same chart cannot start.** After a round the room clears
   every chart, but a follower's menu keeps its match and returns early when the
   next leader picks the same chart; it never announces it
   (`MenuAppMultiplayer.cpp:1138`).

5. **A leader who leaves last at the result skips its heir.** Removing the leader appoints
   the player who came after; if everybody who stays has left the result, the same call closes the
   round, which passes the lead on once more (`PeerSession.cpp:1157` and `534`, against
   `docs/multiplayer.md:25`). `room_heir` shows the step in a room of three. A leader who leaves earlier in the
   round is followed by the next player as well, who then passes the lead on when the round closes,
   as after any round; `RoomTurns` allows that.

(Findings 2 to 4 are in the sections below.) One more difference between the documents and
the code was met on the way; it has no run: when all opponents leave, the round is closed at
once although the host still plays, and since admission only looks at the round a newcomer
can enter during a match (`PeerSession.cpp:1162`, against `docs/multiplayer.md:20`).

Hazards that the model reaches but no document promises away (a healthy player
dropped because its frame crossed the leader's change, or because it took part in a second
Start or began a launch that was called off; a newcomer that gives up) are listed in `PROJECT.json` with their lines.

Two more of the properties are stated with an exception that the proofs brought to light:

- A link is greeted in the pass in which a round closes, while scores and the Begin of that round
  still wait in `broadcasts`. `distribute_broadcasts` sends them to every greeted link; the newcomer
  knows no round, takes the frame for one of an unknown round and gives up. This is
  a fault of a `newcomer` in `faults` (a joiner that was never `Connected`), and
  `RoundFramesAccepted` speaks of the players who have entered. At the coordinator it speaks of Loaded,
  Score and RoundReset, not of Launch and Begin: a second Start and the Begin of a launch that was
  called off are refused.
- The leader can begin a launch that is being called off. Until its Begin is refused it plays
  a round that the room has closed, and its old roster may name an id that was given to a newcomer
  since. `BarrierHolds` therefore speaks of the coordinator's round; who plays another one has
  its Begin under way (`RoundOutlivesPlay`).

### What is proved

`SeatsAgreeAlways`: `Spec => []SeatsAgree`, for any number of joiners, seats,
charts, rates, rounds and bounds, from `RoomAssumption` alone (the host is not a
joiner, the default rate is a rate, there is at least one seat).

`SeatsAgree` alone is not inductive: it says nothing of a closed room, in which a
worker that ran on could seat somebody, and it does not say that no joiner holds
id 1, without which removing a joiner might remove the host. `SeatInv` adds both,
and the types of `order`, `link` and `seat`. The argument: most steps are
`Undisturbed` (participants, order and occupied links stay, and the leader is
still somebody in the order); a handled frame is one of them
(`HandleGoverns`), because the only leader it can name comes from the rotation,
and the rotation names somebody in the order (`NextLeaderSeated`). `HostGreet`
needs that a free id exists, which follows by counting the ids in the order
(`FreeIdIsFree`), and that appending it adds exactly it (`AppendOne`).
`HostRemove` needs that taking one id out of an order without repetition takes
out nobody else (`WithoutOne`) and that the new leader is among the rest
(`RemoveLeaves`). `HostClose` ends all passes.

`RoomTyped`: `Spec => []TypeOK`. A roster is typed only if the room it is made from
has a leader, so `RoomInv` is `SeatInv` together with the types of every copy, queue
and book (`Netted`, `Booked`), with the fact that a roster or welcome under way names
a leader, and with two facts about the worker: the host is never in a joiner's
handshake (`HostPresent`), and the calls of a pass are among those queued (`Batched`).

Of the rounds three invariants are proved, again from `RoomAssumption` alone:

| Theorem | Property |
|---|---|
| `RoundsKnown` | `RoundKnown`: the round a player is in is the coordinator's, or the one it closed last |
| `OneRate` | `SameRate`: whoever is in the coordinator's round plays it at the coordinator's rate |
| `VotesCurrent` | `VotesFresh`: a counted vote is the player's last word on the current settings, or his next word is under way |

None of them is inductive, since a late roster or launch could undo it. `RoundInv` says
what may be late. A roster and a launch are stamped with the revision, the rate and the
round. The revision never falls, and grows with every change of the rate and every end
of a round; so a stamp is the room's present one, or of an earlier revision with a round
that is over (`OfRoom`). The stamps on a joiner's queue and in the broadcasts are in
order and none is earlier than his copy (`Follows`). The votes he has under way are
in order, no later than his copy and no later than the broadcasts (`Votes`). A
counted vote thus says that its player's copy has the current revision, and that
nothing older is under way to him. When a round starts all votes are counted, so
that no stamp of the same revision without the round can be behind it. The proof is in two
layers: each of the coordinator's handlers is a `Turn` (the settings stay, a round
starts on the settings all are ready for, or the room moves on to a later revision) whose
broadcasts bear the new stamp (`HandleTurns`, `RemoveTurns`), and a turn preserves every
joiner's end (`JoinedTurn`); then one lemma per action. A link that is cut loses
what it carries from some frame on (`SeverJoined`), which leaves the order of the rest.

`RoomMatchProofs.tla` and `RoomPlayProofs.tla` prove the rest, from the same assumption:

| Theorem | Property |
|---|---|
| `TurnsKept` | `KeepsTurnsOrSkips`: every step of the coordinator's room is one of `RoomTurns`, or the one of finding 5 |
| `TurnsKeptByTwo` | `KeepsTurns`: in a room of at most two seats it implements `RoomTurns` |
| `RoundOutlives` | `RoundOutlivesPlay`: a round stays open while somebody plays it or looks at its result |
| `Barrier` | `BarrierHolds`: nobody plays before every player of his roster has loaded |
| `RoundsCloseInFull` | `ClosedInFull`: a round that began closes when everybody who stays has sent a final score and is back in the lobby |
| `RoundFramesPass` | `RoundFramesAccepted`: no Loaded, Score or RoundReset is refused by the coordinator, no Begin or Score by a player who has entered |

They begin with the shape of a step (`Shape`): which of the two ends of each link, the
calls and the coordinator's copy a step may change together, so that every later invariant is
checked against ten shapes and not against each action. On that stand seven invariants,
each resting on those before it:

- `HostInv`, the coordinator's own round: its menu, its queued calls, and every launch under
  way, whose nonce is none that was closed. `TurnsKept` follows: the initial room maps to
  one of `RoomTurns`, and each handler is a turn or a stutter. The rotation is the hard
  part, since the code counts positions in `join_order` and in `participants` without whoever
  left. The removal of a leader that also closes the round is the only step that is neither
  (`SkipsHeir`), and it needs a third player (`NobodyToSkip`). `RoomTurns!Rest` is written with `SubSeq` because nothing can be proved about the recursion in
  `SelectSeq`.
- `WireInv`: the Loaded, Begin, Score and RoundReset frames on a link are of the round that runs
  or, between rounds, of the one closed last; and no such frame follows its sender's vote for the next
  one. This is why one remembered round is enough at the coordinator.
- `CopyInv`, what a joiner will have read once it has read everything under way: it is greeted once
  and first, a launch finds it in the lobby, and the leader and the members it then knows are the room's. A
  menu that has not come back from the last round has cast no vote.
- `PlayInv`: whoever plays is in the round the coordinator has seen begin, or its Begin is under way; a
  Begin or score on the way to a joiner finds it in the round it is about; nobody scores before the
  Begin. `RoundOutlives` is its consequence.
- `LoadInv`: every loaded flag, in the coordinator's copy, in a joiner's copy and in a roster under way, is
  backed by a report of the player who has that id; and a Begin, said or counted, means that all are.
  An id is given again after a departure, but nobody is seated while a round runs, so an id
  of the round keeps its owner. `Barrier` follows.
- `ScoreInv`: a final score is its sender's last, RoundReset comes after it, and a joiner leaves the result only
  after the coordinator's own final score. A RoundReset that was counted finds its sender in the lobby
  (`Home`). `RoundsCloseInFull` follows.
- `FrozenInv`, the frames left on a link that the coordinator has given up: a prefix of what was under
  way, then the end, and so still in tune with what the joiner knows. With it no late
  frame of a round is refused (`RoundFramesPass`).

Of the properties of the room only `EverybodyReturns`, which is liveness, stays with TLC.

## 4. Gauge, GameplayEngine, Play

`Gauge.tla` holds the operators of the gauge, `GameplayEngine.tla` the judgement
engine, `Play.tla` one attempt: the keys and the audio callback drive an engine, and
when it has ended a second engine (`Again`, an instance of the first) is driven by
the recorded edges. `MCPlay.tla` has the charts and the gauges of the runs,
`GameplayEngineProofs.tla` the theorems about the engine and its gauges,
`PlayProofs.tla` those about a play.

### State

| TLA+ | Code |
|---|---|
| `lanes[l]` | `LaneState`: `next_index`, `next_mine_index`, `mask_until`, `key_down`, `hold` (the note it belongs to, its end, whether its release is judged) |
| `gauge` | `gauge_shift_states_` from the starting tier on; the shown one is `Shown(gauge)` |
| `log` | no variable of the code: every `apply_judgement` and every detonation in order, with the sample that caused it. It stands for the counts, the score, the combo and the analysis, all functions of this sequence |
| `replay`, `finished`, `over` | `replay_.events`, `finished_`, `game_over_` |
| `call` | the call of the engine in progress and its local variables; the loops of the code are steps that repeat while `call` lasts |
| `down`, `owner` | `LaneBindingState`: the keys it takes for pressed and the owner of each lane |
| `frontier`, `baseline` | the sample of the last `advance`; the lanes still to be told their state at the start or after a pause |
| `lanes2` ... `call2`, `cursor`, `reached` | the engine of `verify_replay_against_chart`, its `index` into the trace, and how far it has advanced |

### Actions

`HandleInput`, `SyncInputState` and `Advance` start a call; each first runs the loop of
`advance_chronological` (`AutoMine`, `AutoMiss`, `AutoHold`, one due event per step,
chosen by `IsNext`, then `Finalize`). An input goes on with `InputEdge` (the edge is
recorded and applied, a release settles the hold), the mines of its own sample
(`EdgeMine`, `EdgeDone`) and, for a press, the turns of `try_hit_note`: `Skip`
(a note given up as too late or for a better one), `Hit`, `NoHit` (with the empty
POOR). No other call begins while one runs, because the engine is only used under the
session's mutex.

In `Play`, `KeyEdge` is a fresh edge (binding, then `dispatch_lane_input`), `CatchUp`
what is left of stale ones, `Callback` the advance that ends an audio callback,
`Resume` a whole pause, `Rebaseline` the synchronisation of one lane. `Seek`, `Feed` and `RunOut`
are the loop of the verifier. `Submitted` says which plays are records: those without a
pause and without stale edges.

### Abstractions

A sample is a small integer and the windows are a few samples wide. Gauge values
are whole units and weights count halves. The five judgements, the windows and the
gauge tables are constants. Scores, accuracy, the OD8 judgements and the
feedback are functions of `log` and left out. The rulesets kept for old replays
(judgement lane after lane, releases that can be taken back) and Sudden
Death are left out. The clock that maps input times to samples is reduced to its
effect: an input has any sample later than the last advance less `Late`, and an
advance never goes back nor stops short of an input of its callback.
`Resume` leaves any set of keys pressed.

Two assumptions on the constants are named. `EngineAssumption` gives the shapes; the
order of the notes in a lane (the constructor sorts them) is not needed by any
theorem. `LeadIn` says that no note lies within `Early` of the start if a key may be
held then: every play has a lead-in of three seconds (`GameSession.cpp:68`) and
`Early` is one. It matters because a key held at the start is recorded as an edge by
`sync_input_state`, which judges no press, and is played back by `handle_input`,
which does.

### Bounds

`LastSample` is the end of the chart plus the verifier's slack: it is past the last
deadline (a release of a charge note) of every chart used, so that every play can end.
`MaxEdges` bounds the recorded edges, `MaxPauses` and `MaxStale` the pauses and
catch-ups. Four edges are enough to press and release both lanes of
`play_replayed` in any order, or one lane twice, with any callbacks between
them; its windows are so narrow that each of a hit, a bad hit, a stray press, a
miss and a mine happens at its own sample. Three edges, a pause and a catch-up are enough in
`play_disturbed` to hit both heads and lose either release in each of the three
ways (an edge, a state found after a pause, a state left by stale edges).

### Runs

| Run | Instance | Shows |
|---|---|---|
| `play_replayed` | two lanes: a hold, a tap close behind it and a mine; a charge note and a killing mine. One key may be held at the start | `VerifierAgrees`: the verifier makes the same judgements in the same order, with the same gauges and the same end, however the play was cut into callbacks; `JudgedInOrder`, `JudgedOnce`, `PlayType` |
| `play_disturbed` | one lane, two charge notes close together, inputs up to two samples late, a pause, a catch-up, with fairness | `TailsSettle`: a head that was hit is followed by its tail; `ReplayInOrder`; `FailureIsFinal` and `GaugeOnlyFalls`: what has failed stays failed; `PlayEnds` |
| `replay_tail_mine` | violated | the verifier sets off a mine the play ended before (finding 2) |
| `hold_transfer` | violated | a new hold replaces the one still held (finding 3) |

Deadlock is checked in all of them: an attempt that has ended, and has been verified if
it is a record, stutters in `Rest`; anything else that could not go on would be an error.

`VerifierAgrees` holds under two conditions. No lane has a mine behind the last event of
the play (finding 2 takes this away; `MinesInTime`), and no input arrives behind an advance (`Late = 0`):
a late edge is recorded at its own sample although what fell due in between is judged,
so the verifier judges it earlier than the play did (`GameplayEngine.cpp:164`). The theorem
below holds under the same two, and `play_replayed` satisfies all its premises. `JudgedInOrder` is for charts whose holds outlast the BAD window.

### Fairness

`PlayFair`: a call of the engine runs to its end, the lanes are told their states
in turn, and the audio device goes on calling back with a later sample (weak fairness of
the callback, `audio_callback`, whose clock does not go back). Nothing is assumed of the
player: keys may stay pressed for ever.

### Findings

2. **A mine behind the last note is only in the verification.** `finalize_if_done` does
   not wait for mines, so the play ends with the last note; the key is often still down, as its
   release comes after the end and is not recorded, and the verifier's last advance
   sets the mine off (`ReplayVerifier.cpp:434`, against
   `docs/baseline-1.8.7.en.md:25`).
3. **A transfer between two keys can swallow a tail.** The strike of a second key
   hits the next head while the first hold goes on, and the new hold replaces it
   (`GameplayEngine.cpp:638`, against `docs/gameplay-guide.en.md:238`).

### What is proved

For every chart, every gauge table, every window and every sequence of calls with
any integers for samples, from `EngineAssumption` (and, for the last one, `GaugeAssumption`):

- `EdgesInOrder`: `Spec => []ReplayInOrder`. The invariant `InOrder` adds that the
  sample of a call that is going to record is not before the last recorded one;
  `NotBefore` establishes it when the call begins, and nothing is recorded in
  between.
- `NothingJudgedTwice`: `Spec => []JudgedOnce`. The invariant `Once` ties the log to
  the lanes: a head or a miss in the log is of a note before `next`, a mine before
  `mine`, a tail of a note before `next` that is not the one held (`Behind`), and
  what is held lies before `next`. Every step moves the lanes forward (`LaneMovesOn`), so old
  entries stay behind, and what a step adds is not behind before it
  (`GiveUpOnce`, `PassMineOnce`, `SettleOnce`, `HitOnce`), hence unlike any old entry (`NothingTwice`).
- `FailureStands`: `Spec => FailureIsFinal`. The invariant `Harmless` says in which
  stages a call can be when the play has failed, and that a key edge whose mines are still
  to come then finds its key up, so that no mine goes off.

- `GaugesOnlyFall`: `Spec => GaugeOnlyFalls`. That a failed tier is not
  touched says nothing of its value; `GaugeInv` adds that it stands at zero (`OnlyFalls` is what a
  judgement, a mine and a killing mine have in common). The tier on display is the
  least one that survives, and `FirstSurvivor` shows that it exists.

Four properties are about a play and not about the engine under any caller, so they are theorems of
`PlaySpec` (`PlayProofs.tla`); what they need of the chart and of the play is a premise of the theorem:

- `JudgedByTheClock`: `[]JudgedInOrder`, for charts in order whose holds outlast the BAD
  window (`Charted`), without pauses and stale edges (`Undisturbed`), with inputs that do not
  trail the clock by more than the sample it stands on (`Late <= 1`). The invariant says that
  nothing in the log is later, and nothing still due is earlier, than a bound that depends on
  the stage: the last of clock and edges between two calls (`OnTime`), the sample of the
  call inside it (`CallTimes`). The chronological loop takes the least sample due
  (`FirstDue`), which is why the log stays in order; a press can only add what falls
  due after it, and that is where `Charted` is needed.
- `TailsSettled`: `[]TailsSettle`, with one key per lane, if the chart has no mines or the play
  is `Undisturbed`. `Grip` says that a lane with a hold has its key down, is still to
  be told its state after a pause, or has its release under way, so no press
  meets a hold; `Aware` says that a synchronised release finds the key as the engine
  knows it, or no hold at all. That is where the premise comes from: a mine puts the engine's
  key up, and a release that is only synchronised then is no edge. `Heads` is the property
  with the log as a set.
- `PlayTyped`: `[]PlayType`, without any premise. The invariant `Typed` joins `EngineType` with
  the cursors of every lane inside its chart (`InChart`), the types of the two gauges and
  `Owned`: the owner of a lane is one of the lane's keys and is down. `Owned` has to get
  through pauses, edges that find their key already so, and keys held from the start.
- `VerifierReproduces`: `[]VerifierAgrees`. The premises: the notes and the mines of a lane are in
  order (`Sorted`); every mine lies before the earliest hit of some lane's last note, so that the play cannot end
  before it (`MinesInTime`, which excludes finding 2 and a little more than it); if keys may be held at the start, no mine lies at its sample and
  a press that meets a note within the BAD window is not too early for an empty POOR (`LedIn`: the lead-in
  of three seconds shifts notes and mines alike, `GameSessionTail.inl:887`); `Late = 0`.

  The two engines cut time differently and the verifier knows only the recorded edges, so no
  invariant relates their states step by step. Both are instead seen as ways through
  the same *turns*. A shot is what an engine has judged (its board), how many of the recorded edges it has taken,
  and the press it is in; `Turn` relates a shot to the next: the first event due before the next edge, or that edge, or a step of its press.
  `Played` says of the live engine, whatever its callbacks, that its shot can be reached from the start by turns of the trace
  so far (`Reaches`); adding an edge to the trace, and time to the clock, keeps what was reached because
  nothing is recorded behind the clock (`Kept`). `Leads` says of the verifier that
  the live play's end can be reached from the verifier's shot. A turn is
  determined by its shot, except at an edge of the first sample, where a held key is either synchronised (live) or pressed
  (the verifier); the lead-in makes both lead to the same board. So the verifier, whichever step it takes,
  never leaves the way to that end; and where it stops no turn is left, so it is there (`AgreesAtLast`).

All of them rest on `EngineType`, the types of lanes, log, edges and call, proved first.
`PlayEnds` is a liveness property and stays with TLC; every other property of the table that holds is proved.

## 5. KeyStateTracker, InputThread

`KeyStateTracker.tla` holds the operators of `KeyStateTracker::process` for one logical key,
`InputThread.tla` the thread around them, `MCInputThread.tla` names the keyboards of the
runs, `InputThreadProofs.tla` holds the theorems.

### State

| TLA+ | Code |
|---|---|
| `held`, `wire`, `registered`, `foreground` | the operating system: the keyboards on which the key is down, the RawInput messages posted, whether the hidden window still is the registration's target, who owns the foreground |
| `backend`, `step`, `gate`, `lastState` | `active_backend_`, the place in the loop, `last_input_allowed_`, `last_state` of the poll |
| `key` | `KeyState`: the sources that own the key, those whose press was rejected, the debounce left to each, the count, `polling_only_cycle` |
| `queue`, `down` | `event_queue_`, and `PhysicalKey::down` of the session's binding |
| `quiet`, `baselined`, `slipped` | history: the last release that was let through, whether the key was down when the focus last moved, and whether it was lifted between the two looks of the fallback |

### Actions

`PressKey`, `ReleaseKey`, `AutoRepeat`, `ChangeFocus`, `LoseRegistration` and `Tick`
belong to the keyboards and the operating system. The thread pumps one message
(`PumpMessage`), finds none left (`PumpDone`), looks at the focus (`CheckGate`) and polls
(`Poll`); every edge goes through `OnInputEvent` (gate, tracker, push or drop).
`PumpQuits` and `HealthCheckFails` are the two ways into `thread_main_polling(true)`, which looks at
the key twice: `FallBackToPolling` seeds the poll with the inverse of the first look, and
`Reconcile` polls for the second one, which reports the key unless it equals the seed. `PopEdge` and `Rebaseline` are the session.

### Abstractions and bounds

Keys do not interact in the tracker, so one is followed. A time stamp is what is left of a
debounce window, one tick long. Two keyboards and the poll are all the sources that the tracker
distinguishes: an owner, another owner, and the aggregate. Two messages under way let a
press and a release of one key wait while the poll sees both or neither; a queue of one edge is
always nearly full. The push and pop of the ring are single steps (its memory order is not modelled);
gamepads and latency counters are left out. `input_keys` has 863,472 states.

### Runs and fairness

| Run | Instance | Shows |
|---|---|---|
| `input_keys` | two keyboards, the poll, every fault, a debounce of one tick, a queue of one edge | `TrackerConsistent`: the count is the number of owners; `NotStuckDown`, `NoPressForgotten`: once the thread has caught up, the tracker agrees with the fingers, with the named exceptions; `MirrorsCannotBypass`: the second source of a bounce does not get it through; `LetGoInTheEnd`: a key that is left alone is let go for good |
| `input_focus` | violated | the session's binding keeps a key that was released while the game had no focus (finding 4) |

`FairSpec` assumes that the thread keeps looping, that its health check comes round every
100 ms, and that the session drains its queue. Nothing is assumed of the fingers or the focus.
Deadlock is not checked: a thread with no message, no change and no tick left to count
has nothing to do.

### Findings

4. **Losing the focus does not reset the binding.** The gate forgets the tracker's
   keys, but pushes no release, and the session keeps the key down until it is pressed
   again (`InputThread.cpp:427`, against `docs/current-state.en.md:171`).

One more difference was met on the way; it has no run of its own. The fallback takes the
key's state for a seed and then polls against the seed's inverse. If the key is lifted
between the two looks the second equals the seed and nothing is reported; the RawInput
release died with the registration, so the press stays in the tracker until the next press or
focus change (`InputThread.cpp:746` and `560`, against the comment at 740 and
`docs/latency.en.md:17`). `NotStuckDown` and `LetGoInTheEnd` name this one release
(`slipped`) and hold for every other.

### What is proved

For any number of keyboards, any window, queue and limit on the messages under way, from
`KeyboardsAssumption` and `WindowAssumption`:

- `OwnershipConsistent`: `Spec => []TrackerConsistent`. With the type of the key the invariant is
  inductive as it stands: each case of `process` has a lemma that says it keeps a consistent key
  consistent (the counting is done once, on finite sets of sources), and every action of the
  thread either leaves the key alone or is one of them. `InputTypes` (`[]TypeOK`) adds the
  other variables.
- `MirrorsFiltered`: `Spec => MirrorsCannotBypass`. `QuietInv` says what the step's
  property needs of the state before: while the window of a release runs, the
  source that released and the poll have at least as much of their own debounce left.
- `NeverStuckDown` and `NoPressLost`: `Spec => []NotStuckDown`, `Spec => []NoPressForgotten`.
  Neither says anything of a thread that is behind; `CaughtUp` does. The last message of
  a keyboard under way tells where its finger is (`WireInv`); an owner of the key holds it, has
  a release under way, or the poll believes the key down and will see it go up, or its release
  slipped between the two looks of the fallback (`OwnersInv`); a
  keyboard that holds the key owns it, was rejected or has a press under way, unless the key was down
  before the focus came (`HoldersInv`). With nothing under way the two properties are left.

`LetGoInTheEnd` is a liveness property and stays with TLC.

## 6. SitesUploads

`SitesUploads.tla` follows a score from the end of its play to the site;
`SitesUploadsProofs.tla` holds its theorems.

### State

| TLA+ | Code |
|---|---|
| `online`, `play`, `shown` | `online_play_mode_`, the options and the permission of the play started last, `sites_result_replay_sha256_` with `sites_result_upload_status_` |
| `stage`, `busy` | what the menu thread is doing, and the change of the connection it is in the middle of |
| `enabled`, `stopping`, `pending`, `messages` | the fields of `SitesLeaderboardService` |
| `job` | the local variables of the worker; `job.current` is the comparison of `generation_` with the one the job was taken under |
| `marks`, `files`, `launches` | on disk: `record_play_mode` of each replay, the two connection files; and how often the program was started |
| `guests`, `received`, `valid` | history: plays that Guest mode touched, plays the server has, keys the user has not replaced or removed |

### Actions

The menu: `ChooseMode`, `StartPlay`, `FinishPlay`, `LeavePlay`, `TakeMessages`, an import in two steps
(`BeginInstall`, `FinishInstall` or `InstallFails`), a disconnection in two
(`BeginClear`, `FinishClear` or `ClearFails`), `Shutdown`. The worker: `TakeScore`, `SkipReplay` or
`AcceptReplay`, `ReadConnection`, `Submit`, `Answer`, `Backoff`, `Report`, `WorkerExits`.
`ServerReceives` is the site, which may get a score whose answer is lost. `Relaunch` is the next
process, after an orderly end or a crash at any point.

A post holds `submission_mutex_`, so calls that wait for it are enabled only
when no post is out (`NoPost`).

### Abstractions and bounds

Payloads, hashes and wording are left out; a replay is in order or not. Two plays are needed for an
older message to meet a newer result, two keys for a replaced one, a queue of one to be
full, three attempts (the code's) to retry twice, two launches to restart once. `uploads`
has 251,357 states.

### Run and fairness

| Run | Shows |
|---|---|
| `uploads` | `GuestPlaysStayLocal`, `NoOldKey`: no post carries a play Guest mode touched, nor a key that is gone; `StatusTruthful`: "uploaded" and "guest" on the result screen are true to the server; `OldKeyStaysGone`: no step, failure or crash brings an old key back; `UploadsSettle`: every queued score leaves the service and a shutdown ends |

`FairSpec` assumes weak fairness of the worker only: its thread runs, its sleeps are at most
three seconds, its requests have time limits (`WinHttpSetTimeouts`). Deadlock is not
checked, since the program ends.

Three remarks, all reached by the model and promised away by nothing: a switch to Guest
while a score is queued leaves its status "pending" for good, since the cancelled job
reports nothing; an import that cannot delete the plain file reports an error and cancels
nothing; `enqueue` adds its overflow message without the limit of 16 that the worker keeps.

### What is proved

For any keys, capacity, attempts, plays and launches, from the named assumptions:
`UploadTypes` (`[]TypeOK`), `GuestsNeverPosted` (`[]GuestPlaysStayLocal`),
`RevokedKeysUnused` (`[]NoOldKey`), `ScreenTruthful` (`[]StatusTruthful`) and `OldKeysStayGone`
(the action property, from the same invariant). The inductive invariant `UploadInv` adds to the types:
`Started`, the ids in the queue, the job and the history are of plays that were started;
`Unspoilt`, what is queued or in a current job, and a running play that has its permission, was touched
by no Guest mode; `PostIsCurrent`, a post that is out is of a current job, because whatever
invalidates jobs waits for it; `KeysKnown`, a current job's key, and the keys in the
files, are valid. For the screen `TruthInv` adds `Local`, that a running play, and one that was
kept local, is in no queue, no job and not on the server (a play is queued once, when it
finishes), and `Answered`, that an accepted job or message is about a play the server has.
Only the liveness property `UploadsSettle` stays with TLC.

## 7. ChartAudioLoader, ChartAudio

`ChartAudioLoader.tla` is the streaming: the startup plan, the session's prefetch, the loader threads
and what they publish. `ChartAudio.tla` extends it with the audio callback, which reads what
is published without a lock, and with the session's thread. `MCChartAudio.tla` has the chart of the
run, `ChartAudioProofs.tla` the theorems.

### State

| TLA+ | Code |
|---|---|
| `state`, `samples`, `identity` | `ChartAudioAsset`: its load state and the two atomics of its clip |
| `queue`, `stop`, `serviced`, `registry` | `chart_audio_load_queue_`, `chart_audio_loader_stop_`, `last_chart_audio_service_sample_`, `chart_audio_pcm_registry_` |
| `pc`, `job`, `found` | each loader thread |
| `phase`, `cancelled` | the session's thread, from the plan to the join |
| `at`, `cb`, `turn`, `kept` | the callback: its buffer, the part that runs, the voice it has come to, the voices it keeps |
| `voices`, `next`, `hit` | `chart_audio_voices_`, `next_chart_audio_event_`, the notes that were struck |
| `played`, `candidate` | the occurrences of `ChartAudioDeduplicator` |
| `pending`, `transition`, `finished` | `result_transition_pending_`, `result_transition_sample_`, `finished_` |
| `heard`, `silenced`, `mixedUntil` | history: how often each sound of each chart time was begun, what was dropped as a copy, the end of what was mixed |

### Actions

`Prepare`, `StartPlay` or `CancelLoading`, `Serve`, `Finish` or `Abort`, `StopWorkers` and
`Joined` are the session's thread. A loader sleeps, takes, leaves, decodes (without the lock), and publishes
in two steps, because the callback may read between the stores of `identity` and `samples`. A callback is
`BeginBuffer`, any `Hit`, `Schedule`, one `Consider` per voice, one `Mix` per voice,
`EndBuffer`; a publication may come between any two of them.

### Abstractions and bounds

Decoded data is a model value, so two files are copies when they have the same one; gain is zero or
not. Time is in samples, with buffers of two and clips of three, so that a clip spans
buffers. The chart has two files of one sound that a note and a cue start at the same time, an intro that
the start waits for, and a broken file of unknown length. The visible tail of missed notes in the
result's time, interpolation and synthetic tones are left out. `finished_` stands for the natural
end of a play alone. The callback also sets it at once when a stop is requested or the play is lost, and the
session when Enter is pressed behind the last note; then nothing is promised of what still sounds,
and `Abort`, which may shut the session down at any time, covers them together with the player's exit.
The clock may place an edge behind the buffer's end by up to `Lookahead`, one sample in the run: its voice waits for a
later buffer. `chart_audio` has 376,373 states.

Two assumptions are guards of `BeginBuffer`: `SessionKeepsUp` (the session's loop services the
stream before the callback has used up the prefetch window, fifteen seconds in the code) and
`DecodingKeepsUp` (from `LoadedBy` on, a decoding that was asked for has ended). They bound how
far a thread may lag; within them every interleaving is explored. `LastSample` lies
behind the last end of the chart.

### Run and fairness

| Run | Shows |
|---|---|
| `chart_audio` | `HeardOnce`, `DroppedForATwin`: of the copies of a sound exactly one is begun; `StartsLoaded`; `HeardToTheEnd`: with play_to_end nothing mixed lies behind the playback head at the end; `PlayEnds`: every play ends and its threads are joined |

`FairSpec`: the device keeps asking for buffers, the session's thread and the loaders run, and a
finished play is shut down. The player is not assumed to leave. Deadlock is not checked: a stopped session has
no step.

### What is proved

For every chart, number of loaders, buffer size, latency and window, from the two named assumptions:
`SoundsOnce` (`[]HeardOnce`) and `EverythingHeard` (`[]HeardToTheEnd`). `LoaderInv` says what
a reader of the atomics may rely on: an identity is the registry's id of the file's sound, and a clip
that is published as a sound has its identity before (`ClipsKnown`). `MixInv` ties the history
to the deduplicator: a sound that was heard has an occurrence played with its id, so `claim`
refuses every further copy (`HeardIsRefused`). `TailInv` bounds what is mixed by the buffer's
end, and the transition by the end of every buffer that still had a voice.
`NothingLost` (`[]DroppedForATwin`) needs no assumption.
A copy may be refused for a candidate of the same buffer that is itself refused when its turn
comes. `TwinInv` follows that chain without needing its least element: behind everything
refused, and behind every candidate that had its turn, there is a sound that was heard or a candidate
for the same sound whose turn is still to come; when the buffer ends none is left to come.
`NothingMissing` (`[]StartsLoaded`): a file only moves on, from unloaded to queued, loading and
ready or failed (`MovesOn`), so once the plan has queued what is required and the session has found
none of it queued or loading, all of it is decided, and a decided file has its clip (`StartInv`).
The proof needs of the plan only that it queues what is required; which later files the
budget affords is a fold (`Affordable`), whose value an induction out of the
prover's reach would be needed for, and nothing proved depends on it.
`WellTyped` (`[]TypeOK`) bounds every list by what can enter it, for a chart of any size: an asset is
queued only when unloaded and the queue holds only what is queued, so none is in it
twice (`QueueInv`; `ByIdType` shows that the loop over the assets lists each once); the registry holds
each sound of the files at most once, so every id is a place in it (`IdInv`); each voice is a cue that
was scheduled or a note that was hit, and each kept voice one that was passed (`ListInv`).
Only the liveness property `PlayEnds` stays with TLC.

## 8. Not modelled

- **Audio output and clock, song index, menu music and previews, LAN discovery**: next in the
  plan of section 2.
- **Global chat and leaderboards**: the uploads are modelled (section 6). `GlobalChatService` is
  never configured by the menu, and the record lists are requests with one answer.
- **Peer wire format, charts, key and mode conversion, configuration**: functions from bytes or text to
  data, without interaction; left to the unit tests.
- **Rendering, the menu's screens**: graphics and wording; of the menu, what drives the room and the
  uploads is modelled.
- Within the modelled parts, what each section names under its abstractions.
