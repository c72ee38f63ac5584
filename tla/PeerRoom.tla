------------------------------ MODULE PeerRoom ------------------------------
(***************************************************************************)
(* The multiplayer room of TenRiff (src/src/network/PeerSession.cpp): one  *)
(* process hosts the room and coordinates it, every other process joins    *)
(* over its own TCP link.  Both ends run the same class, so a process is   *)
(* one record "view" (PeerSession::Impl with its snapshot "current"): at   *)
(* the host it is the authoritative room, at a joiner the last roster plus *)
(* the optimistic effects of its own calls.  The menu thread that drives   *)
(* the session (src/src/app/MenuAppMultiplayer.cpp) is the record "ui".    *)
(*                                                                         *)
(* A link is a pair of FIFO channels, up[c] to the host and down[c] to the *)
(* joiner.  The host's worker repeats a pass: apply the local calls queued *)
(* when the pass began, flush the broadcasts to every seated link, process *)
(* the frames that arrived, then remove the links that were dropped.       *)
(***************************************************************************)
EXTENDS Integers, Sequences, FiniteSets

CONSTANTS
  Host,        \* the process that hosts the room
  Joiners,     \* the processes that may join it, once each
  Charts,      \* chart fingerprints (hash and size) every player owns
  NoChart,     \* the fingerprint that is not valid()
  Rates,       \* the valid room rates
  DefaultRate, \* kPeerDefaultRateMilli
  MaxPlayers,  \* kPeerMaxPlayers
  Calls,       \* the optional user calls and failures this instance allows
  MaxRounds,   \* bound on launch nonces
  MaxExtras,   \* bound on the optional calls and failures of a behaviour
  UpBound,     \* bound on the frames one process has under way to the host
  DownBound    \* bound on the frames under way to one joiner

AllCalls == {"choose", "rate", "unready", "live", "chat", "leave", "timeout", "close"}

ASSUME RoomAssumption ==
  /\ Host \notin Joiners
  /\ NoChart \notin Charts
  /\ DefaultRate \in Rates
  /\ MaxPlayers \in Nat \ {0}
  /\ Calls \subseteq AllCalls
  /\ MaxRounds \in Nat /\ MaxExtras \in Nat /\ UpBound \in Nat /\ DownBound \in Nat

VARIABLES
  view,       \* view[p]: what process p's PeerSession holds
  ui,         \* ui[p]: the menu or game thread of process p
  order,      \* the host's join_order
  link,       \* link[c]: the host's RoomLink for joiner c
  seat,       \* seat[c]: the player id the host gave to c, 0 before
  controls,   \* the host's queued local calls
  batch,      \* how many of them the running pass has swapped out
  broadcasts, \* frames queued for every seated link
  phase,      \* where the host's pass is
  up, down,   \* the channels of each link
  rounds,     \* launch nonces used so far
  spent,      \* optional calls and failures so far
  faults,     \* history: why a frame or a call of a healthy player was refused
  loadedFor,  \* history: the nonce of the last mark_loaded of each process
  vote        \* history: the settings of the last Ready of each process, 0 if withdrawn

session == <<view, order, controls, broadcasts>>
wires == <<link, seat, up, down>>
pass == <<batch, phase>>
history == <<rounds, faults, loadedFor, vote>>
vars == <<view, ui, order, link, seat, controls, batch, broadcasts, phase,
          up, down, rounds, spent, faults, loadedFor, vote>>

Procs == {Host} \cup Joiners
Ids == 1..MaxPlayers
MaybeChart == Charts \cup {NoChart}
Scores == {"none", "live", "final"}
NoCharts == [i \in Ids |-> NoChart]
NoScores == [i \in Ids |-> "none"]
-----------------------------------------------------------------------------
(* Frames (PeerProtocol.h PeerMessage), one shape for each message type.   *)

HelloMsg == [type |-> "Hello"]
Bye == [type |-> "Disconnect"]
ChatMsg(i) == [type |-> "Chat", player |-> i]
ChartMsg(x) == [type |-> "Chart", chart |-> x]
ReadyMsg(b, v) == [type |-> "Ready", ready |-> b, rate |-> v.rate, rev |-> v.rev]
RateMsg(r, v) == [type |-> "RoomRate", rate |-> r, rev |-> v.rev]
LaunchMsg(i, x, n, v) ==
  [type |-> "Launch", player |-> i, chart |-> x, nonce |-> n, rate |-> v.rate, rev |-> v.rev]
LoadedMsg(n) == [type |-> "Loaded", nonce |-> n]
BeginMsg(i, n) == [type |-> "Begin", player |-> i, nonce |-> n]
ScoreMsg(i, n, s) == [type |-> "Score", player |-> i, nonce |-> n, score |-> s]
ResetMsg(n) == [type |-> "RoundReset", nonce |-> n]
WelcomeMsg(i, v) == [type |-> "RoomWelcome", player |-> i, leader |-> v.leader]

\* Mutant: the roster's loaded flags are taken from the ready flags.
RosterSwapped(v) ==
  [type |-> "RoomRoster", leader |-> v.leader, nonce |-> v.active, rate |-> v.rate,
   rev |-> v.rev, members |-> v.members, ready |-> v.ready, loaded |-> v.ready,
   reset |-> v.reset, chart |-> v.chart]

\* make_roster_locked: the whole room, without the scores.
RosterMsg(v) ==
  [type |-> "RoomRoster", leader |-> v.leader, nonce |-> v.active, rate |-> v.rate,
   rev |-> v.rev, members |-> v.members, ready |-> v.ready, loaded |-> v.loaded,
   reset |-> v.reset, chart |-> v.chart]

\* Mutant: a relayed frame keeps the sender's id field.
FromSender(i, m) == m

\* The player id the host stamps on a frame it relays.
From(i, m) == [m EXCEPT !.player = i]
-----------------------------------------------------------------------------
(* Views: what start() leaves, and the predicates the session computes.    *)

FreshView(id, state) ==
  [id |-> id, state |-> state, members |-> {}, ready |-> {}, loaded |-> {}, reset |-> {},
   chart |-> NoCharts, score |-> NoScores, leader |-> id, rate |-> DefaultRate, rev |-> 1,
   ratePending |-> FALSE, pendingRev |-> 0, active |-> 0, closed |-> 0, begun |-> FALSE,
   finalSent |-> FALSE, launch |-> NoChart, begin |-> FALSE, dirty |-> FALSE,
   roundRate |-> DefaultRate]

JoinerView == FreshView(0, "Joining")
OffView == FreshView(0, "Off")

\* current.selected_chart: always the leader's chart.
Selected(v) == IF v.leader \in v.members THEN v.chart[v.leader] ELSE NoChart

IsLeader(v) == v.id # 0 /\ v.id = v.leader
Several(v) == \E i, j \in v.members : i # j
Others(v) == v.members \ {v.id}
Matches(v, i) == v.chart[i] # NoChart /\ v.chart[i] = Selected(v)

\* Mutant: one player that left the result is enough.
AnyReset(v) == v.reset # {}

AllReady(v) == Several(v) /\ \A i \in v.members : i \in v.ready /\ Matches(v, i)
AllLoaded(v) == Several(v) /\ v.members \subseteq v.loaded
\* Mutant: final scores are enough, nobody has to leave the result.
AllFinal(v) == v.members # {} /\ \A i \in v.members : v.score[i] = "final"

AllReset(v) == v.members # {} /\ v.members \subseteq v.reset

CanStart(v) ==
  /\ v.state = "Connected"
  /\ IsLeader(v)
  /\ v.active = 0
  /\ ~v.ratePending
  /\ AllReady(v)

RemoteLoaded(v) == Others(v) # {} /\ Others(v) \subseteq v.loaded
RemoteFinished(v) == Others(v) # {} /\ \A i \in Others(v) : v.score[i] = "final"
-----------------------------------------------------------------------------
(* The coordinator's state changes.                                        *)

\* Mutant: the votes outlive the settings they were given for.
InvalidateRateOnly(v) == [v EXCEPT !.rev = @ + 1, !.ratePending = FALSE]

InvalidateVotes(v) ==
  [v EXCEPT !.rev = @ + 1, !.ratePending = FALSE, !.ready = {}, !.loaded = {}]

\* cancel_launch_locked: back to the lobby with the same charts and leader.
CancelLaunch(v) ==
  [InvalidateVotes(v) EXCEPT
     !.closed = IF v.active # 0 THEN v.active ELSE @,
     !.active = 0, !.begun = FALSE, !.finalSent = FALSE, !.launch = NoChart,
     !.begin = FALSE, !.dirty = FALSE, !.reset = {}, !.score = NoScores]

\* Mutant: the last player of the order passes the lead to the second one.
NextLeaderSkips(ord, id) ==
  IF \E k \in DOMAIN ord : ord[k] = id
  THEN LET k == CHOOSE k \in DOMAIN ord : ord[k] = id
       IN ord[IF k = Len(ord) THEN 2 ELSE k + 1]
  ELSE ord[1]

\* next_leader_locked: the player after id in the order of joining.
NextLeader(ord, id) ==
  IF \E k \in DOMAIN ord : ord[k] = id
  THEN LET k == CHOOSE k \in DOMAIN ord : ord[k] = id
       IN ord[(k % Len(ord)) + 1]
  ELSE ord[1]

\* clear_round_locked: the round is over, everybody chooses afresh.
ClearRound(v, ord, rotate) ==
  [CancelLaunch(v) EXCEPT
     !.chart = NoCharts,
     !.leader = IF rotate /\ Len(ord) > 1 THEN NextLeader(ord, @) ELSE @]

Position(ord, id) == CHOOSE k \in DOMAIN ord : ord[k] = id
\* Mutant: the player that joined last is taken out instead.
WithoutLast(ord, id) == SubSeq(ord, 1, Len(ord) - 1)

Without(ord, id) ==
  LET at == Position(ord, id)
  IN [k \in 1..(Len(ord) - 1) |-> IF k < at THEN ord[k] ELSE ord[k + 1]]

\* Mutant: a player left alone stays in its round.
RemoveStaysInRound(v, ord, id) ==
  LET rest == Without(ord, id)
  IN [v EXCEPT !.members = @ \ {id}, !.leader = IF @ = id THEN rest[1] ELSE @]

\* remove_host_player_locked: the leadership passes to the player that now
\* stands where the leader stood; a room of one starts again.
RemovePlayer(v, ord, id) ==
  LET rest == Without(ord, id)
      gone == [v EXCEPT !.members = @ \ {id}, !.ready = @ \ {id}, !.loaded = @ \ {id},
                        !.reset = @ \ {id}, !.chart = [@ EXCEPT ![id] = NoChart],
                        !.score = [@ EXCEPT ![id] = "none"]]
      led == IF v.leader # id \/ rest = <<>> THEN gone
             ELSE [(IF v.active = 0 THEN InvalidateVotes(gone) ELSE gone)
                     EXCEPT !.leader = rest[((Position(ord, id) - 1) % Len(rest)) + 1]]
  IN IF Len(rest) < 2
     THEN [ClearRound(led, rest, FALSE) EXCEPT !.leader = 1, !.state = "Listening"]
     ELSE IF led.active # 0 /\ AllReset(led) THEN ClearRound(led, rest, TRUE) ELSE led
-----------------------------------------------------------------------------
(* apply_host_action_locked.  Rejects(v, src, m) holds when it returns an  *)
(* error, which drops the link of src; Handle(v, src, m) is the room and   *)
(* the broadcasts it leaves otherwise.                                     *)

\* Mutant: the revision of the settings is not compared.
SameSpeed(v, m) == m.rate = v.rate

CurrentSettings(v, m) == m.rev = v.rev /\ m.rate = v.rate

\* Mutant: a frame of the round that just closed is as bad as any other.
NeverLate(v, m) == FALSE
Late(v, m) == m.nonce = v.closed
UnknownRound(v, m) == m.nonce # v.active /\ ~Late(v, m)

Actions == {"Chat", "Chart", "Ready", "RoomRate", "Launch", "Loaded", "Begin", "Score", "RoundReset"}

Rejects(v, src, m) ==
  \/ src \notin v.members
  \/ m.type \notin Actions
  \/ /\ m.type = "Chart"
     /\ v.active = 0 /\ src # v.leader
     /\ Selected(v) = NoChart \/ Selected(v) # m.chart
  \/ /\ m.type = "Ready"
     /\ CurrentSettings(v, m) /\ v.active = 0
     /\ m.ready /\ ~Matches(v, src)
  \/ /\ m.type = "Launch"
     /\ CurrentSettings(v, m) /\ m.chart = Selected(v)
     /\ src # v.leader \/ v.active # 0
  \/ /\ m.type = "Loaded"
     /\ v.active = 0 \/ m.nonce # v.active
     /\ ~Late(v, m)
  \/ /\ m.type = "Begin"
     /\ \/ src # v.leader
        \/ m.nonce # v.active
        \/ v.begun /\ src # v.id
        \/ ~AllLoaded(v)
  \/ m.type = "Score" /\ UnknownRound(v, m)
  \/ /\ m.type = "RoundReset"
     /\ \/ UnknownRound(v, m)
        \/ m.nonce = v.active /\ v.score[src] # "final"

Reply(v, out) == [view |-> v, out |-> out]
Publish(v) == Reply(v, <<RosterMsg(v)>>)

OnChart(v, src, m) ==
  LET led == [v EXCEPT !.chart = [NoCharts EXCEPT ![src] = m.chart], !.ready = {},
                       !.loaded = {}, !.reset = {}, !.score = NoScores]
      confirmed == [v EXCEPT !.chart = [@ EXCEPT ![src] = m.chart], !.ready = @ \ {src}]
  IN IF v.active # 0 THEN Reply(v, <<>>)
     ELSE Publish(IF src = v.leader THEN led ELSE confirmed)

OnReady(v, src, m) ==
  LET voted == IF m.ready THEN [v EXCEPT !.ready = @ \cup {src}]
               ELSE [v EXCEPT !.ready = @ \ {src}, !.loaded = @ \ {src}]
  IN IF ~CurrentSettings(v, m) THEN Publish(v)
     ELSE IF v.active = 0 THEN Publish(voted)
     ELSE IF ~v.begun /\ ~m.ready THEN Publish(CancelLaunch(v))
     ELSE Reply(v, <<>>)

\* Mutant: the rate may change during a round.
OnRateAnytime(v, src, m) ==
  Publish(IF src # v.leader \/ m.rev # v.rev THEN v
          ELSE InvalidateVotes([v EXCEPT !.rate = m.rate]))

OnRate(v, src, m) ==
  LET settled == [v EXCEPT !.ratePending = FALSE]
  IN IF src # v.leader \/ v.active # 0 \/ m.rev # v.rev
     THEN Publish(IF src = v.id THEN settled ELSE v)
     ELSE Publish(IF m.rate = v.rate THEN settled
                  ELSE InvalidateVotes([v EXCEPT !.rate = m.rate]))

OnLaunch(v, src, m) ==
  LET launched == [v EXCEPT !.active = m.nonce, !.roundRate = v.rate, !.ratePending = FALSE,
                            !.loaded = {}, !.reset = {}, !.score = NoScores,
                            !.begun = FALSE, !.finalSent = FALSE, !.launch = m.chart]
  IN IF ~CurrentSettings(v, m) \/ m.chart # Selected(v) \/ ~AllReady(v)
     THEN Publish(v)
     ELSE Reply(launched, <<From(src, m), RosterMsg(launched)>>)

OnLoaded(v, src, m) ==
  IF m.nonce # v.active THEN Reply(v, <<>>)
  ELSE Publish([v EXCEPT !.loaded = @ \cup {src}])

OnBegin(v, src, m) ==
  Reply([v EXCEPT !.begun = TRUE, !.begin = @ \/ src # v.id], <<From(src, m)>>)

\* Mutant: the score stays with the coordinator.
OnScoreSilent(v, src, m) ==
  Reply([v EXCEPT !.score = [@ EXCEPT ![src] = m.score]], <<>>)

OnScore(v, src, m) ==
  IF m.nonce # v.active THEN Reply(v, <<>>)
  ELSE Reply([v EXCEPT !.score = [@ EXCEPT ![src] = m.score]], <<From(src, m)>>)

OnReset(v, ord, src, m) ==
  LET left == [v EXCEPT !.reset = @ \cup {src}, !.ready = @ \ {src}, !.loaded = @ \ {src}]
  IN IF m.nonce # v.active THEN Reply(v, <<>>)
     ELSE Publish(IF AllReset(left) THEN ClearRound(left, ord, TRUE) ELSE left)

Handle(v, ord, src, m) ==
  CASE m.type = "Chat" -> Reply(v, <<From(src, m)>>)
    [] m.type = "Chart" -> OnChart(v, src, m)
    [] m.type = "Ready" -> OnReady(v, src, m)
    [] m.type = "RoomRate" -> OnRate(v, src, m)
    [] m.type = "Launch" -> OnLaunch(v, src, m)
    [] m.type = "Loaded" -> OnLoaded(v, src, m)
    [] m.type = "Begin" -> OnBegin(v, src, m)
    [] m.type = "Score" -> OnScore(v, src, m)
    [] m.type = "RoundReset" -> OnReset(v, ord, src, m)
-----------------------------------------------------------------------------
(* apply_client_message_locked at a joiner.  Breaks(v, m) holds when the   *)
(* joiner fails on the frame; Apply(v, m) is its view afterwards.          *)

Breaks(v, m) ==
  \/ /\ m.type = "Launch"
     /\ \/ m.player # v.leader
        \/ m.chart # Selected(v)
        \/ m.rate # v.rate
        \/ m.rev # v.rev
  \/ m.type = "Begin" /\ (m.player # v.leader \/ m.nonce # v.active)
  \/ m.type = "Chat" /\ m.player \notin v.members
  \/ m.type = "Score" /\ UnknownRound(v, m)

\* apply_client_roster_locked, and Connected once the roster names us.
ApplyRoster(v, m) ==
  LET taken == [v EXCEPT
        !.ratePending = @ /\ m.rev <= v.pendingRev /\ m.nonce = 0 /\ m.leader = v.id,
        !.rate = m.rate, !.rev = m.rev, !.leader = m.leader, !.members = m.members,
        !.ready = m.ready, !.loaded = m.loaded, !.reset = m.reset, !.chart = m.chart,
        !.score = [i \in Ids |-> IF i \in m.members \cap v.members THEN @[i] ELSE "none"],
        !.state = IF v.id \in m.members THEN "Connected" ELSE @,
        !.active = m.nonce]
  IN IF m.nonce # 0 THEN [taken EXCEPT !.roundRate = m.rate]
     ELSE [taken EXCEPT !.closed = IF v.active # 0 THEN v.active ELSE @,
                        !.launch = NoChart, !.begin = FALSE, !.begun = FALSE,
                        !.finalSent = FALSE, !.dirty = FALSE]

ApplyLaunch(v, m) ==
  [v EXCEPT !.active = m.nonce, !.roundRate = m.rate, !.ratePending = FALSE,
            !.begun = FALSE, !.finalSent = FALSE, !.begin = FALSE,
            !.loaded = {}, !.reset = {}, !.score = NoScores, !.launch = m.chart]

Apply(v, m) ==
  CASE m.type = "RoomWelcome" -> [v EXCEPT !.id = m.player, !.leader = m.leader]
    [] m.type = "RoomRoster" -> ApplyRoster(v, m)
    [] m.type = "Launch" -> ApplyLaunch(v, m)
    [] m.type = "Begin" -> [v EXCEPT !.begin = @ \/ m.player # v.id, !.begun = TRUE]
    [] m.type = "Score" ->
         IF m.nonce = v.active /\ m.player \in v.members
         THEN [v EXCEPT !.score = [@ EXCEPT ![m.player] = m.score]] ELSE v
    [] m.type = "Chat" -> v
-----------------------------------------------------------------------------
(* The initial room: the host is listening, nobody has joined.             *)

HostView == [FreshView(1, "Listening") EXCEPT !.members = {1}]
LobbyUi == [at |-> "lobby", path |-> NoChart, target |-> NoChart]

Init ==
  /\ view = [p \in Procs |-> IF p = Host THEN HostView ELSE OffView]
  /\ ui = [p \in Procs |-> LobbyUi]
  /\ order = <<1>>
  /\ link = [c \in Joiners |-> "none"]
  /\ seat = [c \in Joiners |-> 0]
  /\ controls = <<>> /\ batch = 0 /\ broadcasts = <<>> /\ phase = "drain"
  /\ up = [c \in Joiners |-> <<>>]
  /\ down = [c \in Joiners |-> <<>>]
  /\ rounds = 0 /\ spent = 0
  /\ faults = {}
  /\ loadedFor = [p \in Procs |-> 0]
  /\ vote = [p \in Procs |-> 0]
-----------------------------------------------------------------------------
(* The calls of the menu and game thread.  A call changes the caller's own *)
(* view at once and queues a frame: at the host for its own worker, at a   *)
(* joiner for the link (controls and the wire buffer are one channel).     *)

Room(p) == IF p = Host THEN Len(controls) < UpBound ELSE Len(up[p]) < UpBound

Queue(p, m) ==
  IF p = Host THEN controls' = Append(controls, m) /\ UNCHANGED up
  ELSE /\ up' = IF link[p] \in {"greeting", "up", "dropping"}
                THEN [up EXCEPT ![p] = Append(@, m)] ELSE up
       /\ UNCHANGED controls

\* The frame and the new view of one call.
Call(p, v, m) ==
  /\ Room(p)
  /\ view' = [view EXCEPT ![p] = v]
  /\ Queue(p, m)
  /\ UNCHANGED <<order, link, seat, batch, broadcasts, phase, down>>

Enter(p, at) == ui' = [ui EXCEPT ![p].at = at]
Online(p) == view[p].state = "Connected"
Idle(p) == ui[p].at = "lobby" /\ view[p].active = 0

\* set_local_chart on the view of the caller.
AnnounceChart(v, x) ==
  IF v.id \notin v.members THEN v
  ELSE LET own == [v EXCEPT !.chart = [@ EXCEPT ![v.id] = x], !.ready = @ \ {v.id}]
       IN IF IsLeader(v) THEN [own EXCEPT !.chart = [NoCharts EXCEPT ![v.id] = x], !.ready = {}]
          ELSE own

\* select_multiplayer_chart: the leader picks a chart of the common library.
ChooseChart(p, x) ==
  /\ Online(p) /\ Idle(p)
  /\ IsLeader(view[p])
  /\ Call(p, AnnounceChart(view[p], x), ChartMsg(x))
  /\ ui' = [ui EXCEPT ![p].path = x]
  /\ vote' = [vote EXCEPT ![p] = 0]
  /\ UNCHANGED <<rounds, faults, loadedFor>>

\* service_multiplayer_chart_match, a new target: forget the old match and
\* start the search (clear_local_chart, which queues Ready(false)).
StartMatch(p) ==
  LET v == view[p]
      cleared == [v EXCEPT !.chart = [@ EXCEPT ![v.id] = NoChart], !.ready = @ \ {v.id}]
  IN /\ Online(p) /\ Idle(p)
     /\ ~IsLeader(v)
     /\ Selected(v) \notin {NoChart, ui[p].path, ui[p].target}
     /\ IF v.chart[v.id] # NoChart
        THEN /\ Call(p, cleared, ReadyMsg(FALSE, v))
             /\ vote' = [vote EXCEPT ![p] = 0]
        ELSE UNCHANGED <<session, wires, pass, vote>>
     /\ ui' = [ui EXCEPT ![p].path = NoChart, ![p].target = Selected(v)]
     /\ UNCHANGED <<rounds, faults, loadedFor>>

\* ... the search finds the file and announces it (set_local_chart).  Whether a
\* search goes on (multiplayer_chart_match_active_) is not kept: the menu may
\* also find a chart whose search had ended, more than the code does.
FinishMatch(p) ==
  LET v == view[p]
  IN /\ Online(p) /\ Idle(p)
     /\ ~IsLeader(v)
     /\ Selected(v) # NoChart
     /\ ui[p].target = Selected(v) /\ ui[p].path # Selected(v)
     /\ Call(p, AnnounceChart(v, Selected(v)), ChartMsg(Selected(v)))
     /\ ui' = [ui EXCEPT ![p].path = Selected(v)]
     /\ vote' = [vote EXCEPT ![p] = 0]
     /\ UNCHANGED <<rounds, faults, loadedFor>>

\* The Ready row of the menu (set_ready).
SetReady(p) ==
  LET v == view[p]
      b == v.id \notin v.ready
  IN /\ Online(p) /\ Idle(p)
     /\ ~v.ratePending
     /\ Matches(v, v.id)
     /\ Call(p, IF b THEN [v EXCEPT !.ready = @ \cup {v.id}]
                ELSE [v EXCEPT !.ready = @ \ {v.id}, !.loaded = @ \ {v.id}],
             ReadyMsg(b, v))
     /\ vote' = [vote EXCEPT ![p] = IF b THEN v.rev ELSE 0]
     /\ UNCHANGED <<ui, rounds, faults, loadedFor>>

\* The Rate row (set_rate).
SetRate(p, r) ==
  LET v == view[p]
  IN /\ v.state \in {"Connected", "Listening"} /\ Idle(p)
     /\ IsLeader(v) /\ ~v.ratePending
     /\ r # v.rate
     /\ Call(p, [v EXCEPT !.pendingRev = v.rev, !.ratePending = TRUE, !.ready = @ \ {v.id}],
             RateMsg(r, v))
     /\ UNCHANGED <<ui, history>>

\* The Start row (send_launch): nothing marks the request as pending.
SendLaunch(p) ==
  LET v == view[p]
  IN /\ Idle(p) /\ CanStart(v) /\ ui[p].path # NoChart
     /\ rounds < MaxRounds
     /\ rounds' = rounds + 1
     /\ Call(p, v, LaunchMsg(0, Selected(v), rounds + 1, v))
     /\ UNCHANGED <<ui, faults, loadedFor, vote>>

Chat(p) ==
  /\ Online(p)
  /\ Call(p, view[p], ChatMsg(0))
  /\ UNCHANGED <<ui, history>>

\* service_multiplayer: poll_launch takes the pending launch, and only a
\* launch of the chart the menu has ready starts the game.
PollLaunch(p) ==
  LET v == view[p]
  IN /\ Online(p) /\ ui[p].at = "lobby"
     /\ v.active # 0 /\ v.launch # NoChart
     /\ view' = [view EXCEPT ![p].launch = NoChart]
     /\ IF v.launch = v.chart[v.id] /\ ui[p].path # NoChart
        THEN Enter(p, "loading") ELSE UNCHANGED ui
     /\ UNCHANGED <<order, controls, broadcasts, wires, pass, history>>

\* coordinate_multiplayer_start: report the load and take the role the room
\* gives at that moment.
MarkLoaded(p) ==
  LET v == view[p]
  IN /\ Online(p) /\ ui[p].at = "loading" /\ v.active # 0
     /\ Call(p, [v EXCEPT !.loaded = @ \cup {v.id}], LoadedMsg(v.active))
     /\ loadedFor' = [loadedFor EXCEPT ![p] = v.active]
     /\ Enter(p, IF IsLeader(v) THEN "leading" ELSE "following")
     /\ UNCHANGED <<rounds, faults, vote>>

\* ... the leader: wait_for_peer_loaded, then send_begin.
LeadBegin(p) ==
  LET v == view[p]
  IN /\ Online(p) /\ ui[p].at = "leading" /\ v.active # 0
     /\ RemoteLoaded(v)
     /\ IsLeader(v) /\ ~v.begun /\ AllLoaded(v)
     /\ Call(p, [v EXCEPT !.begun = TRUE], BeginMsg(0, v.active))
     /\ Enter(p, "playing")
     /\ UNCHANGED history

\* ... everybody else: wait_for_begin.
FollowBegin(p) ==
  /\ Online(p) /\ ui[p].at = "following" /\ view[p].begin
  /\ view' = [view EXCEPT ![p].begin = FALSE]
  /\ Enter(p, "playing")
  /\ UNCHANGED <<order, controls, broadcasts, wires, pass, history>>

\* A launch that was taken back while the chart loads, the barrier waits or the
\* countdown runs returns the player to the lobby with the connection kept.
AbortLoad(p) ==
  /\ Online(p) /\ ui[p].at \in {"loading", "leading", "following", "playing"}
  /\ view[p].active = 0
  /\ Enter(p, "lobby")
  /\ UNCHANGED <<session, wires, pass, history>>

\* publish_score(..., false) from the HUD; the worker sends it when it next
\* collects (PumpScore, HostEndPass).
LiveScore(p) ==
  LET v == view[p]
  IN /\ Online(p) /\ ui[p].at = "playing" /\ v.active # 0
     /\ view' = [view EXCEPT ![p].score = [@ EXCEPT ![v.id] = "live"], ![p].dirty = TRUE]
     /\ UNCHANGED <<order, controls, broadcasts, ui, wires, pass, history>>

PumpScore(c) ==
  LET v == view[c]
  IN /\ v.dirty /\ v.active # 0
     /\ Call(c, [v EXCEPT !.dirty = FALSE], ScoreMsg(0, v.active, "live"))
     /\ UNCHANGED <<ui, history>>

\* The end of the game: publish_score(..., true).
FinishGame(p) ==
  LET v == view[p]
  IN /\ Online(p) /\ ui[p].at = "playing" /\ v.active # 0
     /\ Call(p, [v EXCEPT !.score = [@ EXCEPT ![v.id] = "final"], !.dirty = FALSE,
                          !.finalSent = TRUE],
             ScoreMsg(0, v.active, "final"))
     /\ Enter(p, "finished")
     /\ UNCHANGED history

\* Leaving the result screen, possible once every other result is there or
\* the session is not connected any more (reset_round).
LeaveResult(p) ==
  LET v == view[p]
      left == [v EXCEPT !.reset = @ \cup {v.id}, !.ready = @ \ {v.id}, !.loaded = @ \ {v.id},
                        !.dirty = FALSE, !.launch = NoChart, !.begin = FALSE]
  IN /\ ui[p].at = "finished" /\ v.state # "Off"
     /\ RemoteFinished(v) \/ ~Online(p)
     /\ Enter(p, "lobby")
     /\ IF v.active = 0 \/ ~Online(p)
        THEN /\ view' = [view EXCEPT ![p].ready = @ \ {v.id}, ![p].loaded = @ \ {v.id}]
             /\ UNCHANGED <<order, controls, broadcasts, wires, pass>>
        ELSE IF ~v.finalSent \/ v.id \in v.reset
             THEN UNCHANGED <<session, wires, pass>>
             ELSE Call(p, left, ResetMsg(v.active))
     /\ UNCHANGED history
-----------------------------------------------------------------------------
(* Leaving, failing and closing.                                           *)

\* The joiner's end of the link is gone.  The Disconnect frame overtakes the
\* calls its worker had not collected yet; an EOF or a broken socket loses
\* what was not sent.  Either way the host reads a prefix, then the end.
Sever(c) ==
  /\ view' = [view EXCEPT ![c] = OffView]
  /\ ui' = [ui EXCEPT ![c] = LobbyUi]
  /\ \E k \in 0..Len(up[c]) : up' = [up EXCEPT ![c] = Append(SubSeq(@, 1, k), Bye)]
  /\ down' = [down EXCEPT ![c] = <<>>]
  /\ vote' = [vote EXCEPT ![c] = 0]
  /\ UNCHANGED <<order, controls, broadcasts, link, seat, pass, rounds, loadedFor>>

Join(c) ==
  /\ link[c] = "none" /\ view[c].state = "Off"
  /\ view[Host].state # "Off"
  /\ link' = [link EXCEPT ![c] = "greeting"]
  /\ view' = [view EXCEPT ![c] = JoinerView]
  /\ up' = [up EXCEPT ![c] = <<HelloMsg>>]
  /\ UNCHANGED <<ui, order, seat, controls, broadcasts, pass, down, history>>

Leave(c) ==
  /\ view[c].state # "Off"
  /\ Sever(c)
  /\ UNCHANGED faults

\* The leader's barrier opened on remote_loaded but send_begin refuses.
Refused(p) ==
  LET v == view[p]
  IN /\ ui[p].at = "leading" /\ v.active # 0
     /\ RemoteLoaded(v)
     /\ ~IsLeader(v) \/ v.begun \/ ~AllLoaded(v)

\* There is no session left to load or play in, or no round to finish.
Stranded(p) ==
  \/ ~Online(p) /\ ui[p].at \in {"loading", "leading", "following", "playing"}
  \/ ui[p].at = "playing" /\ view[p].active = 0

\* The menu disconnects when a start or a final score fails.
StartFails(c) ==
  /\ view[c].state # "Off"
  /\ Refused(c) \/ Stranded(c)
  /\ Sever(c) /\ UNCHANGED faults

\* One frame at the joiner.
Receive(c) ==
  LET v == view[c]
      m == Head(down[c])
  IN /\ v.state # "Off" /\ down[c] # <<>>
     /\ \/ /\ m.type = "Disconnect"
           /\ Sever(c) /\ UNCHANGED faults
        \/ /\ Breaks(v, m)
           /\ Sever(c)
           /\ faults' = faults \cup {<<IF Online(c) THEN "joiner" ELSE "newcomer", m.type>>}
        \/ /\ m.type # "Disconnect" /\ ~Breaks(v, m)
           /\ view' = [view EXCEPT ![c] = Apply(v, m)]
           /\ down' = [down EXCEPT ![c] = Tail(@)]
           /\ UNCHANGED <<ui, order, controls, broadcasts, link, seat, pass, up, history>>
-----------------------------------------------------------------------------
(* The host's worker.                                                      *)

\* drain_host_local_actions: an error of a local call only sets a status.
HostLocal ==
  LET m == Head(controls)
      r == Handle(view[Host], order, 1, m)
  IN /\ phase = "drain" /\ batch > 0
     /\ controls' = Tail(controls) /\ batch' = batch - 1
     /\ IF Rejects(view[Host], 1, m) THEN UNCHANGED <<view, order, broadcasts>>
        ELSE /\ view' = [view EXCEPT ![Host] = r.view]
             /\ broadcasts' = broadcasts \o r.out
             /\ UNCHANGED order
     /\ UNCHANGED <<ui, wires, phase, history>>

\* distribute_broadcasts; a joiner that is gone reads no more.
HostFlush ==
  /\ phase = "drain" /\ batch = 0
  /\ broadcasts # <<>> =>
       \A c \in Joiners : view[c].state # "Off" => Len(down[c]) < DownBound
  /\ phase' = "links"
  /\ down' = [c \in Joiners |-> IF link[c] = "up" /\ view[c].state # "Off"
                                THEN down[c] \o broadcasts ELSE down[c]]
  /\ broadcasts' = <<>>
  /\ UNCHANGED <<view, ui, order, controls, link, seat, batch, up, history>>

FreeId == CHOOSE i \in Ids : /\ i # 1 /\ i \notin view[Host].members
                            /\ \A j \in Ids : j # 1 /\ j \notin view[Host].members => i <= j

\* process_host_link_message before the handshake: a room that plays or is
\* full refuses, otherwise the joiner takes the lowest free id.
HostGreet(c) ==
  LET h == view[Host]
      joined == [h EXCEPT !.members = @ \cup {FreeId}, !.state = "Connected"]
      full == Len(order) >= MaxPlayers
  IN /\ phase = "links" /\ link[c] = "greeting"
     /\ up[c] # <<>> /\ Head(up[c]) = HelloMsg
     /\ up' = [up EXCEPT ![c] = Tail(@)]
     /\ IF h.active # 0 \/ full
        THEN /\ link' = [link EXCEPT ![c] = "gone"]
             /\ down' = [down EXCEPT ![c] = <<Bye>>]
             /\ UNCHANGED <<view, order, seat, broadcasts>>
        ELSE /\ link' = [link EXCEPT ![c] = "up"]
             /\ seat' = [seat EXCEPT ![c] = FreeId]
             /\ order' = Append(order, FreeId)
             /\ view' = [view EXCEPT ![Host] = joined]
             /\ down' = [down EXCEPT ![c] = <<WelcomeMsg(FreeId, h)>>]
             /\ broadcasts' = Append(broadcasts, RosterMsg(joined))
     /\ UNCHANGED <<ui, controls, pass, history>>

\* A joiner that is gone before its handshake leaves no trace.
HostForget(c) ==
  /\ phase = "links" /\ link[c] = "greeting"
  /\ up[c] # <<>> /\ Head(up[c]) = Bye
  /\ link' = [link EXCEPT ![c] = "gone"]
  /\ up' = [up EXCEPT ![c] = <<>>]
  /\ UNCHANGED <<session, ui, pass, seat, down, history>>

\* One frame of a seated link.  A refused frame drops the link at the end of
\* the pass, and the player with it.
HostReceive(c) ==
  LET m == Head(up[c])
      h == view[Host]
      r == Handle(h, order, seat[c], m)
  IN /\ phase = "links" /\ link[c] = "up" /\ up[c] # <<>>
     /\ up' = [up EXCEPT ![c] = Tail(@)]
     /\ \/ /\ m.type = "Disconnect"
           /\ link' = [link EXCEPT ![c] = "dropping"]
           /\ UNCHANGED <<view, broadcasts, faults>>
        \/ /\ m.type # "Disconnect" /\ Rejects(h, seat[c], m)
           /\ link' = [link EXCEPT ![c] = "dropping"]
           /\ faults' = faults \cup {<<"host", m.type>>}
           /\ UNCHANGED <<view, broadcasts>>
        \/ /\ m.type # "Disconnect" /\ ~Rejects(h, seat[c], m)
           /\ view' = [view EXCEPT ![Host] = r.view]
           /\ broadcasts' = broadcasts \o r.out
           /\ UNCHANGED <<link, faults>>
     /\ UNCHANGED <<ui, order, controls, seat, pass, down, rounds, loadedFor, vote>>

\* kPeerTimeout, or a socket in the except set.
HostTimeout(c) ==
  /\ phase = "links" /\ link[c] = "up"
  /\ link' = [link EXCEPT ![c] = "dropping"]
  /\ UNCHANGED <<session, ui, seat, up, down, pass, history>>

\* The end of the frames of this pass; the next pass begins by pumping a
\* live score that is due and swapping out the local calls.
HostEndPass ==
  LET h == view[Host]
      pumped == Append(controls, ScoreMsg(0, h.active, "live"))
  IN /\ phase = "links"
     /\ IF \E c \in Joiners : link[c] = "dropping"
        THEN phase' = "remove" /\ UNCHANGED <<view, controls, batch>>
        ELSE /\ phase' = "drain"
             /\ \/ batch' = Len(controls) /\ UNCHANGED <<view, controls>>
                \/ /\ h.dirty /\ h.active # 0
                   /\ view' = [view EXCEPT ![Host].dirty = FALSE]
                   /\ controls' = pumped /\ batch' = Len(pumped)
     /\ UNCHANGED <<ui, order, broadcasts, wires, history>>

HostRemove(c) ==
  LET h == RemovePlayer(view[Host], order, seat[c])
  IN /\ phase = "remove" /\ link[c] = "dropping"
     /\ link' = [link EXCEPT ![c] = "gone"]
     /\ view' = [view EXCEPT ![Host] = h]
     /\ order' = Without(order, seat[c])
     /\ broadcasts' = Append(broadcasts, RosterMsg(h))
     /\ up' = [up EXCEPT ![c] = <<>>]
     /\ down' = IF view[c].state = "Off" THEN down ELSE [down EXCEPT ![c] = Append(@, Bye)]
     /\ IF \E d \in Joiners \ {c} : link[d] = "dropping"
        THEN UNCHANGED <<phase, batch>>
        ELSE phase' = "drain" /\ batch' = Len(controls)
     /\ UNCHANGED <<ui, controls, seat, history>>

\* The host's menu disconnects (by choice, or because it plays in a room that
\* everybody left): the worker sends Disconnect on every link and ends.
HostClose ==
  /\ view[Host].state # "Off"
  /\ view' = [view EXCEPT ![Host] = OffView]
  /\ ui' = [ui EXCEPT ![Host] = LobbyUi]
  /\ controls' = <<>> /\ broadcasts' = <<>> /\ batch' = 0 /\ phase' = "closed"
  /\ link' = [c \in Joiners |-> "gone"]
  /\ up' = [c \in Joiners |-> <<>>]
  /\ down' = [c \in Joiners |-> IF view[c].state = "Off" THEN <<>> ELSE Append(down[c], Bye)]
  /\ UNCHANGED <<order, seat, history>>
-----------------------------------------------------------------------------
(* What the players, the sockets and the worker do in the course of a       *)
(* match, and what may come on top of it: second thoughts, live scores,    *)
(* chat, departures and failures, at most MaxExtras in a behaviour.        *)

Lobby(p) ==
  \/ \E x \in Charts : Selected(view[p]) = NoChart /\ ChooseChart(p, x)
  \/ view[p].id \notin view[p].ready /\ SetReady(p)
  \/ StartMatch(p) \/ FinishMatch(p) \/ SendLaunch(p)

Game(p) ==
  \/ PollLaunch(p) \/ MarkLoaded(p) \/ LeadBegin(p) \/ FollowBegin(p) \/ AbortLoad(p)
  \/ FinishGame(p) \/ LeaveResult(p)

Joiner(c) == Join(c) \/ StartFails(c) \/ Receive(c) \/ PumpScore(c)

Worker ==
  \/ HostLocal \/ HostFlush \/ HostEndPass
  \/ \E c \in Joiners : HostGreet(c) \/ HostForget(c) \/ HostReceive(c) \/ HostRemove(c)

Course ==
  /\ \/ \E p \in Procs : Lobby(p) \/ Game(p)
     \/ \E c \in Joiners : Joiner(c)
     \/ Worker
     \/ Stranded(Host) /\ HostClose
  /\ UNCHANGED spent

Extra ==
  /\ spent < MaxExtras /\ spent' = spent + 1
  /\ \/ "choose" \in Calls /\ \E p \in Procs, x \in Charts : ChooseChart(p, x)
     \/ "unready" \in Calls /\ \E p \in Procs : view[p].id \in view[p].ready /\ SetReady(p)
     \/ "rate" \in Calls /\ \E p \in Procs, r \in Rates : SetRate(p, r)
     \/ "live" \in Calls /\ \E p \in Procs : LiveScore(p)
     \/ "chat" \in Calls /\ \E p \in Procs : Chat(p)
     \/ "leave" \in Calls /\ \E c \in Joiners : Leave(c)
     \/ "timeout" \in Calls /\ \E c \in Joiners : HostTimeout(c)
     \/ "close" \in Calls /\ HostClose

Next == Course \/ Extra

Spec == Init /\ [][Next]_vars

\* The threads that keep a match going: the game thread of every player (who
\* also leaves the result screen in the end), both workers, and the pass of
\* the host, which takes what has arrived from every link.
Quietly(A) == A /\ UNCHANGED spent
Fairness ==
  /\ \A p \in Procs : WF_vars(Quietly(Game(p)))
  /\ \A c \in Joiners :
       /\ WF_vars(Quietly(Receive(c)))
       /\ WF_vars(Quietly(StartFails(c)))
       /\ SF_vars(Quietly(HostReceive(c)))
       /\ WF_vars(Quietly(HostRemove(c)))
  /\ WF_vars(Quietly(HostLocal)) /\ WF_vars(Quietly(HostFlush)) /\ WF_vars(Quietly(HostEndPass))
  /\ WF_vars(Quietly(Stranded(Host) /\ HostClose))
-----------------------------------------------------------------------------
(* Type invariant.                                                         *)

ViewType ==
  [id: 0..MaxPlayers, state: {"Off", "Joining", "Listening", "Connected"},
   members: SUBSET Ids, ready: SUBSET Ids, loaded: SUBSET Ids, reset: SUBSET Ids,
   chart: [Ids -> MaybeChart], score: [Ids -> Scores], leader: 0..MaxPlayers, rate: Rates,
   rev: Nat, ratePending: BOOLEAN, pendingRev: Nat, active: Nat, closed: Nat, begun: BOOLEAN,
   finalSent: BOOLEAN, launch: MaybeChart, begin: BOOLEAN, dirty: BOOLEAN, roundRate: Rates]

UiType ==
  [at: {"lobby", "loading", "leading", "following", "playing", "finished"},
   path: MaybeChart, target: MaybeChart]

\* What a process sends to the coordinator.
ActionType ==
  [type: {"Disconnect", "Hello"}]
  \cup [type: {"Chat"}, player: {0}]
  \cup [type: {"Chart"}, chart: Charts]
  \cup [type: {"Ready"}, ready: BOOLEAN, rate: Rates, rev: Nat]
  \cup [type: {"RoomRate"}, rate: Rates, rev: Nat]
  \cup [type: {"Launch"}, player: {0}, chart: Charts, nonce: Nat \ {0}, rate: Rates, rev: Nat]
  \cup [type: {"Loaded", "RoundReset"}, nonce: Nat]
  \cup [type: {"Begin"}, player: {0}, nonce: Nat]
  \cup [type: {"Score"}, player: {0}, nonce: Nat, score: Scores]

\* What the coordinator sends to a joiner.
RelayType ==
  [type: {"Disconnect"}]
  \cup [type: {"Chat"}, player: Ids]
  \cup [type: {"RoomWelcome"}, player: Ids, leader: Ids]
  \cup [type: {"Launch"}, player: Ids, chart: Charts, nonce: Nat \ {0}, rate: Rates, rev: Nat]
  \cup [type: {"Begin"}, player: Ids, nonce: Nat]
  \cup [type: {"Score"}, player: Ids, nonce: Nat, score: Scores]
  \cup [type: {"RoomRoster"}, leader: Ids, nonce: Nat, rate: Rates, rev: Nat,
        members: SUBSET Ids, ready: SUBSET Ids, loaded: SUBSET Ids, reset: SUBSET Ids,
        chart: [Ids -> MaybeChart]]

\* Every variable has its type: a malformed frame or a player id outside
\* 1..kPeerMaxPlayers never appears.
TypeOK ==
  /\ view \in [Procs -> ViewType]
  /\ ui \in [Procs -> UiType]
  /\ order \in Seq(Ids)
  /\ link \in [Joiners -> {"none", "greeting", "up", "dropping", "gone"}]
  /\ seat \in [Joiners -> 0..MaxPlayers]
  /\ controls \in Seq(ActionType) /\ batch \in Nat
  /\ broadcasts \in Seq(RelayType)
  /\ phase \in {"drain", "links", "remove", "closed"}
  /\ up \in [Joiners -> Seq(ActionType)] /\ down \in [Joiners -> Seq(RelayType)]
  /\ rounds \in Nat /\ spent \in Nat
  /\ loadedFor \in [Procs -> Nat]
  /\ vote \in [Procs -> Nat]
-----------------------------------------------------------------------------
(* Properties.                                                             *)

SeatOf(p) == IF p = Host THEN 1 ELSE seat[p]
\* p sits in the room: the host, or a joiner whose link stands.
Seated(p) == view[p].state # "Off" /\ (p = Host \/ link[p] = "up")
InPlay(p) == Seated(p) /\ ui[p].at \in {"playing", "finished"}

\* join_order, the links and the player ids tell the same room: every seated
\* link holds an id of its own, nobody else is a participant, and the leader
\* is one of them, whatever was dropped or rejected on the way.
SeatsAgree ==
  view[Host].state # "Off" =>
    /\ \A i, j \in DOMAIN order : order[i] = order[j] => i = j
    /\ \A c, d \in Joiners : c # d /\ link[c] \in {"up", "dropping"} /\ link[d] \in {"up", "dropping"}
                            => seat[c] # seat[d]
    /\ view[Host].members =
         {1} \cup {seat[c] : c \in {d \in Joiners : link[d] \in {"up", "dropping"}}}
    /\ view[Host].members = {order[k] : k \in DOMAIN order}
    /\ view[Host].leader \in view[Host].members

\* A joiner is never in a round that the coordinator does not run or has not
\* just closed, however late its rosters are.
RoundKnown ==
  \A c \in Joiners :
    Seated(c) /\ view[c].active # 0 => view[c].active \in {view[Host].active, view[Host].closed}

\* The load barrier: when somebody plays the coordinator's round, every player
\* of its roster has reported the chart of that round loaded (mark_loaded),
\* although the leader decides on its own, possibly old, copy of the room.  (A
\* leader may begin a launch that is being called off, see RoundOutlivesPlay;
\* by then the coordinator may have given somebody's id to a newcomer.)
BarrierHolds ==
  \A p, q \in Procs :
    /\ Seated(p) /\ ui[p].at = "playing"
    /\ view[p].active # 0 /\ view[p].active = view[Host].active
    /\ Seated(q) /\ SeatOf(q) \in view[p].members
    => loadedFor[q] = view[p].active

\* A Ready that the coordinator counts was given under the very settings the
\* next match would start with and is the player's last word, unless a frame
\* that takes it back is under way: no vote outlives a change of the rate or a
\* round (rate_revision), in whatever order the frames cross.
VotesFresh ==
  \A c \in Joiners :
    /\ Seated(c) /\ seat[c] \in view[Host].ready /\ view[Host].active = 0
    => \/ vote[c] = view[Host].rev
       \/ \E k \in DOMAIN up[c] : up[c][k].type \in {"Ready", "Chart", "Disconnect"}

\* Everybody who loads or plays the coordinator's round does so at its rate.
SameRate ==
  \A p \in Procs :
    /\ Seated(p) /\ ui[p].at \in {"loading", "leading", "following", "playing"}
    /\ view[p].active # 0 /\ view[p].active = view[Host].active
    => view[p].roundRate = view[Host].roundRate

\* The round outlives its players: as long as somebody plays it or looks at
\* its result, the coordinator neither closes it nor starts another one.  (A
\* leader that takes its Ready back right after Start can begin a launch that
\* is being called off; the coordinator drops it on its Begin.  A host that is
\* the last of its match plays on alone.)
RoundOutlivesPlay ==
  \A p \in Procs :
    /\ InPlay(p) /\ Online(p)
    /\ p = Host => \E c \in Joiners : InPlay(c)
    => \/ view[Host].active # 0 /\ view[p].active = view[Host].active
       \/ p # Host /\ \E k \in DOMAIN up[p] : up[p][k].type = "Begin"

\* Loaded, Score and RoundReset at the coordinator, and Begin and Score at a
\* player who has entered the room, are never refused: one round of tolerance
\* (last_closed_round_nonce) is enough for every crossing with a cancellation,
\* a close or a departure.  Launch and Begin at the coordinator are not among
\* them: it refuses a second Start, and the Begin of a launch called off.  (Nor is
\* a newcomer: greeted in the pass in which a round closed, it is sent what was
\* queued before, and gives up.)
RoundFramesAccepted ==
  /\ \A t \in {"Loaded", "Score", "RoundReset"} : <<"host", t>> \notin faults
  /\ \A t \in {"Begin", "Score"} : <<"joiner", t>> \notin faults

\* The room as its players know it (RoomTurns): the coordinator's copy, without
\* everything that is under way.
Stage ==
  LET h == view[Host]
  IN CASE h.state = "Off" -> "closed"
       [] h.state # "Off" /\ h.active = 0 -> "lobby"
       [] h.state # "Off" /\ h.active # 0 /\ ~h.begun -> "loading"
       [] h.state # "Off" /\ h.active # 0 /\ h.begun -> "playing"

Turns == INSTANCE RoomTurns WITH
  Players <- Ids, queue <- order, stage <- Stage,
  leader <- IF Stage = "closed" THEN 0 ELSE view[Host].leader

\* Whatever crosses, leaves or fails, the room keeps the promise of
\* docs/multiplayer.md:24 and 25: rounds run from launch to begin to end, only
\* a played one passes the lead on, to the next in the order of joining, and a
\* leader that leaves hands it to whoever came after, "without skipping" him.
KeepsTurns == Turns!Spec

\* The one step by which the code breaks it (remove_host_player_locked): the
\* leader leaves as the last one at the result; the one who came after is made
\* leader, the round closes, and the lead passes on once more.
SkipsHeir ==
  LET h == view[Host]  w == view'[Host]
  IN /\ Stage = "playing" /\ Stage' = "lobby" /\ Len(order') > 1
     /\ h.leader # 1 /\ w.members = h.members \ {h.leader} /\ w.members \subseteq h.reset
     /\ order' = Turns!Rest(h.leader)
     /\ w.leader = Turns!After(order', Turns!After(order, h.leader))

\* Whatever crosses, leaves or fails, the room keeps its promise, or it is that
\* step (next_leader_locked and remove_host_player_locked, which count positions
\* in two different lists).
KeepsTurnsOrSkips == Turns!Init /\ [][Turns!Next \/ SkipsHeir]_(Turns!turns)

\* A round closes only when everybody who is still there has sent a final
\* score and has left the result for the lobby, unless it is called off before
\* it began or only one player is left.
ClosedInFull ==
  [][LET h == view[Host]
         stay == view'[Host].members
     IN h.active # 0 /\ view'[Host].active = 0 /\ h.begun /\ Len(order') > 1
        => /\ \A i \in stay : h.score[i] = "final"
           /\ \A p \in Procs : Seated(p) /\ SeatOf(p) \in stay => ui[p].at = "lobby"]_vars

\* In a room of two nobody is left behind in a match, whoever leaves, fails or
\* takes a Ready back: both return to the lobby.
EverybodyReturns == \A p \in Procs : ui[p].at # "lobby" ~> ui[p].at = "lobby"

\* docs/multiplayer.md:22: everybody else selects the leader's chart by itself.
\* Once nothing is under way, a menu that shows the leader's chart as found has
\* announced it to the room.
FoundIsAnnounced ==
  LET h == view[Host]
      quiet == /\ controls = <<>> /\ broadcasts = <<>>
               /\ \A c \in Joiners : up[c] = <<>> /\ down[c] = <<>>
  IN quiet /\ h.active = 0 /\ Selected(h) # NoChart =>
       \A p \in Procs : Seated(p) /\ ui[p].at = "lobby" /\ ui[p].path = Selected(h)
                        => Matches(h, SeatOf(p))
=============================================================================
