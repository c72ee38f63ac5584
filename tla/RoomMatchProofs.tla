-------------------------- MODULE RoomMatchProofs --------------------------
(***************************************************************************)
(* The matches of a room (src/src/network/PeerSession.cpp and the menu     *)
(* thread of src/src/app/MenuAppMultiplayer.cpp), proved for any number of *)
(* players, charts and rates: what each end knows of the round that runs,  *)
(* and the promise of RoomTurns.                                           *)
(*                                                                         *)
(* The steps are summed up first: what a call says, what the coordinator   *)
(* makes of a frame and of a departure, what a step leaves of each end.    *)
(* Three invariants follow, each resting on the ones before: the           *)
(* coordinator's own round (HostInv), from which the promise follows,      *)
(* which round the frames of a round belong to (WireInv), and what a       *)
(* joiner will have read when it has read everything under way (CopyInv).  *)
(***************************************************************************)
EXTENDS PeerRoomProofs

\* The frames that carry a round's nonce to the coordinator.
RoundFrames == {"Loaded", "Begin", "Score", "RoundReset"}
Play == {"playing", "finished"}

-----------------------------------------------------------------------------
(* What a call does to the caller: v and x are its copy and its menu       *)
(* before, w and y after.                                                  *)

\* Everything the game thread and the worker look at stays.
Alike(v, w) ==
  /\ w.begun = v.begun /\ w.finalSent = v.finalSent /\ w.launch = v.launch
  /\ w.begin = v.begin /\ w.dirty = v.dirty /\ w.reset = v.reset /\ w.score = v.score

\* All of it but what PollLaunch, FollowBegin and LiveScore change.
Silent(v, x, w, y) ==
  \/ Alike(v, w) /\ w.ready = v.ready /\ w.loaded = v.loaded /\ y.at = x.at
  \/ /\ x.at = "lobby" /\ y.at \in {"lobby", "loading"}
     /\ v.active # 0 /\ v.launch # NoChart /\ w.launch = NoChart
     /\ w.begun = v.begun /\ w.finalSent = v.finalSent /\ w.begin = v.begin /\ w.dirty = v.dirty
     /\ w.reset = v.reset /\ w.score = v.score /\ w.ready = v.ready /\ w.loaded = v.loaded
  \/ /\ x.at = "following" /\ y.at = "playing"
     /\ v.begin /\ ~w.begin
     /\ w.begun = v.begun /\ w.finalSent = v.finalSent /\ w.launch = v.launch /\ w.dirty = v.dirty
     /\ w.reset = v.reset /\ w.score = v.score /\ w.ready = v.ready /\ w.loaded = v.loaded
  \/ /\ v.active = 0 /\ y.at = "lobby"
     /\ Alike(v, w) /\ w.ready = v.ready /\ w.loaded = v.loaded
  \/ /\ x.at = "playing" /\ y.at = "playing" /\ v.active # 0
     /\ w.dirty /\ w.score = [v.score EXCEPT ![v.id] = "live"]
     /\ w.begun = v.begun /\ w.finalSent = v.finalSent /\ w.launch = v.launch /\ w.begin = v.begin
     /\ w.reset = v.reset /\ w.ready = v.ready /\ w.loaded = v.loaded
  \/ /\ x.at = "finished" /\ y.at = "lobby"
     /\ v.active = 0 \/ ~v.finalSent \/ v.id \in v.reset \/ v.state # "Connected"
     /\ Alike(v, w) /\ w.ready \subseteq v.ready /\ w.loaded \subseteq v.loaded

\* A frame of the lobby: a vote, a chart, a rate, a launch or a line of chat.
LobbySays(v, x, w, y, m) ==
  /\ m.type \in {"Ready", "Chart", "RoomRate", "Launch", "Chat"}
  /\ Alike(v, w) /\ w.ready \subseteq v.ready \cup {v.id} /\ w.loaded \subseteq v.loaded
  /\ y.at = x.at
  /\ m.type # "Chat" => x.at = "lobby" /\ v.active = 0
  /\ m.type \in {"Ready", "Launch"} => m.rev = v.rev
  /\ v.id \in w.ready /\ v.id \notin v.ready => m.type = "Ready"

LoadedSays(v, x, w, y, m) ==
  /\ m.type = "Loaded" /\ m.nonce = v.active /\ v.active # 0
  /\ x.at = "loading" /\ y.at \in {"leading", "following"}
  /\ Alike(v, w) /\ w.ready = v.ready /\ w.loaded = v.loaded \cup {v.id}

BeginSays(v, x, w, y, m) ==
  /\ m.type = "Begin" /\ m.nonce = v.active /\ v.active # 0
  /\ x.at = "leading" /\ y.at = "playing"
  /\ IsLeader(v) /\ AllLoaded(v) /\ ~v.begun /\ w.begun
  /\ w.finalSent = v.finalSent /\ w.launch = v.launch /\ w.begin = v.begin /\ w.dirty = v.dirty
  /\ w.reset = v.reset /\ w.score = v.score /\ w.ready = v.ready /\ w.loaded = v.loaded

LiveSays(v, x, w, y, m) ==
  /\ m.type = "Score" /\ m.score = "live" /\ m.nonce = v.active /\ v.active # 0
  /\ v.dirty /\ ~w.dirty /\ y.at = x.at /\ w.score = v.score
  /\ w.begun = v.begun /\ w.finalSent = v.finalSent /\ w.launch = v.launch /\ w.begin = v.begin
  /\ w.reset = v.reset /\ w.ready = v.ready /\ w.loaded = v.loaded

FinalSays(v, x, w, y, m) ==
  /\ m.type = "Score" /\ m.score = "final" /\ m.nonce = v.active /\ v.active # 0
  /\ x.at = "playing" /\ y.at = "finished"
  /\ w.finalSent /\ ~w.dirty /\ w.score = [v.score EXCEPT ![v.id] = "final"]
  /\ w.begun = v.begun /\ w.launch = v.launch /\ w.begin = v.begin
  /\ w.reset = v.reset /\ w.ready = v.ready /\ w.loaded = v.loaded

ResetSays(v, x, w, y, m) ==
  /\ m.type = "RoundReset" /\ m.nonce = v.active /\ v.active # 0
  /\ x.at = "finished" /\ y.at = "lobby"
  /\ v.finalSent /\ RemoteFinished(v)
  /\ w.finalSent /\ ~w.dirty /\ w.launch = NoChart /\ ~w.begin
  /\ w.begun = v.begun /\ w.reset = v.reset \cup {v.id} /\ w.score = v.score
  /\ w.ready \subseteq v.ready /\ w.loaded \subseteq v.loaded

Says(v, x, w, y, m) ==
  \/ LobbySays(v, x, w, y, m)
  \/ LoadedSays(v, x, w, y, m)
  \/ BeginSays(v, x, w, y, m)
  \/ LiveSays(v, x, w, y, m)
  \/ FinalSays(v, x, w, y, m)
  \/ ResetSays(v, x, w, y, m)

\* The copy a caller leaves: its own, and as typed as before.
Left(v, w) == OwnCopy(v, w) /\ w.leader = v.leader

\* One step of the menu, the game thread or the sender of process p.
PlayerMoves(p) ==
  \E w \in ViewType, y \in UiType :
    /\ view' = [view EXCEPT ![p] = w] /\ ui' = [ui EXCEPT ![p] = y]
    /\ Left(view[p], w) /\ view[p].state # "Off"
    /\ p \in Joiners => view[p].state = "Connected"
    /\ UNCHANGED <<order, link, seat, batch, broadcasts, phase, down, faults>>
    /\ \/ /\ Silent(view[p], ui[p], w, y)
          /\ UNCHANGED <<controls, up, rounds, loadedFor>>
       \/ \E m \in ActionType :
            /\ Says(view[p], ui[p], w, y, m) /\ Queue(p, m)
            /\ IF m.type = "Launch" THEN m.nonce = rounds + 1 /\ rounds' = rounds + 1
               ELSE rounds' = rounds
            /\ loadedFor' = IF m.type = "Loaded" THEN [loadedFor EXCEPT ![p] = m.nonce] ELSE loadedFor

-----------------------------------------------------------------------------
(* The joiners' ends: a player is at its menu unless it is in the room.    *)

End(v, x) ==
  /\ v.state \in {"Off", "Joining", "Connected"}
  /\ v.state # "Connected" => x.at = "lobby" /\ ~v.dirty

\* Who has not been let in has said Hello and nothing else.
Ends ==
  \A c \in Joiners :
    /\ End(view[c], ui[c])
    /\ link[c] \in {"none", "greeting"} =>
         \A k \in DOMAIN up[c] : up[c][k].type \in {"Hello", "Disconnect"}

\* A call of the host, or of a joiner that is in the room.
LEMMA CallerState ==
  ASSUME RoomInv, Ends, NEW p \in Procs
  PROVE  /\ view[p] \in ViewType /\ ui[p] \in UiType /\ Fit(view[p])
         /\ view = [view EXCEPT ![p] = view[p]] /\ ui = [ui EXCEPT ![p] = ui[p]]
         /\ rounds \in Nat /\ Host \in Procs /\ Joiners \subseteq Procs
         /\ Online(p) => view[p].id \in Ids
         /\ p \in Joiners /\ (ui[p].at # "lobby" \/ view[p].dirty \/ view[p].state \notin {"Off", "Joining"})
              => view[p].state = "Connected"
         /\ view[p].state # "Off" \/ p = Host \/ (ui[p].at = "lobby" /\ ~view[p].dirty)
<1>1. /\ view \in [Procs -> ViewType] /\ ui \in [Procs -> UiType] /\ rounds \in Nat
  BY DEF RoomInv, Netted, Booked
<1>2. view = [view EXCEPT ![p] = view[p]] /\ ui = [ui EXCEPT ![p] = ui[p]]
  BY <1>1
<1>3. Fit(view[p]) /\ (Online(p) => view[p].id \in Ids)
  BY CallerFits DEF Online
<1> QED BY <1>1, <1>2, <1>3 DEF Ends, End, Procs

\* A call that sends a frame.
LEMMA SayingMoves ==
  ASSUME RoomInv, NEW p \in Procs, NEW w \in ViewType, NEW y \in UiType, NEW m \in ActionType,
         Call(p, w, m), ui' = [ui EXCEPT ![p] = y], Left(view[p], w), view[p].state # "Off",
         p \in Joiners => view[p].state = "Connected", faults' = faults,
         Says(view[p], ui[p], w, y, m),
         IF m.type = "Launch" THEN m.nonce = rounds + 1 /\ rounds' = rounds + 1 ELSE rounds' = rounds,
         loadedFor' = IF m.type = "Loaded" THEN [loadedFor EXCEPT ![p] = m.nonce] ELSE loadedFor
  PROVE  PlayerMoves(p)
BY DEF PlayerMoves, Call

\* A change of the caller alone.
LEMMA SilentMoves ==
  ASSUME RoomInv, NEW p \in Procs, NEW w \in ViewType, NEW y \in UiType,
         view' = [view EXCEPT ![p] = w], ui' = [ui EXCEPT ![p] = y], Left(view[p], w),
         view[p].state # "Off", p \in Joiners => view[p].state = "Connected",
         Silent(view[p], ui[p], w, y), UNCHANGED <<order, controls, broadcasts, wires, pass>>,
         UNCHANGED <<rounds, faults, loadedFor>>
  PROVE  PlayerMoves(p)
BY DEF PlayerMoves, wires, pass

\* What a copy with another chart keeps.
LEMMA AnnounceAlike ==
  ASSUME NEW v \in ViewType, Fit(v), NEW x \in Charts
  PROVE  LET w == AnnounceChart(v, x)
         IN Left(v, w) /\ Alike(v, w) /\ w.ready \subseteq v.ready /\ w.loaded = v.loaded
<1> DEFINE own == [v EXCEPT !.chart = [@ EXCEPT ![v.id] = x], !.ready = @ \ {v.id}]
           lead == [own EXCEPT !.chart = [NoCharts EXCEPT ![v.id] = x], !.ready = {}]
<1>1. own \in ViewType /\ Alike(v, own) /\ own.ready \subseteq v.ready /\ own.loaded = v.loaded
      /\ own.leader = v.leader
  BY DEF ViewType, MaybeChart, Alike
<1>2. AnnounceChart(v, x) \in {v, own, lead}
  BY DEF AnnounceChart
<1> HIDE DEF own
<1>3. Alike(own, lead) /\ lead.ready = {} /\ lead.loaded = own.loaded /\ lead.leader = own.leader
  BY <1>1 DEF ViewType, Alike
<1> HIDE DEF lead
<1>4. Alike(v, lead) /\ Alike(v, v)
  BY <1>1, <1>3 DEF Alike
<1> QED BY <1>1, <1>2, <1>3, <1>4, AnnounceCopy DEF Left

\* A chart chosen, a match started or found.
LEMMA ChartMoves ==
  ASSUME RoomInv, Ends, NEW p \in Procs,
         StartMatch(p) \/ FinishMatch(p) \/ (\E x \in Charts : ChooseChart(p, x))
  PROVE  PlayerMoves(p)
<1> DEFINE v == view[p]
<1>0. Fit(v) /\ v \in ViewType /\ ui[p] \in UiType
  BY CallerState
<1>1. ASSUME NEW x \in Charts, NEW y \in UiType, y.at = ui[p].at, ui' = [ui EXCEPT ![p] = y],
             Online(p), Idle(p), Call(p, AnnounceChart(v, x), ChartMsg(x)),
             UNCHANGED <<rounds, faults, loadedFor>>
      PROVE  PlayerMoves(p)
  <2> DEFINE w == AnnounceChart(v, x)
             m == ChartMsg(x)
  <2>1. /\ m \in ActionType /\ m.type = "Chart"
    BY DEF ChartMsg, ActionType
  <2>2. Left(v, w) /\ Alike(v, w) /\ w.ready \subseteq v.ready /\ w.loaded = v.loaded
    BY <1>0, AnnounceAlike
  <2>3. w \in ViewType /\ Call(p, w, m)
    BY <1>1, <2>2 DEF Left, OwnCopy
  <2> HIDE DEF w, m
  <2>4. Says(v, ui[p], w, y, m)
    BY <1>1, <2>1, <2>2 DEF Says, LobbySays, Idle
  <2> QED BY <1>1, <2>1, <2>2, <2>3, <2>4, SayingMoves DEF Online
<1>2. ASSUME NEW x \in Charts, ChooseChart(p, x)
      PROVE  PlayerMoves(p)
  <2> DEFINE y == [ui[p] EXCEPT !.path = x]
  <2>1. y \in UiType /\ y.at = ui[p].at /\ ui' = [ui EXCEPT ![p] = y]
    BY <1>0, <1>2 DEF UiType, MaybeChart, ChooseChart
  <2> HIDE DEF y
  <2> QED BY <1>1, <1>2, <2>1 DEF ChooseChart
<1>3. CASE FinishMatch(p)
  <2> DEFINE y == [ui[p] EXCEPT !.path = Selected(v)]
  <2>0. Selected(v) \in Charts
    BY <1>0, <1>3, SelectedType DEF FinishMatch, MaybeChart
  <2>1. y \in UiType /\ y.at = ui[p].at /\ ui' = [ui EXCEPT ![p] = y]
    BY <1>0, <1>3, <2>0 DEF UiType, MaybeChart, FinishMatch
  <2> HIDE DEF y
  <2> QED BY <1>1, <1>3, <2>0, <2>1 DEF FinishMatch
<1>4. CASE StartMatch(p)
  <2> DEFINE w == [v EXCEPT !.chart = [@ EXCEPT ![v.id] = NoChart], !.ready = @ \ {v.id}]
             y == [ui[p] EXCEPT !.path = NoChart, !.target = Selected(v)]
             m == ReadyMsg(FALSE, v)
  <2>1. /\ w \in ViewType /\ Left(v, w) /\ Alike(v, w) /\ w.ready \subseteq v.ready
        /\ w.loaded = v.loaded
    BY <1>0 DEF Left, OwnCopy, SameRound, Alike, ViewType, MaybeChart
  <2>2. Selected(v) \in MaybeChart
    BY <1>0, SelectedType
  <2>3. y \in UiType /\ y.at = ui[p].at /\ ui' = [ui EXCEPT ![p] = y]
    BY <1>0, <1>4, <2>2 DEF UiType, MaybeChart, StartMatch
  <2>4. m \in ActionType /\ m.type = "Ready" /\ m.rev = v.rev
    BY <1>0, CallFrames DEF ReadyMsg
  <2>5. \/ Call(p, w, m)
        \/ UNCHANGED <<session, wires, pass>>
    BY <1>4 DEF StartMatch
  <2>6. v.state = "Connected" /\ v.active = 0 /\ ui[p].at = "lobby"
        /\ UNCHANGED <<rounds, faults, loadedFor>>
    BY <1>4 DEF StartMatch, Online, Idle
  <2> HIDE DEF w, y, m
  <2>7. CASE Call(p, w, m)
    <3>1. Says(v, ui[p], w, y, m)
      BY <2>1, <2>3, <2>4, <2>6 DEF Says, LobbySays
    <3> QED BY <2>1, <2>3, <2>4, <2>6, <2>7, <3>1, SayingMoves
  <2>8. CASE UNCHANGED <<session, wires, pass>>
    <3>1. Silent(v, ui[p], v, y) /\ Left(v, v)
      BY <1>0, <2>3, SameCopy DEF Silent, Alike, Left
    <3>2. view' = [view EXCEPT ![p] = v] /\ UNCHANGED <<order, controls, broadcasts, wires, pass>>
      BY <1>0, <2>8, CallerState DEF session
    <3> QED BY <1>0, <2>3, <2>6, <3>1, <3>2, SilentMoves
  <2> QED BY <2>5, <2>7, <2>8
<1> QED BY <1>2, <1>3, <1>4

\* A vote, a rate, a launch or a line of chat.
LEMMA LobbyMoves ==
  ASSUME RoomInv, Ends, NEW p \in Procs,
         SetReady(p) \/ SendLaunch(p) \/ Chat(p) \/ (\E r \in Rates : SetRate(p, r))
  PROVE  PlayerMoves(p)
<1> DEFINE v == view[p]
<1>0. /\ Fit(v) /\ v \in ViewType /\ ui[p] \in UiType /\ (Online(p) => v.id \in Ids)
      /\ ui = [ui EXCEPT ![p] = ui[p]] /\ rounds \in Nat
  BY CallerState, CallerFits
<1>1. ASSUME NEW w \in ViewType, NEW m \in ActionType, Call(p, w, m), Left(v, w),
             v.state \in {"Connected", "Listening"},
             LobbySays(v, ui[p], w, ui[p], m), UNCHANGED <<ui, faults, loadedFor>>,
             IF m.type = "Launch" THEN m.nonce = rounds + 1 /\ rounds' = rounds + 1
             ELSE rounds' = rounds
      PROVE  PlayerMoves(p)
  <2>1. Says(v, ui[p], w, ui[p], m) /\ m.type # "Loaded" /\ ui' = [ui EXCEPT ![p] = ui[p]]
    BY <1>0, <1>1 DEF Says, LobbySays
  <2>2. (p \in Joiners => v.state = "Connected") /\ v.state # "Off"
    BY <1>1, CallerState
  <2> QED BY <1>0, <1>1, <2>1, <2>2, SayingMoves
<1>2. CASE SetReady(p)
  <2> DEFINE yes == [v EXCEPT !.ready = @ \cup {v.id}]
             no == [v EXCEPT !.ready = @ \ {v.id}, !.loaded = @ \ {v.id}]
  <2>1. v.id \in Ids /\ v.state = "Connected" /\ v.active = 0 /\ ui[p].at = "lobby"
        /\ UNCHANGED <<ui, rounds, faults, loadedFor>>
    BY <1>0, <1>2 DEF SetReady, Online, Idle
  <2>2. /\ yes \in ViewType /\ Left(v, yes) /\ Alike(v, yes) /\ yes.ready = v.ready \cup {v.id}
        /\ yes.loaded = v.loaded
    BY <1>0, <2>1 DEF Left, OwnCopy, SameRound, Alike, ViewType
  <2>3. /\ no \in ViewType /\ Left(v, no) /\ Alike(v, no) /\ no.ready \subseteq v.ready
        /\ no.loaded \subseteq v.loaded /\ v.id \notin no.ready
    BY <1>0, <2>1 DEF Left, OwnCopy, SameRound, Alike, ViewType
  <2>4. \/ Call(p, yes, ReadyMsg(TRUE, v))
        \/ Call(p, no, ReadyMsg(FALSE, v))
    <3>1. CASE v.id \notin v.ready
      <4>1. (v.id \notin v.ready) = TRUE
        BY <3>1
      <4> QED BY <1>2, <3>1, <4>1 DEF SetReady
    <3>2. CASE v.id \in v.ready
      <4>1. (v.id \notin v.ready) = FALSE
        BY <3>2
      <4> QED BY <1>2, <3>2, <4>1 DEF SetReady
    <3> QED BY <3>1, <3>2
  <2>5. ASSUME NEW b \in BOOLEAN
        PROVE  /\ ReadyMsg(b, v) \in ActionType /\ ReadyMsg(b, v).type = "Ready"
               /\ ReadyMsg(b, v).rev = v.rev
    BY <1>0 DEF ReadyMsg, ActionType, ViewType
  <2> HIDE DEF yes, no
  <2>6. LobbySays(v, ui[p], yes, ui[p], ReadyMsg(TRUE, v))
    BY <2>1, <2>2, <2>5 DEF LobbySays
  <2>7. LobbySays(v, ui[p], no, ui[p], ReadyMsg(FALSE, v))
    BY <2>1, <2>3, <2>5 DEF LobbySays
  <2>8. CASE Call(p, yes, ReadyMsg(TRUE, v))
    BY <1>1, <2>1, <2>2, <2>5, <2>6, <2>8
  <2>9. CASE Call(p, no, ReadyMsg(FALSE, v))
    BY <1>1, <2>1, <2>3, <2>5, <2>7, <2>9
  <2> QED BY <2>4, <2>8, <2>9
<1>3. ASSUME NEW r \in Rates, SetRate(p, r)
      PROVE  PlayerMoves(p)
  <2> DEFINE w == [v EXCEPT !.pendingRev = v.rev, !.ratePending = TRUE, !.ready = @ \ {v.id}]
             m == RateMsg(r, v)
  <2>1. /\ w \in ViewType /\ Left(v, w) /\ Alike(v, w) /\ w.ready \subseteq v.ready
        /\ w.loaded = v.loaded /\ v.id \notin w.ready
    BY <1>0 DEF Left, OwnCopy, SameRound, Alike, ViewType
  <2>2. m \in ActionType /\ m.type = "RoomRate"
    BY <1>0, CallFrames DEF RateMsg
  <2>3. /\ Call(p, w, m) /\ UNCHANGED <<ui, rounds, faults, loadedFor>>
        /\ v.state \in {"Connected", "Listening"} /\ v.active = 0 /\ ui[p].at = "lobby"
    BY <1>3 DEF SetRate, history, Idle
  <2> HIDE DEF w, m
  <2>4. LobbySays(v, ui[p], w, ui[p], m)
    BY <2>1, <2>2, <2>3 DEF LobbySays
  <2> QED BY <1>1, <2>1, <2>2, <2>3, <2>4
<1>4. CASE SendLaunch(p)
  <2> DEFINE m == LaunchMsg(0, Selected(v), rounds + 1, v)
  <2>1. Selected(v) \in Charts
    <3>1. PICK i \in v.members : Matches(v, i)
      BY <1>4 DEF SendLaunch, CanStart, AllReady, Several
    <3> QED BY <1>0, <3>1, SelectedType DEF Matches, MaybeChart
  <2>2. rounds + 1 \in Nat \ {0}
    BY <1>0
  <2>3. m \in ActionType /\ m.type = "Launch" /\ m.nonce = rounds + 1 /\ m.rev = v.rev
    BY <1>0, <2>1, <2>2, CallFrames DEF LaunchMsg
  <2>4. /\ Call(p, v, m) /\ rounds' = rounds + 1 /\ UNCHANGED <<ui, faults, loadedFor>>
        /\ v.state = "Connected" /\ v.active = 0 /\ ui[p].at = "lobby"
    BY <1>4 DEF SendLaunch, CanStart, Idle
  <2> HIDE DEF m
  <2>5. Left(v, v) /\ LobbySays(v, ui[p], v, ui[p], m)
    BY <1>0, <2>3, <2>4, SameCopy DEF LobbySays, Alike, Left
  <2> QED BY <1>0, <1>1, <2>3, <2>4, <2>5
<1>5. CASE Chat(p)
  <2> DEFINE m == ChatMsg(0)
  <2>1. m \in ActionType /\ m.type = "Chat"
    BY <1>0, CallFrames DEF ChatMsg
  <2>2. Call(p, v, m) /\ v.state = "Connected" /\ UNCHANGED <<ui, rounds, faults, loadedFor>>
    BY <1>5 DEF Chat, Online, history
  <2> HIDE DEF m
  <2>3. Left(v, v) /\ LobbySays(v, ui[p], v, ui[p], m)
    BY <1>0, <2>1, SameCopy DEF LobbySays, Alike, Left
  <2> QED BY <1>0, <1>1, <2>1, <2>2, <2>3
<1> QED BY <1>2, <1>3, <1>4, <1>5

\* The menu of a player in another state.
LEMMA EnterUi ==
  ASSUME RoomInv, NEW p \in Procs,
         NEW a \in {"lobby", "loading", "leading", "following", "playing", "finished"}, Enter(p, a)
  PROVE  \E y \in UiType : y.at = a /\ ui' = [ui EXCEPT ![p] = y]
<1> DEFINE y == [ui[p] EXCEPT !.at = a]
<1>1. y \in UiType /\ y.at = a /\ ui' = [ui EXCEPT ![p] = y]
  BY DEF RoomInv, Booked, UiType, Enter
<1> QED BY <1>1

\* A launch taken, a load reported, play begun or called off.
LEMMA LoadMoves ==
  ASSUME RoomInv, Ends, NEW p \in Procs,
         PollLaunch(p) \/ MarkLoaded(p) \/ LeadBegin(p) \/ FollowBegin(p) \/ AbortLoad(p)
  PROVE  PlayerMoves(p)
<1> DEFINE v == view[p]
           x == ui[p]
<1>0. /\ Fit(v) /\ v \in ViewType /\ ui[p] \in UiType /\ (Online(p) => v.id \in Ids)
      /\ ui = [ui EXCEPT ![p] = ui[p]] /\ view = [view EXCEPT ![p] = v]
  BY CallerState, CallerFits
<1>1. CASE PollLaunch(p)
  <2> DEFINE w == [v EXCEPT !.launch = NoChart]
  <2>1. /\ w \in ViewType /\ Left(v, w) /\ w.launch = NoChart /\ w.begun = v.begun
        /\ w.finalSent = v.finalSent /\ w.begin = v.begin /\ w.dirty = v.dirty
        /\ w.reset = v.reset /\ w.score = v.score /\ w.ready = v.ready /\ w.loaded = v.loaded
    BY <1>0 DEF Left, OwnCopy, SameRound, ViewType, MaybeChart
  <2>2. /\ view' = [view EXCEPT ![p] = w] /\ UNCHANGED <<order, controls, broadcasts, wires, pass>>
        /\ UNCHANGED <<rounds, faults, loadedFor>>
        /\ v.state = "Connected" /\ x.at = "lobby" /\ v.active # 0 /\ v.launch # NoChart
        /\ Enter(p, "loading") \/ UNCHANGED ui
    BY <1>1 DEF PollLaunch, Online, history
  <2>3. PICK y \in UiType : y.at \in {"lobby", "loading"} /\ ui' = [ui EXCEPT ![p] = y]
    BY <1>0, <2>2, EnterUi
  <2> HIDE DEF w
  <2>4. Silent(v, x, w, y)
    BY <2>1, <2>2, <2>3 DEF Silent
  <2> QED BY <2>1, <2>2, <2>3, <2>4, SilentMoves
<1>2. CASE MarkLoaded(p)
  <2> DEFINE w == [v EXCEPT !.loaded = @ \cup {v.id}]
             m == LoadedMsg(v.active)
  <2>0. /\ v.state = "Connected" /\ x.at = "loading" /\ v.active # 0 /\ Call(p, w, m)
        /\ loadedFor' = [loadedFor EXCEPT ![p] = v.active] /\ UNCHANGED <<rounds, faults>>
        /\ Enter(p, IF IsLeader(v) THEN "leading" ELSE "following")
    BY <1>2 DEF MarkLoaded, Online
  <2>1. /\ w \in ViewType /\ Left(v, w) /\ Alike(v, w) /\ w.ready = v.ready
        /\ w.loaded = v.loaded \cup {v.id}
    BY <1>0, <2>0 DEF Left, OwnCopy, SameRound, Alike, ViewType, Online
  <2>2. m \in ActionType /\ m.type = "Loaded" /\ m.nonce = v.active
    BY <1>0, CallFrames DEF LoadedMsg
  <2>3. PICK y \in UiType : y.at \in {"leading", "following"} /\ ui' = [ui EXCEPT ![p] = y]
    <3>1. CASE IsLeader(v)
      BY <2>0, <3>1, EnterUi
    <3>2. CASE ~IsLeader(v)
      BY <2>0, <3>2, EnterUi
    <3> QED BY <3>1, <3>2
  <2> HIDE DEF w, m
  <2>4. Says(v, x, w, y, m)
    BY <2>0, <2>1, <2>2, <2>3 DEF Says, LoadedSays
  <2> QED BY <2>0, <2>1, <2>2, <2>3, <2>4, SayingMoves
<1>3. CASE LeadBegin(p)
  <2> DEFINE w == [v EXCEPT !.begun = TRUE]
             m == BeginMsg(0, v.active)
  <2>0. /\ v.state = "Connected" /\ x.at = "leading" /\ v.active # 0 /\ Call(p, w, m)
        /\ IsLeader(v) /\ ~v.begun /\ AllLoaded(v)
        /\ UNCHANGED <<rounds, faults, loadedFor>> /\ Enter(p, "playing")
    BY <1>3 DEF LeadBegin, Online, history
  <2>1. /\ w \in ViewType /\ Left(v, w) /\ w.begun /\ w.finalSent = v.finalSent
        /\ w.launch = v.launch /\ w.begin = v.begin /\ w.dirty = v.dirty /\ w.reset = v.reset
        /\ w.score = v.score /\ w.ready = v.ready /\ w.loaded = v.loaded
    BY <1>0 DEF Left, OwnCopy, SameRound, ViewType
  <2>2. m \in ActionType /\ m.type = "Begin" /\ m.nonce = v.active
    BY <1>0, CallFrames DEF BeginMsg
  <2>3. PICK y \in UiType : y.at = "playing" /\ ui' = [ui EXCEPT ![p] = y]
    BY <2>0, EnterUi
  <2> HIDE DEF w, m
  <2>4. Says(v, x, w, y, m)
    BY <2>0, <2>1, <2>2, <2>3 DEF Says, BeginSays
  <2> QED BY <2>0, <2>1, <2>2, <2>3, <2>4, SayingMoves
<1>4. CASE FollowBegin(p)
  <2> DEFINE w == [v EXCEPT !.begin = FALSE]
  <2>1. /\ w \in ViewType /\ Left(v, w) /\ ~w.begin /\ w.begun = v.begun
        /\ w.finalSent = v.finalSent /\ w.launch = v.launch /\ w.dirty = v.dirty
        /\ w.reset = v.reset /\ w.score = v.score /\ w.ready = v.ready /\ w.loaded = v.loaded
    BY <1>0 DEF Left, OwnCopy, SameRound, ViewType
  <2>2. /\ view' = [view EXCEPT ![p] = w] /\ UNCHANGED <<order, controls, broadcasts, wires, pass>>
        /\ UNCHANGED <<rounds, faults, loadedFor>>
        /\ v.state = "Connected" /\ x.at = "following" /\ v.begin /\ Enter(p, "playing")
    BY <1>4 DEF FollowBegin, Online, history
  <2>3. PICK y \in UiType : y.at = "playing" /\ ui' = [ui EXCEPT ![p] = y]
    BY <2>2, EnterUi
  <2> HIDE DEF w
  <2>4. Silent(v, x, w, y)
    BY <2>1, <2>2, <2>3 DEF Silent
  <2> QED BY <2>1, <2>2, <2>3, <2>4, SilentMoves
<1>5. CASE AbortLoad(p)
  <2>1. /\ UNCHANGED <<view, order, controls, broadcasts, wires, pass>>
        /\ UNCHANGED <<rounds, faults, loadedFor>>
        /\ v.state = "Connected" /\ v.active = 0 /\ Enter(p, "lobby")
    BY <1>5 DEF AbortLoad, Online, session, history
  <2>2. PICK y \in UiType : y.at = "lobby" /\ ui' = [ui EXCEPT ![p] = y]
    BY <2>1, EnterUi
  <2>3. Silent(v, x, v, y) /\ Left(v, v)
    BY <1>0, <2>1, <2>2, SameCopy DEF Silent, Alike, Left
  <2>4. view' = [view EXCEPT ![p] = v]
    BY <1>0, <2>1
  <2> QED BY <1>0, <2>1, <2>2, <2>3, <2>4, SilentMoves
<1> QED BY <1>1, <1>2, <1>3, <1>4, <1>5

\* A score, the end of play, the result left.
LEMMA ResultMoves ==
  ASSUME RoomInv, Ends, NEW p \in Procs, LiveScore(p) \/ FinishGame(p) \/ LeaveResult(p)
  PROVE  PlayerMoves(p)
<1> DEFINE v == view[p]
           x == ui[p]
<1>0. /\ Fit(v) /\ v \in ViewType /\ ui[p] \in UiType /\ (Online(p) => v.id \in Ids)
      /\ ui = [ui EXCEPT ![p] = ui[p]] /\ view = [view EXCEPT ![p] = v]
  BY CallerState, CallerFits
<1>1. CASE LiveScore(p)
  <2> DEFINE w == [v EXCEPT !.score = [@ EXCEPT ![v.id] = "live"], !.dirty = TRUE]
  <2>1. /\ w \in ViewType /\ Left(v, w) /\ w.dirty /\ w.score = [v.score EXCEPT ![v.id] = "live"]
        /\ w.begun = v.begun /\ w.finalSent = v.finalSent /\ w.launch = v.launch
        /\ w.begin = v.begin /\ w.reset = v.reset /\ w.ready = v.ready /\ w.loaded = v.loaded
    BY <1>0 DEF Left, OwnCopy, SameRound, ViewType, Scores
  <2>2. /\ view' = [view EXCEPT ![p] = w] /\ UNCHANGED <<order, controls, broadcasts, wires, pass>>
        /\ UNCHANGED <<rounds, faults, loadedFor>> /\ ui' = ui
        /\ v.state = "Connected" /\ x.at = "playing" /\ v.active # 0
    BY <1>1 DEF LiveScore, Online, history
  <2> HIDE DEF w
  <2>3. Silent(v, x, w, x)
    BY <2>1, <2>2 DEF Silent
  <2> QED BY <1>0, <2>1, <2>2, <2>3, SilentMoves
<1>2. CASE FinishGame(p)
  <2> DEFINE w == [v EXCEPT !.score = [@ EXCEPT ![v.id] = "final"], !.dirty = FALSE,
                          !.finalSent = TRUE]
             m == ScoreMsg(0, v.active, "final")
  <2>1. /\ w \in ViewType /\ Left(v, w) /\ ~w.dirty /\ w.score = [v.score EXCEPT ![v.id] = "final"]
        /\ w.begun = v.begun /\ w.finalSent /\ w.launch = v.launch
        /\ w.begin = v.begin /\ w.reset = v.reset /\ w.ready = v.ready /\ w.loaded = v.loaded
    BY <1>0 DEF Left, OwnCopy, SameRound, ViewType, Scores
  <2>2. m \in ActionType /\ m.type = "Score" /\ m.score = "final" /\ m.nonce = v.active
    BY <1>0, CallFrames DEF ScoreMsg
  <2>3. /\ Call(p, w, m) /\ UNCHANGED <<rounds, faults, loadedFor>> /\ Enter(p, "finished")
        /\ v.state = "Connected" /\ x.at = "playing" /\ v.active # 0
    BY <1>2 DEF FinishGame, Online, history
  <2>4. PICK y \in UiType : y.at = "finished" /\ ui' = [ui EXCEPT ![p] = y]
    BY <2>3, EnterUi
  <2> HIDE DEF w, m
  <2>5. Says(v, x, w, y, m)
    BY <2>1, <2>2, <2>3, <2>4 DEF Says, FinalSays
  <2> QED BY <2>1, <2>2, <2>3, <2>4, <2>5, SayingMoves
<1>3. CASE LeaveResult(p)
  <2> DEFINE off == [v EXCEPT !.ready = @ \ {v.id}, !.loaded = @ \ {v.id}]
             left == [v EXCEPT !.reset = @ \cup {v.id}, !.ready = @ \ {v.id},
                        !.loaded = @ \ {v.id}, !.dirty = FALSE, !.launch = NoChart, !.begin = FALSE]
             m == ResetMsg(v.active)
  <2>1. /\ off \in ViewType /\ Left(v, off) /\ Alike(v, off) /\ off.ready \subseteq v.ready
        /\ off.loaded \subseteq v.loaded
    BY <1>0 DEF Left, OwnCopy, SameRound, Alike, ViewType
  <2>2. m \in ActionType /\ m.type = "RoundReset" /\ m.nonce = v.active
    BY <1>0, CallFrames DEF ResetMsg
  <2>3. /\ \/ view' = [view EXCEPT ![p] = off] /\ (v.active = 0 \/ v.state # "Connected")
              /\ UNCHANGED <<order, controls, broadcasts, wires, pass>>
           \/ UNCHANGED <<session, wires, pass>> /\ (~v.finalSent \/ v.id \in v.reset)
           \/ Online(p) /\ Call(p, left, m) /\ v.active # 0 /\ v.finalSent /\ RemoteFinished(v)
        /\ UNCHANGED <<rounds, faults, loadedFor>> /\ v.state # "Off" /\ x.at = "finished"
        /\ Enter(p, "lobby")
    BY <1>3 DEF LeaveResult, Online, history
  <2>4. PICK y \in UiType : y.at = "lobby" /\ ui' = [ui EXCEPT ![p] = y]
    BY <2>3, EnterUi
  <2>5. p \in Joiners => v.state = "Connected"
    BY <2>3, CallerState
  <2>6. CASE view' = [view EXCEPT ![p] = off] /\ (v.active = 0 \/ v.state # "Connected")
             /\ UNCHANGED <<order, controls, broadcasts, wires, pass>>
    <3> HIDE DEF off, left, m
    <3>1. Silent(v, x, off, y)
      BY <2>1, <2>3, <2>4, <2>6 DEF Silent
    <3> QED BY <2>1, <2>3, <2>4, <2>5, <2>6, <3>1, SilentMoves
  <2>7. CASE UNCHANGED <<session, wires, pass>> /\ (~v.finalSent \/ v.id \in v.reset)
    <3> HIDE DEF off, left, m
    <3>1. Silent(v, x, v, y) /\ Left(v, v)
      BY <1>0, <2>3, <2>4, <2>7, SameCopy DEF Silent, Alike, Left
    <3>2. view' = [view EXCEPT ![p] = v] /\ UNCHANGED <<order, controls, broadcasts, wires, pass>>
      BY <1>0, <2>7 DEF session
    <3> QED BY <1>0, <2>3, <2>4, <2>5, <3>1, <3>2, SilentMoves
  <2>8. CASE Online(p) /\ Call(p, left, m) /\ v.active # 0 /\ v.finalSent /\ RemoteFinished(v)
    <3>1. /\ left \in ViewType /\ Left(v, left) /\ left.reset = v.reset \cup {v.id}
          /\ left.score = v.score /\ left.begun = v.begun /\ left.finalSent = v.finalSent
          /\ ~left.dirty /\ left.launch = NoChart /\ ~left.begin
          /\ left.ready \subseteq v.ready /\ left.loaded \subseteq v.loaded
      BY <1>0, <2>8 DEF Left, OwnCopy, SameRound, ViewType, MaybeChart
    <3> HIDE DEF off, left, m
    <3>2. Says(v, x, left, y, m)
      BY <2>2, <2>3, <2>4, <2>8, <3>1 DEF Says, ResetSays
    <3> QED BY <2>2, <2>3, <2>4, <2>5, <2>8, <3>1, <3>2, SayingMoves
  <2> QED BY <2>3, <2>6, <2>7, <2>8
<1> QED BY <1>1, <1>2, <1>3

\* A joiner's worker collects a live score.
LEMMA PumpMoves ==
  ASSUME RoomInv, Ends, NEW c \in Joiners, PumpScore(c)
  PROVE  PlayerMoves(c)
<1> DEFINE v == view[c]
           x == ui[c]
           w == [v EXCEPT !.dirty = FALSE]
           m == ScoreMsg(0, v.active, "live")
<1>0. /\ c \in Procs /\ v \in ViewType /\ x \in UiType /\ ui = [ui EXCEPT ![c] = x]
  BY CallerState DEF Procs
<1>1. /\ w \in ViewType /\ Left(v, w) /\ ~w.dirty /\ w.score = v.score /\ w.begun = v.begun
      /\ w.finalSent = v.finalSent /\ w.launch = v.launch /\ w.begin = v.begin
      /\ w.reset = v.reset /\ w.ready = v.ready /\ w.loaded = v.loaded
  BY <1>0 DEF Left, OwnCopy, SameRound, ViewType
<1>2. m \in ActionType /\ m.type = "Score" /\ m.score = "live" /\ m.nonce = v.active
  BY <1>0, CallFrames DEF ScoreMsg
<1>3. v.dirty /\ v.active # 0 /\ Call(c, w, m) /\ ui' = ui /\ UNCHANGED <<rounds, faults, loadedFor>>
  BY DEF PumpScore, history
<1>4. v.state = "Connected"
  BY <1>0, <1>3, CallerState
<1> HIDE DEF w, m
<1>5. Says(v, x, w, x, m)
  BY <1>1, <1>2, <1>3 DEF Says, LiveSays
<1> QED BY <1>0, <1>1, <1>2, <1>3, <1>4, <1>5, SayingMoves

-----------------------------------------------------------------------------
(* Queues as sets of frames, and what comes before what.                   *)

Frames(s) == {s[k] : k \in DOMAIN s}

\* Nothing of B comes after anything of A.
NoneAfter(s, A, B) == \A k, l \in DOMAIN s : k < l /\ s[k] \in A => s[l] \notin B
\* Everything of B comes after something of A.
LedBy(s, A, B) == \A l \in DOMAIN s : s[l] \in B => \E k \in DOMAIN s : k < l /\ s[k] \in A

\* The frames of a queue less its head.
LEMMA FramesTail ==
  ASSUME NEW S, NEW s \in Seq(S), s # <<>>
  PROVE  /\ Frames(s) = {Head(s)} \cup Frames(Tail(s)) /\ Head(s) \in Frames(s)
         /\ Frames(Tail(s)) \subseteq Frames(s) /\ Head(s) \in S /\ Tail(s) \in Seq(S)
<1>1. /\ \A i \in DOMAIN Tail(s) : i \in Nat /\ i + 1 \in DOMAIN s /\ Tail(s)[i] = s[i + 1]
      /\ \A i \in DOMAIN s : i = 1 \/ (i - 1 \in DOMAIN Tail(s) /\ Tail(s)[i - 1] = s[i])
      /\ 1 \in DOMAIN s /\ s[1] = Head(s) /\ Head(s) \in S /\ Tail(s) \in Seq(S)
  BY TailFrames
<1>2. Frames(s) \subseteq {Head(s)} \cup Frames(Tail(s))
  BY <1>1 DEF Frames
<1>3. Head(s) \in Frames(s) /\ Frames(Tail(s)) \subseteq Frames(s)
  BY <1>1 DEF Frames
<1> QED BY <1>1, <1>2, <1>3

\* The frames of a queue with one more.
LEMMA FramesAppend ==
  ASSUME NEW S, NEW s \in Seq(S), NEW m \in S
  PROVE  /\ Frames(Append(s, m)) = Frames(s) \cup {m} /\ Append(s, m) \in Seq(S)
         /\ Frames(s) \subseteq S
<1>1. /\ Append(s, m) \in Seq(S)
      /\ \A i \in DOMAIN Append(s, m) : (i \in DOMAIN s /\ Append(s, m)[i] = s[i]) \/ Append(s, m)[i] = m
      /\ \A i \in DOMAIN s : i \in DOMAIN Append(s, m) /\ Append(s, m)[i] = s[i] /\ s[i] \in S
      /\ \E i \in DOMAIN Append(s, m) : Append(s, m)[i] = m
  BY AppendFrames
<1>2. Frames(Append(s, m)) \subseteq Frames(s) \cup {m}
  BY <1>1 DEF Frames
<1>3. Frames(s) \cup {m} \subseteq Frames(Append(s, m)) /\ Frames(s) \subseteq S
  BY <1>1 DEF Frames
<1> QED BY <1>1, <1>2, <1>3

\* The frames of two queues joined.
LEMMA FramesConcat ==
  ASSUME NEW S, NEW s \in Seq(S), NEW t \in Seq(S)
  PROVE  Frames(s \o t) = Frames(s) \cup Frames(t) /\ s \o t \in Seq(S) /\ Frames(s) \subseteq S
<1>1. /\ s \o t \in Seq(S)
      /\ \A i \in DOMAIN (s \o t) :
              \/ i \in DOMAIN s /\ (s \o t)[i] = s[i]
              \/ i - Len(s) \in DOMAIN t /\ (s \o t)[i] = t[i - Len(s)]
  BY ConcatFrames
<1>2. Frames(s \o t) \subseteq Frames(s) \cup Frames(t)
  BY <1>1 DEF Frames
<1>3. /\ Len(s) \in Nat /\ DOMAIN s = 1..Len(s) /\ Len(t) \in Nat /\ DOMAIN t = 1..Len(t)
      /\ DOMAIN (s \o t) = 1..(Len(s) + Len(t))
      /\ \A i \in 1..(Len(s) + Len(t)) :
           (s \o t)[i] = IF i <= Len(s) THEN s[i] ELSE t[i - Len(s)]
      /\ \A i \in DOMAIN s : s[i] \in S
  BY ConcatProperties, LenProperties
<1>4. \A i \in DOMAIN s : i \in DOMAIN (s \o t) /\ (s \o t)[i] = s[i]
  BY <1>3
<1>5. \A i \in DOMAIN t : i + Len(s) \in DOMAIN (s \o t) /\ (s \o t)[i + Len(s)] = t[i]
  BY <1>3
<1> DEFINE st == s \o t
<1> HIDE DEF st
<1>6. Frames(s) \subseteq Frames(st) /\ Frames(s) \subseteq S
  BY <1>3, <1>4 DEF Frames, st
<1>7. Frames(t) \subseteq Frames(st)
  <2>1. \A i \in DOMAIN t : i + Len(s) \in DOMAIN st /\ st[i + Len(s)] = t[i]
    BY <1>5 DEF st
  <2>2. \A i \in DOMAIN t : t[i] \in Frames(st)
    BY <2>1 DEF Frames
  <2> QED BY <2>2 DEF Frames
<1> QED BY <1>1, <1>2, <1>6, <1>7 DEF st

\* Short queues.
LEMMA FramesFew ==
  /\ Frames(<<>>) = {}
  /\ \A a : Frames(<<a>>) = {a}
  /\ \A a, b : Frames(<<a, b>>) = {a, b}
<1>1. Frames(<<>>) = {}
  BY DEF Frames
<1>2. ASSUME NEW a PROVE Frames(<<a>>) = {a}
  BY DEF Frames
<1>3. ASSUME NEW a, NEW b PROVE Frames(<<a, b>>) = {a, b}
  <2>1. \A k \in DOMAIN <<a, b>> : <<a, b>>[k] \in {a, b}
    OBVIOUS
  <2>2. 1 \in DOMAIN <<a, b>> /\ 2 \in DOMAIN <<a, b>> /\ <<a, b>>[1] = a /\ <<a, b>>[2] = b
    OBVIOUS
  <2> QED BY <2>1, <2>2 DEF Frames
<1> QED BY <1>1, <1>2, <1>3

\* The frames of what is left when a link is cut.
LEMMA FramesPrefix ==
  ASSUME NEW S, NEW s \in Seq(S), NEW k \in 0..Len(s), NEW m \in S
  PROVE  Frames(Append(SubSeq(s, 1, k), m)) \subseteq Frames(s) \cup {m}
<1> DEFINE t == Append(SubSeq(s, 1, k), m)
<1>1. \A i \in DOMAIN t : (i \in DOMAIN s /\ t[i] = s[i]) \/ t[i] = m
  BY PrefixFrames
<1> QED BY <1>1 DEF Frames

\* Order in a queue less its head.
LEMMA TailOrder ==
  ASSUME NEW S, NEW s \in Seq(S), s # <<>>, NEW A, NEW B
  PROVE  /\ NoneAfter(s, A, B) =>
              NoneAfter(Tail(s), A, B) /\ (Head(s) \in A => Frames(Tail(s)) \cap B = {})
         /\ LedBy(s, A, B) => Head(s) \notin B /\ (Head(s) \in A \/ LedBy(Tail(s), A, B))
<1>1. /\ \A i \in DOMAIN Tail(s) : i \in Nat /\ i + 1 \in DOMAIN s /\ Tail(s)[i] = s[i + 1]
      /\ \A i \in DOMAIN s : i = 1 \/ (i - 1 \in DOMAIN Tail(s) /\ Tail(s)[i - 1] = s[i])
      /\ 1 \in DOMAIN s /\ s[1] = Head(s)
      /\ \A i \in DOMAIN s : i \in Nat /\ 1 <= i
  BY TailFrames
<1>2. ASSUME NoneAfter(s, A, B) PROVE NoneAfter(Tail(s), A, B)
  <2> SUFFICES ASSUME NEW k \in DOMAIN Tail(s), NEW l \in DOMAIN Tail(s), k < l, Tail(s)[k] \in A
               PROVE  Tail(s)[l] \notin B
    BY DEF NoneAfter
  <2>1. k + 1 < l + 1 /\ k + 1 \in DOMAIN s /\ l + 1 \in DOMAIN s /\ s[k + 1] \in A
    BY <1>1
  <2> QED BY <1>1, <1>2, <2>1 DEF NoneAfter
<1>3. ASSUME NoneAfter(s, A, B), Head(s) \in A, NEW l \in DOMAIN Tail(s) PROVE Tail(s)[l] \notin B
  <2>1. 1 < l + 1 /\ l + 1 \in DOMAIN s
    BY <1>1
  <2> QED BY <1>1, <1>3, <2>1 DEF NoneAfter
<1>4. ASSUME LedBy(s, A, B) PROVE Head(s) \notin B
  BY <1>1, <1>4 DEF LedBy
<1>5. ASSUME LedBy(s, A, B), Head(s) \notin A PROVE LedBy(Tail(s), A, B)
  <2> SUFFICES ASSUME NEW l \in DOMAIN Tail(s), Tail(s)[l] \in B
               PROVE  \E k \in DOMAIN Tail(s) : k < l /\ Tail(s)[k] \in A
    BY DEF LedBy
  <2>1. PICK k \in DOMAIN s : k < l + 1 /\ s[k] \in A
    BY <1>1, <1>5 DEF LedBy
  <2>2. k - 1 \in DOMAIN Tail(s) /\ Tail(s)[k - 1] \in A /\ k - 1 < l
    BY <1>1, <1>5, <2>1
  <2> QED BY <2>2
<1> QED BY <1>2, <1>3, <1>4, <1>5 DEF Frames

\* Order in a queue with one frame more.
LEMMA AppendOrder ==
  ASSUME NEW S, NEW s \in Seq(S), NEW m \in S, NEW A, NEW B
  PROVE  /\ NoneAfter(s, A, B) /\ (m \in B => Frames(s) \cap A = {}) => NoneAfter(Append(s, m), A, B)
         /\ LedBy(s, A, B) /\ (m \in B => Frames(s) \cap A # {}) => LedBy(Append(s, m), A, B)
<1> DEFINE t == Append(s, m)
<1>1. /\ \A i \in DOMAIN t : /\ i \in Nat
                             /\ \/ i \in DOMAIN s /\ t[i] = s[i]
                                \/ t[i] = m /\ \A j \in DOMAIN s : j < i
      /\ \A i \in DOMAIN s : i \in Nat /\ i \in DOMAIN t /\ t[i] = s[i]
  BY AppendFrames
<1> HIDE DEF t
<1>2. ASSUME NoneAfter(s, A, B), m \in B => Frames(s) \cap A = {} PROVE NoneAfter(t, A, B)
  <2> SUFFICES ASSUME NEW k \in DOMAIN t, NEW l \in DOMAIN t, k < l, t[k] \in A, t[l] \in B
               PROVE  FALSE
    BY DEF NoneAfter
  <2>1. CASE l \in DOMAIN s /\ t[l] = s[l]
    <3>1. k \in DOMAIN s /\ t[k] = s[k]
      BY <1>1, <2>1
    <3> QED BY <1>2, <2>1, <3>1 DEF NoneAfter
  <2>2. CASE t[l] = m /\ \A j \in DOMAIN s : j < l
    <3>1. (k \in DOMAIN s /\ t[k] = s[k]) \/ (t[k] = m /\ \A j \in DOMAIN s : j < k)
      BY <1>1
    <3>2. CASE k \in DOMAIN s /\ t[k] = s[k]
      BY <1>2, <2>2, <3>2 DEF Frames
    <3>3. CASE k \notin DOMAIN s
      <4>1. l = k
        BY <3>3, AppendProperties, LenProperties DEF t
      <4> QED BY <1>1, <4>1
    <3> QED BY <1>1, <3>2, <3>3
  <2> QED BY <1>1, <2>1, <2>2
<1>3. ASSUME LedBy(s, A, B), m \in B => Frames(s) \cap A # {} PROVE LedBy(t, A, B)
  <2> SUFFICES ASSUME NEW l \in DOMAIN t, t[l] \in B
               PROVE  \E k \in DOMAIN t : k < l /\ t[k] \in A
    BY DEF LedBy
  <2>1. CASE l \in DOMAIN s /\ t[l] = s[l]
    BY <1>1, <1>3, <2>1 DEF LedBy
  <2>2. CASE t[l] = m /\ \A j \in DOMAIN s : j < l
    BY <1>1, <1>3, <2>2 DEF Frames
  <2> QED BY <1>1, <2>1, <2>2
<1> QED BY <1>2, <1>3 DEF t

\* Order in what is left when a link is cut.
LEMMA PrefixOrder ==
  ASSUME NEW S, NEW s \in Seq(S), NEW n \in 0..Len(s), NEW m \in S, NEW A, NEW B, m \notin B
  PROVE  LET t == Append(SubSeq(s, 1, n), m)
         IN /\ NoneAfter(s, A, B) => NoneAfter(t, A, B)
            /\ LedBy(s, A, B) => LedBy(t, A, B)
<1> DEFINE p == SubSeq(s, 1, n)
<1>1. /\ p \in Seq(S) /\ Len(p) = n /\ DOMAIN p = 1..n /\ \A i \in 1..n : p[i] = s[i]
      /\ DOMAIN s = 1..Len(s) /\ Len(s) \in Nat
  BY SubSeqProperties, LenProperties
<1> HIDE DEF p
<1>2. NoneAfter(s, A, B) => NoneAfter(p, A, B)
  BY <1>1 DEF NoneAfter
<1>3. LedBy(s, A, B) => LedBy(p, A, B)
  <2> SUFFICES ASSUME LedBy(s, A, B), NEW l \in DOMAIN p, p[l] \in B
               PROVE  \E k \in DOMAIN p : k < l /\ p[k] \in A
    BY DEF LedBy
  <2>1. PICK k \in DOMAIN s : k < l /\ s[k] \in A
    BY <1>1 DEF LedBy
  <2> QED BY <1>1, <2>1
<1> QED BY <1>1, <1>2, <1>3, AppendOrder DEF p

-----------------------------------------------------------------------------
(* The steps of the room.                                                  *)

\* A joiner takes the next frame.
Applies(c) ==
  LET v == view[c]
      m == Head(down[c])
  IN /\ v.state # "Off" /\ down[c] # <<>> /\ m.type # "Disconnect" /\ ~Breaks(v, m)
     /\ view' = [view EXCEPT ![c] = Apply(v, m)] /\ down' = [down EXCEPT ![c] = Tail(@)]
     /\ UNCHANGED <<ui, order, controls, broadcasts, link, seat, pass, up, history>>

\* A joiner's link breaks: its own choice, the room's, or a frame it refuses.
Breaking(c) ==
  /\ view[c].state # "Off" /\ Sever(c)
  /\ \/ faults' = faults
     \/ /\ down[c] # <<>> /\ Breaks(view[c], Head(down[c]))
        /\ faults' = faults \cup
             {<<IF Online(c) THEN "joiner" ELSE "newcomer", Head(down[c]).type>>}

\* Every call is a move of its caller.
LEMMA CallMoves ==
  ASSUME RoomInv, Ends, NEW p \in Procs,
         \/ Lobby(p) \/ Game(p) \/ SetReady(p) \/ LiveScore(p) \/ Chat(p)
         \/ \E x \in Charts : ChooseChart(p, x)
         \/ \E r \in Rates : SetRate(p, r)
  PROVE  PlayerMoves(p)
<1>1. CASE Lobby(p) \/ SetReady(p) \/ Chat(p) \/ (\E x \in Charts : ChooseChart(p, x))
           \/ (\E r \in Rates : SetRate(p, r))
  BY <1>1, ChartMoves, LobbyMoves DEF Lobby
<1>2. CASE Game(p) \/ LiveScore(p)
  BY <1>2, LoadMoves, ResultMoves DEF Game
<1> QED BY <1>1, <1>2

\* The steps there are.
LEMMA StepKinds ==
  ASSUME RoomInv, Ends, [Next]_vars
  PROVE  \/ \E p \in Procs : PlayerMoves(p)
         \/ \E c \in Joiners : Join(c) \/ Breaking(c) \/ Applies(c)
         \/ HostLocal \/ HostFlush \/ HostEndPass
         \/ \E c \in Joiners :
              HostGreet(c) \/ HostForget(c) \/ HostReceive(c) \/ HostTimeout(c) \/ HostRemove(c)
         \/ HostClose
         \/ UNCHANGED vars
<1>1. ASSUME NEW p \in Procs,
             \/ Lobby(p) \/ Game(p) \/ SetReady(p) \/ LiveScore(p) \/ Chat(p)
             \/ \E x \in Charts : ChooseChart(p, x)
             \/ \E r \in Rates : SetRate(p, r)
      PROVE  PlayerMoves(p)
  BY <1>1, CallMoves
<1>2. ASSUME NEW c \in Joiners, Joiner(c) \/ Leave(c)
      PROVE  PlayerMoves(c) \/ Join(c) \/ Breaking(c) \/ Applies(c)
  <2>1. CASE Join(c)
    BY <2>1
  <2>2. CASE StartFails(c) \/ Leave(c)
    BY <2>2 DEF StartFails, Leave, Breaking
  <2>3. CASE Receive(c)
    BY <2>3 DEF Receive, Breaking, Applies
  <2>4. CASE PumpScore(c)
    BY <2>4, PumpMoves
  <2> QED BY <1>2, <2>1, <2>2, <2>3, <2>4 DEF Joiner
<1>3. Joiners \subseteq Procs
  BY DEF Procs
<1> QED BY <1>1, <1>2, <1>3 DEF Next, Course, Extra, Worker

\* What a move leaves alone.
LEMMA MovesLeave ==
  ASSUME RoomInv, Ends, NEW p \in Procs, PlayerMoves(p)
  PROVE  /\ UNCHANGED <<order, link, seat, batch, broadcasts, phase, down, faults>>
         /\ \A q \in Procs \ {p} : view'[q] = view[q] /\ ui'[q] = ui[q]
         /\ p # Host => controls' = controls /\ view'[Host] = view[Host]
         /\ \A c \in Joiners \ {p} : up'[c] = up[c]
         /\ SameRound(view[p], view'[p]) /\ view'[p].leader = view[p].leader
         /\ view'[p] \in ViewType /\ ui'[p] \in UiType
         /\ view[p].state # "Off" /\ (p \in Joiners => view[p].state = "Connected")
         /\ view'[p].ready \subseteq view[p].ready \cup {view[p].id}
<1>1. PICK w \in ViewType, y \in UiType :
        /\ view' = [view EXCEPT ![p] = w] /\ ui' = [ui EXCEPT ![p] = y]
        /\ Left(view[p], w) /\ view[p].state # "Off"
        /\ p \in Joiners => view[p].state = "Connected"
        /\ UNCHANGED <<order, link, seat, batch, broadcasts, phase, down, faults>>
        /\ UNCHANGED <<controls, up>> \/ (\E m \in ActionType : Queue(p, m))
  BY DEF PlayerMoves
<1>2. DOMAIN view = Procs /\ DOMAIN ui = Procs /\ DOMAIN up = Joiners /\ Host \in Procs
  BY DEF RoomInv, Netted, Booked, Procs
<1>3. /\ \A q \in Procs \ {p} : view'[q] = view[q] /\ ui'[q] = ui[q]
      /\ view'[p] = w /\ ui'[p] = y
  BY <1>1, <1>2
<1>4. (p # Host => controls' = controls) /\ \A c \in Joiners \ {p} : up'[c] = up[c]
  BY <1>1, <1>2, RoomAssumption DEF Queue
<1> QED BY <1>1, <1>2, <1>3, <1>4 DEF Left, OwnCopy

\* A joiner's copy after a frame: still a joiner's, and with no more to say.
LEMMA ApplyEnd ==
  ASSUME NEW v \in ViewType, NEW m \in RelayType, NEW x, End(v, x), v.state # "Off",
         m.type # "Disconnect"
  PROVE  End(Apply(v, m), x)
<1>1. CASE m.type = "RoomWelcome"
  BY <1>1 DEF Apply, End, ViewType
<1>2. CASE m.type = "RoomRoster"
  <2> DEFINE pending == v.ratePending /\ m.rev <= v.pendingRev /\ m.nonce = 0 /\ m.leader = v.id
             score == [i \in Ids |-> IF i \in m.members \cap v.members THEN v.score[i] ELSE "none"]
             state == IF v.id \in m.members THEN "Connected" ELSE v.state
             closed == IF v.active # 0 THEN v.active ELSE v.closed
             taken == [v EXCEPT
        !.ratePending = pending,
        !.rate = m.rate, !.rev = m.rev, !.leader = m.leader, !.members = m.members,
        !.ready = m.ready, !.loaded = m.loaded, !.reset = m.reset, !.chart = m.chart,
        !.score = score, !.state = state, !.active = m.nonce]
             live == [taken EXCEPT !.roundRate = m.rate]
             idle == [taken EXCEPT !.closed = closed,
                        !.launch = NoChart, !.begin = FALSE, !.begun = FALSE,
                        !.finalSent = FALSE, !.dirty = FALSE]
  <2>1. Apply(v, m) \in {live, idle}
    BY <1>2 DEF Apply, ApplyRoster
  <2> HIDE DEF pending, score, closed
  <2>2. live.state = state /\ idle.state = state /\ live.dirty = v.dirty /\ idle.dirty = FALSE
    BY DEF ViewType
  <2>3. state \in {v.state, "Connected"}
    OBVIOUS
  <2> HIDE DEF live, idle, state
  <2> QED BY <2>1, <2>2, <2>3 DEF End
<1>3. CASE m.type = "Launch"
  <2>1. Apply(v, m).state = v.state /\ Apply(v, m).dirty = v.dirty
    BY <1>3 DEF Apply, ApplyLaunch, ViewType
  <2> QED BY <2>1 DEF End
<1>4. CASE m.type = "Begin"
  <2>1. Apply(v, m).state = v.state /\ Apply(v, m).dirty = v.dirty
    BY <1>4 DEF Apply, ViewType
  <2> QED BY <2>1 DEF End
<1>5. CASE m.type = "Score"
  <2>1. Apply(v, m).state = v.state /\ Apply(v, m).dirty = v.dirty
    BY <1>5 DEF Apply, ViewType
  <2> QED BY <2>1 DEF End
<1>6. CASE m.type = "Chat"
  BY <1>6 DEF Apply
<1> QED BY <1>1, <1>2, <1>3, <1>4, <1>5, <1>6, RelayFields

\* The ends of the links in every state.
LEMMA StepEnds ==
  ASSUME RoomInv, RoundInv, Ends, [Next]_vars
  PROVE  Ends'
<1> DEFINE Shut(lk, u) == lk \in {"none", "greeting"} =>
                            \A k \in DOMAIN u : u[k].type \in {"Hello", "Disconnect"}
<1>0. /\ view \in [Procs -> ViewType] /\ ui \in [Procs -> UiType] /\ Joiners \subseteq Procs
      /\ Host \in Procs /\ Host \notin Joiners /\ up \in [Joiners -> Seq(ActionType)]
      /\ link \in [Joiners -> Links] /\ down \in [Joiners -> Seq(RelayType)]
  BY RoomAssumption DEF RoomInv, SeatInv, Netted, Booked, Procs
<1>a. \A c \in Joiners : End(view[c], ui[c]) /\ Shut(link[c], up[c])
  BY DEF Ends
<1> SUFFICES ASSUME NEW d \in Joiners PROVE End(view'[d], ui'[d]) /\ Shut(link'[d], up'[d])
  BY DEF Ends
<1>o. ASSUME view'[d] = view[d], ui'[d] = ui[d], link'[d] = link[d], up'[d] = up[d]
      PROVE  End(view'[d], ui'[d]) /\ Shut(link'[d], up'[d])
  BY <1>a, <1>o
<1> HIDE DEF Shut
<1>1. ASSUME NEW p \in Procs, PlayerMoves(p)
      PROVE  End(view'[d], ui'[d]) /\ Shut(link'[d], up'[d])
  <2>1. CASE d # p
    BY <1>0, <1>1, <1>o, <2>1, MovesLeave
  <2>2. CASE d = p
    <3>1. view[d].state = "Connected" /\ view'[d].state = "Connected" /\ link'[d] = link[d]
      BY <1>1, <2>2, MovesLeave DEF SameRound
    <3>2. link[d] \notin {"none", "greeting"}
      BY <3>1, JoinerFacts DEF Joined, Waits
    <3> QED BY <3>1, <3>2 DEF End, Shut
  <2> QED BY <2>1, <2>2
<1>2. ASSUME NEW c \in Joiners, Join(c) \/ Breaking(c) \/ Applies(c)
      PROVE  End(view'[d], ui'[d]) /\ Shut(link'[d], up'[d])
  <2>1. CASE d # c
    BY <1>0, <1>2, <1>o, <2>1 DEF Join, Breaking, Sever, Applies
  <2>2. CASE Join(c) /\ d = c
    <3>1. view'[d] = JoinerView /\ ui'[d] = ui[d] /\ up'[d] = <<HelloMsg>> /\ view[d].state = "Off"
      BY <1>0, <2>2 DEF Join
    <3>2. JoinerView.state = "Joining" /\ JoinerView.dirty = FALSE
      BY DEF JoinerView, FreshView
    <3>3. Shut(link'[d], up'[d])
      BY <3>1 DEF Shut, HelloMsg
    <3> QED BY <1>a, <3>1, <3>2, <3>3 DEF End
  <2>3. CASE Breaking(c) /\ d = c
    <3>1. PICK k \in 0..Len(up[c]) : up' = [up EXCEPT ![c] = Append(SubSeq(@, 1, k), Bye)]
      BY <2>3 DEF Breaking, Sever
    <3>2. /\ view'[d] = OffView /\ ui'[d] = LobbyUi /\ link'[d] = link[d]
          /\ up'[d] = Append(SubSeq(up[d], 1, k), Bye)
      BY <1>0, <2>3, <3>1 DEF Breaking, Sever
    <3>3. OffView.state = "Off" /\ OffView.dirty = FALSE /\ LobbyUi.at = "lobby"
      BY DEF OffView, FreshView, LobbyUi
    <3>4. Bye \in ActionType /\ Bye.type = "Disconnect"
      BY DEF Bye, ActionType
    <3>5. \A i \in DOMAIN up'[d] : (i \in DOMAIN up[d] /\ up'[d][i] = up[d][i]) \/ up'[d][i] = Bye
      BY <1>0, <2>3, <3>2, <3>4, PrefixFrames
    <3>6. Shut(link'[d], up'[d])
      BY <1>a, <3>2, <3>4, <3>5 DEF Shut
    <3> QED BY <3>2, <3>3, <3>6 DEF End
  <2>4. CASE Applies(c) /\ d = c
    <3>1. /\ view'[d] = Apply(view[d], Head(down[d])) /\ ui'[d] = ui[d] /\ up'[d] = up[d]
          /\ link'[d] = link[d] /\ view[d].state # "Off" /\ Head(down[d]).type # "Disconnect"
          /\ down[d] # <<>>
      BY <1>0, <2>4 DEF Applies
    <3>2. Head(down[d]) \in RelayType
      BY <1>0, <3>1, TailType
    <3>3. End(view'[d], ui'[d])
      BY <1>0, <1>a, <3>1, <3>2, ApplyEnd
    <3> QED BY <1>a, <3>1, <3>3
  <2> QED BY <1>2, <2>1, <2>2, <2>3, <2>4
<1>3. CASE HostLocal \/ HostFlush \/ HostEndPass
  BY <1>0, <1>3, <1>o DEF HostLocal, HostFlush, HostEndPass, wires
<1>4. ASSUME NEW c \in Joiners,
             HostGreet(c) \/ HostForget(c) \/ HostReceive(c) \/ HostTimeout(c) \/ HostRemove(c)
      PROVE  End(view'[d], ui'[d]) /\ Shut(link'[d], up'[d])
  <2>1. view'[d] = view[d] /\ ui'[d] = ui[d]
    BY <1>0, <1>4 DEF HostGreet, HostForget, HostReceive, HostTimeout, HostRemove, session
  <2>2. CASE d # c
    <3>1. link'[d] = link[d] /\ up'[d] = up[d]
      BY <1>0, <1>4, <2>2 DEF HostGreet, HostForget, HostReceive, HostTimeout, HostRemove
    <3> QED BY <1>o, <2>1, <3>1
  <2>3. CASE d = c
    <3>1. link'[d] \notin {"none", "greeting"}
      BY <1>0, <1>4, <2>3 DEF HostGreet, HostForget, HostReceive, HostTimeout, HostRemove
    <3> QED BY <1>a, <2>1, <3>1 DEF Shut
  <2> QED BY <2>2, <2>3
<1>5. CASE HostClose
  <2>1. view'[d] = view[d] /\ ui'[d] = ui[d] /\ link'[d] = "gone"
    BY <1>0, <1>5 DEF HostClose
  <2> QED BY <1>a, <2>1 DEF Shut
<1>6. CASE UNCHANGED vars
  BY <1>6, <1>o DEF vars
<1> QED BY <1>1, <1>2, <1>3, <1>4, <1>5, <1>6, StepKinds

-----------------------------------------------------------------------------
(* What the coordinator makes of a frame m of player i: its copy h becomes *)
(* w, and out is broadcast.                                                *)

\* The players stay.
Table(h, w) == w.id = h.id /\ w.state = h.state /\ w.members = h.members
\* The round and its settings stay, and who leads.
Round(h, w) ==
  w.active = h.active /\ w.closed = h.closed /\ w.rev = h.rev /\ w.leader = h.leader
\* The coordinator's own part in the round stays.
OwnPart(h, w) ==
  /\ w.begun = h.begun /\ w.begin = h.begin /\ w.launch = h.launch /\ w.dirty = h.dirty
  /\ w.finalSent = h.finalSent
\* Nothing of a round is left.
Cleared(h, w) ==
  /\ w.active = 0 /\ w.rev > h.rev /\ w.closed = (IF h.active # 0 THEN h.active ELSE h.closed)
  /\ w.ready = {} /\ w.loaded = {} /\ w.reset = {} /\ w.score = NoScores
  /\ ~w.begun /\ ~w.begin /\ ~w.dirty /\ ~w.finalSent /\ w.launch = NoChart

\* A vote of player i for revision r.
YesOf(r) == {m \in ActionType : m.type = "Ready" /\ m.ready /\ m.rev = r}

\* Lobby talk, and frames of a round that is over.
HTalks(h, i, m, w, out) ==
  /\ Table(h, w) /\ Round(h, w) /\ OwnPart(h, w)
  /\ m.type # "Begin" /\ (m.type \in RoundFrames => m.nonce # h.active)
  /\ h.active # 0 =>
       w.ready = h.ready /\ w.loaded = h.loaded /\ w.reset = h.reset /\ w.score = h.score
  /\ h.active = 0 =>
       /\ w.reset \subseteq h.reset /\ w.loaded \subseteq h.loaded
       /\ w.ready \subseteq h.ready \cup {i}
       /\ i \in w.ready => i \in h.ready \/ m \in YesOf(h.rev)
  /\ \/ out = <<>>
     \/ out = <<RosterMsg(w)>>
     \/ m.type = "Chat" /\ out = <<From(i, m)>>

\* A new rate.
HRenews(h, i, m, w, out) ==
  /\ m.type = "RoomRate" /\ h.active = 0
  /\ Table(h, w) /\ OwnPart(h, w) /\ w.leader = h.leader
  /\ w.active = 0 /\ w.closed = h.closed /\ w.rev > h.rev
  /\ w.ready = {} /\ w.loaded = {} /\ w.reset = h.reset
  /\ out = <<RosterMsg(w)>>

HLoads(h, i, m, w, out) ==
  /\ m.type = "Loaded" /\ m.nonce = h.active
  /\ Table(h, w) /\ Round(h, w) /\ OwnPart(h, w)
  /\ w.ready = h.ready /\ w.loaded = h.loaded \cup {i} /\ w.reset = h.reset /\ w.score = h.score
  /\ out = <<RosterMsg(w)>>

HBegins(h, i, m, w, out) ==
  /\ m.type = "Begin" /\ m.nonce = h.active /\ i = h.leader /\ AllLoaded(h)
  /\ h.begun => i = h.id
  /\ Table(h, w) /\ Round(h, w)
  /\ w.begun /\ (w.begin <=> h.begin \/ i # h.id)
  /\ w.launch = h.launch /\ w.dirty = h.dirty /\ w.finalSent = h.finalSent
  /\ w.ready = h.ready /\ w.loaded = h.loaded /\ w.reset = h.reset /\ w.score = h.score
  /\ out = <<From(i, m)>>

HScores(h, i, m, w, out) ==
  /\ m.type = "Score" /\ m.nonce = h.active
  /\ Table(h, w) /\ Round(h, w) /\ OwnPart(h, w)
  /\ w.ready = h.ready /\ w.loaded = h.loaded /\ w.reset = h.reset
  /\ w.score = [h.score EXCEPT ![i] = m.score]
  /\ out = <<From(i, m)>>

HResets(h, i, m, w, out) ==
  /\ m.type = "RoundReset" /\ m.nonce = h.active /\ h.score[i] = "final"
  /\ Table(h, w) /\ Round(h, w) /\ OwnPart(h, w)
  /\ w.ready = h.ready \ {i} /\ w.loaded = h.loaded \ {i} /\ w.reset = h.reset \cup {i}
  /\ w.score = h.score
  /\ out = <<RosterMsg(w)>>

HLaunches(h, i, m, w, out) ==
  /\ m.type = "Launch" /\ h.active = 0 /\ i = h.leader /\ AllReady(h) /\ m.rev = h.rev
  /\ Table(h, w) /\ w.active = m.nonce /\ w.active # 0
  /\ w.closed = h.closed /\ w.rev = h.rev /\ w.leader = h.leader
  /\ w.ready = h.ready /\ w.loaded = {} /\ w.reset = {} /\ w.score = NoScores
  /\ ~w.begun /\ ~w.finalSent /\ w.launch = m.chart /\ w.launch # NoChart
  /\ w.begin = h.begin /\ w.dirty = h.dirty
  /\ out = <<From(i, m), RosterMsg(w)>>

\* A launch called off, or a round that everybody has left.
HCloses(h, ord, i, m, w, out) ==
  /\ Table(h, w) /\ Cleared(h, w)
  /\ \/ m.type = "Ready" /\ h.active # 0 /\ ~h.begun /\ w.leader = h.leader
     \/ /\ m.type = "RoundReset" /\ m.nonce = h.active /\ h.score[i] = "final"
        /\ h.members \subseteq h.reset \cup {i}
        /\ w.leader = IF Len(ord) > 1 THEN NextLeader(ord, h.leader) ELSE h.leader
  /\ out = <<RosterMsg(w)>>

Handled(h, ord, i, m, w, out) ==
  \/ HTalks(h, i, m, w, out)
  \/ HRenews(h, i, m, w, out)
  \/ HLoads(h, i, m, w, out)
  \/ HBegins(h, i, m, w, out)
  \/ HScores(h, i, m, w, out)
  \/ HResets(h, i, m, w, out)
  \/ HLaunches(h, i, m, w, out)
  \/ HCloses(h, ord, i, m, w, out)

\* cancel_launch_locked and clear_round_locked.
LEMMA ClearsRound ==
  ASSUME NEW v \in ViewType, NEW ord
  PROVE  /\ Table(v, CancelLaunch(v)) /\ Cleared(v, CancelLaunch(v))
         /\ CancelLaunch(v).leader = v.leader
         /\ Table(v, ClearRound(v, ord, TRUE)) /\ Cleared(v, ClearRound(v, ord, TRUE))
         /\ ClearRound(v, ord, TRUE).leader =
              IF Len(ord) > 1 THEN NextLeader(ord, v.leader) ELSE v.leader
         /\ Table(v, ClearRound(v, ord, FALSE)) /\ Cleared(v, ClearRound(v, ord, FALSE))
<1> DEFINE r == v.rev + 1
           x == [v EXCEPT !.rev = r, !.ratePending = FALSE, !.ready = {}, !.loaded = {}]
           closed == IF v.active # 0 THEN v.active ELSE v.closed
           w == [x EXCEPT !.closed = closed,
                   !.active = 0, !.begun = FALSE, !.finalSent = FALSE, !.launch = NoChart,
                   !.begin = FALSE, !.dirty = FALSE, !.reset = {}, !.score = NoScores]
           lead == IF Len(ord) > 1 THEN NextLeader(ord, w.leader) ELSE w.leader
           y == [w EXCEPT !.chart = NoCharts, !.leader = lead]
           z == [w EXCEPT !.chart = NoCharts]
<1>1. v.rev \in Nat /\ r > v.rev /\ r \in Nat /\ v.active \in Nat /\ v.closed \in Nat
  BY ViewFields
<1>a. closed \in Nat /\ NoScores \in [Ids -> Scores] /\ NoChart \in MaybeChart
      /\ NoCharts \in [Ids -> MaybeChart]
  BY <1>1 DEF NoScores, NoCharts, Scores, MaybeChart
<1>b. CancelLaunch(v) = w
  BY DEF CancelLaunch, InvalidateVotes, x, r, closed, ViewType
<1> HIDE DEF r, closed
<1>2. /\ x \in ViewType /\ x.rev = r /\ x.ready = {} /\ x.loaded = {} /\ x.id = v.id
      /\ x.state = v.state /\ x.members = v.members /\ x.leader = v.leader
  BY <1>1 DEF ViewType
<1> HIDE DEF x
<1>3. /\ w \in ViewType /\ Table(v, w) /\ w.leader = v.leader
      /\ w.active = 0 /\ w.rev = r /\ w.closed = closed
      /\ w.ready = {} /\ w.loaded = {} /\ w.reset = {} /\ w.score = NoScores
      /\ ~w.begun /\ ~w.begin /\ ~w.dirty /\ ~w.finalSent /\ w.launch = NoChart
  BY <1>2, <1>a DEF ViewType, Table
<1>4. ClearRound(v, ord, TRUE) = y
  BY <1>b, <1>3 DEF ClearRound, ViewType
<1>c. ClearRound(v, ord, FALSE) = z
  <2>1. ClearRound(v, ord, FALSE) = [w EXCEPT !.chart = NoCharts, !.leader = w.leader]
    BY <1>b DEF ClearRound
  <2>2. w.leader = w["leader"] /\ "leader" \in DOMAIN w /\ "chart" \in DOMAIN w
    BY <1>3 DEF ViewType
  <2> HIDE DEF w
  <2> QED BY <1>3, <2>1, <2>2 DEF ViewType
<1> HIDE DEF w, lead
<1>5. /\ y.id = w.id /\ y.state = w.state /\ y.members = w.members /\ y.leader = lead
      /\ y.active = w.active /\ y.rev = w.rev /\ y.closed = w.closed
      /\ y.ready = w.ready /\ y.loaded = w.loaded /\ y.reset = w.reset /\ y.score = w.score
      /\ y.begun = w.begun /\ y.begin = w.begin /\ y.dirty = w.dirty
      /\ y.finalSent = w.finalSent /\ y.launch = w.launch
  BY <1>3 DEF ViewType
<1>6. /\ z.id = w.id /\ z.state = w.state /\ z.members = w.members
      /\ z.active = w.active /\ z.rev = w.rev /\ z.closed = w.closed
      /\ z.ready = w.ready /\ z.loaded = w.loaded /\ z.reset = w.reset /\ z.score = w.score
      /\ z.begun = w.begun /\ z.begin = w.begin /\ z.dirty = w.dirty
      /\ z.finalSent = w.finalSent /\ z.launch = w.launch
  BY <1>3 DEF ViewType
<1> HIDE DEF y, z
<1>7. Cleared(v, w)
  BY <1>1, <1>3 DEF Cleared, closed
<1>8. Table(v, y) /\ Cleared(v, y) /\ Table(v, z) /\ Cleared(v, z)
  BY <1>3, <1>5, <1>6, <1>7 DEF Cleared, Table
<1>9. y.leader = IF Len(ord) > 1 THEN NextLeader(ord, v.leader) ELSE v.leader
  BY <1>3, <1>5 DEF lead
<1> QED BY <1>3, <1>4, <1>7, <1>8, <1>9, <1>b, <1>c

\* A copy that stays is lobby talk.
LEMMA SameTalk ==
  ASSUME NEW h, NEW i, NEW m, m.type \notin RoundFrames \/ (m.type # "Begin" /\ m.nonce # h.active),
         NEW out, out \in {<<>>, <<RosterMsg(h)>>} \/ (m.type = "Chat" /\ out = <<From(i, m)>>)
  PROVE  HTalks(h, i, m, h, out)
BY DEF HTalks, Table, Round, OwnPart, RoundFrames

\* Every frame that is accepted is one of these.
LEMMA HandledFrame ==
  ASSUME NEW v \in ViewType, NEW ord \in Seq(Ids), NEW i \in Ids,
         NEW m \in ActionType, ~Rejects(v, i, m)
  PROVE  LET r == Handle(v, ord, i, m) IN Handled(v, ord, i, m, r.view, r.out)
<1>0. m.type \in Actions /\ i \in v.members
  BY DEF Rejects
<1> DEFINE r == Handle(v, ord, i, m)
<1>a. ASSUME NEW w, NEW out, Handle(v, ord, i, m) = Reply(w, out), Handled(v, ord, i, m, w, out)
      PROVE  LET rr == Handle(v, ord, i, m) IN Handled(v, ord, i, m, rr.view, rr.out)
  BY <1>a DEF Reply
<1>b. ASSUME NEW w, Handle(v, ord, i, m) = Publish(w), Handled(v, ord, i, m, w, <<RosterMsg(w)>>)
      PROVE  LET rr == Handle(v, ord, i, m) IN Handled(v, ord, i, m, rr.view, rr.out)
  BY <1>b DEF Reply, Publish
<1>c. ASSUME Handle(v, ord, i, m) = Reply(v, <<>>) \/ Handle(v, ord, i, m) = Publish(v),
             m.type \notin RoundFrames \/ (m.type # "Begin" /\ m.nonce # v.active)
      PROVE  LET rr == Handle(v, ord, i, m) IN Handled(v, ord, i, m, rr.view, rr.out)
  <2>1. HTalks(v, i, m, v, <<>>) /\ HTalks(v, i, m, v, <<RosterMsg(v)>>)
    BY <1>c, SameTalk
  <2> QED BY <1>a, <1>b, <1>c, <2>1 DEF Handled
<1>1. CASE m.type = "Chat"
  <2>1. Handle(v, ord, i, m) = Reply(v, <<From(i, m)>>)
    BY <1>1 DEF Handle
  <2>2. HTalks(v, i, m, v, <<From(i, m)>>)
    BY <1>1, SameTalk DEF RoundFrames
  <2> QED BY <1>a, <2>1, <2>2 DEF Handled
<1>2. CASE m.type = "Chart"
  <2> DEFINE led == [v EXCEPT !.chart = [NoCharts EXCEPT ![i] = m.chart], !.ready = {},
                       !.loaded = {}, !.reset = {}, !.score = NoScores]
             confirmed == [v EXCEPT !.chart = [@ EXCEPT ![i] = m.chart], !.ready = @ \ {i}]
  <2>1. Table(v, led) /\ Round(v, led) /\ OwnPart(v, led)
        /\ led.ready = {} /\ led.loaded = {} /\ led.reset = {}
    BY DEF Table, Round, OwnPart, ViewType
  <2>2. Table(v, confirmed) /\ Round(v, confirmed) /\ OwnPart(v, confirmed)
        /\ confirmed.ready = v.ready \ {i} /\ confirmed.loaded = v.loaded
        /\ confirmed.reset = v.reset
    BY DEF Table, Round, OwnPart, ViewType
  <2>3. \/ v.active # 0 /\ Handle(v, ord, i, m) = Reply(v, <<>>)
        \/ v.active = 0 /\ Handle(v, ord, i, m) = Publish(led)
        \/ v.active = 0 /\ Handle(v, ord, i, m) = Publish(confirmed)
    BY <1>2 DEF Handle, OnChart
  <2> HIDE DEF led, confirmed
  <2>4. v.active = 0 => HTalks(v, i, m, led, <<RosterMsg(led)>>)
    BY <1>2, <2>1 DEF HTalks, RoundFrames
  <2>5. v.active = 0 => HTalks(v, i, m, confirmed, <<RosterMsg(confirmed)>>)
    BY <1>2, <2>2 DEF HTalks, RoundFrames
  <2>6. CASE v.active # 0 /\ Handle(v, ord, i, m) = Reply(v, <<>>)
    BY <1>2, <1>c, <2>6 DEF RoundFrames
  <2>7. CASE v.active = 0 /\ Handle(v, ord, i, m) = Publish(led)
    BY <1>b, <2>4, <2>7 DEF Handled
  <2>8. CASE v.active = 0 /\ Handle(v, ord, i, m) = Publish(confirmed)
    BY <1>b, <2>5, <2>8 DEF Handled
  <2> QED BY <2>3, <2>6, <2>7, <2>8
<1>3. CASE m.type = "Ready"
  <2> DEFINE yes == [v EXCEPT !.ready = @ \cup {i}]
             no == [v EXCEPT !.ready = @ \ {i}, !.loaded = @ \ {i}]
             off == CancelLaunch(v)
  <2>1. Table(v, yes) /\ Round(v, yes) /\ OwnPart(v, yes)
        /\ yes.ready = v.ready \cup {i} /\ yes.loaded = v.loaded /\ yes.reset = v.reset
    BY DEF Table, Round, OwnPart, ViewType
  <2>2. Table(v, no) /\ Round(v, no) /\ OwnPart(v, no)
        /\ no.ready = v.ready \ {i} /\ no.loaded = v.loaded \ {i} /\ no.reset = v.reset
    BY DEF Table, Round, OwnPart, ViewType
  <2>3. Table(v, off) /\ Cleared(v, off) /\ off.leader = v.leader
    BY ClearsRound
  <2>4. \/ Handle(v, ord, i, m) = Publish(v)
        \/ /\ CurrentSettings(v, m) /\ m.ready /\ v.active = 0
           /\ Handle(v, ord, i, m) = Publish(yes)
        \/ v.active = 0 /\ Handle(v, ord, i, m) = Publish(no)
        \/ v.active # 0 /\ ~v.begun /\ Handle(v, ord, i, m) = Publish(off)
        \/ v.active # 0 /\ Handle(v, ord, i, m) = Reply(v, <<>>)
    BY <1>3 DEF Handle, OnReady
  <2> HIDE DEF yes, no, off
  <2>5. CASE Handle(v, ord, i, m) = Publish(v) \/ Handle(v, ord, i, m) = Reply(v, <<>>)
    BY <1>3, <1>c, <2>5 DEF RoundFrames
  <2>6. CASE /\ CurrentSettings(v, m) /\ m.ready /\ v.active = 0
             /\ Handle(v, ord, i, m) = Publish(yes)
    <3>1. m \in YesOf(v.rev)
      BY <1>3, <2>6 DEF YesOf, CurrentSettings
    <3>2. HTalks(v, i, m, yes, <<RosterMsg(yes)>>)
      BY <1>3, <2>1, <2>6, <3>1 DEF HTalks, RoundFrames
    <3> QED BY <1>b, <2>6, <3>2 DEF Handled
  <2>7. CASE v.active = 0 /\ Handle(v, ord, i, m) = Publish(no)
    <3>1. HTalks(v, i, m, no, <<RosterMsg(no)>>)
      BY <1>3, <2>2, <2>7 DEF HTalks, RoundFrames
    <3> QED BY <1>b, <2>7, <3>1 DEF Handled
  <2>8. CASE v.active # 0 /\ ~v.begun /\ Handle(v, ord, i, m) = Publish(off)
    <3>1. HCloses(v, ord, i, m, off, <<RosterMsg(off)>>)
      BY <1>3, <2>3, <2>8 DEF HCloses
    <3> QED BY <1>b, <2>8, <3>1 DEF Handled
  <2> QED BY <2>4, <2>5, <2>6, <2>7, <2>8
<1>4. CASE m.type = "RoomRate"
  <2> DEFINE settled == [v EXCEPT !.ratePending = FALSE]
             rated == [v EXCEPT !.rate = m.rate]
             s == v.rev + 1
             new == [rated EXCEPT !.rev = s, !.ratePending = FALSE, !.ready = {}, !.loaded = {}]
  <2>1. Table(v, settled) /\ Round(v, settled) /\ OwnPart(v, settled)
        /\ settled.ready = v.ready /\ settled.loaded = v.loaded /\ settled.reset = v.reset
        /\ settled.score = v.score
    BY DEF Table, Round, OwnPart, ViewType
  <2>2. rated \in ViewType /\ rated.rev = v.rev
        /\ Table(v, rated) /\ Round(v, rated) /\ OwnPart(v, rated) /\ rated.reset = v.reset
    BY <1>4, ActionFields DEF Table, Round, OwnPart, ViewType
  <2>3. \/ Handle(v, ord, i, m) = Publish(v)
        \/ Handle(v, ord, i, m) = Publish(settled)
        \/ v.active = 0 /\ Handle(v, ord, i, m) = Publish(new)
    <3>1. InvalidateVotes(rated) = new
      BY <2>2 DEF InvalidateVotes
    <3> QED BY <1>4, <3>1 DEF Handle, OnRate
  <2> HIDE DEF rated, settled
  <2>4. s > v.rev
    BY ViewFields
  <2> HIDE DEF s
  <2>5. Table(rated, new) /\ OwnPart(rated, new) /\ new.leader = rated.leader
        /\ new.active = rated.active /\ new.closed = rated.closed /\ new.rev = s
        /\ new.ready = {} /\ new.loaded = {} /\ new.reset = rated.reset
    BY <2>2 DEF Table, OwnPart, ViewType
  <2> HIDE DEF new
  <2>6. HTalks(v, i, m, settled, <<RosterMsg(settled)>>)
    BY <1>4, <2>1 DEF HTalks, RoundFrames
  <2>7. v.active = 0 => HRenews(v, i, m, new, <<RosterMsg(new)>>)
    BY <1>4, <2>2, <2>4, <2>5 DEF HRenews, Table, Round, OwnPart
  <2>8. CASE Handle(v, ord, i, m) = Publish(v)
    BY <1>4, <1>c, <2>8 DEF RoundFrames
  <2>9. CASE Handle(v, ord, i, m) = Publish(settled)
    BY <1>b, <2>6, <2>9 DEF Handled
  <2>10. CASE v.active = 0 /\ Handle(v, ord, i, m) = Publish(new)
    BY <1>b, <2>7, <2>10 DEF Handled
  <2> QED BY <2>3, <2>8, <2>9, <2>10
<1>5. CASE m.type = "Launch"
  <2> DEFINE w == [v EXCEPT !.active = m.nonce, !.roundRate = v.rate, !.ratePending = FALSE,
                            !.loaded = {}, !.reset = {}, !.score = NoScores,
                            !.begun = FALSE, !.finalSent = FALSE, !.launch = m.chart]
  <2>0. m \in [type: {"Launch"}, player: {0}, chart: Charts, nonce: Nat \ {0}, rate: Rates, rev: Nat]
    BY <1>5, ActionFields
  <2>1. /\ Table(v, w) /\ w.active = m.nonce /\ w.rev = v.rev /\ w.leader = v.leader
        /\ w.closed = v.closed /\ w.ready = v.ready
        /\ w.loaded = {} /\ w.reset = {} /\ w.score = NoScores /\ w.begun = FALSE
        /\ w.finalSent = FALSE /\ w.launch = m.chart /\ w.begin = v.begin /\ w.dirty = v.dirty
    BY DEF Table, ViewType
  <2>2. \/ Handle(v, ord, i, m) = Publish(v)
        \/ /\ CurrentSettings(v, m) /\ AllReady(v) /\ m.chart = Selected(v)
           /\ Handle(v, ord, i, m) = Reply(w, <<From(i, m), RosterMsg(w)>>)
    BY <1>5 DEF Handle, OnLaunch
  <2> HIDE DEF w
  <2>3. CASE Handle(v, ord, i, m) = Publish(v)
    BY <1>5, <1>c, <2>3 DEF RoundFrames
  <2>4. CASE /\ CurrentSettings(v, m) /\ AllReady(v) /\ m.chart = Selected(v)
             /\ Handle(v, ord, i, m) = Reply(w, <<From(i, m), RosterMsg(w)>>)
    <3>1. v.active = 0 /\ i = v.leader /\ m.rev = v.rev
      BY <1>5, <2>4 DEF Rejects, CurrentSettings
    <3>2. m.chart # NoChart /\ m.nonce # 0
      BY <2>0, RoomAssumption
    <3>3. HLaunches(v, i, m, w, <<From(i, m), RosterMsg(w)>>)
      BY <1>5, <2>1, <2>4, <3>1, <3>2 DEF HLaunches
    <3> QED BY <1>a, <2>4, <3>3 DEF Handled
  <2> QED BY <2>2, <2>3, <2>4
<1>6. CASE m.type = "Loaded"
  <2> DEFINE w == [v EXCEPT !.loaded = @ \cup {i}]
  <2>1. Table(v, w) /\ Round(v, w) /\ OwnPart(v, w) /\ w.ready = v.ready
        /\ w.loaded = v.loaded \cup {i} /\ w.reset = v.reset /\ w.score = v.score
    BY DEF Table, Round, OwnPart, ViewType
  <2>2. \/ m.nonce # v.active /\ Handle(v, ord, i, m) = Reply(v, <<>>)
        \/ m.nonce = v.active /\ Handle(v, ord, i, m) = Publish(w)
    BY <1>6 DEF Handle, OnLoaded
  <2> HIDE DEF w
  <2>3. CASE m.nonce # v.active /\ Handle(v, ord, i, m) = Reply(v, <<>>)
    BY <1>6, <1>c, <2>3
  <2>4. CASE m.nonce = v.active /\ Handle(v, ord, i, m) = Publish(w)
    <3>1. HLoads(v, i, m, w, <<RosterMsg(w)>>)
      BY <1>6, <2>1, <2>4 DEF HLoads
    <3> QED BY <1>b, <2>4, <3>1 DEF Handled
  <2> QED BY <2>2, <2>3, <2>4
<1>7. CASE m.type = "Begin"
  <2> DEFINE b == v.begin \/ i # v.id
             w == [v EXCEPT !.begun = TRUE, !.begin = b]
  <2>1. Handle(v, ord, i, m) = Reply(w, <<From(i, m)>>)
    BY <1>7 DEF Handle, OnBegin, b
  <2> HIDE DEF b
  <2>2. Table(v, w) /\ Round(v, w) /\ w.begun /\ w.begin = b /\ w.launch = v.launch
        /\ w.dirty = v.dirty /\ w.finalSent = v.finalSent
        /\ w.ready = v.ready /\ w.loaded = v.loaded /\ w.reset = v.reset /\ w.score = v.score
    BY DEF Table, Round, ViewType
  <2> HIDE DEF w
  <2>3. i = v.leader /\ m.nonce = v.active /\ AllLoaded(v) /\ (v.begun => i = v.id)
    BY <1>7 DEF Rejects
  <2>4. HBegins(v, i, m, w, <<From(i, m)>>)
    BY <1>7, <2>2, <2>3 DEF HBegins, b
  <2> QED BY <1>a, <2>1, <2>4 DEF Handled
<1>8. CASE m.type = "Score"
  <2> DEFINE w == [v EXCEPT !.score = [@ EXCEPT ![i] = m.score]]
  <2>1. Table(v, w) /\ Round(v, w) /\ OwnPart(v, w) /\ w.ready = v.ready
        /\ w.loaded = v.loaded /\ w.reset = v.reset /\ w.score = [v.score EXCEPT ![i] = m.score]
    BY DEF Table, Round, OwnPart, ViewType
  <2>2. \/ m.nonce # v.active /\ Handle(v, ord, i, m) = Reply(v, <<>>)
        \/ m.nonce = v.active /\ Handle(v, ord, i, m) = Reply(w, <<From(i, m)>>)
    BY <1>8 DEF Handle, OnScore
  <2> HIDE DEF w
  <2>3. CASE m.nonce # v.active /\ Handle(v, ord, i, m) = Reply(v, <<>>)
    BY <1>8, <1>c, <2>3
  <2>4. CASE m.nonce = v.active /\ Handle(v, ord, i, m) = Reply(w, <<From(i, m)>>)
    <3>1. HScores(v, i, m, w, <<From(i, m)>>)
      BY <1>8, <2>1, <2>4 DEF HScores
    <3> QED BY <1>a, <2>4, <3>1 DEF Handled
  <2> QED BY <2>2, <2>3, <2>4
<1>9. CASE m.type = "RoundReset"
  <2> DEFINE left == [v EXCEPT !.reset = @ \cup {i}, !.ready = @ \ {i}, !.loaded = @ \ {i}]
             over == ClearRound(left, ord, TRUE)
  <2>1. /\ left \in ViewType /\ Table(v, left) /\ Round(v, left) /\ OwnPart(v, left)
        /\ left.ready = v.ready \ {i} /\ left.loaded = v.loaded \ {i}
        /\ left.reset = v.reset \cup {i} /\ left.score = v.score /\ left.members = v.members
    BY DEF Table, Round, OwnPart, ViewType
  <2>2. \/ m.nonce # v.active /\ Handle(v, ord, i, m) = Reply(v, <<>>)
        \/ m.nonce = v.active /\ Handle(v, ord, i, m) = Publish(left)
        \/ m.nonce = v.active /\ AllReset(left) /\ Handle(v, ord, i, m) = Publish(over)
    BY <1>9 DEF Handle, OnReset
  <2> HIDE DEF left
  <2>3. /\ Table(left, over) /\ Cleared(left, over)
        /\ over.leader = IF Len(ord) > 1 THEN NextLeader(ord, left.leader) ELSE left.leader
    BY <2>1, ClearsRound
  <2>c. m.nonce = v.active => v.score[i] = "final"
    BY <1>9 DEF Rejects
  <2> HIDE DEF over
  <2>4. Table(v, over) /\ Cleared(v, over)
        /\ over.leader = IF Len(ord) > 1 THEN NextLeader(ord, v.leader) ELSE v.leader
    BY <2>1, <2>3 DEF Table, Cleared, Round
  <2>5. CASE m.nonce # v.active /\ Handle(v, ord, i, m) = Reply(v, <<>>)
    BY <1>9, <1>c, <2>5
  <2>6. CASE m.nonce = v.active /\ Handle(v, ord, i, m) = Publish(left)
    <3>1. HResets(v, i, m, left, <<RosterMsg(left)>>)
      BY <1>9, <2>1, <2>6, <2>c DEF HResets
    <3> QED BY <1>b, <2>6, <3>1 DEF Handled
  <2>7. CASE m.nonce = v.active /\ AllReset(left) /\ Handle(v, ord, i, m) = Publish(over)
    <3>1. v.members \subseteq v.reset \cup {i}
      BY <2>1, <2>7 DEF AllReset
    <3>2. HCloses(v, ord, i, m, over, <<RosterMsg(over)>>)
      BY <1>9, <2>4, <2>7, <2>c, <3>1 DEF HCloses
    <3> QED BY <1>b, <2>7, <3>2 DEF Handled
  <2> QED BY <2>2, <2>5, <2>6, <2>7
<1> QED BY <1>0, <1>1, <1>2, <1>3, <1>4, <1>5, <1>6, <1>7, <1>8, <1>9 DEF Actions

-----------------------------------------------------------------------------
(* What the coordinator makes of the departure of player id.               *)

\* One player less, and nothing else but the votes of a lobby without leader.
Less(h, id, w) ==
  /\ w.id = h.id /\ w.state = h.state /\ w.members = h.members \ {id}
  /\ w.active = h.active /\ w.closed = h.closed /\ OwnPart(h, w)
  /\ h.rev <= w.rev /\ (h.active # 0 => w.rev = h.rev /\ w.ready = h.ready \ {id})
  /\ w.ready \subseteq h.ready \ {id} /\ w.loaded \subseteq h.loaded \ {id}
  /\ w.reset = h.reset \ {id} /\ w.score = [h.score EXCEPT ![id] = "none"]

\* Who leads once id is gone and rest is left.
Heir(h, ord, id, rest) ==
  IF h.leader = id THEN rest[((Position(ord, id) - 1) % Len(rest)) + 1] ELSE h.leader

Removed(h, ord, id, rest, w) ==
  /\ w.id = h.id /\ w.members = h.members \ {id}
  /\ \/ /\ Len(rest) >= 2 /\ Less(h, id, w) /\ w.leader = Heir(h, ord, id, rest)
     \/ /\ Len(rest) >= 2 /\ Cleared(h, w) /\ w.state = h.state
        /\ h.active # 0 /\ h.members \ {id} \subseteq h.reset /\ h.members \ {id} # {}
        /\ w.leader = NextLeader(rest, Heir(h, ord, id, rest))
     \/ /\ Len(rest) < 2 /\ Cleared(h, w) /\ w.state = "Listening" /\ w.leader = 1

\* Another leader is no other change.
LEMMA LeadLess ==
  ASSUME NEW v \in ViewType, NEW id, NEW x \in ViewType, Less(v, id, x), NEW i \in 0..MaxPlayers
  PROVE  LET w == [x EXCEPT !.leader = i] IN w \in ViewType /\ Less(v, id, w) /\ w.leader = i
<1> DEFINE w == [x EXCEPT !.leader = i]
<1>1. /\ w \in ViewType /\ w.leader = i
      /\ w.id = x.id /\ w.state = x.state /\ w.members = x.members
      /\ w.active = x.active /\ w.closed = x.closed /\ w.rev = x.rev
      /\ w.ready = x.ready /\ w.loaded = x.loaded /\ w.reset = x.reset /\ w.score = x.score
  BY DEF ViewType
<1>2. OwnPart(x, w)
  BY DEF ViewType, OwnPart
<1> HIDE DEF w
<1>3. OwnPart(v, w)
  BY <1>2 DEF OwnPart, Less
<1>4. Less(v, id, w)
  BY <1>1, <1>3 DEF Less
<1> QED BY <1>1, <1>4 DEF w

\* The room after a round that is cleared when id has left.
LEMMA LessCleared ==
  ASSUME NEW v \in ViewType, NEW id, NEW x \in ViewType, Less(v, id, x),
         NEW y \in ViewType, Cleared(x, y)
  PROVE  Cleared(v, y)
<1>1. /\ v.rev \in Nat /\ x.rev \in Nat /\ y.rev \in Nat /\ v.rev <= x.rev
      /\ x.active = v.active /\ x.closed = v.closed
  BY ViewFields DEF Less
<1>2. y.rev > x.rev => y.rev > v.rev
  BY <1>1
<1> QED BY <1>1, <1>2 DEF Cleared

\* remove_host_player_locked.
LEMMA RemovedPlayer ==
  ASSUME NEW v \in ViewType, NEW ord \in Seq(Ids), NoRepeat(ord), NEW id \in InOrder(ord)
  PROVE  Removed(v, ord, id, Without(ord, id), RemovePlayer(v, ord, id))
<1> DEFINE rest == Without(ord, id)
           gone == [v EXCEPT !.members = @ \ {id}, !.ready = @ \ {id}, !.loaded = @ \ {id},
                             !.reset = @ \ {id}, !.chart = [@ EXCEPT ![id] = NoChart],
                             !.score = [@ EXCEPT ![id] = "none"]]
           base == IF v.active = 0 THEN InvalidateVotes(gone) ELSE gone
           heir == rest[((Position(ord, id) - 1) % Len(rest)) + 1]
           led == IF v.leader # id \/ rest = <<>> THEN gone ELSE [base EXCEPT !.leader = heir]
           alone == ClearRound(led, rest, FALSE)
           over == ClearRound(led, rest, TRUE)
           w == RemovePlayer(v, ord, id)
<1>0. v.active \in Nat /\ v.rev \in Nat
  BY ViewFields
<1>1. id \in Ids /\ rest \in Seq(Ids)
  BY WithoutOne DEF InOrder
<1>2. gone \in ViewType /\ Less(v, id, gone) /\ gone.leader = v.leader
  <2> DEFINE charts == [v.chart EXCEPT ![id] = NoChart]
             scores == [v.score EXCEPT ![id] = "none"]
             x == [v EXCEPT !.members = v.members \ {id}, !.ready = v.ready \ {id},
                            !.loaded = v.loaded \ {id}, !.reset = v.reset \ {id},
                            !.chart = charts, !.score = scores]
  <2>1. charts \in [Ids -> MaybeChart] /\ scores \in [Ids -> Scores]
    BY DEF ViewType, MaybeChart, Scores
  <2>2. gone = x
    BY DEF ViewType
  <2> HIDE DEF charts, scores, gone
  <2>3. /\ x.id = v.id /\ x.state = v.state /\ x.members = v.members \ {id}
        /\ x.active = v.active /\ x.closed = v.closed /\ x.rev = v.rev
        /\ x.ready = v.ready \ {id} /\ x.loaded = v.loaded \ {id} /\ x.reset = v.reset \ {id}
        /\ x.score = scores /\ x.leader = v.leader
    BY <2>1 DEF ViewType
  <2>4. OwnPart(v, x)
    BY DEF ViewType, OwnPart
  <2>5. x \in ViewType
    BY <2>1 DEF ViewType
  <2> HIDE DEF x
  <2>6. Less(v, id, x)
    BY <1>0, <2>3, <2>4 DEF Less, scores
  <2> QED BY <2>2, <2>3, <2>5, <2>6
<1>3. Len(rest) \in Nat /\ (Len(rest) >= 2 => Len(rest) > 1 /\ rest # <<>>)
  BY <1>1, LenProperties, EmptySeq
<1>4. w = IF Len(rest) < 2
          THEN [alone EXCEPT !.leader = 1, !.state = "Listening"]
          ELSE IF led.active # 0 /\ AllReset(led) THEN over ELSE led
  BY DEF RemovePlayer
<1>5. rest # <<>> => heir \in Ids
  <2> SUFFICES ASSUME rest # <<>> PROVE heir \in Ids
    OBVIOUS
  <2> DEFINE n == Len(rest)
             k == Position(ord, id) - 1
  <2>1. Position(ord, id) \in 1..Len(ord)
    BY DEF Position, InOrder
  <2>2. n \in Nat \ {0} /\ DOMAIN rest = 1..n /\ k \in Nat
    BY <1>1, <2>1, LenProperties, EmptySeq
  <2>3. (k % n) + 1 \in 1..n
    <3> HIDE DEF n, k
    <3> QED BY <2>2, Remainder
  <2> QED BY <1>1, <2>2, <2>3
<1>h. Heir(v, ord, id, rest) = IF v.leader = id THEN heir ELSE v.leader
  BY DEF Heir
<1> HIDE DEF gone, rest, heir
<1>6. base \in ViewType /\ Less(v, id, base)
  <2>1. CASE v.active # 0
    BY <1>2, <2>1
  <2>2. CASE v.active = 0
    <3> DEFINE r == gone.rev + 1
               x == [gone EXCEPT !.rev = r, !.ratePending = FALSE, !.ready = {}, !.loaded = {}]
    <3>1. r \in Nat /\ v.rev <= r
      BY <1>0, <1>2, ViewFields DEF Less
    <3>2. base = x
      BY <2>2 DEF InvalidateVotes
    <3> HIDE DEF r
    <3>3. /\ x \in ViewType /\ x.rev = r /\ x.ready = {} /\ x.loaded = {}
          /\ x.id = gone.id /\ x.state = gone.state /\ x.members = gone.members
          /\ x.active = gone.active /\ x.closed = gone.closed /\ x.reset = gone.reset
          /\ x.score = gone.score /\ OwnPart(gone, x)
      BY <1>2, <3>1 DEF ViewType, OwnPart
    <3> HIDE DEF x
    <3>4. OwnPart(v, x)
      BY <1>2, <3>3 DEF OwnPart, Less
    <3>5. Less(v, id, x)
      BY <1>2, <2>2, <3>1, <3>3, <3>4 DEF Less
    <3> QED BY <3>2, <3>3, <3>5
  <2> QED BY <2>1, <2>2
<1> HIDE DEF base
<1>7. /\ led \in ViewType /\ Less(v, id, led)
      /\ rest # <<>> => led.leader = Heir(v, ord, id, rest)
  <2>1. CASE v.leader # id \/ rest = <<>>
    BY <1>2, <1>h, <2>1
  <2>2. CASE ~ (v.leader # id \/ rest = <<>>)
    <3>1. heir \in 0..MaxPlayers
      BY <1>5, <2>2, IdRange
    <3>2. led = [base EXCEPT !.leader = heir]
      BY <2>2
    <3> HIDE DEF led
    <3> QED BY <1>6, <1>h, <2>2, <3>1, <3>2, LeadLess
  <2> QED BY <2>1, <2>2
<1> HIDE DEF led
<1>8. /\ Table(led, alone) /\ Cleared(led, alone)
      /\ Table(led, over) /\ Cleared(led, over)
      /\ over.leader = IF Len(rest) > 1 THEN NextLeader(rest, led.leader) ELSE led.leader
      /\ alone \in ViewType /\ over \in ViewType
  BY <1>1, <1>7, ClearsRound, OverType
<1> HIDE DEF alone, over
<1>9. Cleared(v, alone) /\ Cleared(v, over)
  BY <1>7, <1>8, LessCleared
<1>10. CASE Len(rest) < 2
  <2> DEFINE x == [alone EXCEPT !.leader = 1, !.state = "Listening"]
  <2>1. /\ x.id = alone.id /\ x.members = alone.members /\ x.state = "Listening" /\ x.leader = 1
        /\ x.active = alone.active /\ x.rev = alone.rev /\ x.closed = alone.closed
        /\ x.ready = alone.ready /\ x.loaded = alone.loaded /\ x.reset = alone.reset
        /\ x.score = alone.score /\ x.begun = alone.begun /\ x.begin = alone.begin
        /\ x.dirty = alone.dirty /\ x.finalSent = alone.finalSent /\ x.launch = alone.launch
    BY <1>8 DEF ViewType
  <2>2. w = x
    BY <1>4, <1>10
  <2> HIDE DEF x, w
  <2>3. Cleared(v, x)
    BY <1>9, <2>1 DEF Cleared
  <2>4. w.id = v.id /\ w.members = v.members \ {id}
    BY <1>7, <1>8, <2>1, <2>2 DEF Table, Less
  <2>5. Removed(v, ord, id, rest, w)
    BY <1>10, <2>1, <2>2, <2>3, <2>4 DEF Removed
  <2> QED BY <2>5 DEF w, rest
<1>11. CASE Len(rest) >= 2 /\ led.active # 0 /\ AllReset(led)
  <2>1. w = over
    BY <1>3, <1>4, <1>11
  <2> HIDE DEF w
  <2>2. w.leader = NextLeader(rest, Heir(v, ord, id, rest))
    BY <1>3, <1>7, <1>8, <1>11, <2>1
  <2>3. v.members \ {id} \subseteq v.reset /\ v.members \ {id} # {} /\ v.active # 0
    BY <1>7, <1>11 DEF Less, AllReset
  <2>4. w.id = v.id /\ w.members = v.members \ {id} /\ w.state = v.state
    BY <1>7, <1>8, <2>1 DEF Table, Less
  <2>5. Removed(v, ord, id, rest, w)
    BY <1>9, <1>11, <2>1, <2>2, <2>3, <2>4 DEF Removed
  <2> QED BY <2>5 DEF w, rest
<1>12. CASE Len(rest) >= 2 /\ ~(led.active # 0 /\ AllReset(led))
  <2>1. w = led
    BY <1>3, <1>4, <1>12
  <2> HIDE DEF w
  <2>2. Removed(v, ord, id, rest, w)
    BY <1>3, <1>7, <1>12, <2>1 DEF Removed, Less
  <2> QED BY <2>2 DEF w, rest
<1> QED BY <1>3, <1>10, <1>11, <1>12

\* Nobody has said anything in the beginning.
LEMMA InitEnds == Init => Ends
<1> SUFFICES ASSUME Init PROVE Ends
  OBVIOUS
<1>1. Joiners \subseteq Procs /\ Host \notin Joiners
  BY RoomAssumption DEF Procs
<1>2. \A c \in Joiners : view[c] = OffView /\ ui[c] = LobbyUi /\ up[c] = <<>>
  BY <1>1 DEF Init
<1>3. OffView.state = "Off" /\ OffView.dirty = FALSE /\ LobbyUi.at = "lobby"
  BY DEF OffView, FreshView, LobbyUi
<1>4. \A k \in DOMAIN <<>> : FALSE
  OBVIOUS
<1> QED BY <1>2, <1>3, <1>4 DEF Ends, End

-----------------------------------------------------------------------------
(* The steps once more, by what they leave of each process.                *)

\* Joiner c, its link and its menu stay.
Still(c) ==
  /\ link'[c] = link[c] /\ seat'[c] = seat[c] /\ view'[c] = view[c] /\ ui'[c] = ui[c]
  /\ up'[c] = up[c] /\ down'[c] = down[c]
\* The coordinator and its menu stay.
HostStill == view'[Host] = view[Host] /\ ui'[Host] = ui[Host]
\* Whoever is not seated when the frames are taken is not named any more.
SamePass == phase' = "links" => phase = "links"
Counted(p, type, nonce) ==
  /\ IF type = "Launch" THEN nonce = rounds + 1 /\ rounds' = rounds + 1 ELSE rounds' = rounds
  /\ \A q \in Procs : loadedFor'[q] = IF type = "Loaded" /\ q = p THEN nonce ELSE loadedFor[q]

HostMoves ==
  \E w \in ViewType, y \in UiType :
    /\ view[Host].state # "Off" /\ view'[Host] = w /\ ui'[Host] = y /\ Left(view[Host], w)
    /\ \A c \in Joiners : Still(c)
    /\ order' = order /\ broadcasts' = broadcasts /\ SamePass
    /\ \/ /\ Silent(view[Host], ui[Host], w, y) /\ controls' = controls
          /\ rounds' = rounds /\ loadedFor' = loadedFor
       \/ \E m \in ActionType :
            /\ Says(view[Host], ui[Host], w, y, m) /\ controls' = Append(controls, m)
            /\ Counted(Host, m.type, m.nonce)

JoinerMoves(c) ==
  \E w \in ViewType, y \in UiType :
    /\ view[c].state = "Connected" /\ view'[c] = w /\ ui'[c] = y /\ Left(view[c], w)
    /\ HostStill /\ \A d \in Joiners \ {c} : Still(d)
    /\ link'[c] = link[c] /\ seat'[c] = seat[c] /\ down'[c] = down[c]
    /\ order' = order /\ controls' = controls /\ broadcasts' = broadcasts /\ SamePass
    /\ \/ /\ Silent(view[c], ui[c], w, y) /\ up'[c] = up[c]
          /\ rounds' = rounds /\ loadedFor' = loadedFor
       \/ \E m \in ActionType :
            /\ Says(view[c], ui[c], w, y, m) /\ (link[c] = "up" => up'[c] = Append(up[c], m))
            /\ Counted(c, m.type, m.nonce)

\* A joiner alone: it joins, it breaks off, or it takes the next frame.
JoinerTurns(c) ==
  /\ HostStill /\ \A d \in Joiners \ {c} : Still(d)
  /\ link[c] = "up" => link'[c] = "up"
  /\ link'[c] = "up" => link[c] = "up"
  /\ seat'[c] = seat[c]
  /\ order' = order /\ controls' = controls /\ broadcasts' = broadcasts /\ SamePass
  /\ rounds' = rounds /\ loadedFor' = loadedFor
  /\ \/ link[c] # "up"
     \/ /\ view'[c] = OffView /\ ui'[c] = LobbyUi /\ down'[c] = <<>>
        /\ \E k \in 0..Len(up[c]) : up'[c] = Append(SubSeq(up[c], 1, k), Bye)
     \/ /\ view[c].state # "Off" /\ down[c] # <<>> /\ ui'[c] = ui[c] /\ up'[c] = up[c]
        /\ Head(down[c]).type # "Disconnect" /\ ~Breaks(view[c], Head(down[c]))
        /\ view'[c] = Apply(view[c], Head(down[c])) /\ down'[c] = Tail(down[c])

\* The coordinator accepts one of its own calls, or a frame of joiner c.
Minds ==
  \E w \in ViewType, out \in Seq(RelayType) :
    /\ view[Host].state # "Off" /\ controls # <<>> /\ controls' = Tail(controls)
    /\ Handled(view[Host], order, 1, Head(controls), w, out)
    /\ view'[Host] = w /\ ui'[Host] = ui[Host] /\ broadcasts' = broadcasts \o out
    /\ \A c \in Joiners : Still(c)
    /\ order' = order /\ SamePass /\ rounds' = rounds /\ loadedFor' = loadedFor

Hears(c) ==
  \E w \in ViewType, out \in Seq(RelayType) :
    /\ view[Host].state # "Off" /\ link[c] = "up" /\ up[c] # <<>> /\ up'[c] = Tail(up[c])
    /\ seat[c] \in Ids \ {1}
    /\ Handled(view[Host], order, seat[c], Head(up[c]), w, out)
    /\ view'[Host] = w /\ ui'[Host] = ui[Host] /\ broadcasts' = broadcasts \o out
    /\ \A d \in Joiners \ {c} : Still(d)
    /\ link'[c] = link[c] /\ seat'[c] = seat[c] /\ view'[c] = view[c] /\ ui'[c] = ui[c]
    /\ down'[c] = down[c]
    /\ order' = order /\ controls' = controls /\ SamePass
    /\ rounds' = rounds /\ loadedFor' = loadedFor

\* A call or a frame refused, a link dropped, the end of a pass.
Passes ==
  /\ view' = view /\ ui' = ui /\ order' = order /\ broadcasts' = broadcasts /\ SamePass
  /\ controls' = controls \/ (controls # <<>> /\ controls' = Tail(controls))
  /\ \A c \in Joiners : link'[c] = "up" => Still(c)
  /\ rounds' = rounds /\ loadedFor' = loadedFor

\* A joiner is seated.
Seats(c) ==
  \E w \in ViewType, f \in Ids \ {1} :
    LET h == view[Host] IN
    /\ h.state # "Off" /\ h.active = 0 /\ link[c] = "greeting" /\ phase = "links"
    /\ f \notin h.members /\ w.members = h.members \cup {f} /\ w.id = h.id /\ w.state = "Connected"
    /\ Round(h, w) /\ OwnPart(h, w)
    /\ w.ready = h.ready /\ w.loaded = h.loaded /\ w.reset = h.reset /\ w.score = h.score
    /\ view'[Host] = w /\ ui'[Host] = ui[Host] /\ broadcasts' = Append(broadcasts, RosterMsg(w))
    /\ RosterMsg(w) \in RelayType
    /\ \A d \in Joiners \ {c} : Still(d)
    /\ link'[c] = "up" /\ seat'[c] = f /\ view'[c] = view[c] /\ ui'[c] = ui[c]
    /\ down'[c] = <<WelcomeMsg(f, h)>> /\ up'[c] \in Seq(ActionType)
    /\ \A m \in Frames(up'[c]) : m.type \in {"Hello", "Disconnect"}
    /\ order' = Append(order, f) /\ controls' = controls /\ SamePass
    /\ rounds' = rounds /\ loadedFor' = loadedFor

\* A player is removed.
Parts(c) ==
  \E w \in ViewType :
    /\ view[Host].state # "Off" /\ link[c] = "dropping" /\ link'[c] = "gone"
    /\ seat[c] \in view[Host].members \ {1} /\ order' = Without(order, seat[c])
    /\ Removed(view[Host], order, seat[c], order', w)
    /\ view'[Host] = w /\ ui'[Host] = ui[Host] /\ broadcasts' = Append(broadcasts, RosterMsg(w))
    /\ RosterMsg(w) \in RelayType
    /\ \A d \in Joiners \ {c} : Still(d)
    /\ view'[c] = view[c] /\ ui'[c] = ui[c]
    /\ controls' = controls /\ phase' # "links"
    /\ rounds' = rounds /\ loadedFor' = loadedFor

\* The broadcasts go out to every player.
Flushes ==
  /\ HostStill /\ order' = order /\ controls' = controls /\ broadcasts' = <<>>
  /\ \A c \in Joiners :
       /\ link'[c] = link[c] /\ seat'[c] = seat[c] /\ view'[c] = view[c] /\ ui'[c] = ui[c]
       /\ up'[c] = up[c]
       /\ link[c] = "up" /\ view[c].state # "Off" => down'[c] = down[c] \o broadcasts
  /\ rounds' = rounds /\ loadedFor' = loadedFor

Closes ==
  /\ view[Host].state # "Off" /\ view'[Host] = OffView /\ order' = order
  /\ \A c \in Joiners : link'[c] = "gone" /\ view'[c] = view[c] /\ ui'[c] = ui[c]

Shape ==
  \/ HostMoves \/ \E c \in Joiners : JoinerMoves(c)
  \/ \E c \in Joiners : JoinerTurns(c)
  \/ Minds \/ \E c \in Joiners : Hears(c)
  \/ Passes \/ Flushes \/ Closes
  \/ \E c \in Joiners : Seats(c) \/ Parts(c)

\* What is known of the variables.
LEMMA Shapely ==
  ASSUME RoomInv
  PROVE  /\ view \in [Procs -> ViewType] /\ ui \in [Procs -> UiType]
         /\ link \in [Joiners -> Links] /\ seat \in [Joiners -> 0..MaxPlayers]
         /\ up \in [Joiners -> Seq(ActionType)] /\ down \in [Joiners -> Seq(RelayType)]
         /\ Host \in Procs /\ Host \notin Joiners /\ Joiners \subseteq Procs
         /\ \A c \in Joiners : c \in Procs /\ c # Host
         /\ controls \in Seq(ActionType) /\ broadcasts \in Seq(RelayType)
         /\ loadedFor \in [Procs -> Nat] /\ rounds \in Nat
         /\ view[Host].state = "Off" => phase = "closed"
         /\ \A p \in Procs : p # Host => p \in Joiners
BY RoomAssumption DEF RoomInv, SeatInv, Netted, Booked, Procs

\* A move, by what it leaves.
LEMMA MoveShape ==
  ASSUME RoomInv, NEW p \in Procs, PlayerMoves(p)
  PROVE  HostMoves \/ \E c \in Joiners : JoinerMoves(c)
<1>0. /\ DOMAIN view = Procs /\ DOMAIN ui = Procs /\ DOMAIN up = Joiners /\ DOMAIN loadedFor = Procs
      /\ Host \in Procs /\ Host \notin Joiners /\ \A c \in Joiners : c \in Procs /\ c # Host
      /\ p # Host => p \in Joiners
  BY Shapely
<1>1. PICK w \in ViewType, y \in UiType :
        /\ view' = [view EXCEPT ![p] = w] /\ ui' = [ui EXCEPT ![p] = y]
        /\ Left(view[p], w) /\ view[p].state # "Off"
        /\ p \in Joiners => view[p].state = "Connected"
        /\ UNCHANGED <<order, link, seat, batch, broadcasts, phase, down, faults>>
        /\ \/ Silent(view[p], ui[p], w, y) /\ UNCHANGED <<controls, up, rounds, loadedFor>>
           \/ \E m \in ActionType :
               /\ Says(view[p], ui[p], w, y, m) /\ Queue(p, m)
               /\ IF m.type = "Launch" THEN m.nonce = rounds + 1 /\ rounds' = rounds + 1
                  ELSE rounds' = rounds
               /\ loadedFor' = IF m.type = "Loaded" THEN [loadedFor EXCEPT ![p] = m.nonce]
                               ELSE loadedFor
  BY DEF PlayerMoves
<1>2. /\ view'[p] = w /\ ui'[p] = y
      /\ \A q \in Procs \ {p} : view'[q] = view[q] /\ ui'[q] = ui[q]
      /\ order' = order /\ broadcasts' = broadcasts /\ phase' = phase
      /\ link' = link /\ seat' = seat /\ down' = down
  BY <1>0, <1>1
<1>3. ASSUME NEW m \in ActionType,
             /\ IF m.type = "Launch" THEN m.nonce = rounds + 1 /\ rounds' = rounds + 1
                  ELSE rounds' = rounds
             /\ loadedFor' = IF m.type = "Loaded" THEN [loadedFor EXCEPT ![p] = m.nonce]
                               ELSE loadedFor
      PROVE  Counted(p, m.type, m.nonce)
  BY <1>0, <1>3 DEF Counted
<1>4. CASE p = Host
  <2>1. up' = up
    BY <1>1, <1>4 DEF Queue
  <2>2. \A c \in Joiners : Still(c)
    BY <1>0, <1>2, <1>4, <2>1 DEF Still
  <2>3. CASE Silent(view[p], ui[p], w, y) /\ UNCHANGED <<controls, up, rounds, loadedFor>>
    BY <1>1, <1>2, <1>4, <2>2, <2>3 DEF HostMoves, SamePass
  <2>4. ASSUME NEW m \in ActionType, Says(view[p], ui[p], w, y, m), Queue(p, m),
               Counted(p, m.type, m.nonce)
        PROVE  HostMoves
    <3>1. controls' = Append(controls, m)
      BY <1>4, <2>4 DEF Queue
    <3> QED BY <1>1, <1>2, <1>4, <2>2, <2>4, <3>1 DEF HostMoves, SamePass
  <2> QED BY <1>1, <1>3, <2>3, <2>4
<1>5. CASE p # Host
  <2>0. p \in Joiners /\ view[p].state = "Connected"
    BY <1>0, <1>1, <1>5
  <2>1. controls' = controls /\ \A d \in Joiners \ {p} : up'[d] = up[d]
    BY <1>0, <1>1, <1>5 DEF Queue
  <2>2. HostStill /\ \A d \in Joiners \ {p} : Still(d)
    BY <1>0, <1>2, <1>5, <2>1 DEF Still, HostStill
  <2>3. CASE Silent(view[p], ui[p], w, y) /\ UNCHANGED <<controls, up, rounds, loadedFor>>
    <3>1. JoinerMoves(p)
      BY <1>1, <1>2, <2>0, <2>1, <2>2, <2>3 DEF JoinerMoves, SamePass
    <3> QED BY <2>0, <3>1
  <2>4. ASSUME NEW m \in ActionType, Says(view[p], ui[p], w, y, m), Queue(p, m),
               Counted(p, m.type, m.nonce)
        PROVE  JoinerMoves(p)
    <3>1. link[p] = "up" => up'[p] = Append(up[p], m)
      BY <1>0, <1>5, <2>0, <2>4 DEF Queue
    <3> QED BY <1>1, <1>2, <2>0, <2>1, <2>2, <2>4, <3>1 DEF JoinerMoves, SamePass
  <2> QED BY <1>1, <1>3, <2>0, <2>3, <2>4
<1> QED BY <1>4, <1>5

\* A joiner's own turn, by what it leaves.
LEMMA TurnShape ==
  ASSUME RoomInv, NEW c \in Joiners, Join(c) \/ Breaking(c) \/ Applies(c)
  PROVE  JoinerTurns(c)
<1>0. /\ DOMAIN view = Procs /\ DOMAIN ui = Procs /\ DOMAIN up = Joiners /\ DOMAIN down = Joiners
      /\ DOMAIN link = Joiners /\ Host \in Procs /\ c \in Procs /\ c # Host
      /\ Joiners \subseteq Procs /\ Host \notin Joiners
  BY Shapely
<1>1. CASE Join(c)
  <2>1. HostStill /\ (\A d \in Joiners \ {c} : Still(d)) /\ link[c] # "up" /\ link'[c] # "up"
    BY <1>0, <1>1 DEF Join, HostStill, Still
  <2> QED BY <1>1, <2>1 DEF Join, JoinerTurns, pass, history, SamePass
<1>2. CASE Breaking(c)
  <2>1. PICK k \in 0..Len(up[c]) : up' = [up EXCEPT ![c] = Append(SubSeq(@, 1, k), Bye)]
    BY <1>2 DEF Breaking, Sever
  <2>2. HostStill /\ \A d \in Joiners \ {c} : Still(d)
    BY <1>0, <1>2, <2>1 DEF Breaking, Sever, HostStill, Still
  <2>3. /\ view'[c] = OffView /\ ui'[c] = LobbyUi /\ down'[c] = <<>>
        /\ up'[c] = Append(SubSeq(up[c], 1, k), Bye)
    BY <1>0, <1>2, <2>1 DEF Breaking, Sever
  <2> QED BY <1>2, <2>2, <2>3 DEF Breaking, Sever, JoinerTurns, pass, SamePass
<1>3. CASE Applies(c)
  <2>2. HostStill /\ \A d \in Joiners \ {c} : Still(d)
    BY <1>0, <1>3 DEF Applies, HostStill, Still
  <2>3. /\ view'[c] = Apply(view[c], Head(down[c])) /\ ui'[c] = ui[c] /\ down'[c] = Tail(down[c])
        /\ up'[c] = up[c]
    BY <1>0, <1>3 DEF Applies
  <2> QED BY <1>3, <2>2, <2>3 DEF Applies, JoinerTurns, pass, history, SamePass
<1> QED BY <1>1, <1>2, <1>3

\* The host's own calls, by what they leave.
LEMMA LocalShape ==
  ASSUME RoomInv, RoundInv, HostLocal
  PROVE  Minds \/ Passes
<1> DEFINE h == view[Host]
           m == Head(controls)
           r == Handle(h, order, 1, m)
<1>0. /\ h.state # "Off" /\ batch > 0 /\ batch <= Len(controls) /\ controls \in Seq(ActionType)
      /\ UNCHANGED <<ui, link, seat, up, down, phase, rounds, loadedFor>>
      /\ h \in ViewType /\ order \in Seq(Ids) /\ 1 \in Ids
      /\ controls' = Tail(controls)
  BY IdRange, HostLeads DEF RoomInv, SeatInv, HostLocal, Batched, Netted, wires, history
<1>1. m \in ActionType /\ controls # <<>>
  <2>1. controls # <<>>
    BY <1>0 DEF RoomInv, Netted
  <2> QED BY <1>0, <2>1, TailType
<1>a. /\ DOMAIN view = Procs /\ \A c \in Joiners : c \in Procs /\ c # Host /\ Host \in Procs
  BY Shapely
<1>2. CASE Rejects(h, 1, m)
  <2>1. UNCHANGED <<view, order, broadcasts>>
    BY <1>2 DEF HostLocal
  <2> QED BY <1>0, <1>1, <2>1 DEF Passes, Still, SamePass
<1>3. CASE ~Rejects(h, 1, m)
  <2>1. view' = [view EXCEPT ![Host] = r.view] /\ broadcasts' = broadcasts \o r.out /\ order' = order
    BY <1>3 DEF HostLocal
  <2>2. r.view \in ViewType /\ r.out \in Seq(RelayType)
    BY <1>0, <1>1, <1>3, HandleFacts
  <2>3. Handled(h, order, 1, m, r.view, r.out)
    BY <1>0, <1>1, <1>3, HandledFrame
  <2> HIDE DEF r
  <2>4. view'[Host] = r.view /\ \A c \in Joiners : Still(c)
    BY <1>0, <1>a, <2>1, Shapely DEF Still
  <2> QED BY <1>0, <1>1, <2>1, <2>2, <2>3, <2>4 DEF Minds, SamePass
<1> QED BY <1>2, <1>3

\* A joiner's frame, by what it leaves.
LEMMA FrameShape ==
  ASSUME RoomInv, RoundInv, NEW c \in Joiners, HostReceive(c)
  PROVE  Hears(c) \/ Passes
<1> DEFINE h == view[Host]
           m == Head(up[c])
           i == seat[c]
           r == Handle(h, order, i, m)
<1>0. /\ h.state # "Off" /\ link[c] = "up" /\ up[c] # <<>> /\ up' = [up EXCEPT ![c] = Tail(@)]
      /\ UNCHANGED <<ui, order, controls, seat, phase, down, rounds, loadedFor>>
  BY DEF RoomInv, SeatInv, HostReceive, pass
<1>1. /\ up[c] \in Seq(ActionType) /\ DOMAIN up = Joiners /\ DOMAIN link = Joiners
      /\ DOMAIN view = Procs /\ \A d \in Joiners : d \in Procs /\ d # Host /\ Host \in Procs
  BY Shapely
<1>2. up'[c] = Tail(up[c]) /\ \A d \in Joiners \ {c} : up'[d] = up[d]
  BY <1>0, <1>1
<1>3. CASE m.type = "Disconnect" \/ Rejects(h, i, m)
  <2>1. link' = [link EXCEPT ![c] = "dropping"] /\ UNCHANGED <<view, broadcasts>>
    BY <1>3 DEF HostReceive
  <2>2. \A d \in Joiners : link'[d] = "up" => Still(d)
    BY <1>0, <1>1, <1>2, <2>1 DEF Still
  <2> QED BY <1>0, <2>1, <2>2 DEF Passes, SamePass
<1>4. CASE ~ (m.type = "Disconnect" \/ Rejects(h, i, m))
  <2>1. /\ view' = [view EXCEPT ![Host] = r.view] /\ broadcasts' = broadcasts \o r.out
        /\ UNCHANGED link
    BY <1>4 DEF HostReceive
  <2>2. i \in Ids \ {1} /\ m \in ActionType /\ h \in ViewType /\ order \in Seq(Ids)
    <3>1. c \in AtTable(link)
      BY <1>0 DEF AtTable
    <3>2. i \in Ids \ {1}
      BY <1>0, <3>1, HostLeads DEF RoomInv, SeatInv, Seating
    <3> QED BY <1>0, <1>1, <3>2, TailType, HostLeads DEF RoomInv
  <2>3. r.view \in ViewType /\ r.out \in Seq(RelayType)
    BY <1>0, <1>4, <2>2, HandleFacts
  <2>4. Handled(h, order, i, m, r.view, r.out)
    BY <1>4, <2>2, HandledFrame
  <2> HIDE DEF r
  <2>5. /\ view'[Host] = r.view /\ (\A d \in Joiners \ {c} : Still(d))
        /\ link'[c] = link[c] /\ seat'[c] = seat[c] /\ view'[c] = view[c] /\ ui'[c] = ui[c]
        /\ down'[c] = down[c]
    BY <1>0, <1>1, <1>2, <2>1 DEF Still
  <2> QED BY <1>0, <1>2, <2>1, <2>2, <2>3, <2>4, <2>5 DEF Hears, SamePass
<1> QED BY <1>3, <1>4

\* The end of a pass, by what it leaves: a live score may be due.
LEMMA EndShape ==
  ASSUME RoomInv, HostEndPass
  PROVE  HostMoves \/ Passes
<1> DEFINE h == view[Host]
           w == [h EXCEPT !.dirty = FALSE]
           m == ScoreMsg(0, h.active, "live")
<1>0. /\ h.state # "Off" /\ h \in ViewType /\ Host \in Procs /\ DOMAIN view = Procs
      /\ UNCHANGED <<ui, order, broadcasts, link, seat, up, down, rounds, loadedFor>>
      /\ phase' # "links" /\ ui[Host] \in UiType
  BY Shapely DEF RoomInv, SeatInv, HostEndPass, wires, history
<1>1. CASE view' = view /\ controls' = controls
  BY <1>0, <1>1 DEF Passes, Still, SamePass
<1>2. CASE /\ h.dirty /\ h.active # 0
           /\ view' = [view EXCEPT ![Host].dirty = FALSE] /\ controls' = Append(controls, m)
  <2>1. /\ w \in ViewType /\ Left(h, w) /\ LiveSays(h, ui[Host], w, ui[Host], m) /\ m \in ActionType
        /\ m.type = "Score"
    <3>1. /\ w \in ViewType /\ OwnCopy(h, w) /\ w.leader = h.leader /\ ~w.dirty /\ w.score = h.score
          /\ w.begun = h.begun /\ w.finalSent = h.finalSent /\ w.launch = h.launch
          /\ w.begin = h.begin /\ w.reset = h.reset /\ w.ready = h.ready /\ w.loaded = h.loaded
      BY <1>0 DEF OwnCopy, SameRound, ViewType
    <3> HIDE DEF w
    <3>2. m \in ActionType /\ m.type = "Score" /\ m.score = "live" /\ m.nonce = h.active
      BY <1>0 DEF ScoreMsg, ActionType, Scores, ViewType
    <3> QED BY <1>2, <3>1, <3>2 DEF LiveSays, Left
  <2>2. view' = [view EXCEPT ![Host] = w]
    BY <1>2
  <2> HIDE DEF w, m
  <2>3. view'[Host] = w /\ \A c \in Joiners : Still(c)
    BY <1>0, <2>2, Shapely DEF Still
  <2>4. Counted(Host, m.type, m.nonce)
    BY <1>0, <2>1 DEF Counted
  <2>5. ui'[Host] = ui[Host] /\ SamePass
    BY <1>0 DEF SamePass
  <2> QED BY <1>0, <1>2, <2>1, <2>3, <2>4, <2>5 DEF HostMoves, Says
<1> QED BY <1>0, <1>1, <1>2 DEF HostEndPass

\* A joiner seated or turned away, by what it leaves.
LEMMA GreetShape ==
  ASSUME RoomInv, Ends, NEW c \in Joiners, HostGreet(c)
  PROVE  Seats(c) \/ Passes
<1> DEFINE h == view[Host]
           f == FreeId
           w == [h EXCEPT !.members = @ \cup {f}, !.state = "Connected"]
<1>0. /\ h.state # "Off" /\ link[c] = "greeting" /\ up[c] # <<>> /\ phase = "links"
      /\ up' = [up EXCEPT ![c] = Tail(@)] /\ SeatInv /\ Netted
      /\ UNCHANGED <<ui, controls, phase, rounds, loadedFor>>
  BY DEF RoomInv, SeatInv, HostGreet, history, pass
<1>1. /\ h \in ViewType /\ up[c] \in Seq(ActionType) /\ DOMAIN view = Procs /\ DOMAIN up = Joiners
      /\ DOMAIN link = Joiners /\ DOMAIN down = Joiners /\ DOMAIN seat = Joiners
      /\ \A d \in Joiners : d \in Procs /\ d # Host /\ Host \in Procs
  BY Shapely
<1>2. up'[c] = Tail(up[c]) /\ \A d \in Joiners \ {c} : up'[d] = up[d]
  BY <1>0, <1>1
<1>3. CASE h.active # 0 \/ Len(order) >= MaxPlayers
  <2>1. /\ link' = [link EXCEPT ![c] = "gone"] /\ down' = [down EXCEPT ![c] = <<Bye>>]
        /\ UNCHANGED <<view, order, seat, broadcasts>>
    BY <1>3 DEF HostGreet
  <2>2. \A d \in Joiners : link'[d] = "up" => Still(d)
    BY <1>0, <1>1, <1>2, <2>1 DEF Still
  <2> QED BY <1>0, <2>1, <2>2 DEF Passes, SamePass
<1>4. CASE ~ (h.active # 0 \/ Len(order) >= MaxPlayers)
  <2>1. /\ link' = [link EXCEPT ![c] = "up"] /\ seat' = [seat EXCEPT ![c] = f]
        /\ view' = [view EXCEPT ![Host] = w] /\ down' = [down EXCEPT ![c] = <<WelcomeMsg(f, h)>>]
        /\ broadcasts' = Append(broadcasts, RosterMsg(w)) /\ order' = Append(order, f)
    BY <1>4 DEF HostGreet
  <2>2. h.leader \in Ids /\ order \in Seq(Ids) /\ InOrder(order) = h.members /\ 1 \in h.members
    BY <1>0, HostLeads DEF SeatInv, Seating
  <2>3. f \in Ids /\ f \notin h.members
    <3>1. Len(order) < MaxPlayers
      BY <1>4, <2>2, RoomAssumption, LenProperties
    <3> QED BY <2>2, <3>1, FreeIdIsFree
  <2>4. f \in Ids \ {1}
    BY <2>2, <2>3
  <2> HIDE DEF f
  <2>5. /\ w \in ViewType /\ w.leader = h.leader /\ w.id = h.id /\ w.state = "Connected"
        /\ w.members = h.members \cup {f} /\ Round(h, w) /\ OwnPart(h, w)
        /\ w.ready = h.ready /\ w.loaded = h.loaded /\ w.reset = h.reset /\ w.score = h.score
    BY <1>1, <2>3 DEF ViewType, Round, OwnPart
  <2> HIDE DEF w
  <2>6. RosterMsg(w) \in RelayType
    BY <2>2, <2>5, RosterType
  <2>7. /\ view'[Host] = w /\ (\A d \in Joiners \ {c} : Still(d))
        /\ link'[c] = "up" /\ seat'[c] = f /\ view'[c] = view[c] /\ ui'[c] = ui[c]
        /\ down'[c] = <<WelcomeMsg(f, h)>> /\ ui'[Host] = ui[Host]
    BY <1>0, <1>1, <1>2, <2>1 DEF Still
  <2>8. up'[c] \in Seq(ActionType) /\ \A m \in Frames(up'[c]) : m.type \in {"Hello", "Disconnect"}
    <3>1. Frames(Tail(up[c])) \subseteq Frames(up[c]) /\ Tail(up[c]) \in Seq(ActionType)
      BY <1>0, <1>1, FramesTail
    <3>2. \A m \in Frames(up[c]) : m.type \in {"Hello", "Disconnect"}
      BY <1>0 DEF Ends, Frames
    <3> QED BY <1>2, <3>1, <3>2
  <2> QED BY <1>0, <1>4, <2>1, <2>3, <2>4, <2>5, <2>6, <2>7, <2>8 DEF Seats, SamePass
<1> QED BY <1>3, <1>4

\* A player removed, by what is left.
LEMMA RemoveShape ==
  ASSUME RoomInv, RoundInv, NEW c \in Joiners, HostRemove(c)
  PROVE  Parts(c)
<1> DEFINE v == view[Host]
           w == RemovePlayer(v, order, seat[c])
<1>0. v.state # "Off" /\ c \in AtTable(link) /\ SeatInv /\ Netted /\ link[c] = "dropping"
  BY DEF RoomInv, RoundInv, SeatInv, HostRemove, AtTable
<1>1. /\ v \in ViewType /\ order \in Seq(Ids) /\ NoRepeat(order) /\ seat[c] \in InOrder(order)
      /\ seat[c] # 1 /\ seat[c] \in v.members /\ Seating(v, order, link, seat) /\ Shaped(v)
  BY <1>0, HostLeads DEF SeatInv, Seating
<1>2. w \in ViewType /\ w.id = v.id
  BY <1>1, RemoveTyped
<1>3. w.leader \in w.members
  BY <1>1, RemoveLeaves DEF Seating
<1>4. RosterMsg(w) \in RelayType
  <2>1. w.leader \in Ids
    BY <1>2, <1>3, ViewFields
  <2> QED BY <1>2, <2>1, RosterType
<1>5. Removed(v, order, seat[c], Without(order, seat[c]), w)
  BY <1>1, RemovedPlayer
<1> HIDE DEF w
<1>6. /\ view' = [view EXCEPT ![Host] = w] /\ broadcasts' = Append(broadcasts, RosterMsg(w))
      /\ link' = [link EXCEPT ![c] = "gone"] /\ up' = [up EXCEPT ![c] = <<>>]
      /\ down' \in {down, [down EXCEPT ![c] = Append(@, Bye)]} /\ seat' = seat
      /\ order' = Without(order, seat[c]) /\ UNCHANGED <<ui, controls, rounds, loadedFor>>
      /\ phase' # "links"
  BY DEF HostRemove, history, w
<1>7. /\ view'[Host] = w /\ (\A d \in Joiners \ {c} : Still(d)) /\ link'[c] = "gone"
      /\ view'[c] = view[c] /\ ui'[c] = ui[c]
  BY <1>6, Shapely DEF Still
<1> QED BY <1>0, <1>1, <1>2, <1>4, <1>5, <1>6, <1>7 DEF Parts

\* Every step has one of these shapes.
LEMMA Shapes ==
  ASSUME RoomInv, RoundInv, Ends, [Next]_vars
  PROVE  Shape
<1>1. ASSUME NEW p \in Procs, PlayerMoves(p) PROVE Shape
  BY <1>1, MoveShape DEF Shape
<1>2. ASSUME NEW c \in Joiners, Join(c) \/ Breaking(c) \/ Applies(c) PROVE Shape
  BY <1>2, TurnShape DEF Shape
<1>3. CASE HostLocal
  BY <1>3, LocalShape DEF Shape
<1>4. CASE HostFlush
  <2>1. Flushes
    BY <1>4, Shapely DEF HostFlush, Flushes, HostStill, history
  <2> QED BY <2>1 DEF Shape
<1>5. CASE HostEndPass
  BY <1>5, EndShape DEF Shape
<1>6. ASSUME NEW c \in Joiners, HostGreet(c) \/ HostReceive(c) \/ HostRemove(c) PROVE Shape
  BY <1>6, GreetShape, FrameShape, RemoveShape DEF Shape
<1>7. ASSUME NEW c \in Joiners, HostForget(c) \/ HostTimeout(c) PROVE Shape
  <2>1. \A d \in Joiners : link'[d] = "up" => Still(d)
    BY <1>7, Shapely DEF HostForget, HostTimeout, session, Still
  <2>2. Passes
    BY <1>7, <2>1 DEF HostForget, HostTimeout, session, pass, history, Passes, SamePass
  <2> QED BY <2>2 DEF Shape
<1>8. CASE HostClose
  <2>1. Closes
    BY <1>8, Shapely DEF HostClose, Closes
  <2> QED BY <2>1 DEF Shape
<1>9. CASE UNCHANGED vars
  <2>1. Passes
    BY <1>9 DEF vars, Passes, Still, SamePass
  <2> QED BY <2>1 DEF Shape
<1> QED BY <1>1, <1>2, <1>3, <1>4, <1>5, <1>6, <1>7, <1>8, <1>9, StepKinds

-----------------------------------------------------------------------------
(* The coordinator's own round.                                            *)

\* Where the coordinator's menu x stands in the round of its copy h.
HostState(h, x, n) ==
  /\ h.active <= n /\ h.closed <= n
  /\ h.active # 0 => h.closed < h.active /\ h.members # {1}
  /\ h.active = 0 => ~h.begun /\ h.launch = NoChart /\ h.reset = {} /\ ~h.dirty
  /\ h.begin => h.begun
  /\ h.launch # NoChart => x.at = "lobby"
  /\ h.dirty => x.at = "playing"
  /\ x.at \in Play /\ h.active # 0 => h.begun
  /\ 1 \in h.reset => x.at = "lobby" /\ h.launch = NoChart /\ h.begun
  /\ x.at # "lobby" /\ h.active = 0 => 1 \notin h.ready

\* The calls F it has queued say nothing it does not know.
HostQueue(h, x, F) ==
  \A m \in F :
    /\ m.type \in RoundFrames => m.nonce # 0 /\ (m.nonce <= h.closed \/ m.nonce = h.active)
    /\ m.type = "Begin" /\ m.nonce = h.active => h.begun
    /\ m.type = "RoundReset" /\ m.nonce = h.active => 1 \in h.reset
    /\ m.type = "Ready" => m.rev <= h.rev
    /\ m.type = "Ready" /\ m.ready /\ x.at # "lobby" /\ h.active = 0 => m.rev # h.rev

\* Nonces come from a counter, and a launch on the room's settings is newer
\* than every round that was closed.
LaunchFrames(h, F, n) ==
  \A m \in F :
    /\ m.type = "Launch" =>
         /\ m.nonce <= n /\ m.rev <= h.rev
         /\ m.rev = h.rev /\ h.active = 0 => h.closed < m.nonce
    /\ m.type \in RoundFrames => m.nonce # 0

HostInv ==
  view[Host].state # "Off" =>
    /\ HostState(view[Host], ui[Host], rounds)
    /\ HostQueue(view[Host], ui[Host], Frames(controls))
    /\ LaunchFrames(view[Host], Frames(controls), rounds)
    /\ \A c \in Joiners : link[c] = "up" => LaunchFrames(view[Host], Frames(up[c]), rounds)

\* The frames of another queue, under a later count.
LEMMA LaunchMore ==
  ASSUME NEW h, NEW F, NEW n \in Nat, LaunchFrames(h, F, n), NEW k \in Nat, n <= k,
         F \subseteq ActionType
  PROVE  LaunchFrames(h, F, k)
<1>1. ASSUME NEW m \in F, m.type = "Launch" PROVE m.nonce <= k
  <2>1. m.nonce \in Nat /\ m.nonce <= n
    BY <1>1, ActionFields DEF LaunchFrames
  <2> QED BY <2>1
<1> QED BY <1>1 DEF LaunchFrames

\* The launches under way when the coordinator's copy changes.
LEMMA LaunchKeeps ==
  ASSUME NEW h \in ViewType, NEW w \in ViewType, NEW F, F \subseteq ActionType, NEW n,
         LaunchFrames(h, F, n), h.rev <= w.rev,
         w.rev = h.rev => w.closed = h.closed /\ (w.active = 0 => h.active = 0)
  PROVE  LaunchFrames(w, F, n)
<1>1. h.rev \in Nat /\ w.rev \in Nat
  BY ViewFields
<1>2. ASSUME NEW m \in F, m.type = "Launch"
      PROVE  m.nonce <= n /\ m.rev <= w.rev /\ (m.rev = w.rev /\ w.active = 0 => w.closed < m.nonce)
  <2>1. m.rev \in Nat /\ m.rev <= h.rev /\ m.nonce <= n
        /\ (m.rev = h.rev /\ h.active = 0 => h.closed < m.nonce)
    BY <1>2, ActionFields DEF LaunchFrames
  <2> QED BY <1>1, <2>1
<1> QED BY <1>2 DEF LaunchFrames

\* What a frame does to the revision and the books of the rounds.
LEMMA HandledBooks ==
  ASSUME NEW h \in ViewType, NEW w \in ViewType, NEW ord, NEW i, NEW m, NEW out,
         Handled(h, ord, i, m, w, out)
  PROVE  /\ h.rev <= w.rev
         /\ w.rev = h.rev => w.closed = h.closed /\ (w.active = 0 => h.active = 0)
         /\ w.id = h.id /\ w.state = h.state /\ w.members = h.members
<1>1. h.rev \in Nat /\ w.rev \in Nat
  BY ViewFields
<1>2. CASE HTalks(h, i, m, w, out) \/ HLoads(h, i, m, w, out) \/ HBegins(h, i, m, w, out)
            \/ HScores(h, i, m, w, out) \/ HResets(h, i, m, w, out)
  BY <1>1, <1>2 DEF HTalks, HLoads, HBegins, HScores, HResets, Round, Table
<1>3. CASE HRenews(h, i, m, w, out) \/ HLaunches(h, i, m, w, out)
  BY <1>1, <1>3 DEF HRenews, HLaunches, Table
<1>4. CASE HCloses(h, ord, i, m, w, out)
  BY <1>1, <1>4 DEF HCloses, Cleared, Table
<1> QED BY <1>2, <1>3, <1>4 DEF Handled

\* A round cleared: what was queued belongs to a round that is over.
LEMMA HostCleared ==
  ASSUME NEW h \in ViewType, NEW w \in ViewType, NEW x, NEW n \in Nat, HostState(h, x, n),
         NEW F, F \subseteq ActionType, HostQueue(h, x, F), Cleared(h, w)
  PROVE  HostState(w, x, n) /\ HostQueue(w, x, F)
<1>1. /\ h.rev \in Nat /\ w.rev \in Nat /\ h.active \in Nat /\ w.active \in Nat
      /\ h.closed \in Nat /\ w.closed \in Nat
  BY ViewFields
<1>2. HostState(w, x, n)
  BY <1>1 DEF HostState, Cleared
<1>3. ASSUME NEW m \in F, m.type \in RoundFrames
      PROVE  m.nonce # 0 /\ m.nonce <= w.closed
  <2>1. m.nonce \in Nat /\ m.nonce # 0 /\ (m.nonce <= h.closed \/ m.nonce = h.active)
    BY <1>3, ActionFields DEF HostQueue, RoundFrames
  <2> QED BY <1>1, <2>1 DEF HostState, Cleared
<1>4. ASSUME NEW m \in F, m.type = "Ready"
      PROVE  m.rev <= w.rev /\ m.rev # w.rev
  <2>1. m.rev \in Nat /\ m.rev <= h.rev
    BY <1>4, ActionFields DEF HostQueue
  <2> QED BY <1>1, <2>1 DEF Cleared
<1>5. w.active = 0
  BY DEF Cleared
<1> QED BY <1>2, <1>3, <1>4, <1>5 DEF HostQueue, RoundFrames

\* The coordinator's own state through a frame, its own or a joiner's.
LEMMA HandledHost ==
  ASSUME NEW h \in ViewType, NEW w \in ViewType, NEW x \in UiType, NEW n \in Nat,
         1 \in h.members, HostState(h, x, n), NEW F, F \subseteq ActionType, HostQueue(h, x, F),
         NEW ord, NEW i, NEW m \in ActionType, NEW out, Handled(h, ord, i, m, w, out),
         i = 1 => m \in F, LaunchFrames(h, {m}, n)
  PROVE  HostState(w, x, n) /\ HostQueue(w, x, F)
<1>1. /\ h.rev \in Nat /\ w.rev \in Nat /\ h.active \in Nat /\ w.active \in Nat
      /\ h.closed \in Nat /\ w.closed \in Nat
  BY ViewFields
<1>a. /\ m.type \in RoundFrames => m.nonce # 0
      /\ m.type = "Launch" => m.nonce <= n /\ (m.rev = h.rev /\ h.active = 0 => h.closed < m.nonce)
  BY DEF LaunchFrames
<1>2. CASE HTalks(h, i, m, w, out)
  <2>1. /\ w.members = h.members /\ w.active = h.active /\ w.closed = h.closed /\ w.rev = h.rev
        /\ w.begun = h.begun /\ w.begin = h.begin /\ w.launch = h.launch /\ w.dirty = h.dirty
        /\ h.active # 0 => w.ready = h.ready /\ w.reset = h.reset
        /\ h.active = 0 => w.reset \subseteq h.reset /\ w.ready \subseteq h.ready \cup {i}
                           /\ (i \in w.ready => i \in h.ready \/ m \in YesOf(h.rev))
    BY <1>2 DEF HTalks, Table, Round, OwnPart
  <2>2. x.at # "lobby" /\ h.active = 0 => 1 \notin w.ready
    <3> SUFFICES ASSUME x.at # "lobby", h.active = 0, 1 \in w.ready PROVE FALSE
      OBVIOUS
    <3>1. i = 1 /\ m \in YesOf(h.rev) /\ m \in F
      BY <2>1 DEF HostState
    <3> QED BY <3>1 DEF HostQueue, YesOf
  <2>3. h.active = 0 => w.reset = {} /\ h.reset = {}
    BY <2>1 DEF HostState
  <2>4. w.reset = h.reset
    BY <2>1, <2>3
  <2>5. HostState(w, x, n)
    BY <2>1, <2>2, <2>4 DEF HostState
  <2> QED BY <2>1, <2>4, <2>5 DEF HostQueue
<1>3. CASE HRenews(h, i, m, w, out)
  <2>1. /\ w.members = h.members /\ w.active = 0 /\ h.active = 0 /\ w.closed = h.closed
        /\ w.rev > h.rev /\ w.ready = {} /\ w.reset = h.reset
        /\ w.begun = h.begun /\ w.begin = h.begin /\ w.launch = h.launch /\ w.dirty = h.dirty
    BY <1>3 DEF HRenews, Table, OwnPart
  <2>2. HostState(w, x, n)
    BY <2>1 DEF HostState
  <2>3. ASSUME NEW f \in F, f.type = "Ready" PROVE f.rev <= w.rev /\ f.rev # w.rev
    <3>1. f.rev \in Nat /\ f.rev <= h.rev
      BY <2>3, ActionFields DEF HostQueue
    <3> QED BY <1>1, <2>1, <3>1
  <2> QED BY <2>1, <2>2, <2>3 DEF HostQueue
<1>4. CASE HLoads(h, i, m, w, out)
  <2>1. /\ w.members = h.members /\ w.active = h.active /\ w.closed = h.closed /\ w.rev = h.rev
        /\ w.begun = h.begun /\ w.begin = h.begin /\ w.launch = h.launch /\ w.dirty = h.dirty
        /\ w.ready = h.ready /\ w.reset = h.reset
    BY <1>4 DEF HLoads, Table, Round, OwnPart
  <2> QED BY <2>1 DEF HostState, HostQueue
<1>5. CASE HBegins(h, i, m, w, out)
  <2>1. /\ w.members = h.members /\ w.active = h.active /\ w.closed = h.closed /\ w.rev = h.rev
        /\ w.begun /\ w.launch = h.launch /\ w.dirty = h.dirty
        /\ w.ready = h.ready /\ w.reset = h.reset /\ h.active # 0
    BY <1>5, <1>a DEF HBegins, Table, Round, RoundFrames
  <2> QED BY <2>1 DEF HostState, HostQueue
<1>6. CASE HScores(h, i, m, w, out)
  <2>1. /\ w.members = h.members /\ w.active = h.active /\ w.closed = h.closed /\ w.rev = h.rev
        /\ w.begun = h.begun /\ w.begin = h.begin /\ w.launch = h.launch /\ w.dirty = h.dirty
        /\ w.ready = h.ready /\ w.reset = h.reset
    BY <1>6 DEF HScores, Table, Round, OwnPart
  <2> QED BY <2>1 DEF HostState, HostQueue
<1>7. CASE HResets(h, i, m, w, out)
  <2>1. /\ w.members = h.members /\ w.active = h.active /\ w.closed = h.closed /\ w.rev = h.rev
        /\ w.begun = h.begun /\ w.begin = h.begin /\ w.launch = h.launch /\ w.dirty = h.dirty
        /\ w.ready = h.ready \ {i} /\ w.reset = h.reset \cup {i} /\ h.active # 0
        /\ m.type = "RoundReset" /\ m.nonce = h.active
    BY <1>7, <1>a DEF HResets, Table, Round, OwnPart, RoundFrames
  <2>2. 1 \in w.reset <=> 1 \in h.reset
    BY <2>1 DEF HostQueue
  <2> QED BY <2>1, <2>2 DEF HostState, HostQueue
<1>8. CASE HLaunches(h, i, m, w, out)
  <2>1. /\ w.members = h.members /\ w.active = m.nonce /\ w.active # 0 /\ h.active = 0
        /\ w.closed = h.closed /\ w.rev = h.rev /\ ~w.begun /\ w.begin = h.begin
        /\ w.launch # NoChart /\ w.dirty = h.dirty /\ w.ready = h.ready /\ w.reset = {}
        /\ AllReady(h) /\ m.type = "Launch" /\ m.rev = h.rev
    BY <1>8 DEF HLaunches, Table
  <2>2. h.closed < w.active /\ w.active <= n
    BY <1>a, <2>1
  <2>3. x.at = "lobby" /\ w.members # {1}
    BY <2>1 DEF HostState, AllReady, Several
  <2>4. HostState(w, x, n)
    BY <2>1, <2>2, <2>3 DEF HostState, Play
  <2>5. ASSUME NEW f \in F, f.type \in RoundFrames PROVE f.nonce # 0 /\ f.nonce <= w.closed
    BY <2>1, <2>5 DEF HostQueue
  <2>6. ASSUME NEW f \in F, f.type \in RoundFrames PROVE f.nonce # w.active
    <3>1. f.nonce \in Nat /\ f.nonce <= h.closed
      BY <2>1, <2>5, <2>6, ActionFields DEF RoundFrames
    <3> QED BY <1>1, <2>1, <2>2, <3>1
  <2> QED BY <2>1, <2>3, <2>4, <2>5, <2>6 DEF HostQueue, RoundFrames
<1>9. CASE HCloses(h, ord, i, m, w, out)
  BY <1>9, HostCleared DEF HCloses
<1> QED BY <1>2, <1>3, <1>4, <1>5, <1>6, <1>7, <1>8, <1>9 DEF Handled

\* The coordinator's own state when player id has left and rest is there.
LEMMA RemovedHost ==
  ASSUME NEW h \in ViewType, NEW w \in ViewType, NEW x \in UiType, NEW n \in Nat,
         HostState(h, x, n), NEW F, F \subseteq ActionType, HostQueue(h, x, F),
         NEW ord, NEW id, id # 1, NEW rest, Removed(h, ord, id, rest, w),
         Len(rest) >= 2 => w.members # {1}
  PROVE  HostState(w, x, n) /\ HostQueue(w, x, F)
<1>1. /\ h.rev \in Nat /\ w.rev \in Nat /\ h.active \in Nat /\ w.active \in Nat
      /\ h.closed \in Nat /\ w.closed \in Nat
  BY ViewFields
<1>2. CASE Len(rest) >= 2 /\ Less(h, id, w)
  <2>1. /\ w.active = h.active /\ w.closed = h.closed /\ h.rev <= w.rev
        /\ w.begun = h.begun /\ w.begin = h.begin /\ w.launch = h.launch /\ w.dirty = h.dirty
        /\ w.ready \subseteq h.ready /\ w.reset = h.reset \ {id} /\ w.members # {1}
        /\ (h.active # 0 => w.rev = h.rev)
    BY <1>2 DEF Less, OwnPart
  <2>2. (1 \in w.reset <=> 1 \in h.reset) /\ (h.reset = {} => w.reset = {})
    BY <2>1
  <2>3. HostState(w, x, n)
    BY <2>1, <2>2 DEF HostState
  <2>4. ASSUME NEW f \in F, f.type = "Ready"
        PROVE  f.rev <= w.rev /\ (f.ready /\ x.at # "lobby" /\ w.active = 0 => f.rev # w.rev)
    <3>1. f.rev \in Nat /\ f.rev <= h.rev /\ (f.ready /\ x.at # "lobby" /\ h.active = 0 => f.rev # h.rev)
      BY <2>4, ActionFields DEF HostQueue
    <3> QED BY <1>1, <2>1, <3>1
  <2> QED BY <2>1, <2>2, <2>3, <2>4 DEF HostQueue
<1>3. CASE Cleared(h, w)
  BY <1>3, HostCleared
<1> QED BY <1>2, <1>3 DEF Removed

\* The coordinator's own calls.
LEMMA SaysHost ==
  ASSUME NEW h \in ViewType, NEW w \in ViewType, NEW x \in UiType, NEW y \in UiType, NEW n \in Nat,
         h.id = 1, Left(h, w), HostState(h, x, n), NEW F, F \subseteq ActionType, HostQueue(h, x, F),
         NEW m \in ActionType, Says(h, x, w, y, m)
  PROVE  HostState(w, y, n) /\ HostQueue(w, y, F \cup {m})
<1>0. /\ w.members = h.members /\ w.rev = h.rev /\ w.active = h.active /\ w.closed = h.closed
      /\ h.rev \in Nat /\ h.active \in Nat /\ h.closed \in Nat
  BY ViewFields DEF Left, OwnCopy, SameRound
<1>a. ASSUME y.at = "lobby" \/ h.active # 0 \/ y.at = x.at,
             w.begun \/ w.begun = h.begun, h.reset \subseteq w.reset
      PROVE  HostQueue(w, y, F)
  BY <1>0, <1>a DEF HostQueue
<1>b. ASSUME NEW G, HostQueue(w, y, G), NEW f, HostQueue(w, y, {f}) PROVE HostQueue(w, y, G \cup {f})
  BY <1>b DEF HostQueue
<1>1. CASE LobbySays(h, x, w, y, m)
  <2>1. /\ w.begun = h.begun /\ w.launch = h.launch /\ w.begin = h.begin /\ w.dirty = h.dirty
        /\ w.reset = h.reset /\ y.at = x.at
        /\ m.type \in {"Ready", "Chart", "RoomRate", "Launch", "Chat"}
        /\ m.type # "Chat" => x.at = "lobby" /\ h.active = 0
        /\ m.type \in {"Ready", "Launch"} => m.rev = h.rev
        /\ w.ready \subseteq h.ready \cup {1}
        /\ 1 \in w.ready /\ 1 \notin h.ready => m.type = "Ready"
    BY <1>1 DEF LobbySays, Alike
  <2>2. x.at # "lobby" /\ h.active = 0 => 1 \notin w.ready
    BY <2>1 DEF HostState
  <2>3. HostState(w, y, n)
    BY <1>0, <2>1, <2>2 DEF HostState
  <2>4. HostQueue(w, y, {m})
    BY <1>0, <2>1 DEF HostQueue, RoundFrames
  <2> QED BY <1>a, <1>b, <2>1, <2>3, <2>4
<1>2. CASE LoadedSays(h, x, w, y, m)
  <2>1. /\ w.begun = h.begun /\ w.launch = h.launch /\ w.begin = h.begin /\ w.dirty = h.dirty
        /\ w.reset = h.reset /\ x.at = "loading" /\ y.at \in {"leading", "following"}
        /\ m.type = "Loaded" /\ m.nonce = h.active /\ h.active # 0
    BY <1>2 DEF LoadedSays, Alike
  <2>2. HostState(w, y, n)
    BY <1>0, <2>1 DEF HostState, Play
  <2>3. HostQueue(w, y, {m})
    BY <1>0, <2>1 DEF HostQueue, RoundFrames
  <2> QED BY <1>a, <1>b, <2>1, <2>2, <2>3
<1>3. CASE BeginSays(h, x, w, y, m)
  <2>1. /\ w.begun /\ w.launch = h.launch /\ w.dirty = h.dirty /\ w.reset = h.reset
        /\ x.at = "leading" /\ y.at = "playing"
        /\ m.type = "Begin" /\ m.nonce = h.active /\ h.active # 0
    BY <1>3 DEF BeginSays
  <2>2. HostState(w, y, n)
    BY <1>0, <2>1 DEF HostState
  <2>3. HostQueue(w, y, {m})
    BY <1>0, <2>1 DEF HostQueue, RoundFrames
  <2> QED BY <1>a, <1>b, <2>1, <2>2, <2>3
<1>4. CASE LiveSays(h, x, w, y, m)
  <2>1. /\ w.begun = h.begun /\ w.launch = h.launch /\ w.begin = h.begin /\ ~w.dirty
        /\ w.reset = h.reset /\ y.at = x.at
        /\ m.type = "Score" /\ m.nonce = h.active /\ h.active # 0
    BY <1>4 DEF LiveSays
  <2>2. HostState(w, y, n)
    BY <1>0, <2>1 DEF HostState
  <2>3. HostQueue(w, y, {m})
    BY <1>0, <2>1 DEF HostQueue, RoundFrames
  <2> QED BY <1>a, <1>b, <2>1, <2>2, <2>3
<1>5. CASE FinalSays(h, x, w, y, m)
  <2>1. /\ w.begun = h.begun /\ w.launch = h.launch /\ w.begin = h.begin /\ ~w.dirty
        /\ w.reset = h.reset /\ x.at = "playing" /\ y.at = "finished"
        /\ m.type = "Score" /\ m.nonce = h.active /\ h.active # 0
    BY <1>5 DEF FinalSays
  <2>2. HostState(w, y, n)
    BY <1>0, <2>1 DEF HostState, Play
  <2>3. HostQueue(w, y, {m})
    BY <1>0, <2>1 DEF HostQueue, RoundFrames
  <2> QED BY <1>a, <1>b, <2>1, <2>2, <2>3
<1>6. CASE ResetSays(h, x, w, y, m)
  <2>1. /\ w.begun = h.begun /\ w.launch = NoChart /\ ~w.begin /\ ~w.dirty
        /\ w.reset = h.reset \cup {1} /\ x.at = "finished" /\ y.at = "lobby"
        /\ m.type = "RoundReset" /\ m.nonce = h.active /\ h.active # 0
    BY <1>6 DEF ResetSays
  <2>2. HostState(w, y, n)
    BY <1>0, <2>1 DEF HostState, Play
  <2>3. HostQueue(w, y, {m})
    BY <1>0, <2>1 DEF HostQueue, RoundFrames
  <2> QED BY <1>a, <1>b, <2>1, <2>2, <2>3
<1> QED BY <1>1, <1>2, <1>3, <1>4, <1>5, <1>6 DEF Says

\* What the coordinator's menu and game do without a word.
LEMMA SilentHost ==
  ASSUME NEW h \in ViewType, NEW w \in ViewType, NEW x \in UiType, NEW y \in UiType, NEW n \in Nat,
         h.id = 1, Left(h, w), HostState(h, x, n), NEW F, F \subseteq ActionType, HostQueue(h, x, F),
         Silent(h, x, w, y)
  PROVE  HostState(w, y, n) /\ HostQueue(w, y, F)
<1>0. /\ w.members = h.members /\ w.rev = h.rev /\ w.active = h.active /\ w.closed = h.closed
      /\ h.rev \in Nat /\ h.active \in Nat /\ h.closed \in Nat
  BY ViewFields DEF Left, OwnCopy, SameRound
<1>1. /\ w.begun = h.begun /\ w.reset = h.reset /\ w.ready \subseteq h.ready
      /\ h.active # 0 \/ y.at = "lobby" \/ y.at = x.at
  BY DEF Silent, Alike, HostState
<1>2. HostQueue(w, y, F)
  BY <1>0, <1>1 DEF HostQueue
<1>3. HostState(w, y, n)
  <2>1. CASE Alike(h, w) /\ y.at = x.at
    BY <1>0, <1>1, <2>1 DEF HostState, Alike
  <2>2. CASE h.active = 0 /\ y.at = "lobby" /\ Alike(h, w)
    BY <1>0, <1>1, <2>2 DEF HostState, Alike
  <2>3. CASE x.at = "finished" /\ y.at = "lobby" /\ Alike(h, w)
    BY <1>0, <1>1, <2>3 DEF HostState, Alike, Play
  <2>4. CASE /\ x.at = "lobby" /\ y.at \in {"lobby", "loading"}
             /\ h.active # 0 /\ h.launch # NoChart /\ w.launch = NoChart
             /\ w.begin = h.begin /\ w.dirty = h.dirty
    BY <1>0, <1>1, <2>4 DEF HostState, Play
  <2>5. CASE /\ x.at = "following" /\ y.at = "playing" /\ h.begin /\ ~w.begin
             /\ w.launch = h.launch /\ w.dirty = h.dirty
    BY <1>0, <1>1, <2>5 DEF HostState, Play
  <2>6. CASE /\ x.at = "playing" /\ y.at = "playing" /\ h.active # 0
             /\ w.launch = h.launch /\ w.begin = h.begin
    BY <1>0, <1>1, <2>6 DEF HostState
  <2> QED BY <2>1, <2>2, <2>3, <2>4, <2>5, <2>6 DEF Silent
<1> QED BY <1>2, <1>3

\* A launch that is said is newer than every round so far.
LEMMA SaidLaunch ==
  ASSUME NEW v \in ViewType, NEW x, NEW w, NEW y, NEW m \in ActionType, Says(v, x, w, y, m),
         NEW h \in ViewType, v.rev <= h.rev, NEW n \in Nat, h.closed <= n,
         NEW k \in Nat, n <= k, m.type = "Launch" => m.nonce = n + 1 /\ k = n + 1
  PROVE  LaunchFrames(h, {m}, k)
<1>1. h.closed \in Nat
  BY ViewFields
<1>2. m.type = "Launch" => m.rev = v.rev
  BY DEF Says, LobbySays, LoadedSays, BeginSays, LiveSays, FinalSays, ResetSays
<1>3. m.type \in RoundFrames => m.nonce # 0
  BY DEF Says, LobbySays, LoadedSays, BeginSays, LiveSays, FinalSays, ResetSays, RoundFrames
<1>4. m.type = "Launch" => m.nonce <= k /\ h.closed < m.nonce
  BY <1>1
<1> QED BY <1>2, <1>3, <1>4 DEF LaunchFrames

\* The coordinator's state under a later count.
LEMMA LaterState ==
  ASSUME NEW h \in ViewType, NEW x, NEW n \in Nat, HostState(h, x, n), NEW k \in Nat, n <= k
  PROVE  HostState(h, x, k)
<1>1. h.active \in Nat /\ h.closed \in Nat
  BY ViewFields
<1>2. h.active <= k /\ h.closed <= k
  BY <1>1 DEF HostState
<1> QED BY <1>2 DEF HostState

\* Two players in the order are two players.
LEMMA SeveralThere ==
  ASSUME NEW ord \in Seq(Ids), NoRepeat(ord), Len(ord) >= 2, NEW S, S = InOrder(ord)
  PROVE  S # {1} /\ \E i, j \in S : i # j
<1>1. 1 \in DOMAIN ord /\ 2 \in DOMAIN ord
  BY LenProperties
<1>2. ord[1] # ord[2] /\ ord[1] \in S /\ ord[2] \in S
  BY <1>1 DEF NoRepeat, InOrder
<1> QED BY <1>2

\* What is known of the room's own copy.
LEMMA HostFacts ==
  ASSUME RoomInv, RoundInv, view[Host].state # "Off"
  PROVE  /\ view[Host] \in ViewType /\ view[Host].id = 1 /\ 1 \in view[Host].members
         /\ order \in Seq(Ids) /\ NoRepeat(order) /\ InOrder(order) = view[Host].members
         /\ view[Host].leader \in view[Host].members
         /\ view[Host].ready \subseteq view[Host].members
         /\ \A c \in Joiners : link[c] = "up" => seat[c] \in Ids \ {1}
         /\ \A c \in Joiners : link[c] = "up" => seat[c] \in view[Host].members
         /\ \A c, d \in Joiners : link[c] = "up" /\ link[d] = "up" /\ c # d => seat[c] # seat[d]
<1>1. SeatInv /\ Netted
  BY DEF RoomInv
<1>2. \A c \in Joiners : link[c] = "up" => c \in AtTable(link)
  BY DEF AtTable
<1> QED BY <1>1, <1>2, HostLeads DEF RoundInv, HostRound, SeatInv, Seating

\* The coordinator moves, and so may its counter.
LEMMA HostMovesHost ==
  ASSUME RoomInv, RoundInv, RoomInv', HostInv, HostMoves
  PROVE  HostInv'
<1> DEFINE h == view[Host]
           x == ui[Host]
           F == Frames(controls)
<1>1. PICK w \in ViewType, y \in UiType :
        /\ h.state # "Off" /\ view'[Host] = w /\ ui'[Host] = y /\ Left(h, w)
        /\ \A c \in Joiners : Still(c)
        /\ \/ /\ Silent(h, x, w, y) /\ controls' = controls
              /\ rounds' = rounds /\ loadedFor' = loadedFor
           \/ \E m \in ActionType :
               /\ Says(h, x, w, y, m) /\ controls' = Append(controls, m)
               /\ Counted(Host, m.type, m.nonce)
  BY DEF HostMoves
<1>2. /\ h \in ViewType /\ x \in UiType /\ controls \in Seq(ActionType) /\ F \subseteq ActionType
      /\ rounds \in Nat /\ h.id = 1
      /\ \A c \in Joiners : up[c] \in Seq(ActionType) /\ Frames(up[c]) \subseteq ActionType
  <2>1. \A s \in Seq(ActionType) : Frames(s) \subseteq ActionType
    BY FramesConcat
  <2> QED BY <1>1, <2>1, Shapely, HostFacts
<1>3. /\ HostState(h, x, rounds) /\ HostQueue(h, x, F) /\ LaunchFrames(h, F, rounds)
      /\ \A c \in Joiners : link[c] = "up" => LaunchFrames(h, Frames(up[c]), rounds)
  BY <1>1 DEF HostInv
<1>4. /\ w.rev = h.rev /\ w.active = h.active /\ w.closed = h.closed /\ w.id = h.id
      /\ h.rev \in Nat /\ w.rev \in Nat /\ h.rev <= w.rev
  BY <1>1, <1>2, ViewFields DEF Left, OwnCopy, SameRound
<1>5. ASSUME NEW k \in Nat, rounds <= k, NEW G, G \subseteq ActionType, LaunchFrames(h, G, rounds)
      PROVE  LaunchFrames(w, G, k)
  <2>1. LaunchFrames(h, G, k)
    BY <1>2, <1>5, LaunchMore
  <2> QED BY <1>2, <1>4, <1>5, <2>1, LaunchKeeps
<1> HIDE DEF F, h, x
<1>6. CASE Silent(h, x, w, y) /\ controls' = controls /\ rounds' = rounds
  <2>1. HostState(w, y, rounds) /\ HostQueue(w, y, F)
    BY <1>1, <1>2, <1>3, <1>6, SilentHost
  <2>2. LaunchFrames(w, F, rounds)
        /\ \A c \in Joiners : link[c] = "up" => LaunchFrames(w, Frames(up[c]), rounds)
    BY <1>2, <1>3, <1>5
  <2> QED BY <1>1, <1>6, <2>1, <2>2 DEF HostInv, Still, F
<1>7. ASSUME NEW m \in ActionType, Says(h, x, w, y, m), controls' = Append(controls, m),
             Counted(Host, m.type, m.nonce)
      PROVE  HostInv'
  <2>1. /\ rounds' \in Nat /\ rounds <= rounds'
        /\ m.type = "Launch" => m.nonce = rounds + 1 /\ rounds' = rounds + 1
    BY <1>2, <1>7 DEF Counted
  <2>2. HostState(w, y, rounds) /\ HostQueue(w, y, F \cup {m})
    BY <1>1, <1>2, <1>3, <1>7, SaysHost
  <2>3. HostState(w, y, rounds')
    BY <1>2, <2>1, <2>2, LaterState
  <2>4. LaunchFrames(w, F, rounds')
        /\ \A c \in Joiners : link[c] = "up" => LaunchFrames(w, Frames(up[c]), rounds')
    BY <1>2, <1>3, <1>5, <2>1
  <2>5. LaunchFrames(w, {m}, rounds')
    <3>1. h.closed <= rounds
      BY <1>3 DEF HostState
    <3>2. h.rev <= w.rev /\ w.closed <= rounds
      BY <1>4, <3>1
    <3> QED BY <1>2, <1>7, <2>1, <3>2, SaidLaunch
  <2>6. Frames(controls') = F \cup {m}
    BY <1>2, <1>7, FramesAppend DEF F
  <2>7. LaunchFrames(w, F \cup {m}, rounds')
    BY <2>4, <2>5 DEF LaunchFrames
  <2> QED BY <1>1, <2>2, <2>3, <2>4, <2>6, <2>7 DEF HostInv, Still
<1> QED BY <1>1, <1>6, <1>7 DEF h, x

\* Steps that leave the coordinator alone.
LEMMA RestHost ==
  ASSUME RoomInv, HostInv, HostStill, rounds' \in Nat, rounds <= rounds',
         controls' = controls \/ (controls # <<>> /\ controls' = Tail(controls)),
         \A c \in Joiners : view[Host].state # "Off" /\ link'[c] = "up" =>
           \/ link[c] = "up" /\ Frames(up'[c]) \subseteq Frames(up[c])
           \/ \E m \in ActionType : /\ LaunchFrames(view[Host], {m}, rounds')
                                    /\ link[c] = "up" /\ Frames(up'[c]) \subseteq Frames(up[c]) \cup {m}
           \/ LaunchFrames(view[Host], Frames(up'[c]), rounds')
  PROVE  HostInv'
<1> DEFINE h == view[Host]
<1> SUFFICES ASSUME h.state # "Off"
             PROVE  /\ HostState(h, ui[Host], rounds')
                    /\ HostQueue(h, ui[Host], Frames(controls'))
                    /\ LaunchFrames(h, Frames(controls'), rounds')
                    /\ \A c \in Joiners : link'[c] = "up" => LaunchFrames(h, Frames(up'[c]), rounds')
  BY DEF HostInv, HostStill
<1>1. /\ h \in ViewType /\ controls \in Seq(ActionType) /\ rounds \in Nat
      /\ \A c \in Joiners : up[c] \in Seq(ActionType) /\ Frames(up[c]) \subseteq ActionType
      /\ Frames(controls) \subseteq ActionType
  <2>1. \A s \in Seq(ActionType) : Frames(s) \subseteq ActionType
    BY FramesConcat
  <2> QED BY <2>1, Shapely
<1>2. Frames(controls') \subseteq Frames(controls)
  BY <1>1, FramesTail
<1>3. HostState(h, ui[Host], rounds')
  BY <1>1, LaterState DEF HostInv
<1>4. HostQueue(h, ui[Host], Frames(controls'))
  BY <1>2 DEF HostInv, HostQueue
<1>5. ASSUME NEW G, G \subseteq ActionType, LaunchFrames(h, G, rounds) PROVE LaunchFrames(h, G, rounds')
  BY <1>1, <1>5, LaunchMore
<1>6. LaunchFrames(h, Frames(controls'), rounds')
  <2>1. LaunchFrames(h, Frames(controls), rounds')
    BY <1>1, <1>5 DEF HostInv
  <2> QED BY <1>2, <2>1 DEF LaunchFrames
<1>7. ASSUME NEW c \in Joiners, link'[c] = "up" PROVE LaunchFrames(h, Frames(up'[c]), rounds')
  <2>1. link[c] = "up" => LaunchFrames(h, Frames(up[c]), rounds')
    BY <1>1, <1>5 DEF HostInv
  <2> QED BY <1>7, <2>1 DEF LaunchFrames
<1> QED BY <1>3, <1>4, <1>6, <1>7

\* Steps in which the coordinator's copy becomes w.
LEMMA ChangeHost ==
  ASSUME RoomInv, HostInv, NEW w \in ViewType, view[Host].state # "Off", view'[Host] = w,
         ui'[Host] = ui[Host], rounds' = rounds,
         controls' = controls \/ (controls # <<>> /\ controls' = Tail(controls)),
         HostState(w, ui[Host], rounds), HostQueue(w, ui[Host], Frames(controls)),
         view[Host].rev <= w.rev,
         w.rev = view[Host].rev =>
           w.closed = view[Host].closed /\ (w.active = 0 => view[Host].active = 0),
         \A c \in Joiners : link'[c] = "up" =>
           \/ link[c] = "up" /\ Frames(up'[c]) \subseteq Frames(up[c])
           \/ \A m \in Frames(up'[c]) : m.type \in {"Hello", "Disconnect"}
  PROVE  HostInv'
<1> DEFINE h == view[Host]
<1>1. /\ h \in ViewType /\ controls \in Seq(ActionType) /\ rounds \in Nat
      /\ \A c \in Joiners : up[c] \in Seq(ActionType) /\ Frames(up[c]) \subseteq ActionType
      /\ Frames(controls) \subseteq ActionType
  <2>1. \A s \in Seq(ActionType) : Frames(s) \subseteq ActionType
    BY FramesConcat
  <2> QED BY <2>1, Shapely
<1>2. Frames(controls') \subseteq Frames(controls)
  BY <1>1, FramesTail
<1>3. HostQueue(w, ui[Host], Frames(controls'))
  BY <1>2 DEF HostQueue
<1>4. ASSUME NEW G, G \subseteq ActionType, LaunchFrames(h, G, rounds) PROVE LaunchFrames(w, G, rounds)
  BY <1>1, <1>4, LaunchKeeps
<1>5. LaunchFrames(w, Frames(controls'), rounds)
  <2>1. LaunchFrames(w, Frames(controls), rounds)
    BY <1>1, <1>4 DEF HostInv
  <2> QED BY <1>2, <2>1 DEF LaunchFrames
<1>6. ASSUME NEW c \in Joiners, link'[c] = "up" PROVE LaunchFrames(w, Frames(up'[c]), rounds)
  <2>1. link[c] = "up" => LaunchFrames(w, Frames(up[c]), rounds)
    BY <1>1, <1>4 DEF HostInv
  <2> QED BY <1>6, <2>1 DEF LaunchFrames, RoundFrames
<1> QED BY <1>3, <1>5, <1>6 DEF HostInv

\* The coordinator's own round in every step, one case per shape.
LEMMA StepHost ==
  ASSUME RoomInv, RoundInv, Ends, HostInv, RoomInv', [Next]_vars
  PROVE  HostInv'
<1> DEFINE h == view[Host]
<1>0. /\ h \in ViewType /\ ui[Host] \in UiType /\ rounds \in Nat /\ controls \in Seq(ActionType)
      /\ \A c \in Joiners : up[c] \in Seq(ActionType) /\ Frames(up[c]) \subseteq ActionType
      /\ Frames(controls) \subseteq ActionType
  <2>1. \A s \in Seq(ActionType) : Frames(s) \subseteq ActionType
    BY FramesConcat
  <2> QED BY <2>1, Shapely
<1>a. h.state # "Off" =>
        /\ HostState(h, ui[Host], rounds) /\ HostQueue(h, ui[Host], Frames(controls))
        /\ LaunchFrames(h, Frames(controls), rounds)
        /\ \A c \in Joiners : link[c] = "up" => LaunchFrames(h, Frames(up[c]), rounds)
  BY DEF HostInv
<1>1. CASE HostMoves
  BY <1>1, HostMovesHost
<1>2. ASSUME NEW c \in Joiners, JoinerMoves(c) PROVE HostInv'
  <2>1. PICK w \in ViewType, y \in UiType :
          /\ view[c].state = "Connected"
          /\ HostStill /\ \A d \in Joiners \ {c} : Still(d)
          /\ link'[c] = link[c] /\ controls' = controls
          /\ \/ up'[c] = up[c] /\ rounds' = rounds
             \/ \E m \in ActionType :
                 /\ Says(view[c], ui[c], w, y, m) /\ (link[c] = "up" => up'[c] = Append(up[c], m))
                 /\ Counted(c, m.type, m.nonce)
    BY <1>2 DEF JoinerMoves
  <2>2. CASE up'[c] = up[c] /\ rounds' = rounds
    <3>1. \A d \in Joiners : link'[d] = link[d] /\ up'[d] = up[d]
      BY <2>1, <2>2 DEF Still
    <3> QED BY <1>0, <2>1, <2>2, <3>1, RestHost
  <2>3. ASSUME NEW m \in ActionType, Says(view[c], ui[c], w, y, m),
               link[c] = "up" => up'[c] = Append(up[c], m), Counted(c, m.type, m.nonce)
        PROVE  HostInv'
    <3>1. /\ rounds' \in Nat /\ rounds <= rounds'
          /\ m.type = "Launch" => m.nonce = rounds + 1 /\ rounds' = rounds + 1
      BY <1>0, <2>3 DEF Counted
    <3>2. ASSUME h.state # "Off", link[c] = "up"
          PROVE  LaunchFrames(h, {m}, rounds') /\ Frames(up'[c]) \subseteq Frames(up[c]) \cup {m}
      <4>1. view[c] \in ViewType /\ view[c].rev <= h.rev
        BY <2>1, <3>2, JoinerFacts DEF Joined, Follows, OfRoom
      <4>2. h.closed <= rounds
        BY <1>a, <3>2 DEF HostState
      <4>3. LaunchFrames(h, {m}, rounds')
        BY <1>0, <2>3, <3>1, <4>1, <4>2, SaidLaunch
      <4>4. up[c] \in Seq(ActionType)
        BY <1>0
      <4>5. Frames(Append(up[c], m)) = Frames(up[c]) \cup {m}
        BY <2>3, <4>4, FramesAppend
      <4> QED BY <2>3, <3>2, <4>3, <4>5
    <3>3. \A d \in Joiners \ {c} : link'[d] = link[d] /\ up'[d] = up[d]
      BY <2>1 DEF Still
    <3> QED BY <2>1, <2>3, <3>1, <3>2, <3>3, RestHost
  <2> QED BY <2>1, <2>2, <2>3
<1>3. ASSUME NEW c \in Joiners, JoinerTurns(c) PROVE HostInv'
  <2>1. /\ HostStill /\ (\A d \in Joiners \ {c} : link'[d] = link[d] /\ up'[d] = up[d])
        /\ link'[c] = "up" => link[c] = "up"
        /\ controls' = controls /\ rounds' = rounds
        /\ \/ link[c] # "up"
           \/ \E k \in 0..Len(up[c]) : up'[c] = Append(SubSeq(up[c], 1, k), Bye)
           \/ up'[c] = up[c]
    BY <1>3 DEF JoinerTurns, Still
  <2>2. Bye \in ActionType /\ LaunchFrames(h, {Bye}, rounds)
    BY DEF Bye, ActionType, LaunchFrames, RoundFrames
  <2>3. ASSUME NEW k \in 0..Len(up[c]), up'[c] = Append(SubSeq(up[c], 1, k), Bye)
        PROVE  Frames(up'[c]) \subseteq Frames(up[c]) \cup {Bye}
    BY <1>0, <2>2, <2>3, FramesPrefix
  <2>4. link'[c] = "up" => link[c] = "up" /\ Frames(up'[c]) \subseteq Frames(up[c]) \cup {Bye}
    BY <2>1, <2>3
  <2>5. ASSUME NEW d \in Joiners, link'[d] = "up"
        PROVE  link[d] = "up" /\ Frames(up'[d]) \subseteq Frames(up[d]) \cup {Bye}
    BY <2>1, <2>4, <2>5
  <2>6. rounds' \in Nat /\ rounds <= rounds' /\ LaunchFrames(h, {Bye}, rounds')
    BY <1>0, <2>1, <2>2
  <2> HIDE DEF h
  <2> QED BY <2>1, <2>2, <2>5, <2>6, RestHost DEF h
<1>4. CASE Minds
  <2>1. PICK w \in ViewType, out \in Seq(RelayType) :
          /\ h.state # "Off" /\ controls # <<>> /\ controls' = Tail(controls)
          /\ Handled(h, order, 1, Head(controls), w, out)
          /\ view'[Host] = w /\ ui'[Host] = ui[Host]
          /\ \A c \in Joiners : Still(c)
          /\ rounds' = rounds
    BY <1>4 DEF Minds
  <2>2. Head(controls) \in Frames(controls) /\ Head(controls) \in ActionType
    BY <1>0, <2>1, FramesTail
  <2>3. LaunchFrames(h, {Head(controls)}, rounds)
    BY <1>a, <2>1, <2>2 DEF LaunchFrames
  <2>4. 1 \in h.members
    BY <2>1, HostFacts
  <2>5. HostState(w, ui[Host], rounds) /\ HostQueue(w, ui[Host], Frames(controls))
    BY <1>0, <1>a, <2>1, <2>2, <2>3, <2>4, HandledHost
  <2>6. \A c \in Joiners : link'[c] = link[c] /\ up'[c] = up[c]
    BY <2>1 DEF Still
  <2>7. h.rev <= w.rev /\ (w.rev = h.rev => w.closed = h.closed /\ (w.active = 0 => h.active = 0))
    BY <1>0, <2>1, HandledBooks
  <2> QED BY <2>1, <2>5, <2>6, <2>7, ChangeHost
<1>5. ASSUME NEW c \in Joiners, Hears(c) PROVE HostInv'
  <2>1. PICK w \in ViewType, out \in Seq(RelayType) :
          /\ h.state # "Off" /\ link[c] = "up" /\ up[c] # <<>> /\ up'[c] = Tail(up[c])
          /\ seat[c] \in Ids \ {1}
          /\ Handled(h, order, seat[c], Head(up[c]), w, out)
          /\ view'[Host] = w /\ ui'[Host] = ui[Host]
          /\ \A d \in Joiners \ {c} : Still(d)
          /\ link'[c] = link[c] /\ controls' = controls /\ rounds' = rounds
    BY <1>5 DEF Hears
  <2>2. /\ Head(up[c]) \in Frames(up[c]) /\ Head(up[c]) \in ActionType
        /\ Frames(up'[c]) \subseteq Frames(up[c])
    BY <1>0, <2>1, FramesTail
  <2>3. LaunchFrames(h, {Head(up[c])}, rounds)
    BY <1>a, <2>1, <2>2 DEF LaunchFrames
  <2>4. 1 \in h.members
    BY <2>1, HostFacts
  <2>5. HostState(w, ui[Host], rounds) /\ HostQueue(w, ui[Host], Frames(controls))
    BY <1>0, <1>a, <2>1, <2>2, <2>3, <2>4, HandledHost
  <2>6. \A d \in Joiners \ {c} : link'[d] = link[d] /\ up'[d] = up[d]
    BY <2>1 DEF Still
  <2>7. h.rev <= w.rev /\ (w.rev = h.rev => w.closed = h.closed /\ (w.active = 0 => h.active = 0))
    BY <1>0, <2>1, HandledBooks
  <2> QED BY <2>1, <2>2, <2>5, <2>6, <2>7, ChangeHost
<1>6. CASE Passes
  <2>1. /\ HostStill /\ rounds' = rounds
        /\ controls' = controls \/ (controls # <<>> /\ controls' = Tail(controls))
        /\ \A c \in Joiners : link'[c] = "up" => link[c] = "up" /\ up'[c] = up[c]
    BY <1>6 DEF Passes, Still, HostStill
  <2> QED BY <1>0, <2>1, RestHost
<1>7. CASE Flushes
  <2>1. /\ HostStill /\ rounds' = rounds /\ controls' = controls
        /\ \A c \in Joiners : link'[c] = link[c] /\ up'[c] = up[c]
    BY <1>7 DEF Flushes
  <2> QED BY <1>0, <2>1, RestHost
<1>8. CASE Closes
  <2>1. OffView.state = "Off"
    BY DEF OffView, FreshView
  <2> QED BY <1>8, <2>1 DEF Closes, HostInv
<1>9. ASSUME NEW c \in Joiners, Seats(c) PROVE HostInv'
  <2>1. PICK w \in ViewType, f \in Ids \ {1} :
          /\ h.state # "Off" /\ w.members = h.members \cup {f} /\ Round(h, w) /\ OwnPart(h, w)
          /\ w.ready = h.ready /\ w.reset = h.reset /\ h.active = 0
          /\ view'[Host] = w /\ ui'[Host] = ui[Host]
          /\ \A d \in Joiners \ {c} : Still(d)
          /\ \A m \in Frames(up'[c]) : m.type \in {"Hello", "Disconnect"}
          /\ controls' = controls /\ rounds' = rounds
    BY <1>9 DEF Seats
  <2>3. HostState(w, ui[Host], rounds) /\ HostQueue(w, ui[Host], Frames(controls))
    BY <1>a, <2>1 DEF HostState, HostQueue, Round, OwnPart
  <2>4. \A d \in Joiners \ {c} : link'[d] = link[d] /\ up'[d] = up[d]
    BY <2>1 DEF Still
  <2>5. h.rev <= w.rev /\ w.closed = h.closed /\ w.active = h.active
    BY <1>0, <2>1, ViewFields DEF Round
  <2> QED BY <2>1, <2>3, <2>4, <2>5, ChangeHost
<1>10. ASSUME NEW c \in Joiners, Parts(c) PROVE HostInv'
  <2>1. PICK w \in ViewType :
          /\ h.state # "Off" /\ link'[c] = "gone" /\ seat[c] \in h.members \ {1}
          /\ Removed(h, order, seat[c], order', w)
          /\ view'[Host] = w /\ ui'[Host] = ui[Host]
          /\ \A d \in Joiners \ {c} : Still(d)
          /\ controls' = controls /\ rounds' = rounds
    BY <1>10 DEF Parts
  <2>2. Len(order') >= 2 => w.members # {1}
    <3>1. w.state # "Off"
      BY <2>1 DEF Removed, Less
    <3>2. order' \in Seq(Ids) /\ NoRepeat(order') /\ InOrder(order') = w.members
      BY <2>1, <3>1 DEF RoomInv, SeatInv, Seating
    <3> QED BY <3>2, SeveralThere
  <2>3. HostState(w, ui[Host], rounds) /\ HostQueue(w, ui[Host], Frames(controls))
    BY <1>0, <1>a, <2>1, <2>2, RemovedHost
  <2>4. \A d \in Joiners \ {c} : link'[d] = link[d] /\ up'[d] = up[d]
    BY <2>1 DEF Still
  <2>5. h.rev <= w.rev /\ (w.rev = h.rev => w.closed = h.closed /\ (w.active = 0 => h.active = 0))
    <3>1. h.rev \in Nat /\ w.rev \in Nat
      BY <1>0, ViewFields
    <3> QED BY <2>1, <3>1 DEF Removed, Less, Cleared
  <2> QED BY <2>1, <2>3, <2>4, <2>5, ChangeHost
<1> QED BY <1>1, <1>2, <1>3, <1>4, <1>5, <1>6, <1>7, <1>8, <1>9, <1>10, Shapes DEF Shape

\* No round and nothing queued in the beginning.
LEMMA InitHost == Init => HostInv
<1> SUFFICES ASSUME Init PROVE HostInv
  OBVIOUS
<1>1. view[Host] = HostView /\ ui[Host] = LobbyUi /\ controls = <<>> /\ rounds = 0
  BY DEF Init, Procs
<1>2. /\ HostView.active = 0 /\ HostView.closed = 0 /\ ~HostView.begun /\ HostView.launch = NoChart
      /\ HostView.reset = {} /\ ~HostView.dirty /\ ~HostView.begin
  BY DEF HostView, FreshView
<1>3. LobbyUi.at = "lobby"
  BY DEF LobbyUi
<1>4. HostState(HostView, LobbyUi, 0)
  BY <1>2, <1>3 DEF HostState, Play
<1>5. HostQueue(HostView, LobbyUi, {}) /\ LaunchFrames(HostView, {}, 0)
  BY DEF HostQueue, LaunchFrames
<1>6. \A c \in Joiners : link[c] # "up"
  BY DEF Init
<1> QED BY <1>1, <1>4, <1>5, <1>6, FramesFew DEF HostInv

\* The coordinator's own round in every behaviour.
LEMMA HostAlways == Spec => [](RoomInv /\ RoundInv /\ Ends /\ HostInv)
<1>1. Init => RoomInv /\ RoundInv /\ Ends /\ HostInv
  BY InitRoom, InitRound, InitEnds, InitHost
<1>2. RoomInv /\ RoundInv /\ Ends /\ HostInv /\ [Next]_vars => (RoomInv /\ RoundInv /\ Ends /\ HostInv)'
  BY StepRoom, StepRound, StepEnds, StepHost
<1> QED BY <1>1, <1>2, PTL DEF Spec

-----------------------------------------------------------------------------
(* The room keeps its promise to its players (RoomTurns).                  *)

\* The promise's order without p is the coordinator's.
LEMMA RestIsWithout ==
  ASSUME NEW ord \in Seq(Ids), NEW p \in InOrder(ord)
  PROVE  LET at == CHOOSE k \in DOMAIN ord : ord[k] = p
         IN SubSeq(ord, 1, at - 1) \o SubSeq(ord, at + 1, Len(ord)) = Without(ord, p)
<1> DEFINE at == CHOOSE k \in DOMAIN ord : ord[k] = p
           a == SubSeq(ord, 1, at - 1)
           b == SubSeq(ord, at + 1, Len(ord))
           n == Len(ord)
<1>1. at \in DOMAIN ord /\ ord[at] = p
  BY DEF InOrder
<1>2. Without(ord, p) = [k \in 1..(n - 1) |-> IF k < at THEN ord[k] ELSE ord[k + 1]]
  BY DEF Without, Position
<1> HIDE DEF at
<1>3. n \in Nat /\ at \in 1..n /\ DOMAIN ord = 1..n
  BY <1>1, LenProperties
<1>4. a \in Seq(Ids) /\ Len(a) = at - 1 /\ \A i \in 1..(at - 1) : a[i] = ord[i]
  BY <1>3, SubSeqProperties
<1>5. b \in Seq(Ids) /\ Len(b) = n - at /\ \A i \in 1..(n - at) : b[i] = ord[at + i]
  <2>1. /\ b \in Seq(Ids)
        /\ Len(b) = IF at + 1 <= n THEN n - (at + 1) + 1 ELSE 0
        /\ \A i \in 1..(n - (at + 1) + 1) : b[i] = ord[at + 1 + i - 1]
    <3>1. at + 1 \in Int /\ n \in Int /\ \A i \in (at + 1)..n : i \in 1..n
      BY <1>3
    <3>2. \A i \in (at + 1)..n : ord[i] \in Ids
      BY <1>3, <3>1
    <3> QED BY <3>1, <3>2, SubSeqProperties
  <2>2. Len(b) = n - at
    <3> HIDE DEF b, n
    <3> QED BY <1>3, <2>1
  <2>3. ASSUME NEW i \in 1..(n - at) PROVE b[i] = ord[at + i]
    <3>1. i \in 1..(n - (at + 1) + 1) /\ at + 1 + i - 1 = at + i
      BY <1>3
    <3> QED BY <2>1, <3>1
  <2> QED BY <2>1, <2>2, <2>3
<1> HIDE DEF a, b, n
<1>6. /\ a \o b \in Seq(Ids) /\ Len(a \o b) = n - 1
      /\ \A i \in 1..(n - 1) : (a \o b)[i] = IF i <= at - 1 THEN a[i] ELSE b[i - (at - 1)]
  <2>1. Len(a) + Len(b) = n - 1
    BY <1>3, <1>4, <1>5
  <2>2. /\ a \o b \in Seq(Ids)
        /\ Len(a \o b) = Len(a) + Len(b)
        /\ \A i \in 1..(Len(a) + Len(b)) :
             (a \o b)[i] = IF i <= Len(a) THEN a[i] ELSE b[i - Len(a)]
    BY <1>4, <1>5, ConcatProperties
  <2> QED BY <1>4, <2>1, <2>2
<1>7. ASSUME NEW i \in 1..(n - 1)
      PROVE  (a \o b)[i] = IF i < at THEN ord[i] ELSE ord[i + 1]
  <2>1. CASE i < at
    BY <1>3, <1>4, <1>6, <2>1
  <2>2. CASE ~(i < at)
    <3>1. ~(i <= at - 1) /\ i - (at - 1) \in 1..(n - at) /\ at + (i - (at - 1)) = i + 1
      BY <1>3, <2>2
    <3> QED BY <1>5, <1>6, <2>2, <3>1
  <2> QED BY <2>1, <2>2
<1>8. a \o b = [i \in 1..(n - 1) |-> (a \o b)[i]]
  <2> DEFINE t == a \o b
  <2>1. t \in [1..(n - 1) -> Ids]
    BY <1>6, LenProperties
  <2> HIDE DEF t
  <2>2. t = [i \in 1..(n - 1) |-> t[i]]
    BY <2>1
  <2> QED BY <2>2 DEF t
<1> QED BY <1>2, <1>7, <1>8 DEF at, a, b, n

\* Who comes after p, in two ways.
After(q, p) == LET k == CHOOSE k \in DOMAIN q : q[k] = p
               IN IF k = Len(q) THEN q[1] ELSE q[k + 1]

\* next_leader_locked takes the next in the order.
LEMMA NextIsAfter ==
  ASSUME NEW ord \in Seq(Ids), NEW p \in InOrder(ord)
  PROVE  NextLeader(ord, p) = After(ord, p)
<1> DEFINE k == CHOOSE k \in DOMAIN ord : ord[k] = p
           n == Len(ord)
<1>1. k \in DOMAIN ord /\ \E j \in DOMAIN ord : ord[j] = p
  BY DEF InOrder
<1>2. NextLeader(ord, p) = ord[(k % n) + 1]
  BY <1>1 DEF NextLeader
<1>3. After(ord, p) = IF k = n THEN ord[1] ELSE ord[k + 1]
  BY DEF After
<1> HIDE DEF k
<1>4. n \in Nat /\ k \in 1..n
  BY <1>1, LenProperties
<1> HIDE DEF n
<1>5. k # n => k % n = k
  BY <1>4
<1>6. k = n => k % n = 0
  BY <1>4
<1> QED BY <1>2, <1>3, <1>5, <1>6

\* remove_host_player_locked passes the lead to the same player.
LEMMA HeirIsAfter ==
  ASSUME NEW ord \in Seq(Ids), NEW p \in InOrder(ord), Len(ord) >= 3
  PROVE  LET rest == Without(ord, p)
         IN rest[((Position(ord, p) - 1) % Len(rest)) + 1] = After(ord, p)
<1> DEFINE k == CHOOSE k \in DOMAIN ord : ord[k] = p
           n == Len(ord)
           rest == Without(ord, p)
           j == ((k - 1) % (n - 1)) + 1
<1>1. k \in DOMAIN ord /\ Position(ord, p) = k
  BY DEF InOrder, Position
<1>2. rest = [i \in 1..(n - 1) |-> IF i < k THEN ord[i] ELSE ord[i + 1]]
  BY DEF Without, Position
<1>3. After(ord, p) = IF k = n THEN ord[1] ELSE ord[k + 1]
  BY DEF After
<1>4. n \in Nat /\ n >= 3 /\ Len(rest) = n - 1
  <2>1. n \in Nat /\ n >= 3
    BY LenProperties
  <2>2. n - 1 \in Nat /\ DOMAIN rest = 1..(n - 1) /\ rest \in Seq(Ids)
    BY <1>2, <2>1, WithoutOne
  <2>3. Len(rest) \in Nat /\ DOMAIN rest = 1..Len(rest)
    BY <2>2, LenProperties
  <2>4. Len(rest) = n - 1
    BY <2>2, <2>3
  <2> QED BY <2>1, <2>4
<1> HIDE DEF k
<1>5. k \in 1..n
  BY <1>1, LenProperties
<1> HIDE DEF n, rest
<1>6. CASE k = n
  <2>1. j = 1
    BY <1>4, <1>5, <1>6
  <2>2. rest[1] = ord[1]
    BY <1>2, <1>4, <1>6
  <2> QED BY <1>1, <1>3, <1>4, <1>6, <2>1, <2>2 DEF rest
<1>7. CASE k # n
  <2>1. k - 1 \in 0..(n - 2)
    BY <1>4, <1>5, <1>7
  <2>2. (k - 1) % (n - 1) = k - 1
    BY <1>4, <2>1
  <2>3. j = k
    BY <1>5, <2>2
  <2>4. rest[k] = ord[k + 1]
    <3>1. k \in 1..(n - 1) /\ ~(k < k)
      BY <1>4, <1>5, <1>7
    <3> QED BY <1>2, <3>1
  <2> QED BY <1>1, <1>3, <1>4, <1>7, <2>3, <2>4 DEF rest
<1> QED BY <1>6, <1>7

\* The stage of a copy of the room.
StageIn(h) ==
  IF h.state = "Off" THEN "closed" ELSE IF h.active = 0 THEN "lobby"
  ELSE IF h.begun THEN "playing" ELSE "loading"
LeadIn(h) == IF h.state = "Off" THEN 0 ELSE h.leader

\* What the promise is told of the room, before and after a step.
LEMMA StageFacts ==
  /\ Stage = StageIn(view[Host]) /\ (Stage = "closed" <=> view[Host].state = "Off")
  /\ Stage' = StageIn(view'[Host]) /\ (Stage' = "closed" <=> view'[Host].state = "Off")
<1>1. /\ view[Host].state = "Off" => Stage = "closed"
      /\ view[Host].state # "Off" /\ view[Host].active = 0 => Stage = "lobby"
      /\ view[Host].state # "Off" /\ view[Host].active # 0 /\ ~view[Host].begun => Stage = "loading"
      /\ view[Host].state # "Off" /\ view[Host].active # 0 /\ view[Host].begun => Stage = "playing"
  BY DEF Stage
<1>2. /\ view'[Host].state = "Off" => Stage' = "closed"
      /\ view'[Host].state # "Off" /\ view'[Host].active = 0 => Stage' = "lobby"
      /\ view'[Host].state # "Off" /\ view'[Host].active # 0 /\ ~view'[Host].begun => Stage' = "loading"
      /\ view'[Host].state # "Off" /\ view'[Host].active # 0 /\ view'[Host].begun => Stage' = "playing"
  BY DEF Stage
<1> QED BY <1>1, <1>2 DEF StageIn

\* The leader of copy h, who comes after nobody that has left, is the last one
\* that the round waits for; copy w is left to somebody else than the heir.
Skips(h, q, w, r) ==
  /\ StageIn(h) = "playing" /\ StageIn(w) = "lobby" /\ Len(r) > 1
  /\ h.leader # 1 /\ h.leader \in InOrder(q) /\ r = Without(q, h.leader)
  /\ w.members = h.members \ {h.leader} /\ w.members \subseteq h.reset
  /\ w.leader = After(r, After(q, h.leader))

\* A step of the coordinator's copy from h to w, with the order from q to r.
Promise(h, q, w, r) ==
  \/ r = q /\ StageIn(w) = StageIn(h) /\ LeadIn(w) = LeadIn(h)
  \/ /\ StageIn(h) = "lobby" /\ StageIn(w) = "lobby" /\ LeadIn(w) = LeadIn(h)
     /\ \E f \in Ids \ InOrder(q) : r = Append(q, f)
  \/ /\ r = q /\ LeadIn(w) = LeadIn(h)
     /\ \/ StageIn(h) = "lobby" /\ Len(q) > 1 /\ StageIn(w) = "loading"
        \/ StageIn(h) = "loading" /\ StageIn(w) \in {"lobby", "playing"}
  \/ /\ r = q /\ StageIn(h) = "playing" /\ StageIn(w) = "lobby"
     /\ LeadIn(w) = After(q, LeadIn(h))
  \/ \E p \in InOrder(q) \ {1} :
       LET heir == IF p = LeadIn(h) THEN After(q, p) ELSE LeadIn(h)
       IN /\ StageIn(h) # "closed" /\ r = Without(q, p)
          /\ IF Len(r) = 1 THEN LeadIn(w) = 1 /\ StageIn(w) = "lobby"
             ELSE \/ LeadIn(w) = heir /\ StageIn(w) = StageIn(h)
                  \/ /\ StageIn(h) = "playing" /\ StageIn(w) = "lobby" /\ p # LeadIn(h)
                     /\ LeadIn(w) = After(r, LeadIn(h))
  \/ Skips(h, q, w, r)
  \/ r = q /\ StageIn(h) # "closed" /\ StageIn(w) = "closed" /\ LeadIn(w) = 0

\* Such a step is one the promise allows.
LEMMA PromiseKept ==
  ASSUME order \in Seq(Ids), Promise(view[Host], order, view'[Host], order')
  PROVE  [Turns!Next \/ SkipsHeir]_(Turns!turns)
<1> DEFINE h == view[Host]
           w == view'[Host]
           lead == IF Stage = "closed" THEN 0 ELSE view[Host].leader
<1>1. /\ Stage = StageIn(h) /\ Stage' = StageIn(w)
      /\ lead = LeadIn(h) /\ lead' = LeadIn(w)
  BY StageFacts DEF LeadIn
<1>2. \A q, p : Turns!After(q, p) = After(q, p)
  BY DEF Turns!After, After
<1>3. Turns!Present = InOrder(order)
  BY DEF Turns!Present, InOrder
<1>4. \A p \in InOrder(order) : Turns!Rest(p) = Without(order, p)
  BY RestIsWithout DEF Turns!Rest
<1> HIDE DEF h, w, lead
<1>5. CASE order' = order /\ StageIn(w) = StageIn(h) /\ LeadIn(w) = LeadIn(h)
  BY <1>1, <1>5 DEF Turns!turns, lead
<1>6. CASE /\ StageIn(h) = "lobby" /\ StageIn(w) = "lobby" /\ LeadIn(w) = LeadIn(h)
           /\ \E f \in Ids \ InOrder(order) : order' = Append(order, f)
  <2>1. PICK f \in Ids \ InOrder(order) : order' = Append(order, f)
    BY <1>6
  <2>2. Turns!Join(f)
    BY <1>1, <1>3, <1>6, <2>1 DEF Turns!Join, lead
  <2> QED BY <2>1, <2>2 DEF Turns!Next
<1>7. CASE /\ order' = order /\ LeadIn(w) = LeadIn(h)
           /\ \/ StageIn(h) = "lobby" /\ Len(order) > 1 /\ StageIn(w) = "loading"
              \/ StageIn(h) = "loading" /\ StageIn(w) \in {"lobby", "playing"}
  <2>1. Turns!Launch \/ Turns!CallOff \/ Turns!Begin
    BY <1>1, <1>7 DEF Turns!Launch, Turns!CallOff, Turns!Begin, lead
  <2> QED BY <2>1 DEF Turns!Next
<1>8. CASE /\ order' = order /\ StageIn(h) = "playing" /\ StageIn(w) = "lobby"
           /\ LeadIn(w) = After(order, LeadIn(h))
  <2>1. Turns!EndRound
    BY <1>1, <1>2, <1>8 DEF Turns!EndRound, lead
  <2> QED BY <2>1 DEF Turns!Next
<1>9. ASSUME NEW p \in InOrder(order) \ {1},
             LET heir == IF p = LeadIn(h) THEN After(order, p) ELSE LeadIn(h)
             IN /\ StageIn(h) # "closed" /\ order' = Without(order, p)
                /\ IF Len(order') = 1 THEN LeadIn(w) = 1 /\ StageIn(w) = "lobby"
                   ELSE \/ LeadIn(w) = heir /\ StageIn(w) = StageIn(h)
                        \/ /\ StageIn(h) = "playing" /\ StageIn(w) = "lobby" /\ p # LeadIn(h)
                           /\ LeadIn(w) = After(order', LeadIn(h))
      PROVE  [Turns!Next \/ SkipsHeir]_(Turns!turns)
  <2>1. Turns!Rest(p) = order' /\ p \in Ids
    BY <1>4, <1>9 DEF InOrder
  <2>2. Turns!Depart(p)
    BY <1>1, <1>2, <1>3, <1>9, <2>1 DEF Turns!Depart, lead
  <2> QED BY <2>1, <2>2 DEF Turns!Next
<1>10. CASE order' = order /\ StageIn(h) # "closed" /\ StageIn(w) = "closed" /\ LeadIn(w) = 0
  <2>1. Turns!Close
    BY <1>1, <1>10 DEF Turns!Close, lead
  <2> QED BY <2>1 DEF Turns!Next
<1>11. CASE Skips(h, order, w, order')
  <2>1. Turns!Rest(h.leader) = order'
    BY <1>4, <1>11 DEF Skips
  <2>2. SkipsHeir
    BY <1>1, <1>2, <1>11, <2>1 DEF SkipsHeir, Skips, h, w
  <2> QED BY <2>2
<1> QED BY <1>5, <1>6, <1>7, <1>8, <1>9, <1>10, <1>11 DEF Promise, h, w

\* An order of more than its first player has two places.
LEMMA MoreThanOne ==
  ASSUME NEW ord \in Seq(Ids), 1 \in InOrder(ord)
  PROVE  Len(ord) >= 1 /\ (InOrder(ord) # {1} => Len(ord) > 1)
<1>1. Len(ord) \in Nat /\ DOMAIN ord = 1..Len(ord)
  BY LenProperties
<1>2. PICK k \in DOMAIN ord : ord[k] = 1
  BY DEF InOrder
<1>3. Len(ord) = 1 => InOrder(ord) = {1}
  <2>1. ASSUME Len(ord) = 1 PROVE \A j \in DOMAIN ord : j = k
    BY <1>1, <1>2, <2>1
  <2> QED BY <1>2, <2>1 DEF InOrder
<1> QED BY <1>1, <1>2, <1>3

\* A frame keeps the promise.
LEMMA HandledPromise ==
  ASSUME NEW h \in ViewType, NEW w \in ViewType, NEW ord \in Seq(Ids), InOrder(ord) = h.members,
         1 \in h.members, h.leader \in h.members, h.id = 1, h.state # "Off",
         NEW x, NEW n, HostState(h, x, n), NEW i, NEW m, NEW out, Handled(h, ord, i, m, w, out),
         m.type \in RoundFrames => m.nonce # 0,
         i = 1 /\ m.type = "RoundReset" /\ m.nonce = h.active => 1 \in h.reset
  PROVE  Promise(h, ord, w, ord)
<1>1. CASE HTalks(h, i, m, w, out) \/ HLoads(h, i, m, w, out) \/ HScores(h, i, m, w, out)
           \/ HResets(h, i, m, w, out) \/ HRenews(h, i, m, w, out)
  <2>1. /\ w.state = h.state /\ w.leader = h.leader /\ w.active = h.active /\ w.begun = h.begun
    BY <1>1 DEF HTalks, HLoads, HScores, HResets, HRenews, Table, Round, OwnPart
  <2> QED BY <2>1 DEF Promise, StageIn, LeadIn
<1>2. CASE HBegins(h, i, m, w, out)
  <2>1. w.state = h.state /\ w.leader = h.leader /\ w.active = h.active /\ w.begun /\ h.active # 0
    BY <1>2 DEF HBegins, Table, Round, RoundFrames
  <2> QED BY <2>1 DEF Promise, StageIn, LeadIn
<1>3. CASE HLaunches(h, i, m, w, out)
  <2>1. /\ w.state = h.state /\ w.leader = h.leader /\ w.active # 0 /\ ~w.begun /\ h.active = 0
        /\ Several(h)
    BY <1>3 DEF HLaunches, Table, AllReady
  <2>2. h.members # {1}
    BY <2>1 DEF Several
  <2>3. Len(ord) > 1
    BY <2>2, MoreThanOne
  <2> QED BY <2>1, <2>3 DEF Promise, StageIn, LeadIn
<1>4. CASE HCloses(h, ord, i, m, w, out)
  <2>1. w.state = h.state /\ w.active = 0
    BY <1>4 DEF HCloses, Table, Cleared
  <2>2. CASE m.type = "Ready" /\ h.active # 0 /\ ~h.begun /\ w.leader = h.leader
    BY <2>1, <2>2 DEF Promise, StageIn, LeadIn
  <2>3. CASE /\ m.type = "RoundReset" /\ m.nonce = h.active /\ h.members \subseteq h.reset \cup {i}
             /\ w.leader = IF Len(ord) > 1 THEN NextLeader(ord, h.leader) ELSE h.leader
    <3>1. h.active # 0 /\ 1 \in h.reset
      BY <2>3 DEF RoundFrames
    <3>2. h.begun /\ h.members # {1}
      BY <3>1 DEF HostState
    <3>3. Len(ord) > 1
      BY <3>2, MoreThanOne
    <3>4. w.leader = After(ord, h.leader)
      BY <2>3, <3>3, NextIsAfter
    <3> QED BY <2>1, <3>1, <3>2, <3>4 DEF Promise, StageIn, LeadIn
  <2> QED BY <1>4, <2>2, <2>3 DEF HCloses
<1> QED BY <1>1, <1>2, <1>3, <1>4 DEF Handled

\* So does a departure.
LEMMA RemovedPromise ==
  ASSUME NEW h \in ViewType, NEW w \in ViewType, NEW ord \in Seq(Ids), NoRepeat(ord),
         InOrder(ord) = h.members, 1 \in h.members, h.leader \in h.members, h.state # "Off",
         NEW x, NEW n, HostState(h, x, n), NEW id \in h.members \ {1},
         Removed(h, ord, id, Without(ord, id), w)
  PROVE  Promise(h, ord, w, Without(ord, id))
<1> DEFINE rest == Without(ord, id)
           heir == Heir(h, ord, id, rest)
           next == IF id = h.leader THEN After(ord, id) ELSE h.leader
<1>1. /\ rest \in Seq(Ids) /\ Len(rest) = Len(ord) - 1 /\ InOrder(rest) = h.members \ {id}
      /\ Len(rest) \in Nat /\ Len(ord) \in Nat /\ DOMAIN rest = 1..Len(rest)
  BY WithoutOne, LenProperties
<1>2. Len(rest) >= 1
  BY <1>1, MoreThanOne
<1>3. Len(rest) >= 2 => heir = next
  BY <1>1, HeirIsAfter DEF Heir
<1>4. heir \in InOrder(rest)
  <2>1. CASE h.leader # id
    BY <1>1, <2>1 DEF Heir
  <2>2. CASE h.leader = id
    <3>1. Position(ord, id) \in DOMAIN ord
      BY DEF Position, InOrder
    <3>2. Position(ord, id) - 1 \in Nat
      BY <3>1, LenProperties
    <3>3. ((Position(ord, id) - 1) % Len(rest)) + 1 \in 1..Len(rest)
      BY <1>1, <1>2, <3>2
    <3> QED BY <1>1, <2>2, <3>3 DEF Heir, InOrder
  <2> QED BY <2>1, <2>2
<1>5. Removed(h, ord, id, rest, w)
  OBVIOUS
<1>6. h.state # "Off" => StageIn(h) # "closed" /\ LeadIn(h) = h.leader
  BY DEF StageIn, LeadIn
<1>7. id \in InOrder(ord) \ {1}
  OBVIOUS
<1> SUFFICES \/ IF Len(rest) = 1 THEN LeadIn(w) = 1 /\ StageIn(w) = "lobby"
                ELSE \/ LeadIn(w) = next /\ StageIn(w) = StageIn(h)
                     \/ /\ StageIn(h) = "playing" /\ StageIn(w) = "lobby" /\ id # h.leader
                        /\ LeadIn(w) = After(rest, h.leader)
             \/ Skips(h, ord, w, rest)
  BY <1>6, <1>7 DEF Promise
<1> HIDE DEF rest, heir, next
<1>8. CASE Len(rest) >= 2 /\ Less(h, id, w) /\ w.leader = heir
  <2>1. w.state = h.state /\ w.active = h.active /\ w.begun = h.begun /\ w.leader = next
    BY <1>3, <1>8 DEF Less, OwnPart
  <2> QED BY <1>1, <1>8, <2>1 DEF StageIn, LeadIn
<1>9. CASE /\ Len(rest) >= 2 /\ Cleared(h, w) /\ w.state = h.state
           /\ h.active # 0 /\ h.members \ {id} \subseteq h.reset
           /\ w.leader = NextLeader(rest, heir)
  <2>1. h.begun
    BY <1>9 DEF HostState
  <2>2. w.leader = After(rest, next)
    BY <1>1, <1>3, <1>4, <1>9, NextIsAfter
  <2>3. StageIn(h) = "playing" /\ StageIn(w) = "lobby" /\ LeadIn(w) = w.leader
    BY <1>9, <2>1 DEF StageIn, LeadIn, Cleared
  <2>4. CASE id # h.leader
    BY <1>1, <1>9, <2>2, <2>3, <2>4 DEF next
  <2>5. CASE id = h.leader
    <3>1. w.leader = After(rest, After(ord, h.leader)) /\ w.members = h.members \ {h.leader}
      BY <1>5, <2>2, <2>5 DEF next, Removed
    <3> QED BY <1>1, <1>7, <1>9, <2>3, <2>5, <3>1 DEF Skips, rest
  <2> QED BY <2>4, <2>5
<1>10. CASE Len(rest) < 2 /\ Cleared(h, w) /\ w.state = "Listening" /\ w.leader = 1
  BY <1>1, <1>2, <1>10 DEF StageIn, LeadIn, Cleared
<1> QED BY <1>5, <1>8, <1>9, <1>10 DEF Removed, heir

\* Every step of the room keeps it.
LEMMA StepPromise ==
  ASSUME RoomInv, RoundInv, Ends, HostInv, RoomInv', [Next]_vars
  PROVE  Promise(view[Host], order, view'[Host], order')
<1> DEFINE h == view[Host]
<1>0. /\ h \in ViewType /\ controls \in Seq(ActionType)
      /\ \A c \in Joiners : up[c] \in Seq(ActionType)
      /\ view'[Host] \in ViewType
  BY Shapely DEF RoomInv, Netted, Procs
<1>a. h.state # "Off" =>
        /\ HostState(h, ui[Host], rounds) /\ HostQueue(h, ui[Host], Frames(controls))
        /\ LaunchFrames(h, Frames(controls), rounds)
        /\ \A c \in Joiners : link[c] = "up" => LaunchFrames(h, Frames(up[c]), rounds)
  BY DEF HostInv
<1>b. h.state # "Off" =>
        /\ h.id = 1 /\ 1 \in h.members /\ order \in Seq(Ids) /\ NoRepeat(order)
        /\ InOrder(order) = h.members /\ h.leader \in h.members
  BY HostFacts
<1> SUFFICES Promise(h, order, view'[Host], order')
  OBVIOUS
<1> HIDE DEF h
<1>c. order' = order /\ view'[Host] = h => Promise(h, order, view'[Host], order')
  BY DEF Promise
<1>1. CASE HostMoves
  <2>1. PICK w \in ViewType, y \in UiType :
          /\ h.state # "Off" /\ view'[Host] = w /\ Left(h, w) /\ order' = order
          /\ Silent(h, ui[Host], w, y) \/ \E m \in ActionType : Says(h, ui[Host], w, y, m)
    BY <1>1 DEF HostMoves, h
  <2>2. w.state = h.state /\ w.active = h.active /\ w.leader = h.leader
    BY <2>1 DEF Left, OwnCopy, SameRound
  <2>3. CASE w.begun = h.begun
    BY <2>1, <2>2, <2>3 DEF Promise, StageIn, LeadIn
  <2>4. CASE w.begun # h.begun
    <3>1. ~Silent(h, ui[Host], w, y)
      BY <2>4 DEF Silent, Alike
    <3>2. PICK m \in ActionType : Says(h, ui[Host], w, y, m)
      BY <2>1, <3>1
    <3>3. BeginSays(h, ui[Host], w, y, m)
      BY <2>4, <3>2 DEF Says, LobbySays, LoadedSays, LiveSays, FinalSays, ResetSays, Alike
    <3>4. ~h.begun /\ w.begun /\ h.active # 0
      BY <1>0, <2>4, <3>3, ViewFields DEF BeginSays
    <3> QED BY <2>1, <2>2, <3>4 DEF Promise, StageIn, LeadIn
  <2> QED BY <2>3, <2>4
<1>2. CASE Minds
  <2>1. PICK w \in ViewType, out \in Seq(RelayType) :
          /\ h.state # "Off" /\ controls # <<>>
          /\ Handled(h, order, 1, Head(controls), w, out)
          /\ view'[Host] = w /\ order' = order
    BY <1>2 DEF Minds, h
  <2>2. Head(controls) \in Frames(controls)
    BY <1>0, <2>1, FramesTail
  <2>3. LET m == Head(controls)
        IN /\ m.type \in RoundFrames => m.nonce # 0
           /\ m.type = "RoundReset" /\ m.nonce = h.active => 1 \in h.reset
    BY <1>a, <2>1, <2>2 DEF HostQueue
  <2> QED BY <1>0, <1>a, <1>b, <2>1, <2>3, HandledPromise
<1>3. ASSUME NEW c \in Joiners, Hears(c) PROVE Promise(h, order, view'[Host], order')
  <2>1. PICK w \in ViewType, out \in Seq(RelayType) :
          /\ h.state # "Off" /\ link[c] = "up" /\ up[c] # <<>> /\ seat[c] \in Ids \ {1}
          /\ Handled(h, order, seat[c], Head(up[c]), w, out)
          /\ view'[Host] = w /\ order' = order
    BY <1>3 DEF Hears, h
  <2>2. Head(up[c]) \in Frames(up[c])
    BY <1>0, <2>1, FramesTail
  <2>3. Head(up[c]).type \in RoundFrames => Head(up[c]).nonce # 0
    BY <1>a, <2>1, <2>2 DEF LaunchFrames
  <2> QED BY <1>0, <1>a, <1>b, <2>1, <2>3, HandledPromise
<1>4. ASSUME NEW c \in Joiners, Parts(c) PROVE Promise(h, order, view'[Host], order')
  <2>1. PICK w \in ViewType :
          /\ h.state # "Off" /\ seat[c] \in h.members \ {1} /\ order' = Without(order, seat[c])
          /\ Removed(h, order, seat[c], order', w) /\ view'[Host] = w
    BY <1>4 DEF Parts, h
  <2> QED BY <1>0, <1>a, <1>b, <2>1, RemovedPromise
<1>5. ASSUME NEW c \in Joiners, Seats(c) PROVE Promise(h, order, view'[Host], order')
  <2>1. PICK w \in ViewType, f \in Ids \ {1} :
          /\ h.state # "Off" /\ h.active = 0 /\ f \notin h.members
          /\ w.state = "Connected" /\ Round(h, w)
          /\ view'[Host] = w /\ order' = Append(order, f)
    BY <1>5 DEF Seats, h
  <2>2. f \in Ids \ InOrder(order)
    BY <1>b, <2>1
  <2> QED BY <2>1, <2>2 DEF Promise, StageIn, LeadIn, Round
<1>6. CASE Closes
  <2>1. h.state # "Off" /\ view'[Host] = OffView /\ order' = order
    BY <1>6 DEF Closes, h
  <2> QED BY <2>1 DEF Promise, StageIn, LeadIn, OffView, FreshView
<1>7. CASE Passes \/ Flushes \/ \E c \in Joiners : JoinerMoves(c) \/ JoinerTurns(c)
  BY <1>7, <1>c DEF Passes, Flushes, JoinerMoves, JoinerTurns, HostStill, h
<1> QED BY <1>1, <1>2, <1>3, <1>4, <1>5, <1>6, <1>7, Shapes DEF Shape

\* The promise begins with the coordinator alone.
LEMMA InitPromise == Init => Turns!Init
<1> SUFFICES ASSUME Init PROVE Turns!Init
  OBVIOUS
<1>1. view[Host] = HostView /\ order = <<1>>
  BY DEF Init, Procs
<1>2. HostView.active = 0 /\ HostView.state # "Off" /\ HostView.leader = 1
  BY DEF HostView, FreshView
<1>3. Stage = "lobby"
  BY <1>1, <1>2, StageFacts DEF StageIn
<1>4. 1 \in Ids
  BY RoomAssumption DEF Ids
<1>5. /\ order \in Seq(Ids) /\ order # <<>> /\ order[1] = 1 /\ DOMAIN order = {1}
  BY <1>1, <1>4
<1>6. 1 \in Turns!Present
  BY <1>5 DEF Turns!Present
<1> QED BY <1>1, <1>2, <1>3, <1>5, <1>6 DEF Turns!Init

\* Every step is one of RoomTurns, or skips the heir.
LEMMA StepTurns ==
  RoomInv /\ RoundInv /\ Ends /\ HostInv /\ RoomInv' /\ [Next]_vars
    => [Turns!Next \/ SkipsHeir]_(Turns!turns)
<1>1. RoomInv => order \in Seq(Ids)
  BY DEF RoomInv, SeatInv
<1> QED BY <1>1, StepPromise, PromiseKept

\* The room keeps its promise to its players, whatever crosses, leaves or fails:
\* what the coordinator's copy does is RoomTurns, except when a leader leaves as
\* the last one at the result (remove_host_player_locked).
THEOREM TurnsKept == Spec => KeepsTurnsOrSkips
<1> QED BY StepTurns, InitPromise, HostAlways, PTL DEF Spec, KeepsTurnsOrSkips

\* In a room of two nobody can be skipped.
LEMMA NobodyToSkip ==
  ASSUME MaxPlayers <= 2, RoomInv, RoundInv
  PROVE  ~SkipsHeir
<1> DEFINE h == view[Host]
           rest == Without(order, h.leader)
<1> SUFFICES ASSUME SkipsHeir PROVE FALSE
  OBVIOUS
<1>1. h.state # "Off"
  BY StageFacts DEF SkipsHeir, StageIn
<1>2. /\ order \in Seq(Ids) /\ NoRepeat(order) /\ InOrder(order) = h.members
      /\ h.leader \in h.members /\ 1 \in h.members
  BY <1>1, HostFacts
<1>3. order' = rest
  BY <1>2, RestIsWithout DEF SkipsHeir, Turns!Rest
<1>4. rest \in Seq(Ids) /\ NoRepeat(rest) /\ InOrder(rest) = h.members \ {h.leader}
  BY <1>2, WithoutOne
<1>5. Len(rest) > 1 /\ h.leader # 1
  BY <1>3 DEF SkipsHeir
<1> HIDE DEF rest
<1>6. 1 \in DOMAIN rest /\ 2 \in DOMAIN rest /\ rest[1] # rest[2]
  BY <1>4, <1>5 DEF NoRepeat
<1>7. {rest[1], rest[2], h.leader} \subseteq Ids /\ h.leader \notin {rest[1], rest[2]}
  BY <1>2, <1>4, <1>6 DEF InOrder
<1>8. \A i \in Ids : i = 1 \/ i = 2
  BY RoomAssumption DEF Ids
<1> QED BY <1>5, <1>6, <1>7, <1>8

\* There it keeps the promise without exception.
THEOREM TurnsKeptByTwo == MaxPlayers <= 2 => (Spec => KeepsTurns)
<1>1. MaxPlayers <= 2 /\ RoomInv /\ RoundInv /\ [Turns!Next \/ SkipsHeir]_(Turns!turns)
        => [Turns!Next]_(Turns!turns)
  BY NobodyToSkip
<1>2. SUFFICES ASSUME MaxPlayers <= 2 PROVE Spec => KeepsTurns
  OBVIOUS
<1>3. RoomInv /\ RoundInv /\ Ends /\ HostInv /\ RoomInv' /\ [Next]_vars => [Turns!Next]_(Turns!turns)
  BY <1>1, <1>2, StepTurns
<1> QED BY <1>3, InitPromise, HostAlways, PTL DEF Spec, KeepsTurns, Turns!Spec

-----------------------------------------------------------------------------
(* The steps as one seated joiner c sees them.                             *)

\* What is under way to joiner c.
Coming(c) == down[c] \o broadcasts

\* His end stays.
Unmoved(c) ==
  /\ link[c] = "up" /\ seat'[c] = seat[c] /\ view'[c] = view[c] /\ ui'[c] = ui[c] /\ up'[c] = up[c]
\* Nothing new is under way to him.
Hushed(c) == view[c].state # "Off" => Coming(c)' = Coming(c)
\* The frames t are under way to him as well.
Sends(c, t) == view[c].state # "Off" => Coming(c)' = Coming(c) \o t

Rests(c) ==
  /\ HostStill /\ Unmoved(c) /\ Hushed(c)
  /\ controls' = controls \/ (controls # <<>> /\ controls' = Tail(controls))

\* The coordinator's menu, game thread or sender moves.
Bids(c) ==
  /\ view[Host].state # "Off" /\ Unmoved(c) /\ Hushed(c)
  /\ \E w \in ViewType, y \in UiType :
       /\ view'[Host] = w /\ ui'[Host] = y /\ Left(view[Host], w)
       /\ \/ Silent(view[Host], ui[Host], w, y) /\ controls' = controls
          \/ \E m \in ActionType :
               Says(view[Host], ui[Host], w, y, m) /\ controls' = Append(controls, m)

\* His own does.
Talks(c) ==
  /\ HostStill /\ controls' = controls /\ Hushed(c)
  /\ link[c] = "up" /\ seat'[c] = seat[c] /\ view[c].state = "Connected"
  /\ \E w \in ViewType, y \in UiType :
       /\ view'[c] = w /\ ui'[c] = y /\ Left(view[c], w)
       /\ \/ Silent(view[c], ui[c], w, y) /\ up'[c] = up[c]
          \/ \E m \in ActionType : /\ Says(view[c], ui[c], w, y, m) /\ up'[c] = Append(up[c], m)
                                   /\ m.type = "Loaded" => loadedFor'[c] = m.nonce

\* He is gone, and the coordinator has yet to read it.
Quits(c) ==
  /\ HostStill /\ controls' = controls /\ link[c] = "up" /\ seat'[c] = seat[c]
  /\ view'[c] = OffView /\ ui'[c] = LobbyUi
  /\ \E k \in 0..Len(up[c]) : up'[c] = Append(SubSeq(up[c], 1, k), Bye)

\* He reads the next frame.
Reads(c) ==
  LET s == Coming(c) IN
  /\ HostStill /\ controls' = controls /\ link[c] = "up" /\ seat'[c] = seat[c]
  /\ ui'[c] = ui[c] /\ up'[c] = up[c] /\ view[c].state # "Off"
  /\ s # <<>> /\ Head(s).type # "Disconnect" /\ ~Breaks(view[c], Head(s))
  /\ view'[c] = Apply(view[c], Head(s)) /\ Coming(c)' = Tail(s)

\* The coordinator accepts a frame m of somebody else, player j.
Minded(c, j, m, w, out) ==
  /\ view[Host].state # "Off" /\ Unmoved(c) /\ j # seat[c]
  /\ Handled(view[Host], order, j, m, w, out)
  /\ view'[Host] = w /\ ui'[Host] = ui[Host] /\ Sends(c, out)
  /\ \/ j = 1 /\ controls # <<>> /\ m = Head(controls) /\ controls' = Tail(controls)
     \/ /\ controls' = controls
        /\ \E d \in Joiners : link[d] = "up" /\ j = seat[d] /\ up[d] # <<>> /\ m = Head(up[d])

\* It accepts one of his.
Heeded(c, w, out) ==
  /\ view[Host].state # "Off" /\ link[c] = "up" /\ up[c] # <<>> /\ up'[c] = Tail(up[c])
  /\ seat'[c] = seat[c] /\ view'[c] = view[c] /\ ui'[c] = ui[c] /\ controls' = controls
  /\ Handled(view[Host], order, seat[c], Head(up[c]), w, out)
  /\ view'[Host] = w /\ ui'[Host] = ui[Host] /\ Sends(c, out)

\* The room with one player more.
Wider(h, w, f) ==
  /\ f \notin h.members /\ w.members = h.members \cup {f} /\ w.id = h.id /\ w.state = "Connected"
  /\ h.active = 0 /\ Round(h, w) /\ OwnPart(h, w)
  /\ w.ready = h.ready /\ w.loaded = h.loaded /\ w.reset = h.reset /\ w.score = h.score
  /\ RosterMsg(w) \in RelayType

\* Somebody else is seated.
Widens(c) ==
  \E w \in ViewType, f \in Ids \ {1} :
    /\ view[Host].state # "Off" /\ Unmoved(c) /\ Wider(view[Host], w, f)
    /\ view'[Host] = w /\ ui'[Host] = ui[Host] /\ controls' = controls
    /\ Sends(c, <<RosterMsg(w)>>)

\* He is seated himself.
Arrives(c) ==
  \E w \in ViewType, f \in Ids \ {1} :
    /\ view[Host].state # "Off" /\ link[c] = "greeting" /\ phase = "links"
    /\ Wider(view[Host], w, f) /\ view'[Host] = w /\ ui'[Host] = ui[Host] /\ controls' = controls
    /\ seat'[c] = f /\ view'[c] = view[c] /\ ui'[c] = ui[c] /\ up'[c] \in Seq(ActionType)
    /\ \A m \in Frames(up'[c]) : m.type \in {"Hello", "Disconnect"}
    /\ WelcomeMsg(f, view[Host]) \in RelayType
    /\ Coming(c)' = <<WelcomeMsg(f, view[Host])>> \o (broadcasts \o <<RosterMsg(w)>>)

\* Somebody else, player id, is removed.
Narrows(c) ==
  \E w \in ViewType, id \in view[Host].members \ {1} :
    /\ view[Host].state # "Off" /\ Unmoved(c) /\ id # seat[c]
    /\ Removed(view[Host], order, id, order', w) /\ seat[c] \in w.members
    /\ view'[Host] = w /\ ui'[Host] = ui[Host] /\ controls' = controls
    /\ RosterMsg(w) \in RelayType /\ Sends(c, <<RosterMsg(w)>>)

Sees(c) ==
  \/ Rests(c) \/ Bids(c) \/ Talks(c) \/ Quits(c) \/ Reads(c)
  \/ \E w \in ViewType, out \in Seq(RelayType) : Heeded(c, w, out)
  \/ \E j \in Ids, m \in ActionType, w \in ViewType, out \in Seq(RelayType) : Minded(c, j, m, w, out)
  \/ Widens(c) \/ Arrives(c) \/ Narrows(c)

\* Queues that were joined, without their head or with more at the end.
LEMMA JoinedQueues ==
  ASSUME NEW S, NEW d \in Seq(S), NEW b \in Seq(S)
  PROVE  /\ d \o b \in Seq(S)
         /\ d # <<>> => d \o b # <<>> /\ Head(d \o b) = Head(d) /\ Tail(d \o b) = Tail(d) \o b
         /\ \A t \in Seq(S) : d \o (b \o t) = (d \o b) \o t
         /\ \A m \in S : d \o Append(b, m) = (d \o b) \o <<m>>
         /\ (d \o b) \o <<>> = d \o b
<1>1. d \o b \in Seq(S) /\ (d \o b) \o <<>> = d \o b
  BY ConcatProperties, ConcatEmptySeq
<1>2. \A t \in Seq(S) : d \o (b \o t) = (d \o b) \o t
  BY ConcatAssociative
<1>3. ASSUME NEW m \in S PROVE d \o Append(b, m) = (d \o b) \o <<m>>
  <2>1. Append(b, m) = b \o <<m>> /\ <<m>> \in Seq(S)
    BY AppendIsConcat
  <2> QED BY <1>2, <2>1
<1>4. ASSUME d # <<>>
      PROVE  d \o b # <<>> /\ Head(d \o b) = Head(d) /\ Tail(d \o b) = Tail(d) \o b
  <2>1. Head(d) \in S /\ Tail(d) \in Seq(S) /\ d = <<Head(d)>> \o Tail(d)
    BY <1>4, HeadTailProperties
  <2>2. <<Head(d)>> \in Seq(S) /\ d \o b = <<Head(d)>> \o (Tail(d) \o b)
    BY <2>1, ConcatAssociative
  <2>3. Tail(d) \o b \in Seq(S)
    BY <2>1, ConcatProperties
  <2> DEFINE a == Head(d)
             r == Tail(d) \o b
  <2>4. d \o b = <<a>> \o r /\ a \in S /\ r \in Seq(S)
    BY <2>1, <2>2, <2>3
  <2> HIDE DEF a, r
  <2>5. <<a>> \o r # <<>> /\ Head(<<a>> \o r) = a /\ Tail(<<a>> \o r) = r
    BY <2>4
  <2> QED BY <2>4, <2>5 DEF a, r
<1> QED BY <1>1, <1>2, <1>3, <1>4

\* What a step is to a joiner who is seated after it.
LEMMA SeesStep ==
  ASSUME RoomInv, RoundInv, RoomInv', Shape, NEW c \in Joiners, link'[c] = "up",
         view'[Host].state # "Off"
  PROVE  Sees(c)
<1> DEFINE d == down[c]
           b == broadcasts
<1>0. /\ d \in Seq(RelayType) /\ b \in Seq(RelayType) /\ Host # c /\ c \in Procs
      /\ view'[Host] \in ViewType /\ controls \in Seq(ActionType)
      /\ \A e \in Joiners : up[e] \in Seq(ActionType)
  BY Shapely DEF RoomInv, Netted, Procs
<1>q. /\ d \o b \in Seq(RelayType)
      /\ d # <<>> => d \o b # <<>> /\ Head(d \o b) = Head(d) /\ Tail(d \o b) = Tail(d) \o b
      /\ \A t \in Seq(RelayType) : d \o (b \o t) = (d \o b) \o t
      /\ \A m \in RelayType : d \o Append(b, m) = (d \o b) \o <<m>>
      /\ (d \o b) \o <<>> = d \o b
  <2> HIDE DEF d, b
  <2>0. d \in Seq(RelayType) /\ b \in Seq(RelayType)
    BY <1>0
  <2>1. d \o b \in Seq(RelayType) /\ (d \o b) \o <<>> = d \o b
    BY <2>0, JoinedQueues
  <2>2. d # <<>> => d \o b # <<>> /\ Head(d \o b) = Head(d) /\ Tail(d \o b) = Tail(d) \o b
    BY <2>0, JoinedQueues
  <2>3. \A t \in Seq(RelayType) : d \o (b \o t) = (d \o b) \o t
    BY <2>0, JoinedQueues
  <2>4. \A m \in RelayType : d \o Append(b, m) = (d \o b) \o <<m>>
    BY <2>0, JoinedQueues
  <2> QED BY <2>1, <2>2, <2>3, <2>4
<1>a. Still(c) /\ broadcasts' = broadcasts => Hushed(c)
  BY DEF Still, Hushed, Coming
<1>b. Still(c) => Unmoved(c)
  BY DEF Still, Unmoved
<1>1. CASE HostMoves
  <2>1. PICK w \in ViewType, y \in UiType :
          /\ view[Host].state # "Off" /\ view'[Host] = w /\ ui'[Host] = y /\ Left(view[Host], w)
          /\ Still(c) /\ broadcasts' = broadcasts
          /\ \/ Silent(view[Host], ui[Host], w, y) /\ controls' = controls
             \/ \E m \in ActionType :
                  Says(view[Host], ui[Host], w, y, m) /\ controls' = Append(controls, m)
    BY <1>1 DEF HostMoves
  <2>2. Bids(c)
    BY <1>a, <1>b, <2>1 DEF Bids
  <2> QED BY <2>2 DEF Sees
<1>2. ASSUME NEW e \in Joiners, JoinerMoves(e) PROVE Sees(c)
  <2>1. CASE e # c
    <3>1. HostStill /\ Still(c) /\ broadcasts' = broadcasts /\ controls' = controls
      BY <1>2, <2>1 DEF JoinerMoves
    <3>2. Rests(c)
      BY <1>a, <1>b, <3>1 DEF Rests
    <3> QED BY <3>2 DEF Sees
  <2>2. CASE e = c
    <3>1. PICK w \in ViewType, y \in UiType :
            /\ view[c].state = "Connected" /\ view'[c] = w /\ ui'[c] = y /\ Left(view[c], w)
            /\ HostStill /\ link'[c] = link[c] /\ seat'[c] = seat[c] /\ down'[c] = down[c]
            /\ controls' = controls /\ broadcasts' = broadcasts
            /\ \/ Silent(view[c], ui[c], w, y) /\ up'[c] = up[c]
               \/ \E m \in ActionType :
                    /\ Says(view[c], ui[c], w, y, m) /\ (link[c] = "up" => up'[c] = Append(up[c], m))
                    /\ m.type = "Loaded" => loadedFor'[c] = m.nonce
      <4>1. c \in Procs
        BY Shapely
      <4> QED BY <1>2, <2>2, <4>1 DEF JoinerMoves, Counted
    <3>2. Hushed(c)
      BY <3>1 DEF Hushed, Coming
    <3>3. Talks(c)
      BY <3>1, <3>2 DEF Talks
    <3> QED BY <3>3 DEF Sees
  <2> QED BY <2>1, <2>2
<1>3. ASSUME NEW e \in Joiners, JoinerTurns(e) PROVE Sees(c)
  <2>1. CASE e # c
    <3>1. HostStill /\ Still(c) /\ broadcasts' = broadcasts /\ controls' = controls
      BY <1>3, <2>1 DEF JoinerTurns
    <3>2. Rests(c)
      BY <1>a, <1>b, <3>1 DEF Rests
    <3> QED BY <3>2 DEF Sees
  <2>2. CASE e = c
    <3>1. /\ HostStill /\ link[c] = "up" /\ seat'[c] = seat[c]
          /\ controls' = controls /\ broadcasts' = broadcasts
          /\ \/ /\ view'[c] = OffView /\ ui'[c] = LobbyUi
                /\ \E k \in 0..Len(up[c]) : up'[c] = Append(SubSeq(up[c], 1, k), Bye)
             \/ /\ view[c].state # "Off" /\ down[c] # <<>> /\ ui'[c] = ui[c] /\ up'[c] = up[c]
                /\ Head(down[c]).type # "Disconnect" /\ ~Breaks(view[c], Head(down[c]))
                /\ view'[c] = Apply(view[c], Head(down[c])) /\ down'[c] = Tail(down[c])
      BY <1>3, <2>2 DEF JoinerTurns
    <3>2. CASE view'[c] = OffView /\ ui'[c] = LobbyUi
               /\ \E k \in 0..Len(up[c]) : up'[c] = Append(SubSeq(up[c], 1, k), Bye)
      BY <3>1, <3>2 DEF Quits, Sees
    <3>3. CASE /\ view[c].state # "Off" /\ down[c] # <<>> /\ ui'[c] = ui[c] /\ up'[c] = up[c]
               /\ Head(down[c]).type # "Disconnect" /\ ~Breaks(view[c], Head(down[c]))
               /\ view'[c] = Apply(view[c], Head(down[c])) /\ down'[c] = Tail(down[c])
      <4>1. d \o b # <<>> /\ Head(d \o b) = Head(d) /\ Tail(d \o b) = Tail(d) \o b
        BY <1>0, <3>3, <1>q
      <4>2. Reads(c)
        BY <3>1, <3>3, <4>1 DEF Reads, Coming
      <4> QED BY <4>2 DEF Sees
    <3> QED BY <3>1, <3>2, <3>3
  <2> QED BY <2>1, <2>2
<1>4. CASE Minds
  <2>1. PICK w \in ViewType, out \in Seq(RelayType) :
          /\ view[Host].state # "Off" /\ controls # <<>> /\ controls' = Tail(controls)
          /\ Handled(view[Host], order, 1, Head(controls), w, out)
          /\ view'[Host] = w /\ ui'[Host] = ui[Host] /\ broadcasts' = broadcasts \o out
          /\ Still(c)
    BY <1>4 DEF Minds
  <2>2. seat[c] # 1 /\ 1 \in Ids /\ Head(controls) \in ActionType
    <3>1. seat[c] \in Ids \ {1}
      BY <1>b, <2>1, HostFacts DEF Unmoved, Still
    <3> QED BY <1>0, <2>1, <3>1, RoomAssumption DEF Ids
  <2>3. Sends(c, out)
    BY <1>0, <2>1, <1>q DEF Sends, Coming, Still
  <2>4. Minded(c, 1, Head(controls), w, out)
    BY <1>b, <2>1, <2>2, <2>3 DEF Minded
  <2> QED BY <2>2, <2>4 DEF Sees
<1>5. ASSUME NEW e \in Joiners, Hears(e) PROVE Sees(c)
  <2>1. PICK w \in ViewType, out \in Seq(RelayType) :
          /\ view[Host].state # "Off" /\ link[e] = "up" /\ up[e] # <<>> /\ up'[e] = Tail(up[e])
          /\ seat[e] \in Ids \ {1}
          /\ Handled(view[Host], order, seat[e], Head(up[e]), w, out)
          /\ view'[Host] = w /\ ui'[Host] = ui[Host] /\ broadcasts' = broadcasts \o out
          /\ \A f \in Joiners \ {e} : Still(f)
          /\ link'[e] = link[e] /\ seat'[e] = seat[e] /\ view'[e] = view[e] /\ ui'[e] = ui[e]
          /\ down'[e] = down[e] /\ controls' = controls
    BY <1>5 DEF Hears
  <2>2. Sends(c, out)
    BY <1>0, <2>1, <1>q DEF Sends, Coming, Still
  <2>3. CASE e = c
    <3>1. Heeded(c, w, out)
      BY <2>1, <2>2, <2>3 DEF Heeded
    <3> QED BY <3>1 DEF Sees
  <2>4. CASE e # c
    <3>1. Unmoved(c)
      BY <1>b, <2>1, <2>4
    <3>2. seat[e] # seat[c] /\ Head(up[e]) \in ActionType
      BY <1>0, <2>1, <2>4, <3>1, HostFacts DEF Unmoved
    <3>3. Minded(c, seat[e], Head(up[e]), w, out)
      BY <2>1, <2>2, <3>1, <3>2 DEF Minded
    <3> QED BY <2>1, <3>2, <3>3 DEF Sees
  <2> QED BY <2>3, <2>4
<1>6. CASE Passes
  <2>1. HostStill /\ Still(c) /\ broadcasts' = broadcasts
        /\ (controls' = controls \/ (controls # <<>> /\ controls' = Tail(controls)))
    BY <1>6 DEF Passes, HostStill
  <2>2. link[c] = "up"
    BY <2>1 DEF Still
  <2>3. Rests(c)
    BY <1>a, <1>b, <2>1, <2>2 DEF Rests
  <2> QED BY <2>3 DEF Sees
<1>7. CASE Flushes
  <2>1. HostStill /\ Unmoved(c) /\ controls' = controls
    BY <1>7 DEF Flushes, Unmoved
  <2>2. Hushed(c)
    <3>1. view[c].state # "Off" => down'[c] = d \o b /\ broadcasts' = <<>>
      BY <1>7, <2>1 DEF Flushes, Unmoved
    <3>2. (d \o b) \o <<>> = d \o b
      BY <1>0, <1>q
    <3> QED BY <3>1, <3>2 DEF Hushed, Coming
  <2>3. Rests(c)
    BY <2>1, <2>2 DEF Rests
  <2> QED BY <2>3 DEF Sees
<1>8. CASE Closes
  <2>1. OffView.state = "Off"
    BY DEF OffView, FreshView
  <2> QED BY <1>8, <2>1 DEF Closes
<1>9. ASSUME NEW e \in Joiners, Seats(e) PROVE Sees(c)
  <2>1. PICK w \in ViewType, f \in Ids \ {1} :
          /\ view[Host].state # "Off" /\ link[e] = "greeting" /\ phase = "links"
          /\ Wider(view[Host], w, f) /\ view'[Host] = w /\ ui'[Host] = ui[Host]
          /\ broadcasts' = Append(broadcasts, RosterMsg(w))
          /\ \A g \in Joiners \ {e} : Still(g)
          /\ seat'[e] = f /\ view'[e] = view[e] /\ ui'[e] = ui[e]
          /\ down'[e] = <<WelcomeMsg(f, view[Host])>> /\ up'[e] \in Seq(ActionType)
          /\ \A m \in Frames(up'[e]) : m.type \in {"Hello", "Disconnect"}
          /\ controls' = controls
    BY <1>9 DEF Seats, Wider
  <2>2. w \in ViewType /\ RosterMsg(w) \in RelayType
    BY <1>0, <2>1 DEF Wider
  <2>3. CASE e # c
    <3>1. Still(c)
      BY <2>1, <2>3
    <3>2. Sends(c, <<RosterMsg(w)>>)
      BY <1>0, <2>1, <2>2, <3>1, <1>q DEF Sends, Coming, Still
    <3>3. Widens(c)
      BY <1>b, <2>1, <2>2, <3>1, <3>2 DEF Widens
    <3> QED BY <3>3 DEF Sees
  <2>4. CASE e = c
    <3>1. broadcasts' = broadcasts \o <<RosterMsg(w)>>
      BY <1>0, <2>1, <2>2, AppendIsConcat
    <3>2. Coming(c)' = <<WelcomeMsg(f, view[Host])>> \o (broadcasts \o <<RosterMsg(w)>>)
      BY <2>1, <2>4, <3>1 DEF Coming
    <3>3. WelcomeMsg(f, view[Host]) \in RelayType
      <4>1. view[Host].leader \in Ids
        BY <2>1, HostFacts, ViewFields
      <4> QED BY <4>1 DEF WelcomeMsg, RelayType
    <3>4. Arrives(c)
      BY <2>1, <2>2, <2>4, <3>2, <3>3 DEF Arrives
    <3> QED BY <3>4 DEF Sees
  <2> QED BY <2>3, <2>4
<1>10. ASSUME NEW e \in Joiners, Parts(e) PROVE Sees(c)
  <2>1. PICK w \in ViewType :
          /\ view[Host].state # "Off" /\ link[e] = "dropping" /\ link'[e] = "gone"
          /\ seat[e] \in view[Host].members \ {1}
          /\ Removed(view[Host], order, seat[e], order', w)
          /\ view'[Host] = w /\ ui'[Host] = ui[Host]
          /\ broadcasts' = Append(broadcasts, RosterMsg(w))
          /\ RosterMsg(w) \in RelayType
          /\ \A f \in Joiners \ {e} : Still(f)
          /\ controls' = controls
    BY <1>10 DEF Parts
  <2>2. e # c /\ Still(c) /\ link[c] = "up"
    BY <2>1 DEF Still
  <2>3. seat[e] # seat[c]
    <3>1. e \in AtTable(link) /\ c \in AtTable(link)
      BY <2>1, <2>2 DEF AtTable
    <3> QED BY <2>1, <2>2, <3>1 DEF RoomInv, SeatInv, Seating
  <2>4. seat[c] \in w.members
    <3>1. seat[c] \in view[Host].members
      BY <2>1, <2>2, HostFacts
    <3> QED BY <2>1, <2>3, <3>1 DEF Removed
  <2>5. Sends(c, <<RosterMsg(w)>>)
    BY <1>0, <2>1, <2>2, <1>q DEF Sends, Coming, Still
  <2>6. Narrows(c)
    BY <1>b, <2>1, <2>2, <2>3, <2>4, <2>5 DEF Narrows
  <2> QED BY <2>6 DEF Sees
<1> QED BY <1>1, <1>2, <1>3, <1>4, <1>5, <1>6, <1>7, <1>8, <1>9, <1>10 DEF Shape

-----------------------------------------------------------------------------
(* Which round the frames of a round belong to.                            *)

Rounds == {m \in ActionType : m.type \in RoundFrames}

\* Player i's frames u belong to the round that runs or, between two rounds, to
\* the last one; whoever votes for the next one has said all of the last.
Wire(h, i, u) ==
  /\ \A m \in Frames(u) : m.type \in RoundFrames =>
       m.nonce = IF h.active # 0 THEN h.active ELSE h.closed
  /\ h.active = 0 =>
       /\ NoneAfter(u, YesOf(h.rev), Rounds)
       /\ i \in h.ready => \A m \in Frames(u) : m.type \notin RoundFrames

WireInv ==
  view[Host].state # "Off" =>
    \A c \in Joiners : link[c] = "up" => Wire(view[Host], seat[c], up[c])

\* What RoundInv says of a seated joiner.
LEMMA SeatedFacts ==
  ASSUME RoomInv, RoundInv, NEW c \in Joiners, link[c] = "up"
  PROVE  LET h == view[Host]
             v == view[c]
             i == seat[c]
         IN /\ h.state # "Off" /\ h \in ViewType /\ v \in ViewType /\ ui[c] \in UiType
            /\ h.id = 1 /\ i \in Ids \ {1} /\ i \in h.members /\ 1 \in h.members
            /\ up[c] \in Seq(ActionType) /\ Frames(up[c]) \subseteq ActionType
            /\ Coming(c) \in Seq(RelayType) /\ Frames(Coming(c)) \subseteq RelayType
            /\ Frames(Coming(c)) = Frames(down[c]) \cup Frames(broadcasts)
            /\ \A m \in Frames(up[c]) : m.type = "Ready" => m.rev <= h.rev
            /\ v.state # "Off" =>
                 /\ OfRoom(h, v.rev, v.rate, v.active)
                 /\ \A m \in Frames(up[c]) : m.type = "Ready" => m.rev <= v.rev
                 /\ \A m \in Frames(Coming(c)) : m.type \in Stamps =>
                      OfRoom(h, m.rev, m.rate, m.nonce) /\ v.rev <= m.rev
                 /\ i \in h.ready => v.rev = h.rev
<1> DEFINE h == view[Host]
           v == view[c]
           i == seat[c]
<1>1. h.state # "Off"
  BY DEF RoundInv
<1>2. Joined(h, link[c], i, v, up[c], down[c], broadcasts, vote[c]) /\ Broadcast(h, broadcasts)
  BY <1>1 DEF RoundInv
<1>3. /\ h \in ViewType /\ v \in ViewType /\ ui[c] \in UiType /\ up[c] \in Seq(ActionType)
      /\ down[c] \in Seq(RelayType) /\ broadcasts \in Seq(RelayType)
  BY Shapely
<1>4. /\ Frames(up[c]) \subseteq ActionType
      /\ Coming(c) \in Seq(RelayType) /\ Frames(Coming(c)) \subseteq RelayType
      /\ Frames(Coming(c)) = Frames(down[c]) \cup Frames(broadcasts)
  <2>1. \A S : \A s \in Seq(S) : Frames(s) \subseteq S
    BY FramesConcat
  <2>2. Coming(c) \in Seq(RelayType) /\ Frames(Coming(c)) = Frames(down[c]) \cup Frames(broadcasts)
    BY <1>3, FramesConcat DEF Coming
  <2> QED BY <1>3, <2>1, <2>2
<1>5. Votes(h, h.ready, i, up[c], broadcasts)
      /\ (v.state # "Off" => Follows(h, h.ready, i, v, up[c], down[c], broadcasts))
  BY <1>2 DEF Joined
<1>6. \A m \in Frames(up[c]) : m.type = "Ready" => m.rev <= h.rev
  BY <1>5 DEF Votes, Frames
<1>7. ASSUME v.state # "Off"
      PROVE  /\ OfRoom(h, v.rev, v.rate, v.active)
             /\ \A m \in Frames(up[c]) : m.type = "Ready" => m.rev <= v.rev
             /\ i \in h.ready => v.rev = h.rev
             /\ \A m \in Frames(down[c]) \cup Frames(broadcasts) : m.type \in Stamps =>
                  OfRoom(h, m.rev, m.rate, m.nonce) /\ v.rev <= m.rev
  <2>1. Follows(h, h.ready, i, v, up[c], down[c], broadcasts)
    BY <1>5, <1>7
  <2>2. \A m \in Frames(down[c]) : m.type \in Stamps =>
           OfRoom(h, m.rev, m.rate, m.nonce) /\ v.rev <= m.rev
    BY <2>1 DEF Follows, Known, Since, Frames
  <2>3. \A m \in Frames(broadcasts) : m.type \in Stamps =>
           OfRoom(h, m.rev, m.rate, m.nonce) /\ v.rev <= m.rev
    BY <1>2, <2>1 DEF Follows, Broadcast, Known, Since, Frames
  <2>4. \A m \in Frames(up[c]) : m.type = "Ready" => m.rev <= v.rev
    BY <2>1 DEF Follows, Frames
  <2> QED BY <2>1, <2>2, <2>3, <2>4 DEF Follows
<1> HIDE DEF h, v, i
<1>8. h.id = 1 /\ i \in Ids \ {1} /\ i \in h.members /\ 1 \in h.members
  BY <1>1, HostFacts DEF h, i
<1> QED BY <1>1, <1>3, <1>4, <1>6, <1>7, <1>8 DEF h, v, i

\* The frames of a round under a new copy of the room.
LEMMA WireChange ==
  ASSUME NEW h \in ViewType, NEW w \in ViewType, NEW i, NEW u, Frames(u) \subseteq ActionType,
         Wire(h, i, u), \A m \in Frames(u) : m.type = "Ready" => m.rev <= h.rev, h.rev <= w.rev,
         \/ /\ w.active = h.active /\ w.closed = h.closed
            /\ h.active = 0 /\ i \in w.ready => i \in h.ready
         \/ h.active = 0 /\ w.active # 0 /\ i \in h.ready
         \/ h.active # 0 /\ w.active = 0 /\ w.closed = h.active /\ w.rev > h.rev /\ i \notin w.ready
  PROVE  Wire(w, i, u)
<1>0. h.rev \in Nat /\ w.rev \in Nat
  BY ViewFields
<1>1. w.rev # h.rev => \A m \in Frames(u) : m \notin YesOf(w.rev)
  <2> SUFFICES ASSUME w.rev # h.rev, NEW m \in Frames(u), m \in YesOf(w.rev) PROVE FALSE
    OBVIOUS
  <2>1. m.type = "Ready" /\ m.rev = w.rev
    BY DEF YesOf
  <2> QED BY <1>0, <2>1
<1>2. h.active = 0 => NoneAfter(u, YesOf(w.rev), Rounds)
  <2>1. w.rev # h.rev => NoneAfter(u, YesOf(w.rev), Rounds)
    BY <1>1 DEF NoneAfter, Frames
  <2> QED BY <2>1 DEF Wire
<1>3. CASE w.active = h.active /\ w.closed = h.closed /\ (h.active = 0 /\ i \in w.ready => i \in h.ready)
  BY <1>2, <1>3 DEF Wire
<1>4. CASE h.active = 0 /\ w.active # 0 /\ i \in h.ready
  BY <1>4 DEF Wire
<1>5. CASE h.active # 0 /\ w.active = 0 /\ w.closed = h.active /\ w.rev > h.rev /\ i \notin w.ready
  <2>1. NoneAfter(u, YesOf(w.rev), Rounds)
    BY <1>0, <1>1, <1>5 DEF NoneAfter, Frames
  <2> QED BY <1>5, <2>1 DEF Wire
<1> QED BY <1>3, <1>4, <1>5

\* A frame of player j, and the frames u of player i.
LEMMA HandledWire ==
  ASSUME NEW h \in ViewType, NEW w \in ViewType, NEW ord, NEW j, NEW m, NEW out,
         Handled(h, ord, j, m, w, out), NEW i \in h.members,
         NEW u, Frames(u) \subseteq ActionType, Wire(h, i, u),
         \A a \in Frames(u) : a.type = "Ready" => a.rev <= h.rev,
         j = i /\ m \in YesOf(h.rev) /\ h.active = 0 => \A a \in Frames(u) : a.type \notin RoundFrames
  PROVE  Wire(w, i, u)
<1>0. h.rev \in Nat /\ w.rev \in Nat /\ h.rev <= w.rev
  BY ViewFields, HandledBooks
<1>1. CASE HTalks(h, j, m, w, out)
  <2>1. w.active = h.active /\ w.closed = h.closed
    BY <1>1 DEF HTalks, Round
  <2>2. CASE h.active = 0 /\ i \in w.ready /\ i \notin h.ready
    <3>1. j = i /\ m \in YesOf(h.rev)
      BY <1>1, <2>2 DEF HTalks
    <3>2. \A a \in Frames(u) : a.type \notin RoundFrames
      BY <2>2, <3>1
    <3> QED BY <2>1, <2>2, <3>2 DEF Wire, NoneAfter, Rounds, Frames
  <2>3. CASE ~(h.active = 0 /\ i \in w.ready /\ i \notin h.ready)
    BY <1>0, <2>1, <2>3, WireChange
  <2> QED BY <2>2, <2>3
<1>2. CASE HLoads(h, j, m, w, out) \/ HBegins(h, j, m, w, out)
           \/ HScores(h, j, m, w, out) \/ HResets(h, j, m, w, out)
  <2>1. w.active = h.active /\ w.closed = h.closed /\ w.ready \subseteq h.ready
    BY <1>2 DEF HLoads, HBegins, HScores, HResets, Round
  <2> QED BY <1>0, <2>1, WireChange
<1>3. CASE HRenews(h, j, m, w, out)
  <2>1. w.active = h.active /\ w.closed = h.closed /\ w.ready = {}
    BY <1>3 DEF HRenews
  <2> QED BY <1>0, <2>1, WireChange
<1>4. CASE HLaunches(h, j, m, w, out)
  <2>1. h.active = 0 /\ w.active # 0 /\ i \in h.ready
    BY <1>4 DEF HLaunches, AllReady
  <2> QED BY <1>0, <2>1, WireChange
<1>5. CASE HCloses(h, ord, j, m, w, out)
  <2>1. Cleared(h, w)
    BY <1>5 DEF HCloses
  <2> QED BY <1>0, <2>1, WireChange DEF Cleared
<1> QED BY <1>1, <1>2, <1>3, <1>4, <1>5 DEF Handled

\* A frame that player i says.
LEMMA SaysWire ==
  ASSUME NEW h \in ViewType, NEW i, NEW v \in ViewType, NEW x, NEW w, NEW y,
         NEW u \in Seq(ActionType), NEW m \in ActionType, Says(v, x, w, y, m), Wire(h, i, u),
         OfRoom(h, v.rev, v.rate, v.active), i \in h.ready => v.rev = h.rev,
         \A a \in Frames(u) : a.type = "Ready" => a.rev <= v.rev
  PROVE  Wire(h, i, Append(u, m))
<1>0. /\ h.rev \in Nat /\ v.rev \in Nat /\ Frames(Append(u, m)) = Frames(u) \cup {m}
      /\ Frames(u) \subseteq ActionType
  BY ViewFields, FramesAppend
<1>1. CASE m.type \notin RoundFrames
  <2>1. NoneAfter(u, YesOf(h.rev), Rounds) => NoneAfter(Append(u, m), YesOf(h.rev), Rounds)
    BY <1>1, AppendOrder DEF Rounds
  <2> QED BY <1>0, <1>1, <2>1 DEF Wire
<1>2. CASE m.type \in RoundFrames
  <2>1. m.nonce = v.active /\ v.active # 0
    BY <1>2 DEF Says, LobbySays, LoadedSays, BeginSays, LiveSays, FinalSays, ResetSays, RoundFrames
  <2>2. m.nonce = IF h.active # 0 THEN h.active ELSE h.closed
    BY <2>1 DEF OfRoom
  <2>3. CASE h.active # 0
    BY <1>0, <2>2, <2>3 DEF Wire
  <2>4. CASE h.active = 0
    <3>1. v.rev # h.rev /\ v.rev <= h.rev
      BY <2>1, <2>4 DEF OfRoom
    <3>2. i \notin h.ready
      BY <3>1
    <3>3. Frames(u) \cap YesOf(h.rev) = {}
      <4> SUFFICES ASSUME NEW a \in Frames(u), a \in YesOf(h.rev) PROVE FALSE
        OBVIOUS
      <4>1. a.type = "Ready" /\ a.rev = h.rev /\ a.rev <= v.rev
        BY DEF YesOf
      <4> QED BY <1>0, <3>1, <4>1
    <3>4. NoneAfter(Append(u, m), YesOf(h.rev), Rounds)
      BY <2>4, <3>3, AppendOrder DEF Wire
    <3> QED BY <1>0, <2>2, <2>4, <3>2, <3>4 DEF Wire
  <2> QED BY <2>3, <2>4
<1> QED BY <1>1, <1>2

\* The frames of rounds in every step.
LEMMA StepWire ==
  ASSUME RoomInv, RoundInv, RoomInv', WireInv, Shape
  PROVE  WireInv'
<1> SUFFICES ASSUME NEW c \in Joiners, link'[c] = "up", view'[Host].state # "Off"
             PROVE  Wire(view'[Host], seat'[c], up'[c])
  BY DEF WireInv
<1> DEFINE h == view[Host]
           v == view[c]
           i == seat[c]
           u == up[c]
<1>1. Sees(c)
  BY SeesStep
<1>2. ASSUME link[c] = "up"
      PROVE  /\ h \in ViewType /\ v \in ViewType /\ h.id = 1 /\ i # 1 /\ i \in h.members
             /\ u \in Seq(ActionType) /\ Frames(u) \subseteq ActionType /\ Wire(h, i, u)
             /\ \A m \in Frames(u) : m.type = "Ready" => m.rev <= h.rev
             /\ h.rev \in Nat
             /\ v.state # "Off" =>
                  /\ OfRoom(h, v.rev, v.rate, v.active)
                  /\ \A m \in Frames(u) : m.type = "Ready" => m.rev <= v.rev
                  /\ i \in h.ready => v.rev = h.rev
  <2>1. Wire(h, i, u)
    BY <1>2, SeatedFacts DEF WireInv
  <2> QED BY <1>2, <2>1, SeatedFacts, ViewFields
<1> HIDE DEF h, v, i, u
<1>3. CASE Rests(c)
  BY <1>2, <1>3 DEF Rests, HostStill, Unmoved, h, i, u
<1>4. CASE Bids(c)
  <2>1. PICK w \in ViewType : view'[Host] = w /\ Left(h, w) /\ Unmoved(c)
    BY <1>4 DEF Bids, h
  <2>2. Wire(w, i, u)
    <3>1. link[c] = "up"
      BY <2>1 DEF Unmoved
    <3>2. /\ w.active = h.active /\ w.closed = h.closed /\ w.rev = h.rev
          /\ i \in w.ready => i \in h.ready
      BY <1>2, <2>1, <3>1 DEF Left, OwnCopy, SameRound
    <3> QED BY <1>2, <3>1, <3>2, WireChange
  <2> QED BY <2>1, <2>2 DEF Unmoved, i, u
<1>5. CASE Talks(c)
  <2>1. PICK w \in ViewType, y \in UiType :
          /\ HostStill /\ link[c] = "up" /\ seat'[c] = i /\ v.state = "Connected"
          /\ \/ up'[c] = u
             \/ \E m \in ActionType : Says(v, ui[c], w, y, m) /\ up'[c] = Append(u, m)
    BY <1>5 DEF Talks, i, v, u
  <2>2. view'[Host] = h
    BY <2>1 DEF HostStill, h
  <2>3. Wire(h, i, up'[c])
    BY <1>2, <2>1, SaysWire
  <2> QED BY <2>1, <2>2, <2>3
<1>6. CASE Quits(c)
  <2>1. PICK k \in 0..Len(u) : up'[c] = Append(SubSeq(u, 1, k), Bye)
    BY <1>6 DEF Quits, u
  <2>2. view'[Host] = h /\ link[c] = "up" /\ seat'[c] = i
    BY <1>6 DEF Quits, HostStill, h, i
  <2>3. Bye \in ActionType /\ Bye.type = "Disconnect" /\ Bye.type \notin RoundFrames
    BY DEF Bye, ActionType, RoundFrames
  <2>4. Frames(up'[c]) \subseteq Frames(u) \cup {Bye}
    BY <1>2, <2>1, <2>2, <2>3, FramesPrefix
  <2>5. NoneAfter(u, YesOf(h.rev), Rounds) => NoneAfter(up'[c], YesOf(h.rev), Rounds)
    BY <1>2, <2>1, <2>2, <2>3, PrefixOrder DEF Rounds
  <2>6. Wire(h, i, u)
    BY <1>2, <2>2
  <2> QED BY <2>2, <2>3, <2>4, <2>5, <2>6 DEF Wire
<1>7. CASE Reads(c)
  BY <1>2, <1>7 DEF Reads, HostStill, h, i, u
<1>8. ASSUME NEW j \in Ids, NEW m \in ActionType, NEW w \in ViewType, NEW out \in Seq(RelayType),
             Minded(c, j, m, w, out)
      PROVE  Wire(view'[Host], seat'[c], up'[c])
  <2>1. link[c] = "up" /\ j # i /\ Handled(h, order, j, m, w, out)
    BY <1>8 DEF Minded, Unmoved, h, i
  <2>2. Wire(w, i, u)
    BY <1>2, <2>1, HandledWire
  <2> QED BY <1>8, <2>2 DEF Minded, Unmoved, i, u
<1>9. ASSUME NEW w \in ViewType, NEW out \in Seq(RelayType), Heeded(c, w, out)
      PROVE  Wire(view'[Host], seat'[c], up'[c])
  <2>1. /\ link[c] = "up" /\ u # <<>> /\ up'[c] = Tail(u) /\ seat'[c] = i /\ view'[Host] = w
        /\ Handled(h, order, i, Head(u), w, out)
    BY <1>9 DEF Heeded, h, i, u
  <2>2. /\ Frames(Tail(u)) \subseteq Frames(u) /\ Head(u) \in Frames(u)
    BY <1>2, <2>1, FramesTail
  <2>3. h.active = 0 =>
          /\ NoneAfter(Tail(u), YesOf(h.rev), Rounds)
          /\ Head(u) \in YesOf(h.rev) => Frames(Tail(u)) \cap Rounds = {}
    BY <1>2, <2>1, TailOrder DEF Wire
  <2>4. Wire(h, i, Tail(u))
    BY <1>2, <2>1, <2>2, <2>3 DEF Wire
  <2>5. Head(u) \in YesOf(h.rev) /\ h.active = 0 =>
          \A a \in Frames(Tail(u)) : a.type \notin RoundFrames
    BY <1>2, <2>1, <2>2, <2>3 DEF Rounds
  <2> QED BY <1>2, <2>1, <2>2, <2>4, <2>5, HandledWire
<1>10. CASE Widens(c)
  <2>1. PICK w \in ViewType, f \in Ids \ {1} :
          Wider(h, w, f) /\ Unmoved(c) /\ view'[Host] = w
    BY <1>10 DEF Widens, h
  <2>2. Wire(w, i, u)
    BY <1>2, <2>1, WireChange DEF Wider, Round, Unmoved
  <2> QED BY <2>1, <2>2 DEF Unmoved, i, u
<1>11. CASE Arrives(c)
  BY <1>11 DEF Arrives, Wire, NoneAfter, Rounds, RoundFrames, Frames
<1>12. CASE Narrows(c)
  <2>1. PICK w \in ViewType, id \in h.members \ {1} :
          Removed(h, order, id, order', w) /\ Unmoved(c) /\ view'[Host] = w
    BY <1>12 DEF Narrows, h
  <2>2. link[c] = "up"
    BY <2>1 DEF Unmoved
  <2>3. Wire(w, i, u)
    <3>1. w.rev \in Nat
      BY ViewFields
    <3>2. CASE Less(h, id, w)
      BY <1>2, <2>2, <3>2, WireChange DEF Less
    <3>3. CASE Cleared(h, w)
      BY <1>2, <2>2, <3>1, <3>3, WireChange DEF Cleared
    <3> QED BY <2>1, <3>2, <3>3 DEF Removed
  <2> QED BY <2>1, <2>3 DEF Unmoved, i, u
<1> QED BY <1>1, <1>3, <1>4, <1>5, <1>6, <1>7, <1>8, <1>9, <1>10, <1>11, <1>12 DEF Sees

-----------------------------------------------------------------------------
(* What a joiner will have read when it has read everything under way.     *)

Naming(i) == {m \in RelayType : m.type = "RoomRoster" /\ i \in m.members}
Launches == {m \in RelayType : m.type = "Launch"}
OfMatch == {m \in RelayType : m.type \in {"Launch", "Begin", "Score"}}
Foreign(n) == {m \in RelayType : m.type = "RoomRoster" /\ m.nonce # n}

\* Before the l-th frame of s the joiner with copy v knows j as the leader and
\* all of M as members.
Heard(v, s, l, j, M) ==
  /\ \A k \in DOMAIN s :
       /\ k < l /\ s[k].type = "RoomRoster"
       /\ \A n \in DOMAIN s : k < n /\ n < l => s[n].type # "RoomRoster"
       => s[k].leader = j /\ M \subseteq s[k].members
  /\ (\A k \in DOMAIN s : k < l => s[k].type # "RoomRoster") => v.leader = j /\ M \subseteq v.members

\* Once it has read all of s it knows the coordinator's leader and members.
Told(h, v, s) == Heard(v, s, Len(s) + 1, h.leader, h.members)

\* Player i is greeted once and before anything else; every roster names the
\* coordinator.
Greets(i, v, s) ==
  /\ \/ v.id = i /\ \A m \in Frames(s) : m.type # "RoomWelcome"
     \/ /\ v.state # "Connected" /\ s # <<>> /\ Head(s).type = "RoomWelcome" /\ Head(s).player = i
        /\ \A m \in Frames(Tail(s)) : m.type # "RoomWelcome"
  /\ v.state = "Connected" => 1 \in v.members
  /\ \A m \in Frames(s) : m.type = "RoomRoster" => 1 \in m.members

\* Before the first roster that names it nothing but a lobby can follow.
Joins(h, i, u, s) ==
  /\ h.active = 0 /\ i \notin h.ready
  /\ \A m \in Frames(u) : m.type \in {"Hello", "Disconnect"}
  /\ \E m \in Frames(s) : m \in Naming(i)
  /\ \A m \in Frames(s) : m \in Naming(i) => m.nonce = 0
  /\ NoneAfter(s, Naming(i), OfMatch \cup Foreign(0))

\* Launch and Begin come from the leader it knows then, and a launch of the
\* round that runs finds all of its players known.
Obeys(h, v, s) ==
  \A l \in DOMAIN s : s[l].type \in {"Launch", "Begin"} =>
    Heard(v, s, l, s[l].player,
          IF s[l].type = "Launch" /\ s[l].nonce = h.active THEN h.members ELSE {})

\* A launch finds it in the lobby and outside of any round.
Awaits(v, x, s) ==
  /\ (\E m \in Frames(s) : m \in Launches) => v.active = 0 /\ x.at = "lobby"
  /\ NoneAfter(s, Launches \cup Foreign(0), Launches)

\* While a round runs it is in it, and knows all of its players, or will be by
\* the launch under way.
Entered(h, v, s) ==
  h.active # 0 =>
    /\ v.active = h.active =>
         /\ h.members \subseteq v.members
         /\ \A m \in Frames(s) : m \notin Launches /\ m \notin Foreign(h.active)
    /\ v.active # h.active => \E m \in Frames(s) : m \in Launches
    /\ NoneAfter(s, Launches, Foreign(h.active))
    /\ \A m \in Frames(s) : m.type = "RoomRoster" /\ m.nonce = h.active => h.members \subseteq m.members

\* Between two rounds, whoever is not back in the lobby has not voted.
Returns(h, i, x, u) ==
  h.active = 0 /\ x.at # "lobby" => i \notin h.ready /\ \A m \in Frames(u) : m \notin YesOf(h.rev)

\* All of it but Told.
Copies(h, i, v, x, u, s) ==
  /\ Greets(i, v, s)
  /\ v.state = "Joining" => Joins(h, i, u, s)
  /\ v.state = "Connected" => Obeys(h, v, s) /\ Awaits(v, x, s) /\ Entered(h, v, s) /\ Returns(h, i, x, u)

\* The broadcasts that wait: all that were queued since the last flush.
Aired ==
  \A m \in Frames(broadcasts) :
    /\ m.type # "RoomWelcome"
    /\ m.type = "RoomRoster" =>
         1 \in m.members /\ (phase = "links" => m.members \subseteq view[Host].members)

CopyInv ==
  view[Host].state # "Off" =>
    /\ Aired
    /\ \A c \in Joiners : link[c] = "up" /\ view[c].state # "Off" =>
         /\ Told(view[Host], view[c], Coming(c))
         /\ Copies(view[Host], seat[c], view[c], ui[c], up[c], Coming(c))

\* What has been heard, one frame later: v becomes w.
LEMMA HeardTail ==
  ASSUME NEW s \in Seq(RelayType), s # <<>>, NEW v, NEW w, NEW l \in Nat \ {0}, NEW j, NEW M,
         Heard(v, s, l + 1, j, M),
         \/ Head(s).type # "RoomRoster" /\ w.leader = v.leader /\ w.members = v.members
         \/ Head(s).type = "RoomRoster" /\ w.leader = Head(s).leader /\ w.members = Head(s).members
         \/ /\ Head(s).type # "RoomRoster"
            /\ \E k \in DOMAIN Tail(s) : k < l /\ Tail(s)[k].type = "RoomRoster"
  PROVE  Heard(w, Tail(s), l, j, M)
<1> DEFINE t == Tail(s)
<1>1. /\ \A k \in DOMAIN t : k \in Nat /\ k + 1 \in DOMAIN s /\ t[k] = s[k + 1]
      /\ \A k \in DOMAIN s : k = 1 \/ (k - 1 \in DOMAIN t /\ t[k - 1] = s[k])
      /\ 1 \in DOMAIN s /\ s[1] = Head(s)
      /\ \A k \in DOMAIN s : k \in Nat /\ 1 <= k
      /\ \A k \in DOMAIN t : 1 <= k
  <2>1. Tail(s) \in Seq(RelayType)
    BY HeadTailProperties
  <2> QED BY <2>1, TailFrames, LenProperties
<1> HIDE DEF t
<1>2. ASSUME NEW k \in DOMAIN t, k < l, t[k].type = "RoomRoster",
             \A n \in DOMAIN t : k < n /\ n < l => t[n].type # "RoomRoster"
      PROVE  t[k].leader = j /\ M \subseteq t[k].members
  <2>1. k + 1 \in DOMAIN s /\ k + 1 < l + 1 /\ s[k + 1].type = "RoomRoster" /\ s[k + 1] = t[k]
    BY <1>1, <1>2
  <2>2. ASSUME NEW n \in DOMAIN s, k + 1 < n, n < l + 1 PROVE s[n].type # "RoomRoster"
    <3>1. n - 1 \in DOMAIN t /\ t[n - 1] = s[n] /\ k < n - 1 /\ n - 1 < l
      BY <1>1, <2>2
    <3> QED BY <1>2, <3>1
  <2> QED BY <2>1, <2>2 DEF Heard
<1>3. ASSUME \A k \in DOMAIN t : k < l => t[k].type # "RoomRoster"
      PROVE  w.leader = j /\ M \subseteq w.members
  <2>1. ASSUME NEW n \in DOMAIN s, 1 < n, n < l + 1 PROVE s[n].type # "RoomRoster"
    <3>1. n - 1 \in DOMAIN t /\ t[n - 1] = s[n] /\ n - 1 < l
      BY <1>1, <2>1
    <3> QED BY <1>3, <3>1
  <2>2. CASE Head(s).type = "RoomRoster"
    BY <1>1, <1>3, <2>1, <2>2 DEF Heard, t
  <2>3. CASE Head(s).type # "RoomRoster"
    <3>1. \A n \in DOMAIN s : n < l + 1 => s[n].type # "RoomRoster"
      BY <1>1, <2>1, <2>3
    <3>2. v.leader = j /\ M \subseteq v.members
      BY <3>1 DEF Heard
    <3> QED BY <1>3, <2>3, <3>2 DEF t
  <2> QED BY <2>2, <2>3
<1> QED BY <1>2, <1>3 DEF Heard, t

\* A frame that is sent later changes nothing of it.
LEMMA HeardAppend ==
  ASSUME NEW s \in Seq(RelayType), NEW m \in RelayType, NEW v, NEW l \in 1..(Len(s) + 1), NEW j, NEW M,
         Heard(v, s, l, j, M)
  PROVE  Heard(v, Append(s, m), l, j, M)
<1> DEFINE t == Append(s, m)
<1>1. /\ \A i \in DOMAIN t : i \in DOMAIN s \/ i = Len(s) + 1
      /\ \A i \in DOMAIN s : i \in DOMAIN t /\ t[i] = s[i]
      /\ Len(s) \in Nat
  BY AppendProperties, LenProperties
<1> HIDE DEF t
<1>2. \A i \in DOMAIN t : i < l => i \in DOMAIN s
  BY <1>1
<1> QED BY <1>1, <1>2 DEF Heard, t

\* The coordinator's roster tells everything.
LEMMA ToldRoster ==
  ASSUME NEW s \in Seq(RelayType), NEW w, RosterMsg(w) \in RelayType, NEW v
  PROVE  Told(w, v, Append(s, RosterMsg(w)))
<1> DEFINE m == RosterMsg(w)
           t == Append(s, m)
<1>1. m.type = "RoomRoster" /\ m.leader = w.leader /\ m.members = w.members
  BY DEF RosterMsg
<1> HIDE DEF m
<1>2. /\ t \in Seq(RelayType) /\ Len(t) = Len(s) + 1 /\ t[Len(s) + 1] = m
      /\ Len(s) \in Nat /\ DOMAIN t = 1..(Len(s) + 1)
  BY AppendProperties, LenProperties DEF m
<1> HIDE DEF t
<1>3. Len(s) + 1 \in DOMAIN t /\ Len(s) + 1 < Len(t) + 1
  BY <1>2
<1>4. ASSUME NEW k \in DOMAIN t, k < Len(t) + 1, t[k].type = "RoomRoster",
             \A n \in DOMAIN t : k < n /\ n < Len(t) + 1 => t[n].type # "RoomRoster"
      PROVE  t[k] = m
  <2>1. ~(k < Len(s) + 1)
    BY <1>1, <1>2, <1>3, <1>4
  <2> QED BY <1>2, <1>4, <2>1
<1> QED BY <1>1, <1>2, <1>3, <1>4 DEF Told, Heard, t, m

\* Any other frame leaves it as it is.
LEMMA ToldFrame ==
  ASSUME NEW s \in Seq(RelayType), NEW m \in RelayType, m.type # "RoomRoster", NEW h, NEW v,
         Told(h, v, s)
  PROVE  Told(h, v, Append(s, m))
<1> DEFINE t == Append(s, m)
<1>1. /\ \A i \in DOMAIN t : i \in DOMAIN s \/ (i = Len(s) + 1 /\ t[i] = m)
      /\ \A i \in DOMAIN s : i \in DOMAIN t /\ t[i] = s[i] /\ i < Len(s) + 1 /\ i < Len(t) + 1
      /\ Len(s) \in Nat
  BY AppendProperties, LenProperties
<1> HIDE DEF t
<1>2. \A k \in DOMAIN t : t[k].type = "RoomRoster" => k \in DOMAIN s /\ t[k] = s[k]
  BY <1>1
<1> QED BY <1>1, <1>2 DEF Told, Heard, t

\* A copy that has heard of nothing less has heard of a part.
LEMMA HeardLess ==
  ASSUME NEW v, NEW s, NEW l, NEW j, NEW M, NEW N, N \subseteq M, Heard(v, s, l, j, M)
  PROVE  Heard(v, s, l, j, N)
BY DEF Heard

-----------------------------------------------------------------------------
(* The copies when the coordinator moves.                                  *)

\* A seated player at the other end of its link, and what RoundInv says of it.
Sits(h, i, v, x, u, s) ==
  /\ h \in ViewType /\ v \in ViewType /\ x \in UiType
  /\ i \in Ids \ {1} /\ i \in h.members /\ 1 \in h.members
  /\ u \in Seq(ActionType) /\ s \in Seq(RelayType)
  /\ v.state \in {"Joining", "Connected"} /\ End(v, x)
  /\ OfRoom(h, v.rev, v.rate, v.active)
  /\ \A m \in Frames(u) : m.type = "Ready" => m.rev <= v.rev
  /\ \A m \in Frames(s) : m.type \in Stamps => OfRoom(h, m.rev, m.rate, m.nonce) /\ v.rev <= m.rev
  /\ i \in h.ready => v.rev = h.rev

\* The coordinator's copy h becomes w, and the frames t of u are left.
LEMMA MoveCopies ==
  ASSUME NEW h, NEW i, NEW v, NEW x, NEW u, NEW s, Sits(h, i, v, x, u, s), Copies(h, i, v, x, u, s),
         NEW w \in ViewType, NEW t, Frames(t) \subseteq Frames(u), h.rev <= w.rev,
         \/ /\ h.active = 0 /\ w.active = 0
            /\ i \in w.ready => i \in h.ready \/ \E m \in Frames(u) : m \in YesOf(h.rev)
         \/ h.active # 0 /\ w.active = h.active /\ w.members \subseteq h.members
         \/ h.active # 0 /\ w.active = 0 /\ w.rev > h.rev /\ i \notin w.ready
  PROVE  Copies(w, i, v, x, t, s)
<1>0. /\ h.rev \in Nat /\ v.rev \in Nat /\ w.rev \in Nat /\ v.rev <= h.rev
      /\ v.state \in {"Joining", "Connected"} /\ Frames(u) \subseteq ActionType
      /\ Frames(s) \subseteq RelayType
  BY ViewFields, FramesConcat DEF Sits, OfRoom
<1>1. Greets(i, v, s)
  BY DEF Copies
<1>2. ASSUME v.state = "Joining" PROVE Joins(w, i, t, s)
  <2>1. Joins(h, i, u, s)
    BY <1>2 DEF Copies
  <2>2. \A m \in Frames(u) : m \notin YesOf(h.rev)
    BY <2>1 DEF Joins, YesOf
  <2> QED BY <2>1, <2>2 DEF Joins
<1>3. ASSUME v.state = "Connected"
      PROVE  Obeys(w, v, s) /\ Awaits(v, x, s) /\ Entered(w, v, s) /\ Returns(w, i, x, t)
  <2>1. Obeys(h, v, s) /\ Awaits(v, x, s) /\ Entered(h, v, s) /\ Returns(h, i, x, u)
    BY <1>3 DEF Copies
  <2>2. Obeys(w, v, s)
    <3> SUFFICES ASSUME NEW l \in DOMAIN s, s[l].type \in {"Launch", "Begin"}
                 PROVE  Heard(v, s, l, s[l].player,
                              IF s[l].type = "Launch" /\ s[l].nonce = w.active THEN w.members ELSE {})
      BY DEF Obeys
    <3>1. s[l].type = "Launch" => s[l].nonce # 0
      <4>1. s[l] \in RelayType
        BY <1>0 DEF Frames
      <4> QED BY <4>1 DEF RelayType
    <3>2. Heard(v, s, l, s[l].player,
                IF s[l].type = "Launch" /\ s[l].nonce = h.active THEN h.members ELSE {})
      BY <2>1 DEF Obeys
    <3>3. (IF s[l].type = "Launch" /\ s[l].nonce = w.active THEN w.members ELSE {}) \subseteq
          (IF s[l].type = "Launch" /\ s[l].nonce = h.active THEN h.members ELSE {})
      BY <3>1
    <3> QED BY <3>2, <3>3, HeardLess
  <2>3. Entered(w, v, s)
    BY <2>1 DEF Entered
  <2>4. Returns(w, i, x, t)
    <3> SUFFICES ASSUME w.active = 0, x.at # "lobby"
                 PROVE  i \notin w.ready /\ \A m \in Frames(u) : m \notin YesOf(w.rev)
      BY DEF Returns
    <3>1. CASE h.active = 0
      <4>1. i \notin h.ready /\ \A m \in Frames(u) : m \notin YesOf(h.rev)
        BY <2>1, <3>1 DEF Returns
      <4>2. w.rev # h.rev => \A m \in Frames(u) : m \notin YesOf(w.rev)
        BY <1>0 DEF Sits, YesOf
      <4> QED BY <3>1, <4>1, <4>2
    <3>2. CASE h.active # 0
      <4>1. w.rev > h.rev /\ i \notin w.ready
        BY <3>2
      <4>2. \A m \in Frames(u) : m \notin YesOf(w.rev)
        BY <1>0, <4>1 DEF Sits, YesOf
      <4> QED BY <4>1, <4>2
    <3> QED BY <3>1, <3>2
  <2> QED BY <2>1, <2>2, <2>3, <2>4
<1> QED BY <1>0, <1>1, <1>2, <1>3 DEF Copies

\* Another frame m is under way: a roster, or what a player said.
LEMMA AppendCopies ==
  ASSUME NEW h, NEW i, NEW v, NEW x, NEW u, NEW s \in Seq(RelayType), NEW m \in RelayType,
         Copies(h, i, v, x, u, s), m.type \notin {"RoomWelcome", "Launch"},
         m.type = "RoomRoster" => 1 \in m.members /\ m.nonce = h.active /\ h.members \subseteq m.members,
         m.type \in {"Begin", "Score"} => v.state # "Joining",
         m.type = "Begin" => Heard(v, s, Len(s) + 1, m.player, {})
  PROVE  Copies(h, i, v, x, u, Append(s, m))
<1> DEFINE t == Append(s, m)
<1>0. /\ Frames(t) = Frames(s) \cup {m} /\ Frames(s) \subseteq RelayType
      /\ Len(s) \in Nat /\ DOMAIN s = 1..Len(s)
  BY FramesAppend, LenProperties
<1>a. \A A, B : NoneAfter(s, A, B) /\ (m \in B => Frames(s) \cap A = {}) => NoneAfter(t, A, B)
  BY AppendOrder
<1>b. s # <<>> => t # <<>> /\ Head(t) = Head(s) /\ Frames(Tail(t)) = Frames(Tail(s)) \cup {m}
  <2> SUFFICES ASSUME s # <<>>
               PROVE  t # <<>> /\ Head(t) = Head(s) /\ Frames(Tail(t)) = Frames(Tail(s)) \cup {m}
    OBVIOUS
  <2>1. t = s \o <<m>> /\ <<m>> \in Seq(RelayType)
    BY AppendIsConcat
  <2>2. t # <<>> /\ Head(t) = Head(s) /\ Tail(t) = Tail(s) \o <<m>>
    BY <2>1, JoinedQueues
  <2>3. Tail(s) \in Seq(RelayType)
    BY HeadTailProperties
  <2>4. Frames(Tail(s) \o <<m>>) = Frames(Tail(s)) \cup Frames(<<m>>)
    <3> DEFINE a == Tail(s)
               b == <<m>>
    <3>1. a \in Seq(RelayType) /\ b \in Seq(RelayType)
      BY <2>1, <2>3
    <3> HIDE DEF a, b
    <3>2. Frames(a \o b) = Frames(a) \cup Frames(b)
      BY <3>1, FramesConcat
    <3> QED BY <3>2 DEF a, b
  <2> QED BY <2>2, <2>4, FramesFew
<1>c. \A l \in DOMAIN t : (l \in DOMAIN s /\ t[l] = s[l]) \/ (l = Len(s) + 1 /\ t[l] = m)
  BY <1>0, AppendProperties
<1> HIDE DEF t
<1>1. Greets(i, v, t)
  <2>1. Greets(i, v, s)
    BY DEF Copies
  <2> QED BY <1>0, <1>b, <2>1 DEF Greets
<1>2. ASSUME v.state = "Joining" PROVE Joins(h, i, u, t)
  <2>1. Joins(h, i, u, s)
    BY <1>2 DEF Copies
  <2>2. m \notin OfMatch \cup Foreign(0) /\ (m \in Naming(i) => m.nonce = 0)
    BY <1>2, <2>1 DEF OfMatch, Foreign, Naming, Joins
  <2>3. NoneAfter(t, Naming(i), OfMatch \cup Foreign(0))
    BY <1>a, <2>1, <2>2 DEF Joins
  <2> QED BY <1>0, <2>1, <2>2, <2>3 DEF Joins
<1>3. ASSUME v.state = "Connected"
      PROVE  Obeys(h, v, t) /\ Awaits(v, x, t) /\ Entered(h, v, t) /\ Returns(h, i, x, u)
  <2>1. Obeys(h, v, s) /\ Awaits(v, x, s) /\ Entered(h, v, s) /\ Returns(h, i, x, u)
    BY <1>3 DEF Copies
  <2>2. Obeys(h, v, t)
    <3> SUFFICES ASSUME NEW l \in DOMAIN t, t[l].type \in {"Launch", "Begin"}
                 PROVE  Heard(v, t, l, t[l].player,
                              IF t[l].type = "Launch" /\ t[l].nonce = h.active THEN h.members ELSE {})
      BY DEF Obeys
    <3>1. CASE l \in DOMAIN s /\ t[l] = s[l]
      <4>1. Heard(v, s, l, s[l].player,
                  IF s[l].type = "Launch" /\ s[l].nonce = h.active THEN h.members ELSE {})
        BY <2>1, <3>1 DEF Obeys
      <4>2. l \in 1..(Len(s) + 1)
        BY <1>0, <3>1
      <4> QED BY <3>1, <4>1, <4>2, HeardAppend DEF t
    <3>2. CASE l = Len(s) + 1 /\ t[l] = m
      <4>1. m.type = "Begin" /\ Heard(v, s, Len(s) + 1, m.player, {})
        BY <3>2
      <4>2. Len(s) + 1 \in 1..(Len(s) + 1)
        BY <1>0
      <4>3. Heard(v, t, Len(s) + 1, m.player, {})
        BY <4>1, <4>2, HeardAppend DEF t
      <4> QED BY <3>2, <4>1, <4>3
    <3> QED BY <1>c, <3>1, <3>2
  <2>3. m \notin Launches
    BY DEF Launches
  <2>4. Awaits(v, x, t)
    <3>1. NoneAfter(t, Launches \cup Foreign(0), Launches)
      BY <1>a, <2>1, <2>3 DEF Awaits
    <3> QED BY <1>0, <2>1, <2>3, <3>1 DEF Awaits
  <2>5. m \notin Foreign(h.active)
    BY DEF Foreign
  <2>6. Entered(h, v, t)
    <3> SUFFICES ASSUME h.active # 0 PROVE Entered(h, v, t)
      BY DEF Entered
    <3>1. NoneAfter(t, Launches, Foreign(h.active))
      BY <1>a, <2>1, <2>5 DEF Entered
    <3> QED BY <1>0, <2>1, <2>3, <2>5, <3>1 DEF Entered
  <2> QED BY <2>1, <2>2, <2>4, <2>6
<1>4. v.state \in {"Joining", "Connected"} \/ v.state \notin {"Joining", "Connected"}
  OBVIOUS
<1> QED BY <1>1, <1>2, <1>3 DEF Copies, t

\* A round is launched: every player hears of it in the lobby.
LEMMA LaunchCopies ==
  ASSUME NEW h, NEW i, NEW v, NEW x, NEW u, NEW s, Sits(h, i, v, x, u, s), Copies(h, i, v, x, u, s),
         Told(h, v, s), h.active = 0, i \in h.ready,
         NEW w \in ViewType, w.active # 0, w.members = h.members, w.leader = h.leader,
         NEW m \in RelayType, m.type = "Launch", m.player = h.leader, m.nonce = w.active,
         NEW t
  PROVE  Copies(w, i, v, x, t, Append(s, m))
<1> DEFINE z == Append(s, m)
<1>0. /\ s \in Seq(RelayType) /\ v.state \in {"Joining", "Connected"}
      /\ Frames(z) = Frames(s) \cup {m} /\ Frames(s) \subseteq RelayType
      /\ Len(s) \in Nat /\ DOMAIN s = 1..Len(s)
  BY FramesAppend, LenProperties DEF Sits
<1>a. \A A, B : NoneAfter(s, A, B) /\ (m \in B => Frames(s) \cap A = {}) => NoneAfter(z, A, B)
  BY <1>0, AppendOrder
<1>b. \A l \in DOMAIN z : (l \in DOMAIN s /\ z[l] = s[l]) \/ (l = Len(s) + 1 /\ z[l] = m)
  BY <1>0, AppendProperties
<1>1. v.state = "Connected"
  BY <1>0 DEF Copies, Joins
<1>2. Obeys(h, v, s) /\ Returns(h, i, x, u) /\ Greets(i, v, s)
  BY <1>1 DEF Copies
<1>3. x.at = "lobby" /\ v.active = 0
  BY <1>2 DEF Returns, Sits, OfRoom
<1>4. \A f \in Frames(s) : f \notin Launches /\ f \notin Foreign(0)
  <2> SUFFICES ASSUME NEW f \in Frames(s), f.type \in Stamps PROVE f.type # "Launch" /\ f.nonce = 0
    BY DEF Launches, Foreign, Stamps
  <2>1. OfRoom(h, f.rev, f.rate, f.nonce) /\ v.rev <= f.rev /\ v.rev = h.rev
    BY DEF Sits
  <2>2. f \in RelayType /\ f.rev \in Nat /\ h.rev \in Nat
    <3>1. f \in RelayType
      BY <1>0
    <3> QED BY <3>1, RelayFields, ViewFields DEF Stamps, Sits
  <2>3. f.rev = h.rev
    BY <2>1, <2>2 DEF OfRoom
  <2>4. f.nonce = 0
    BY <2>1, <2>3 DEF OfRoom
  <2> QED BY <2>2, <2>4 DEF RelayType
<1> HIDE DEF z
<1>5. Greets(i, v, z)
  BY <1>0, <1>1, <1>2 DEF Greets
<1>6. Obeys(w, v, z)
  <2> SUFFICES ASSUME NEW l \in DOMAIN z, z[l].type \in {"Launch", "Begin"}
               PROVE  Heard(v, z, l, z[l].player,
                            IF z[l].type = "Launch" /\ z[l].nonce = w.active THEN w.members ELSE {})
    BY DEF Obeys
  <2>1. CASE l \in DOMAIN s /\ z[l] = s[l]
    <3>1. s[l].type = "Begin"
      BY <1>0, <1>4, <2>1 DEF Frames, Launches
    <3>2. Heard(v, s, l, s[l].player, {})
      BY <1>2, <2>1, <3>1 DEF Obeys
    <3>3. l \in 1..(Len(s) + 1)
      BY <1>0, <2>1
    <3> QED BY <1>0, <2>1, <3>1, <3>2, <3>3, HeardAppend DEF z
  <2>2. CASE l = Len(s) + 1 /\ z[l] = m
    <3>1. Heard(v, s, Len(s) + 1, h.leader, h.members) /\ Len(s) + 1 \in 1..(Len(s) + 1)
      BY <1>0 DEF Told
    <3>2. Heard(v, z, Len(s) + 1, h.leader, h.members)
      BY <1>0, <3>1, HeardAppend DEF z
    <3> QED BY <2>2, <3>2
  <2> QED BY <1>b, <2>1, <2>2
<1>7. Awaits(v, x, z)
  <2>1. NoneAfter(s, Launches \cup Foreign(0), Launches)
    BY <1>4 DEF NoneAfter, Frames
  <2>2. NoneAfter(z, Launches \cup Foreign(0), Launches)
    BY <1>4, <1>a, <2>1
  <2> QED BY <1>3, <2>2 DEF Awaits
<1>8. Entered(w, v, z)
  <2>1. NoneAfter(s, Launches, Foreign(w.active))
    BY <1>4 DEF NoneAfter, Frames
  <2>2. m \notin Foreign(w.active) /\ m \in Launches
    BY DEF Foreign, Launches
  <2>3. NoneAfter(z, Launches, Foreign(w.active))
    BY <1>a, <2>1, <2>2
  <2>4. \A f \in Frames(z) : ~(f.type = "RoomRoster" /\ f.nonce = w.active)
    BY <1>0, <1>4 DEF Foreign
  <2> QED BY <1>0, <1>3, <2>2, <2>3, <2>4 DEF Entered
<1>9. Returns(w, i, x, t)
  BY DEF Returns
<1> QED BY <1>1, <1>5, <1>6, <1>7, <1>8, <1>9 DEF Copies, z

\* The coordinator's roster goes out.
LEMMA RosterCopies ==
  ASSUME NEW w, NEW i, NEW v, NEW x, NEW u, NEW s \in Seq(RelayType), Copies(w, i, v, x, u, s),
         RosterMsg(w) \in RelayType, 1 \in w.members
  PROVE  Copies(w, i, v, x, u, s \o <<RosterMsg(w)>>) /\ Told(w, v, s \o <<RosterMsg(w)>>)
<1> DEFINE m == RosterMsg(w)
<1>1. m.type = "RoomRoster" /\ m.members = w.members /\ m.nonce = w.active
  BY DEF RosterMsg
<1>2. s \o <<m>> = Append(s, m)
  BY AppendIsConcat
<1>3. Told(w, v, Append(s, m))
  BY ToldRoster
<1> HIDE DEF m
<1>4. Copies(w, i, v, x, u, Append(s, m))
  BY <1>1, AppendCopies DEF m
<1> QED BY <1>2, <1>3, <1>4 DEF m

\* What a player said goes out.
LEMMA FrameCopies ==
  ASSUME NEW w, NEW i, NEW v, NEW x, NEW u, NEW s \in Seq(RelayType), Copies(w, i, v, x, u, s),
         Told(w, v, s), NEW m \in RelayType, m.type \in {"Chat", "Begin", "Score"},
         m.type = "Begin" => m.player = w.leader,
         m.type # "Chat" => v.state # "Joining"
  PROVE  Copies(w, i, v, x, u, s \o <<m>>) /\ Told(w, v, s \o <<m>>)
<1>1. s \o <<m>> = Append(s, m)
  BY AppendIsConcat
<1>2. Told(w, v, Append(s, m))
  BY ToldFrame
<1>3. Heard(v, s, Len(s) + 1, w.leader, {})
  BY HeardLess DEF Told
<1>4. Copies(w, i, v, x, u, Append(s, m))
  BY <1>3, AppendCopies
<1> QED BY <1>1, <1>2, <1>4

\* The coordinator accepts a frame.
LEMMA HandledCopies ==
  ASSUME NEW h, NEW i, NEW v, NEW x, NEW u, NEW s, Sits(h, i, v, x, u, s), Copies(h, i, v, x, u, s),
         Told(h, v, s), NEW ord, NEW j \in Ids, NEW m \in ActionType, NEW w \in ViewType,
         NEW out \in Seq(RelayType), Handled(h, ord, j, m, w, out),
         m.type \in RoundFrames => m.nonce # 0, j = i => m \in Frames(u),
         NEW t, Frames(t) \subseteq Frames(u)
  PROVE  Copies(w, i, v, x, t, s \o out) /\ Told(w, v, s \o out)
<1>0. /\ h \in ViewType /\ s \in Seq(RelayType) /\ 1 \in h.members /\ h.rev <= w.rev
      /\ h.rev \in Nat /\ w.rev \in Nat
  BY HandledBooks, ViewFields DEF Sits
<1>r. ASSUME Copies(w, i, v, x, t, s), out = <<RosterMsg(w)>>, Table(h, w)
      PROVE  Copies(w, i, v, x, t, s \o out) /\ Told(w, v, s \o out)
  <2>1. 1 \in w.members
    BY <1>0, <1>r DEF Table
  <2>2. RosterMsg(w) \in RelayType
    <3>1. <<RosterMsg(w)>> \in Seq(RelayType)
      BY <1>r
    <3> QED BY <3>1
  <2> QED BY <1>0, <1>r, <2>1, <2>2, RosterCopies
<1>f. ASSUME Copies(w, i, v, x, t, s), out = <<From(j, m)>>, Table(h, w), w.leader = h.leader,
             m.type \in {"Chat", "Begin", "Score"}, m.type = "Begin" => j = h.leader,
             m.type # "Chat" => h.active # 0
      PROVE  Copies(w, i, v, x, t, s \o out) /\ Told(w, v, s \o out)
  <2>1. Told(w, v, s)
    BY <1>f DEF Told, Table
  <2>2. From(j, m) \in RelayType
    BY <1>f, FromType
  <2>3. From(j, m).type = m.type /\ From(j, m).player = j
    BY <1>f, ActionFields DEF From
  <2>4. m.type # "Chat" => v.state # "Joining"
    BY <1>f DEF Copies, Joins
  <2> HIDE DEF From
  <2> QED BY <1>0, <1>f, <2>1, <2>2, <2>3, <2>4, FrameCopies
<1>1. CASE HTalks(h, j, m, w, out)
  <2>1. /\ Table(h, w) /\ w.active = h.active /\ w.members = h.members /\ w.leader = h.leader
    BY <1>1 DEF HTalks, Round, Table
  <2>2. h.active = 0 /\ i \in w.ready => i \in h.ready \/ \E f \in Frames(u) : f \in YesOf(h.rev)
    BY <1>1 DEF HTalks
  <2>3. Copies(w, i, v, x, t, s)
    BY <1>0, <2>1, <2>2, MoveCopies
  <2>4. CASE out = <<>>
    <3>1. s \o out = s
      BY <1>0, <2>4, ConcatEmptySeq
    <3>2. Told(w, v, s)
      BY <2>1 DEF Told
    <3> QED BY <2>3, <3>1, <3>2
  <2>5. CASE out = <<RosterMsg(w)>>
    BY <1>r, <2>1, <2>3, <2>5
  <2>6. CASE m.type = "Chat" /\ out = <<From(j, m)>>
    BY <1>f, <2>1, <2>3, <2>6
  <2> QED BY <1>1, <2>4, <2>5, <2>6 DEF HTalks
<1>2. CASE HRenews(h, j, m, w, out)
  <2>1. Table(h, w) /\ h.active = 0 /\ w.active = 0 /\ w.ready = {} /\ out = <<RosterMsg(w)>>
    BY <1>2 DEF HRenews
  <2>2. Copies(w, i, v, x, t, s)
    BY <1>0, <2>1, MoveCopies
  <2> QED BY <1>r, <2>1, <2>2
<1>3. CASE HLoads(h, j, m, w, out) \/ HResets(h, j, m, w, out)
  <2>1. /\ Table(h, w) /\ w.active = h.active /\ w.members = h.members /\ w.ready \subseteq h.ready
        /\ out = <<RosterMsg(w)>>
    BY <1>3 DEF HLoads, HResets, Round, Table
  <2>2. Copies(w, i, v, x, t, s)
    BY <1>0, <2>1, MoveCopies
  <2> QED BY <1>r, <2>1, <2>2
<1>4. CASE HBegins(h, j, m, w, out) \/ HScores(h, j, m, w, out)
  <2>1. /\ Table(h, w) /\ w.active = h.active /\ w.members = h.members /\ w.ready = h.ready
        /\ w.leader = h.leader /\ out = <<From(j, m)>> /\ m.type \in {"Begin", "Score"}
        /\ m.type = "Begin" => j = h.leader
        /\ m.nonce = h.active
    BY <1>4 DEF HBegins, HScores, Round, Table
  <2>2. Copies(w, i, v, x, t, s)
    BY <1>0, <2>1, MoveCopies
  <2>3. h.active # 0
    BY <2>1 DEF RoundFrames
  <2> QED BY <1>f, <2>1, <2>2, <2>3
<1>5. CASE HLaunches(h, j, m, w, out)
  <2> DEFINE f == From(j, m)
             r == RosterMsg(w)
  <2>1. /\ m.type = "Launch" /\ h.active = 0 /\ i \in h.ready /\ w.active # 0 /\ w.active = m.nonce
        /\ Table(h, w) /\ w.members = h.members /\ w.leader = h.leader /\ j = h.leader
        /\ out = <<f, r>>
    BY <1>5 DEF HLaunches, AllReady, Table, Sits
  <2>2. f \in RelayType /\ f.type = "Launch" /\ f.player = j /\ f.nonce = m.nonce
    <3>1. f \in RelayType
      BY <2>1, FromType
    <3> QED BY <2>1, <3>1, ActionFields DEF From
  <2>3. r \in RelayType
    <3>1. <<f, r>> \in Seq(RelayType)
      BY <2>1
    <3> HIDE DEF f, r
    <3>2. <<f, r>>[2] \in RelayType
      BY <3>1
    <3> QED BY <3>2
  <2> HIDE DEF f
  <2>4. Copies(w, i, v, x, t, Append(s, f))
    BY <2>1, <2>2, LaunchCopies
  <2>5. Append(s, f) \in Seq(RelayType) /\ s \o out = Append(s, f) \o <<r>>
    <3> HIDE DEF r
    <3>1. Append(s, f) = s \o <<f>> /\ <<f>> \in Seq(RelayType) /\ <<r>> \in Seq(RelayType)
      BY <1>0, <2>2, <2>3, AppendIsConcat
    <3>2. <<f, r>> = <<f>> \o <<r>>
      <4>1. <<f, r>> = Append(<<f>>, r)
        OBVIOUS
      <4>2. Append(<<f>>, r) = <<f>> \o <<r>>
        BY <2>2, <2>3, <3>1, AppendIsConcat
      <4> QED BY <4>1, <4>2
    <3>3. s \o (<<f>> \o <<r>>) = (s \o <<f>>) \o <<r>>
      BY <1>0, <3>1, ConcatAssociative
    <3> QED BY <1>0, <2>1, <2>2, <3>1, <3>2, <3>3, AppendProperties
  <2>6. 1 \in w.members
    BY <1>0, <2>1
  <2> QED BY <2>3, <2>4, <2>5, <2>6, RosterCopies
<1>6. CASE HCloses(h, ord, j, m, w, out)
  <2>1. /\ Table(h, w) /\ w.active = 0 /\ w.ready = {} /\ w.rev > h.rev /\ out = <<RosterMsg(w)>>
    BY <1>6 DEF HCloses, Cleared
  <2>2. Copies(w, i, v, x, t, s)
    BY <1>0, <2>1, MoveCopies
  <2> QED BY <1>r, <2>1, <2>2
<1> QED BY <1>1, <1>2, <1>3, <1>4, <1>5, <1>6 DEF Handled

-----------------------------------------------------------------------------
(* A joiner reads a frame m: its copy v becomes w.                         *)

AWelcome(v, m, w) ==
  /\ m.type = "RoomWelcome" /\ w.id = m.player
  /\ w.state = v.state /\ w.members = v.members /\ w.active = v.active

ARoster(v, m, w) ==
  /\ m.type = "RoomRoster" /\ w.id = v.id
  /\ w.leader = m.leader /\ w.members = m.members /\ w.active = m.nonce
  /\ w.ready = m.ready /\ w.loaded = m.loaded /\ w.reset = m.reset
  /\ w.score = [i \in Ids |-> IF i \in m.members \cap v.members THEN v.score[i] ELSE "none"]
  /\ w.state = IF v.id \in m.members THEN "Connected" ELSE v.state
  /\ m.nonce # 0 => OwnPart(v, w)
  /\ m.nonce = 0 => ~w.begun /\ ~w.begin /\ ~w.dirty /\ ~w.finalSent /\ w.launch = NoChart

ALaunch(v, m, w) ==
  /\ m.type = "Launch" /\ Table(v, w) /\ w.leader = v.leader /\ w.active = m.nonce
  /\ w.loaded = {} /\ w.reset = {} /\ w.score = NoScores
  /\ ~w.begun /\ ~w.begin /\ ~w.finalSent /\ w.launch = m.chart /\ w.dirty = v.dirty

ABegin(v, m, w) ==
  /\ m.type = "Begin" /\ Table(v, w) /\ w.leader = v.leader /\ w.active = v.active
  /\ w.loaded = v.loaded /\ w.reset = v.reset /\ w.score = v.score
  /\ w.begun /\ (w.begin <=> v.begin \/ m.player # v.id)
  /\ w.finalSent = v.finalSent /\ w.launch = v.launch /\ w.dirty = v.dirty

AScore(v, m, w) ==
  /\ m.type = "Score" /\ Table(v, w) /\ w.leader = v.leader /\ w.active = v.active
  /\ w.loaded = v.loaded /\ w.reset = v.reset /\ OwnPart(v, w)
  /\ w.score = IF m.nonce = v.active /\ m.player \in v.members
               THEN [v.score EXCEPT ![m.player] = m.score] ELSE v.score

Applied(v, m, w) ==
  \/ AWelcome(v, m, w) \/ ARoster(v, m, w) \/ ALaunch(v, m, w) \/ ABegin(v, m, w)
  \/ AScore(v, m, w)
  \/ m.type = "Chat" /\ w = v

\* Whatever is not refused is one of these.
LEMMA ApplyKinds ==
  ASSUME NEW v \in ViewType, NEW m \in RelayType, m.type # "Disconnect"
  PROVE  Applied(v, m, Apply(v, m))
<1>1. CASE m.type = "RoomWelcome"
  <2>1. AWelcome(v, m, Apply(v, m))
    BY <1>1 DEF Apply, AWelcome, ViewType
  <2> QED BY <2>1 DEF Applied
<1>2. CASE m.type = "RoomRoster"
  <2> DEFINE pending == v.ratePending /\ m.rev <= v.pendingRev /\ m.nonce = 0 /\ m.leader = v.id
             score == [i \in Ids |-> IF i \in m.members \cap v.members THEN v.score[i] ELSE "none"]
             state == IF v.id \in m.members THEN "Connected" ELSE v.state
             closed == IF v.active # 0 THEN v.active ELSE v.closed
             taken == [v EXCEPT
        !.ratePending = pending,
        !.rate = m.rate, !.rev = m.rev, !.leader = m.leader, !.members = m.members,
        !.ready = m.ready, !.loaded = m.loaded, !.reset = m.reset, !.chart = m.chart,
        !.score = score, !.state = state, !.active = m.nonce]
             live == [taken EXCEPT !.roundRate = m.rate]
             idle == [taken EXCEPT !.closed = closed,
                        !.launch = NoChart, !.begin = FALSE, !.begun = FALSE,
                        !.finalSent = FALSE, !.dirty = FALSE]
  <2>1. Apply(v, m) = IF m.nonce # 0 THEN live ELSE [taken EXCEPT
                        !.closed = IF v.active # 0 THEN v.active ELSE @,
                        !.launch = NoChart, !.begin = FALSE, !.begun = FALSE,
                        !.finalSent = FALSE, !.dirty = FALSE]
    BY <1>2 DEF Apply, ApplyRoster
  <2>2. taken.closed = v.closed
    BY DEF ViewType
  <2>3. Apply(v, m) = IF m.nonce # 0 THEN live ELSE idle
    BY <2>1, <2>2
  <2> HIDE DEF pending, score, closed, state
  <2>4. /\ taken.id = v.id /\ taken.leader = m.leader /\ taken.members = m.members
        /\ taken.active = m.nonce /\ taken.ready = m.ready /\ taken.loaded = m.loaded
        /\ taken.reset = m.reset /\ taken.score = score /\ taken.state = state
        /\ taken.begun = v.begun /\ taken.begin = v.begin /\ taken.launch = v.launch
        /\ taken.dirty = v.dirty /\ taken.finalSent = v.finalSent
    BY DEF ViewType
  <2>5. /\ live.id = taken.id /\ live.leader = taken.leader /\ live.members = taken.members
        /\ live.active = taken.active /\ live.ready = taken.ready /\ live.loaded = taken.loaded
        /\ live.reset = taken.reset /\ live.score = taken.score /\ live.state = taken.state
        /\ live.begun = taken.begun /\ live.begin = taken.begin /\ live.launch = taken.launch
        /\ live.dirty = taken.dirty /\ live.finalSent = taken.finalSent
    BY DEF ViewType
  <2>6. /\ idle.id = taken.id /\ idle.leader = taken.leader /\ idle.members = taken.members
        /\ idle.active = taken.active /\ idle.ready = taken.ready /\ idle.loaded = taken.loaded
        /\ idle.reset = taken.reset /\ idle.score = taken.score /\ idle.state = taken.state
        /\ idle.begun = FALSE /\ idle.begin = FALSE /\ idle.launch = NoChart
        /\ idle.dirty = FALSE /\ idle.finalSent = FALSE
    BY DEF ViewType
  <2> HIDE DEF taken, live, idle
  <2>7. CASE m.nonce # 0
    BY <1>2, <2>3, <2>4, <2>5, <2>7 DEF Applied, ARoster, OwnPart, score, state
  <2>8. CASE m.nonce = 0
    BY <1>2, <2>3, <2>4, <2>6, <2>8 DEF Applied, ARoster, score, state
  <2> QED BY <2>7, <2>8
<1>3. CASE m.type = "Launch"
  <2>1. ALaunch(v, m, Apply(v, m))
    BY <1>3 DEF Apply, ApplyLaunch, ALaunch, Table, ViewType
  <2> QED BY <2>1 DEF Applied
<1>4. CASE m.type = "Begin"
  <2>1. ABegin(v, m, Apply(v, m))
    BY <1>4 DEF Apply, ABegin, Table, ViewType
  <2> QED BY <2>1 DEF Applied
<1>5. CASE m.type = "Score"
  <2> SUFFICES AScore(v, m, Apply(v, m))
    BY DEF Applied
  <2> DEFINE w == [v EXCEPT !.score = [@ EXCEPT ![m.player] = m.score]]
  <2>1. Apply(v, m) = IF m.nonce = v.active /\ m.player \in v.members THEN w ELSE v
    BY <1>5 DEF Apply
  <2>2. /\ w.score = [v.score EXCEPT ![m.player] = m.score] /\ Table(v, w) /\ w.leader = v.leader
        /\ w.active = v.active /\ w.loaded = v.loaded /\ w.reset = v.reset /\ OwnPart(v, w)
    BY DEF ViewType, Table, OwnPart
  <2> HIDE DEF w
  <2> QED BY <1>5, <2>1, <2>2 DEF AScore, Table, OwnPart
<1>6. CASE m.type = "Chat"
  BY <1>6 DEF Apply, Applied
<1> QED BY <1>1, <1>2, <1>3, <1>4, <1>5, <1>6, RelayFields

\* What it has heard, once the frame is read.
LEMMA ReadHeard ==
  ASSUME NEW s \in Seq(RelayType), s # <<>>, NEW v, NEW w, Applied(v, Head(s), w),
         Head(s).type # "RoomWelcome", NEW l \in Nat \ {0}, NEW j, NEW M, Heard(v, s, l + 1, j, M)
  PROVE  Heard(w, Tail(s), l, j, M)
<1>1. CASE Head(s).type = "RoomRoster"
  <2>1. ARoster(v, Head(s), w)
    BY <1>1 DEF Applied, AWelcome, ALaunch, ABegin, AScore
  <2> QED BY <1>1, <2>1, HeardTail DEF ARoster
<1>2. CASE Head(s).type # "RoomRoster"
  <2>1. w.leader = v.leader /\ w.members = v.members
    BY <1>2 DEF Applied, AWelcome, ARoster, ALaunch, ABegin, AScore, Table
  <2> QED BY <1>2, <2>1, HeardTail
<1> QED BY <1>1, <1>2

\* What is under way to a joiner, less the frame it reads.
LEMMA LessToRead ==
  ASSUME NEW s \in Seq(RelayType), s # <<>>
  PROVE  /\ Head(s) \in RelayType /\ Tail(s) \in Seq(RelayType) /\ Head(s) \in Frames(s)
         /\ Frames(s) = {Head(s)} \cup Frames(Tail(s)) /\ Frames(s) \subseteq RelayType
         /\ Len(s) \in Nat /\ Len(s) = Len(Tail(s)) + 1
         /\ \A l \in DOMAIN Tail(s) : l \in Nat \ {0} /\ l + 1 \in DOMAIN s /\ Tail(s)[l] = s[l + 1]
         /\ \A A, B : NoneAfter(s, A, B) =>
              NoneAfter(Tail(s), A, B) /\ (Head(s) \in A => Frames(Tail(s)) \cap B = {})
         /\ 1 \in DOMAIN s /\ s[1] = Head(s)
<1>1. Tail(s) \in Seq(RelayType) /\ Len(s) \in Nat /\ Len(s) = Len(Tail(s)) + 1
  BY HeadTailProperties, LenProperties, EmptySeq
<1>2. \A l \in DOMAIN Tail(s) : l \in Nat \ {0} /\ l + 1 \in DOMAIN s /\ Tail(s)[l] = s[l + 1]
  <2>1. \A l \in DOMAIN Tail(s) : l # 0
    BY <1>1, LenProperties
  <2> QED BY <2>1, TailFrames
<1>3. \A A, B : NoneAfter(s, A, B) =>
         NoneAfter(Tail(s), A, B) /\ (Head(s) \in A => Frames(Tail(s)) \cap B = {})
  BY TailOrder
<1>4. 1 \in DOMAIN s /\ s[1] = Head(s)
  BY TailFrames
<1> QED BY <1>1, <1>2, <1>3, <1>4, FramesTail, FramesConcat

\* A joiner is greeted.
LEMMA WelcomeCopies ==
  ASSUME NEW h, NEW i, NEW v, NEW x, NEW u, NEW s, Sits(h, i, v, x, u, s), Copies(h, i, v, x, u, s),
         Told(h, v, s), s # <<>>, NEW w, AWelcome(v, Head(s), w)
  PROVE  Copies(h, i, w, x, u, Tail(s)) /\ Told(h, w, Tail(s))
<1> DEFINE m == Head(s)
           t == Tail(s)
<1>0. /\ s \in Seq(RelayType) /\ v.state \in {"Joining", "Connected"}
      /\ w.id = m.player /\ w.state = v.state /\ m.type = "RoomWelcome"
  BY DEF Sits, AWelcome
<1>1. /\ m \in RelayType /\ t \in Seq(RelayType) /\ m \in Frames(s)
      /\ Frames(s) = {m} \cup Frames(t) /\ Frames(s) \subseteq RelayType
      /\ Len(s) \in Nat /\ Len(s) = Len(t) + 1 /\ Len(t) \in Nat
      /\ \A A, B : NoneAfter(s, A, B) => NoneAfter(t, A, B)
  <2>1. Len(t) \in Nat
    BY <1>0, LessToRead, LenProperties
  <2> QED BY <1>0, <2>1, LessToRead
<1>2. v.state = "Joining" /\ m.player = i /\ \A f \in Frames(t) : f.type # "RoomWelcome"
  BY <1>0, <1>1 DEF Copies, Greets
<1>3. Joins(h, i, u, s)
  BY <1>2 DEF Copies
<1> HIDE DEF m, t
<1>4. Greets(i, w, t)
  <2>1. \A f \in Frames(s) : f.type = "RoomRoster" => 1 \in f.members
    BY DEF Copies, Greets
  <2> QED BY <1>0, <1>1, <1>2, <2>1 DEF Greets
<1>5. Joins(h, i, u, t)
  <2>1. m \notin Naming(i)
    BY <1>0 DEF Naming
  <2> QED BY <1>1, <1>3, <2>1 DEF Joins
<1>6. Told(h, w, t)
  <2>1. PICK k \in DOMAIN t : t[k] \in Naming(i)
    BY <1>5 DEF Joins, Frames
  <2>2. t[k].type = "RoomRoster" /\ k < Len(t) + 1 /\ Len(t) + 1 \in Nat \ {0}
    BY <1>1, <2>1, LenProperties DEF Naming
  <2>3. Heard(v, s, (Len(t) + 1) + 1, h.leader, h.members)
    BY <1>1 DEF Told
  <2> QED BY <1>0, <2>2, <2>3, HeardTail DEF Told, m, t
<1> QED BY <1>0, <1>2, <1>4, <1>5, <1>6 DEF Copies, t

\* Any other frame.
LEMMA ReadTold ==
  ASSUME NEW h, NEW i, NEW v, NEW x, NEW u, NEW s, Sits(h, i, v, x, u, s), Greets(i, v, s),
         Told(h, v, s), s # <<>>, NEW w, Applied(v, Head(s), w), Head(s).type # "RoomWelcome"
  PROVE  Greets(i, w, Tail(s)) /\ Told(h, w, Tail(s)) /\ v.id = i
<1> DEFINE m == Head(s)
           t == Tail(s)
<1>0. s \in Seq(RelayType)
  BY DEF Sits
<1>1. /\ m \in Frames(s) /\ Frames(s) = {m} \cup Frames(t)
      /\ Len(s) = Len(t) + 1 /\ Len(t) + 1 \in Nat \ {0}
  <2>1. Len(t) \in Nat /\ Len(s) = Len(t) + 1
    BY <1>0, LessToRead, LenProperties
  <2> QED BY <1>0, <2>1, LessToRead
<1>2. v.id = i /\ \A f \in Frames(s) : f.type # "RoomWelcome"
  BY DEF Greets
<1>3. Heard(v, s, (Len(t) + 1) + 1, h.leader, h.members)
  BY <1>1 DEF Told
<1>4. Told(h, w, t)
  <2>1. Heard(w, t, Len(t) + 1, h.leader, h.members)
    BY <1>0, <1>1, <1>3, ReadHeard
  <2> QED BY <2>1 DEF Told
<1> HIDE DEF m, t
<1>5. w.id = v.id /\ (w.state = "Connected" => 1 \in w.members)
  <2>1. CASE ARoster(v, m, w)
    <3>1. 1 \in m.members
      BY <1>1, <2>1 DEF Greets, ARoster
    <3> QED BY <2>1, <3>1 DEF ARoster
  <2>2. CASE ALaunch(v, m, w) \/ ABegin(v, m, w) \/ AScore(v, m, w)
    BY <2>2 DEF ALaunch, ABegin, AScore, Table, Greets
  <2>3. CASE w = v
    BY <2>3 DEF Greets
  <2> QED BY <2>1, <2>2, <2>3 DEF Applied, AWelcome, m
<1>6. Greets(i, w, t)
  BY <1>1, <1>2, <1>5 DEF Greets
<1> QED BY <1>2, <1>4, <1>6 DEF t

\* A joiner that is not let in yet reads a frame.
LEMMA JoiningReads ==
  ASSUME NEW h, NEW i, NEW v, NEW x, NEW u, NEW s, Sits(h, i, v, x, u, s), Copies(h, i, v, x, u, s),
         v.state = "Joining", v.id = i,
         s # <<>>, NEW w, Applied(v, Head(s), w), Head(s).type # "RoomWelcome"
  PROVE  /\ w.state = "Joining" => Joins(h, i, u, Tail(s))
         /\ w.state = "Connected" =>
              Obeys(h, w, Tail(s)) /\ Awaits(w, x, Tail(s)) /\ Entered(h, w, Tail(s)) /\ Returns(h, i, x, u)
<1> DEFINE m == Head(s)
           t == Tail(s)
<1>0. s \in Seq(RelayType)
  BY DEF Sits
<1>1. /\ m \in RelayType /\ Frames(s) = {m} \cup Frames(t)
      /\ \A A, B : NoneAfter(s, A, B) => NoneAfter(t, A, B) /\ (m \in A => Frames(t) \cap B = {})
  BY <1>0, LessToRead
<1>2. Joins(h, i, u, s)
  BY DEF Copies
<1> HIDE DEF m, t
<1>3. CASE m \in Naming(i)
  <2>1. \A f \in Frames(t) : f \notin OfMatch
    BY <1>1, <1>2, <1>3 DEF Joins
  <2>2. \A f \in Frames(t) : f.type \notin {"Launch", "Begin", "Score"}
    <3>1. Frames(t) \subseteq RelayType
      BY <1>0, <1>1, FramesConcat DEF t
    <3> QED BY <2>1, <3>1 DEF OfMatch
  <2>3. Obeys(h, w, t)
    BY <2>2 DEF Obeys, Frames
  <2>4. Awaits(w, x, t)
    BY <2>2 DEF Awaits, Launches, NoneAfter, Frames
  <2>5. Entered(h, w, t)
    BY <1>2 DEF Entered, Joins
  <2>6. Returns(h, i, x, u)
    BY <1>2 DEF Returns, Joins, YesOf
  <2>7. w.state = "Connected"
    <3>1. m.type = "RoomRoster" /\ i \in m.members
      BY <1>3 DEF Naming
    <3>2. ARoster(v, m, w)
      BY <3>1 DEF Applied, AWelcome, ALaunch, ABegin, AScore, m
    <3> QED BY <3>1, <3>2 DEF ARoster
  <2> QED BY <2>3, <2>4, <2>5, <2>6, <2>7 DEF t
<1>4. CASE m \notin Naming(i)
  <2>1. Joins(h, i, u, t)
    BY <1>1, <1>2, <1>4 DEF Joins
  <2>2. w.state = "Joining"
    <3>1. CASE ARoster(v, m, w)
      BY <1>1, <1>4, <3>1 DEF ARoster, Naming
    <3>2. CASE ALaunch(v, m, w) \/ ABegin(v, m, w) \/ AScore(v, m, w)
      BY <3>2 DEF ALaunch, ABegin, AScore, Table
    <3> QED BY <3>1, <3>2 DEF Applied, AWelcome, m
  <2> QED BY <2>1, <2>2 DEF t
<1> QED BY <1>3, <1>4

\* A joiner in the room reads a frame.
LEMMA ConnectedReads ==
  ASSUME NEW h, NEW i, NEW v, NEW x, NEW u, NEW s, Sits(h, i, v, x, u, s), Copies(h, i, v, x, u, s),
         v.state = "Connected",
         s # <<>>, NEW w, Applied(v, Head(s), w), Head(s).type # "RoomWelcome"
  PROVE  /\ Obeys(h, w, Tail(s)) /\ Awaits(w, x, Tail(s)) /\ Entered(h, w, Tail(s))
         /\ Returns(h, i, x, u) /\ w.state = "Connected"
<1> DEFINE m == Head(s)
           t == Tail(s)
<1>0. s \in Seq(RelayType) /\ Applied(v, m, w) /\ m.type # "RoomWelcome"
  BY DEF Sits
<1>1. /\ m \in RelayType /\ m \in Frames(s) /\ Frames(s) = {m} \cup Frames(t)
      /\ \A A, B : NoneAfter(s, A, B) => NoneAfter(t, A, B) /\ (m \in A => Frames(t) \cap B = {})
      /\ \A l \in DOMAIN t : l \in Nat \ {0} /\ l + 1 \in DOMAIN s /\ t[l] = s[l + 1]
      /\ 1 \in DOMAIN s /\ s[1] = m
  BY <1>0, LessToRead
<1>2. Obeys(h, v, s) /\ Awaits(v, x, s) /\ Entered(h, v, s) /\ Returns(h, i, x, u)
  BY DEF Copies
<1>3. Obeys(h, w, t)
  <2> SUFFICES ASSUME NEW l \in DOMAIN t, t[l].type \in {"Launch", "Begin"}
               PROVE  Heard(w, t, l, t[l].player,
                            IF t[l].type = "Launch" /\ t[l].nonce = h.active THEN h.members ELSE {})
    BY DEF Obeys
  <2> DEFINE M == IF t[l].type = "Launch" /\ t[l].nonce = h.active THEN h.members ELSE {}
             j == t[l].player
  <2>1. l \in Nat \ {0} /\ l + 1 \in DOMAIN s /\ t[l] = s[l + 1]
    BY <1>1
  <2>2. Heard(v, s, l + 1, j, M)
    BY <1>2, <2>1 DEF Obeys
  <2> HIDE DEF M, j
  <2>3. Heard(w, t, l, j, M)
    BY <1>0, <2>1, <2>2, ReadHeard
  <2> QED BY <2>3 DEF M, j
<1>l. m \in Launches => Heard(v, s, 1, m.player, IF m.nonce = h.active THEN h.members ELSE {})
  BY <1>1, <1>2 DEF Obeys, Launches
<1>o. m \in Launches /\ h.active # 0 => m.nonce = h.active
  <2> SUFFICES ASSUME m \in Launches, h.active # 0 PROVE m.nonce = h.active
    OBVIOUS
  <2>1. m.type = "Launch" /\ m.nonce # 0
    BY DEF Launches, RelayType
  <2>2. OfRoom(h, m.rev, m.rate, m.nonce)
    BY <1>1, <2>1 DEF Sits, Stamps
  <2> QED BY <2>1, <2>2 DEF OfRoom
<1> HIDE DEF m, t
<1>4. CASE ARoster(v, m, w)
  <2>1. /\ m.type = "RoomRoster" /\ w.members = m.members /\ w.active = m.nonce
        /\ m \notin Launches /\ w.state = "Connected"
    BY <1>4 DEF ARoster, Launches
  <2>2. (\E f \in Frames(t) : f \in Launches) => m.nonce = 0 /\ v.active = 0 /\ x.at = "lobby"
    <3> SUFFICES ASSUME NEW f \in Frames(t), f \in Launches
                 PROVE  m.nonce = 0 /\ v.active = 0 /\ x.at = "lobby"
      OBVIOUS
    <3>1. v.active = 0 /\ x.at = "lobby"
      BY <1>1, <1>2 DEF Awaits
    <3>2. m \notin Foreign(0)
      BY <1>1, <1>2 DEF Awaits
    <3> QED BY <1>1, <2>1, <3>1, <3>2 DEF Foreign
  <2>3. Awaits(w, x, t)
    BY <1>1, <1>2, <2>1, <2>2 DEF Awaits
  <2>4. Entered(h, w, t)
    <3> SUFFICES ASSUME h.active # 0 PROVE Entered(h, w, t)
      BY DEF Entered
    <3>1. CASE v.active = h.active
      <4>1. m.nonce = h.active
        BY <1>1, <1>2, <2>1, <3>1 DEF Entered, Foreign
      <4>2. h.members \subseteq w.members
        BY <1>1, <1>2, <2>1, <4>1 DEF Entered
      <4> QED BY <1>1, <1>2, <2>1, <3>1, <4>1, <4>2 DEF Entered
    <3>2. CASE v.active # h.active
      <4>1. \E f \in Frames(t) : f \in Launches
        BY <1>1, <1>2, <2>1, <3>2 DEF Entered
      <4>2. w.active = 0
        BY <2>1, <2>2, <4>1
      <4> QED BY <1>1, <1>2, <4>1, <4>2 DEF Entered
    <3> QED BY <3>1, <3>2
  <2> QED BY <1>2, <1>3, <2>1, <2>3, <2>4 DEF t
<1>5. CASE ALaunch(v, m, w)
  <2>1. /\ m \in Launches /\ w.members = v.members /\ w.active = m.nonce /\ w.state = "Connected"
    BY <1>1, <1>5 DEF ALaunch, Launches, Table
  <2>2. \A f \in Frames(t) : f \notin Launches
    BY <1>1, <1>2, <2>1 DEF Awaits
  <2>3. Awaits(w, x, t)
    BY <2>2 DEF Awaits, NoneAfter, Frames
  <2>4. Entered(h, w, t)
    <3> SUFFICES ASSUME h.active # 0 PROVE Entered(h, w, t)
      BY DEF Entered
    <3>1. w.active = h.active
      BY <1>o, <2>1
    <3>2. h.members \subseteq w.members
      <4>1. Heard(v, s, 1, m.player, h.members)
        BY <1>l, <1>o, <2>1
      <4>2. \A k \in DOMAIN s : ~(k < 1)
        BY <1>0, LenProperties
      <4> QED BY <2>1, <4>1, <4>2 DEF Heard
    <3>3. \A f \in Frames(t) : f \notin Foreign(h.active)
      BY <1>1, <1>2, <2>1 DEF Entered
    <3> QED BY <1>1, <1>2, <2>2, <3>1, <3>2, <3>3 DEF Entered, NoneAfter, Frames
  <2> QED BY <1>2, <1>3, <2>1, <2>3, <2>4 DEF t
<1>6. CASE ABegin(v, m, w) \/ AScore(v, m, w) \/ (m.type = "Chat" /\ w = v)
  <2>1. /\ m \notin Launches /\ w.members = v.members /\ w.active = v.active /\ w.state = "Connected"
    BY <1>6 DEF ABegin, AScore, Launches, Table
  <2>2. Awaits(w, x, t)
    BY <1>1, <1>2, <2>1 DEF Awaits
  <2>3. Entered(h, w, t)
    BY <1>1, <1>2, <2>1 DEF Entered
  <2> QED BY <1>2, <1>3, <2>1, <2>2, <2>3 DEF t
<1> QED BY <1>0, <1>4, <1>5, <1>6 DEF Applied, AWelcome

\* A joiner reads the next frame.
LEMMA ReadCopies ==
  ASSUME NEW h, NEW i, NEW v, NEW x, NEW u, NEW s, Sits(h, i, v, x, u, s), Copies(h, i, v, x, u, s),
         Told(h, v, s), s # <<>>, NEW w, Applied(v, Head(s), w)
  PROVE  Copies(h, i, w, x, u, Tail(s)) /\ Told(h, w, Tail(s))
<1>1. CASE Head(s).type = "RoomWelcome"
  <2>1. AWelcome(v, Head(s), w)
    BY <1>1 DEF Applied, ARoster, ALaunch, ABegin, AScore
  <2> QED BY <2>1, WelcomeCopies
<1>2. CASE Head(s).type # "RoomWelcome"
  <2>1. Greets(i, w, Tail(s)) /\ Told(h, w, Tail(s)) /\ v.id = i
    BY <1>2, ReadTold DEF Copies
  <2>2. CASE v.state = "Joining"
    <3>1. /\ w.state = "Joining" => Joins(h, i, u, Tail(s))
          /\ w.state = "Connected" =>
               /\ Obeys(h, w, Tail(s)) /\ Awaits(w, x, Tail(s))
               /\ Entered(h, w, Tail(s)) /\ Returns(h, i, x, u)
      BY <1>2, <2>1, <2>2, JoiningReads
    <3> QED BY <2>1, <3>1 DEF Copies
  <2>3. CASE v.state = "Connected"
    <3>1. /\ Obeys(h, w, Tail(s)) /\ Awaits(w, x, Tail(s)) /\ Entered(h, w, Tail(s))
          /\ Returns(h, i, x, u) /\ w.state = "Connected"
      BY <1>2, <2>3, ConnectedReads
    <3> QED BY <2>1, <3>1 DEF Copies
  <2> QED BY <2>2, <2>3 DEF Sits
<1> QED BY <1>1, <1>2

\* It moves itself: it stays in the lobby unless there is a match.
LEMMA TalkCopies ==
  ASSUME NEW h, NEW i, NEW v, NEW x, NEW u, NEW s, Sits(h, i, v, x, u, s), Copies(h, i, v, x, u, s),
         Told(h, v, s), v.state = "Connected",
         NEW w \in ViewType, NEW y \in UiType, Left(v, w), NEW t,
         \/ Silent(v, x, w, y) /\ t = u
         \/ \E m \in ActionType : Says(v, x, w, y, m) /\ t = Append(u, m)
  PROVE  Copies(h, i, w, y, t, s) /\ Told(h, w, s)
<1>1. /\ w.id = v.id /\ w.state = v.state /\ w.members = v.members /\ w.active = v.active
      /\ w.leader = v.leader
  BY DEF Left, OwnCopy, SameRound
<1>2. Greets(i, v, s) /\ Obeys(h, v, s) /\ Awaits(v, x, s) /\ Entered(h, v, s) /\ Returns(h, i, x, u)
  BY DEF Copies
<1>3. Greets(i, w, s) /\ Obeys(h, w, s) /\ Entered(h, w, s) /\ Told(h, w, s)
  BY <1>1, <1>2 DEF Greets, Obeys, Entered, Told, Heard
<1>4. v.active = 0 /\ x.at = "lobby" => y.at = "lobby"
  BY DEF Silent, Says, LobbySays, LoadedSays, BeginSays, LiveSays, FinalSays, ResetSays
<1>5. Awaits(w, y, s)
  BY <1>1, <1>2, <1>4 DEF Awaits
<1>6. Returns(h, i, y, t)
  <2> SUFFICES ASSUME h.active = 0, y.at # "lobby"
               PROVE  i \notin h.ready /\ \A m \in Frames(t) : m \notin YesOf(h.rev)
    BY DEF Returns
  <2>0. h.rev \in Nat /\ v.rev \in Nat /\ u \in Seq(ActionType)
    BY ViewFields DEF Sits
  <2>1. i \notin h.ready /\ \A m \in Frames(u) : m \notin YesOf(h.rev)
    <3>1. CASE x.at # "lobby"
      BY <1>2, <3>1 DEF Returns
    <3>2. CASE x.at = "lobby"
      <4>1. v.active # 0
        BY <1>4, <3>2
      <4>2. v.rev # h.rev /\ v.rev <= h.rev
        BY <4>1 DEF Sits, OfRoom
      <4> QED BY <2>0, <4>2 DEF Sits, YesOf
    <3> QED BY <3>1, <3>2
  <2>2. CASE t = u
    BY <2>1, <2>2
  <2>3. ASSUME NEW m \in ActionType, Says(v, x, w, y, m), t = Append(u, m)
        PROVE  \A f \in Frames(t) : f \notin YesOf(h.rev)
    <3>1. m.type # "Ready"
      BY <2>3 DEF Says, LobbySays, LoadedSays, BeginSays, LiveSays, FinalSays, ResetSays
    <3> QED BY <2>0, <2>1, <2>3, <3>1, FramesAppend DEF YesOf
  <2> QED BY <2>1, <2>2, <2>3
<1> QED BY <1>1, <1>3, <1>5, <1>6 DEF Copies

\* Another player comes.
LEMMA WiderCopies ==
  ASSUME NEW h, NEW i, NEW v, NEW x, NEW u, NEW s, Sits(h, i, v, x, u, s), Copies(h, i, v, x, u, s),
         NEW w \in ViewType, NEW f, Wider(h, w, f)
  PROVE  Copies(w, i, v, x, u, s \o <<RosterMsg(w)>>) /\ Told(w, v, s \o <<RosterMsg(w)>>)
<1>1. /\ s \in Seq(RelayType) /\ h.rev \in Nat /\ h.active = 0 /\ w.active = 0 /\ w.rev = h.rev
      /\ w.ready = h.ready /\ 1 \in w.members /\ RosterMsg(w) \in RelayType
  BY ViewFields DEF Sits, Wider, Round
<1>2. Copies(w, i, v, x, u, s)
  BY <1>1, MoveCopies
<1> QED BY <1>1, <1>2, RosterCopies

\* Another player is gone.
LEMMA RemovedCopies ==
  ASSUME NEW h, NEW i, NEW v, NEW x, NEW u, NEW s, Sits(h, i, v, x, u, s), Copies(h, i, v, x, u, s),
         NEW w \in ViewType, NEW ord, NEW id \in h.members \ {1}, NEW rest,
         Removed(h, ord, id, rest, w), RosterMsg(w) \in RelayType
  PROVE  Copies(w, i, v, x, u, s \o <<RosterMsg(w)>>) /\ Told(w, v, s \o <<RosterMsg(w)>>)
<1>1. s \in Seq(RelayType) /\ h.rev \in Nat /\ w.rev \in Nat /\ 1 \in w.members
  BY ViewFields DEF Sits, Removed
<1>2. CASE Less(h, id, w)
  <2>1. Copies(w, i, v, x, u, s)
    BY <1>1, <1>2, MoveCopies DEF Less
  <2> QED BY <1>1, <2>1, RosterCopies
<1>3. CASE Cleared(h, w)
  <2>1. w.active = 0 /\ w.rev > h.rev /\ w.ready = {}
    BY <1>3 DEF Cleared
  <2>2. Copies(w, i, v, x, u, s)
    BY <1>1, <2>1, MoveCopies
  <2> QED BY <1>1, <2>2, RosterCopies
<1> QED BY <1>2, <1>3 DEF Removed

\* A joiner v is seated as player i, while the frames b wait to be sent.
LEMMA ArriveCopies ==
  ASSUME NEW h \in ViewType, NEW w \in ViewType, NEW i \in Ids \ {1}, Wider(h, w, i),
         1 \in h.members, h.ready \subseteq h.members,
         NEW v, v.state = "Joining", NEW x, NEW u, \A m \in Frames(u) : m.type \in {"Hello", "Disconnect"},
         NEW b \in Seq(RelayType), WelcomeMsg(i, h) \in RelayType,
         \A m \in Frames(b) : /\ m.type # "RoomWelcome"
                              /\ m.type = "RoomRoster" => 1 \in m.members /\ m.members \subseteq h.members
  PROVE  LET s == <<WelcomeMsg(i, h)>> \o (b \o <<RosterMsg(w)>>)
         IN Copies(w, i, v, x, u, s) /\ Told(w, v, s)
<1> DEFINE g == WelcomeMsg(i, h)
           r == RosterMsg(w)
           t == Append(b, r)
           a == <<g>> \o b
           s == Append(a, r)
<1>0. /\ r \in RelayType /\ r.type = "RoomRoster" /\ r.members = w.members /\ r.nonce = w.active
      /\ g \in RelayType /\ g.type = "RoomWelcome" /\ g.player = i
      /\ w.active = 0 /\ i \notin h.members /\ w.members = h.members \cup {i} /\ w.ready = h.ready
  BY DEF WelcomeMsg, RosterMsg, Wider, Round
<1>1. Told(w, v, s)
  <2>1. a \in Seq(RelayType)
    <3> HIDE DEF g
    <3>1. <<g>> \in Seq(RelayType)
      BY <1>0
    <3> QED BY <3>1, ConcatProperties
  <2> QED BY <1>0, <2>1, ToldRoster
<1> HIDE DEF g, r
<1>2. <<g>> \in Seq(RelayType) /\ <<r>> \in Seq(RelayType) /\ t = b \o <<r>> /\ t \in Seq(RelayType)
  BY <1>0, AppendIsConcat, AppendProperties
<1>3. a \in Seq(RelayType) /\ s = a \o <<r>>
  <2>1. a \in Seq(RelayType)
    BY <1>2, ConcatProperties
  <2> QED BY <1>0, <2>1, AppendIsConcat
<1>4. s = <<g>> \o t
  BY <1>2, <1>3, ConcatAssociative
<1>5. Frames(t) = Frames(b) \cup {r} /\ Frames(b) \subseteq RelayType
  BY <1>0, FramesAppend
<1> HIDE DEF t
<1>6. s # <<>> /\ Head(s) = g /\ Tail(s) = t /\ s \in Seq(RelayType)
  BY <1>0, <1>2, <1>4
<1>7. Frames(s) = Frames(a) \cup {r} /\ Frames(a) = {g} \cup Frames(b)
  <2>1. Frames(a) = Frames(<<g>>) \cup Frames(b)
    <3> DEFINE z == <<g>>
    <3>1. z \in Seq(RelayType) /\ a = z \o b
      BY <1>2
    <3> HIDE DEF z, a
    <3>2. Frames(z \o b) = Frames(z) \cup Frames(b)
      BY <3>1, FramesConcat
    <3> QED BY <3>1, <3>2 DEF z
  <2>2. Frames(s) = Frames(a) \cup {r}
    <3>1. a \in Seq(RelayType) /\ r \in RelayType /\ s = Append(a, r)
      BY <1>0, <1>3
    <3> HIDE DEF a, s
    <3>2. Frames(Append(a, r)) = Frames(a) \cup {r}
      BY <3>1, FramesAppend
    <3> QED BY <3>1, <3>2
  <2> QED BY <2>1, <2>2, FramesFew
<1> HIDE DEF a, s
<1>8. Greets(i, v, s)
  BY <1>0, <1>5, <1>6, <1>7 DEF Greets
<1>9. Joins(w, i, u, s)
  <2>1. \A m \in Frames(a) : m \notin Naming(i)
    BY <1>0, <1>7 DEF Naming
  <2>2. r \in Naming(i) /\ r \notin OfMatch \cup Foreign(0)
    BY <1>0 DEF Naming, OfMatch, Foreign
  <2>3. NoneAfter(a, Naming(i), OfMatch \cup Foreign(0))
    BY <2>1 DEF NoneAfter, Frames
  <2>4. NoneAfter(s, Naming(i), OfMatch \cup Foreign(0))
    BY <1>0, <1>3, <2>2, <2>3, AppendOrder DEF s
  <2> QED BY <1>0, <1>7, <2>1, <2>2, <2>4 DEF Joins
<1>10. Copies(w, i, v, x, u, s)
  BY <1>8, <1>9 DEF Copies
<1>11. s = <<g>> \o (b \o <<r>>)
  BY <1>2, <1>4
<1> QED BY <1>1, <1>10, <1>11 DEF g, r, s

\* What the coordinator sends names the players there are.
LEMMA HandledFrames ==
  ASSUME NEW h, NEW ord, NEW j, NEW m \in ActionType, NEW w, NEW out, Handled(h, ord, j, m, w, out)
  PROVE  /\ Table(h, w)
         /\ \A f \in Frames(out) : f.type # "RoomWelcome" /\ (f.type = "RoomRoster" => f.members = h.members)
<1>1. /\ Table(h, w)
      /\ \/ out = <<>>
         \/ out = <<RosterMsg(w)>>
         \/ m.type \in {"Chat", "Begin", "Score"} /\ out = <<From(j, m)>>
         \/ m.type = "Launch" /\ out = <<From(j, m), RosterMsg(w)>>
  BY DEF Handled, HTalks, HRenews, HLoads, HBegins, HScores, HResets, HLaunches, HCloses
<1>2. RosterMsg(w).type = "RoomRoster" /\ RosterMsg(w).members = h.members
  BY <1>1 DEF RosterMsg, Table
<1>3. m.type \in {"Chat", "Begin", "Score", "Launch"} => From(j, m).type = m.type
  BY ActionFields DEF From
<1> QED BY <1>1, <1>2, <1>3, FramesFew

\* The broadcasts in every step.
LEMMA StepAired ==
  ASSUME RoomInv, RoundInv, Shape, view'[Host].state # "Off", view[Host].state # "Off" => Aired
  PROVE  Aired'
<1> DEFINE h == view[Host]
           b == broadcasts
<1>0. b \in Seq(RelayType)
  BY Shapely
<1> SUFFICES ASSUME NEW m \in Frames(broadcasts')
             PROVE  /\ m.type # "RoomWelcome"
                    /\ m.type = "RoomRoster" =>
                         1 \in m.members /\ (phase' = "links" => m.members \subseteq view'[Host].members)
  BY DEF Aired
<1>1. CASE /\ broadcasts' = b /\ SamePass /\ h.state # "Off" /\ view'[Host].members = h.members
  BY <1>1 DEF Aired, SamePass
<1>2. CASE HostMoves
  BY <1>1, <1>2 DEF HostMoves, Left, OwnCopy, SameRound
<1>3. CASE (\E c \in Joiners : JoinerMoves(c)) \/ (\E c \in Joiners : JoinerTurns(c)) \/ Passes
  BY <1>1, <1>3 DEF JoinerMoves, JoinerTurns, Passes, HostStill
<1>4. ASSUME NEW j, NEW a \in ActionType, NEW w, NEW out \in Seq(RelayType), h.state # "Off",
             Handled(h, order, j, a, w, out), view'[Host] = w, broadcasts' = b \o out, SamePass
      PROVE  /\ m.type # "RoomWelcome"
             /\ m.type = "RoomRoster" =>
                  1 \in m.members /\ (phase' = "links" => m.members \subseteq view'[Host].members)
  <2>1. Table(h, w) /\ 1 \in h.members
    BY <1>4, HandledFrames, HostFacts
  <2>2. m \in Frames(b) \/ m \in Frames(out)
    <3> HIDE DEF b
    <3> QED BY <1>0, <1>4, FramesConcat
  <2>3. CASE m \in Frames(b)
    BY <1>4, <2>1, <2>3 DEF Aired, SamePass, Table
  <2>4. CASE m \in Frames(out)
    <3>1. m.type # "RoomWelcome" /\ (m.type = "RoomRoster" => m.members = h.members)
      BY <1>4, <2>4, HandledFrames
    <3> QED BY <1>4, <2>1, <3>1 DEF Table
  <2> QED BY <2>2, <2>3, <2>4
<1>5. CASE Minds
  <2>1. PICK w \in ViewType, out \in Seq(RelayType) :
          /\ h.state # "Off" /\ controls # <<>> /\ Handled(h, order, 1, Head(controls), w, out)
          /\ view'[Host] = w /\ broadcasts' = b \o out /\ SamePass
    BY <1>5 DEF Minds
  <2>2. Head(controls) \in ActionType
    <3>1. controls \in Seq(ActionType)
      BY DEF RoomInv, Netted
    <3> QED BY <2>1, <3>1, FramesTail
  <2> QED BY <1>4, <2>1, <2>2
<1>6. ASSUME NEW c \in Joiners, Hears(c)
      PROVE  /\ m.type # "RoomWelcome"
             /\ m.type = "RoomRoster" =>
                  1 \in m.members /\ (phase' = "links" => m.members \subseteq view'[Host].members)
  <2>1. PICK w \in ViewType, out \in Seq(RelayType) :
          /\ h.state # "Off" /\ up[c] # <<>> /\ Handled(h, order, seat[c], Head(up[c]), w, out)
          /\ view'[Host] = w /\ broadcasts' = b \o out /\ SamePass
    BY <1>6 DEF Hears
  <2>2. Head(up[c]) \in ActionType
    <3>1. up[c] \in Seq(ActionType)
      BY Shapely
    <3> QED BY <2>1, <3>1, FramesTail
  <2> QED BY <1>4, <2>1, <2>2
<1>7. CASE Flushes
  BY <1>7, FramesFew DEF Flushes
<1>8. CASE Closes
  BY <1>8 DEF Closes, OffView, FreshView
<1>9. ASSUME NEW w, RosterMsg(w) \in RelayType, broadcasts' = Append(b, RosterMsg(w)), view'[Host] = w,
             1 \in w.members, h.state # "Off",
             phase' = "links" => phase = "links" /\ h.members \subseteq w.members
      PROVE  /\ m.type # "RoomWelcome"
             /\ m.type = "RoomRoster" =>
                  1 \in m.members /\ (phase' = "links" => m.members \subseteq view'[Host].members)
  <2> DEFINE r == RosterMsg(w)
  <2>1. r.type = "RoomRoster" /\ r.members = w.members
    BY DEF RosterMsg
  <2>2. m \in Frames(b) \/ m = r
    <3>1. r \in RelayType
      BY <1>9
    <3> HIDE DEF b, r
    <3>2. Frames(Append(b, r)) = Frames(b) \cup {r}
      BY <1>0, <3>1, FramesAppend
    <3> QED BY <1>9, <3>2 DEF r
  <2> HIDE DEF r
  <2>3. CASE m \in Frames(b)
    BY <1>9, <2>3 DEF Aired
  <2> QED BY <1>9, <2>1, <2>2, <2>3
<1>10. ASSUME NEW c \in Joiners, Seats(c)
       PROVE  /\ m.type # "RoomWelcome"
              /\ m.type = "RoomRoster" =>
                   1 \in m.members /\ (phase' = "links" => m.members \subseteq view'[Host].members)
  <2>1. PICK w \in ViewType, f \in Ids \ {1} :
          /\ h.state # "Off" /\ phase = "links" /\ w.members = h.members \cup {f} /\ view'[Host] = w
          /\ broadcasts' = Append(b, RosterMsg(w)) /\ RosterMsg(w) \in RelayType
    BY <1>10 DEF Seats
  <2>2. 1 \in h.members
    BY <2>1, HostFacts
  <2> QED BY <1>9, <2>1, <2>2
<1>11. ASSUME NEW c \in Joiners, Parts(c)
       PROVE  /\ m.type # "RoomWelcome"
              /\ m.type = "RoomRoster" =>
                   1 \in m.members /\ (phase' = "links" => m.members \subseteq view'[Host].members)
  <2>1. PICK w \in ViewType :
          /\ h.state # "Off" /\ phase' # "links" /\ seat[c] # 1 /\ w.members = h.members \ {seat[c]}
          /\ view'[Host] = w /\ broadcasts' = Append(b, RosterMsg(w)) /\ RosterMsg(w) \in RelayType
    BY <1>11 DEF Parts, Removed
  <2>2. 1 \in h.members
    BY <2>1, HostFacts
  <2> QED BY <1>9, <2>1, <2>2
<1> QED BY <1>2, <1>3, <1>5, <1>6, <1>7, <1>8, <1>10, <1>11 DEF Shape

\* A seated joiner sits.
LEMMA SeatedSits ==
  ASSUME RoomInv, RoundInv, Ends, NEW c \in Joiners, link[c] = "up", view[c].state # "Off"
  PROVE  Sits(view[Host], seat[c], view[c], ui[c], up[c], Coming(c))
<1>1. End(view[c], ui[c])
  BY DEF Ends
<1>2. view[c].state \in {"Joining", "Connected"}
  BY <1>1 DEF End
<1> QED BY <1>1, <1>2, SeatedFacts DEF Sits

\* No frame of a round that is handled is without its nonce.
LEMMA NoncesThere ==
  ASSUME RoomInv, HostInv, view[Host].state # "Off",
         NEW m, \/ controls # <<>> /\ m = Head(controls)
                \/ \E d \in Joiners : link[d] = "up" /\ up[d] # <<>> /\ m = Head(up[d]),
         m.type \in RoundFrames
  PROVE  m.nonce # 0
<1>1. controls \in Seq(ActionType) /\ \A d \in Joiners : up[d] \in Seq(ActionType)
  BY Shapely DEF RoomInv, Netted
<1>2. CASE controls # <<>> /\ m = Head(controls)
  <2>1. m \in Frames(controls)
    BY <1>1, <1>2, FramesTail
  <2> QED BY <2>1 DEF HostInv, LaunchFrames
<1>3. ASSUME NEW d \in Joiners, link[d] = "up", up[d] # <<>>, m = Head(up[d])
      PROVE  m.nonce # 0
  <2>1. m \in Frames(up[d])
    BY <1>1, <1>3, FramesTail
  <2> QED BY <1>3, <2>1 DEF HostInv, LaunchFrames
<1> QED BY <1>2, <1>3

\* The copies in every step.
LEMMA StepCopy ==
  ASSUME RoomInv, RoundInv, Ends, HostInv, RoomInv', CopyInv, Shape
  PROVE  CopyInv'
<1>0. view'[Host].state # "Off" /\ (view[Host].state # "Off" => Aired) => Aired'
  BY StepAired
<1> SUFFICES ASSUME NEW c \in Joiners, link'[c] = "up", view'[c].state # "Off", view'[Host].state # "Off"
             PROVE  /\ Copies(view'[Host], seat'[c], view'[c], ui'[c], up'[c], Coming(c)')
                    /\ Told(view'[Host], view'[c], Coming(c)')
  BY <1>0 DEF CopyInv
<1> DEFINE h == view[Host]
           v == view[c]
           x == ui[c]
           i == seat[c]
           u == up[c]
           s == Coming(c)
<1>1. Sees(c)
  BY SeesStep
<1>2. ASSUME link[c] = "up", v.state # "Off"
      PROVE  /\ Sits(h, i, v, x, u, s) /\ Copies(h, i, v, x, u, s) /\ Told(h, v, s)
             /\ s \in Seq(RelayType) /\ u \in Seq(ActionType) /\ v \in ViewType /\ x \in UiType
             /\ h \in ViewType /\ h.state # "Off" /\ h.rev \in Nat
  <2>1. Sits(h, i, v, x, u, s)
    BY <1>2, SeatedSits
  <2>2. h.state # "Off"
    BY <1>2, SeatedFacts
  <2>3. Copies(h, i, v, x, u, s) /\ Told(h, v, s)
    BY <1>2, <2>2 DEF CopyInv
  <2> QED BY <2>1, <2>2, <2>3, ViewFields DEF Sits
<1> HIDE DEF h, v, x, i, u, s
<1>u. Unmoved(c) => /\ link[c] = "up" /\ v.state # "Off" /\ seat'[c] = i /\ view'[c] = v
                    /\ ui'[c] = x /\ up'[c] = u
  BY DEF Unmoved, v, x, i, u
<1>s. \A t : Sends(c, t) /\ v.state # "Off" => Coming(c)' = s \o t
  BY DEF Sends, v, s
<1>q. Hushed(c) /\ v.state # "Off" => Coming(c)' = s
  BY DEF Hushed, v, s
<1>3. CASE Rests(c)
  BY <1>2, <1>3, <1>u, <1>q DEF Rests, HostStill, h
<1>4. CASE Bids(c)
  <2>1. PICK w \in ViewType : view'[Host] = w /\ Left(h, w) /\ Unmoved(c) /\ Hushed(c)
    BY <1>4 DEF Bids, h
  <2>2. /\ w.active = h.active /\ w.rev = h.rev /\ w.members = h.members /\ w.leader = h.leader
        /\ w.ready \subseteq h.ready \cup {h.id}
    BY <2>1 DEF Left, OwnCopy, SameRound
  <2>3. h.id = 1 /\ i # 1
    BY <1>u, <2>1, SeatedFacts DEF h, i
  <2>4. Copies(w, i, v, x, u, s)
    BY <1>2, <1>u, <2>1, <2>2, <2>3, MoveCopies
  <2>5. Told(w, v, s)
    BY <1>2, <1>u, <2>1, <2>2 DEF Told
  <2> QED BY <1>u, <1>q, <2>1, <2>4, <2>5
<1>5. CASE Talks(c)
  <2>1. PICK w \in ViewType, y \in UiType :
          /\ HostStill /\ Hushed(c) /\ link[c] = "up" /\ seat'[c] = i /\ v.state = "Connected"
          /\ view'[c] = w /\ ui'[c] = y /\ Left(v, w)
          /\ \/ Silent(v, x, w, y) /\ up'[c] = u
             \/ \E m \in ActionType : Says(v, x, w, y, m) /\ up'[c] = Append(u, m)
    BY <1>5 DEF Talks, i, v, x, u
  <2>2. view'[Host] = h
    BY <2>1 DEF HostStill, h
  <2>3. Copies(h, i, w, y, up'[c], s) /\ Told(h, w, s)
    BY <1>2, <2>1, TalkCopies
  <2> QED BY <1>q, <2>1, <2>2, <2>3
<1>6. CASE Quits(c)
  BY <1>6 DEF Quits, OffView, FreshView
<1>7. CASE Reads(c)
  <2>1. /\ view'[Host] = h /\ link[c] = "up" /\ v.state # "Off" /\ seat'[c] = i /\ ui'[c] = x
        /\ up'[c] = u /\ s # <<>> /\ Head(s).type # "Disconnect"
        /\ view'[c] = Apply(v, Head(s)) /\ Coming(c)' = Tail(s)
    BY <1>7 DEF Reads, HostStill, h, i, v, x, u, s
  <2>2. Applied(v, Head(s), Apply(v, Head(s)))
    <3>1. Head(s) \in RelayType
      BY <1>2, <2>1, LessToRead
    <3> QED BY <1>2, <2>1, <3>1, ApplyKinds
  <2> QED BY <1>2, <2>1, <2>2, ReadCopies
<1>8. ASSUME NEW j \in Ids, NEW m \in ActionType, NEW w \in ViewType, NEW out \in Seq(RelayType),
             Minded(c, j, m, w, out)
      PROVE  /\ Copies(view'[Host], seat'[c], view'[c], ui'[c], up'[c], Coming(c)')
             /\ Told(view'[Host], view'[c], Coming(c)')
  <2>1. /\ h.state # "Off" /\ Unmoved(c) /\ j # i /\ Handled(h, order, j, m, w, out)
        /\ view'[Host] = w /\ Sends(c, out)
    BY <1>8 DEF Minded, h, i
  <2>2. m.type \in RoundFrames => m.nonce # 0
    BY <1>8, <2>1, NoncesThere DEF Minded, h
  <2>3. Copies(w, i, v, x, u, s \o out) /\ Told(w, v, s \o out)
    BY <1>2, <1>u, <2>1, <2>2, HandledCopies
  <2> QED BY <1>u, <1>s, <2>1, <2>3
<1>9. ASSUME NEW w \in ViewType, NEW out \in Seq(RelayType), Heeded(c, w, out)
      PROVE  /\ Copies(view'[Host], seat'[c], view'[c], ui'[c], up'[c], Coming(c)')
             /\ Told(view'[Host], view'[c], Coming(c)')
  <2>1. /\ h.state # "Off" /\ link[c] = "up" /\ u # <<>> /\ up'[c] = Tail(u) /\ seat'[c] = i
        /\ view'[c] = v /\ ui'[c] = x /\ Handled(h, order, i, Head(u), w, out)
        /\ view'[Host] = w /\ Sends(c, out) /\ v.state # "Off"
    BY <1>9 DEF Heeded, h, i, v, x, u
  <2>2. Head(u).type \in RoundFrames => Head(u).nonce # 0
    BY <2>1, NoncesThere DEF h, u
  <2>3. Head(u) \in Frames(u) /\ Head(u) \in ActionType /\ Frames(Tail(u)) \subseteq Frames(u)
    BY <1>2, <2>1, FramesTail
  <2>4. i \in Ids
    BY <1>2, <2>1 DEF Sits
  <2>5. Copies(w, i, v, x, Tail(u), s \o out) /\ Told(w, v, s \o out)
    BY <1>2, <2>1, <2>2, <2>3, <2>4, HandledCopies
  <2> QED BY <1>s, <2>1, <2>5
<1>10. CASE Widens(c)
  <2>1. PICK w \in ViewType, f \in Ids \ {1} :
          Wider(h, w, f) /\ Unmoved(c) /\ view'[Host] = w /\ Sends(c, <<RosterMsg(w)>>)
    BY <1>10 DEF Widens, h
  <2>2. Copies(w, i, v, x, u, s \o <<RosterMsg(w)>>) /\ Told(w, v, s \o <<RosterMsg(w)>>)
    BY <1>2, <1>u, <2>1, WiderCopies
  <2> QED BY <1>u, <1>s, <2>1, <2>2
<1>11. CASE Arrives(c)
  <2>1. PICK w \in ViewType, f \in Ids \ {1} :
          /\ h.state # "Off" /\ link[c] = "greeting" /\ phase = "links" /\ Wider(h, w, f)
          /\ view'[Host] = w /\ seat'[c] = f /\ view'[c] = v /\ ui'[c] = x
          /\ \A m \in Frames(up'[c]) : m.type \in {"Hello", "Disconnect"}
          /\ WelcomeMsg(f, h) \in RelayType
          /\ Coming(c)' = <<WelcomeMsg(f, h)>> \o (broadcasts \o <<RosterMsg(w)>>)
    BY <1>11 DEF Arrives, h, v, x
  <2>2. v.state = "Joining"
    <3>1. Joined(h, link[c], i, v, u, down[c], broadcasts, vote[c])
      BY <2>1 DEF RoundInv, h, i, v, u
    <3> QED BY <2>1, <3>1 DEF Joined, Waits
  <2>3. h \in ViewType /\ 1 \in h.members /\ h.ready \subseteq h.members
    BY <2>1, HostFacts DEF h
  <2>4. /\ broadcasts \in Seq(RelayType)
        /\ \A m \in Frames(broadcasts) :
              /\ m.type # "RoomWelcome"
              /\ m.type = "RoomRoster" => 1 \in m.members /\ m.members \subseteq h.members
    <3>1. broadcasts \in Seq(RelayType)
      BY Shapely
    <3> QED BY <2>1, <3>1 DEF CopyInv, Aired, h
  <2>5. LET z == <<WelcomeMsg(f, h)>> \o (broadcasts \o <<RosterMsg(w)>>)
        IN Copies(w, f, v, x, up'[c], z) /\ Told(w, v, z)
    BY <2>1, <2>2, <2>3, <2>4, ArriveCopies
  <2> QED BY <2>1, <2>5
<1>12. CASE Narrows(c)
  <2>1. PICK w \in ViewType, id \in h.members \ {1} :
          /\ Removed(h, order, id, order', w) /\ Unmoved(c) /\ view'[Host] = w
          /\ RosterMsg(w) \in RelayType /\ Sends(c, <<RosterMsg(w)>>)
    BY <1>12 DEF Narrows, h
  <2>2. Copies(w, i, v, x, u, s \o <<RosterMsg(w)>>) /\ Told(w, v, s \o <<RosterMsg(w)>>)
    BY <1>2, <1>u, <2>1, RemovedCopies
  <2> QED BY <1>u, <1>s, <2>1, <2>2
<1> QED BY <1>1, <1>3, <1>4, <1>5, <1>6, <1>7, <1>8, <1>9, <1>10, <1>11, <1>12 DEF Sees

\* Nobody has joined at the start.
LEMMA InitCopy == Init => WireInv /\ CopyInv
<1> SUFFICES ASSUME Init PROVE WireInv /\ CopyInv
  OBVIOUS
<1>1. broadcasts = <<>> /\ \A c \in Joiners : link[c] = "none"
  BY DEF Init
<1>2. WireInv
  BY <1>1 DEF WireInv
<1>3. Aired
  BY <1>1, FramesFew DEF Aired
<1>4. CopyInv
  BY <1>1, <1>3 DEF CopyInv
<1> QED BY <1>2, <1>4

=============================================================================
