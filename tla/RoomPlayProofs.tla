-------------------------- MODULE RoomPlayProofs --------------------------
(***************************************************************************)
(* Who plays in a room, who has loaded and who has finished                *)
(* (src/src/network/PeerSession.cpp and the menu thread of                 *)
(* src/src/app/MenuAppMultiplayer.cpp), proved for any number of players,  *)
(* charts and rates: a round outlives its play, the load barrier holds,    *)
(* a round that began closes in full, and its frames (Loaded, Score and    *)
(* RoundReset at the coordinator, Begin and Score at a player) pass.       *)
(*                                                                         *)
(* RoomMatchProofs says what each end knows of the coordinator's round.    *)
(* Four invariants follow, each resting on the ones before: who plays and  *)
(* what has been said of it (PlayInv), who has loaded the chart (LoadInv), *)
(* who has finished (ScoreInv), and what is left on a link that the        *)
(* coordinator has given up (FrozenInv).                                   *)
(***************************************************************************)
EXTENDS RoomMatchProofs

-----------------------------------------------------------------------------
(* Who plays, and what has been said of it.                                *)

Of(type) == {m \in ActionType : m.type = type}
Closing == {m \in ActionType : m.type \in {"Score", "RoundReset"}}
\* A frame of this type is under way.
Says1(s, type) == \E m \in Frames(s) : m.type = type

\* In the lobby, with no launch to take.
Idles(v, x) == x.at = "lobby" /\ v.launch = NoChart
\* In the round that the coordinator has seen begin.
Runs(h, v) == h.active # 0 /\ v.active = h.active /\ h.begun

\* A joiner's own part.
Lives(v, x) ==
  /\ v.active = 0 => ~v.dirty
  /\ v.dirty => x.at = "playing"
  /\ v.launch # NoChart => x.at = "lobby"

\* A Begin or a score finds the joiner in the round it is about, and nothing
\* but rosters of that round comes before.
Timely(v, s) ==
  \A l \in DOMAIN s : s[l].type \in {"Begin", "Score"} =>
    /\ v.active = s[l].nonce /\ v.active # 0
    /\ \A k \in DOMAIN s : k < l /\ s[k].type \in Stamps =>
         s[k].type = "RoomRoster" /\ s[k].nonce = s[l].nonce

\* What the coordinator knows of a joiner v that plays, and what is under way.
Plays(h, i, v, x, u, s) ==
  /\ x.at \in Play => Runs(h, v) \/ Says1(u, "Begin")
  /\ v.begin \/ Says1(s, "Begin") => Runs(h, v) \/ Idles(v, x)
  /\ h.active # 0 =>
       /\ h.begun \/ i \in h.loaded \/ (\E m \in Frames(u) : m.type \in RoundFrames) =>
            v.active = h.active
       /\ i \in h.reset \/ Says1(u, "RoundReset") => Idles(v, x) /\ v.active = h.active

\* Nobody scores or leaves a result before the round has begun.
Opens(h, u) == h.active # 0 /\ ~h.begun => LedBy(u, Of("Begin"), Closing)
HostOpens(h, F) ==
  h.active # 0 => \A m \in F : m.type = "Score" /\ m.nonce = h.active => h.begun

\* Nothing of a round is left, and no launch is under way.
Quiet(v, u, s) ==
  /\ v.active = 0 /\ \A m \in Frames(u) : m.type \notin RoundFrames
  /\ \A m \in Frames(s) : m.type \in Stamps => m.nonce = 0

\* A player that is in the room, its menu x and the coordinator's menu a.
InMatch(h, a, i, v, x, u, s) ==
  /\ Lives(v, x) /\ Timely(v, s) /\ Plays(h, i, v, x, u, s)
  /\ h.active = 0 /\ a.at \in Play => Quiet(v, u, s)

PlayInv ==
  LET h == view[Host] IN
  h.state # "Off" =>
    /\ HostOpens(h, Frames(controls))
    /\ \A c \in Joiners : link[c] = "up" =>
         /\ Opens(h, up[c])
         /\ view[c].state = "Connected" =>
              InMatch(h, ui[Host], seat[c], view[c], ui[c], up[c], Coming(c))

\* Frames that are neither Begin nor Score may follow.
LEMMA TimelyMore ==
  ASSUME NEW v, NEW s \in Seq(RelayType), NEW t \in Seq(RelayType), Timely(v, s),
         \A m \in Frames(t) : m.type \notin {"Begin", "Score"}
  PROVE  Timely(v, s \o t)
<1> DEFINE z == s \o t
<1>1. /\ \A l \in DOMAIN z :
            \/ l \in DOMAIN s /\ z[l] = s[l]
            \/ l \in Nat /\ l > Len(s) /\ l - Len(s) \in DOMAIN t /\ z[l] = t[l - Len(s)]
      /\ Len(s) \in Nat /\ DOMAIN s = 1..Len(s)
  <2>1. /\ DOMAIN z = 1..(Len(s) + Len(t))
        /\ \A l \in 1..(Len(s) + Len(t)) : z[l] = IF l <= Len(s) THEN s[l] ELSE t[l - Len(s)]
        /\ Len(s) \in Nat /\ Len(t) \in Nat /\ DOMAIN s = 1..Len(s) /\ DOMAIN t = 1..Len(t)
    BY ConcatProperties, LenProperties
  <2> HIDE DEF z
  <2> QED BY <2>1
<1> HIDE DEF z
<1> SUFFICES ASSUME NEW l \in DOMAIN z, z[l].type \in {"Begin", "Score"}
             PROVE  /\ v.active = z[l].nonce /\ v.active # 0
                    /\ \A k \in DOMAIN z : k < l /\ z[k].type \in Stamps =>
                         z[k].type = "RoomRoster" /\ z[k].nonce = z[l].nonce
  BY DEF Timely, z
<1>2. l \in DOMAIN s /\ z[l] = s[l]
  BY <1>1 DEF Frames
<1>3. \A k \in DOMAIN z : k < l => k \in DOMAIN s /\ z[k] = s[k]
  BY <1>1, <1>2
<1> QED BY <1>2, <1>3 DEF Timely

\* So may a Begin or a Score of the round the joiner is in and stays in.
LEMMA TimelyFrame ==
  ASSUME NEW v, NEW s \in Seq(RelayType), NEW m \in RelayType, Timely(v, s),
         v.active = m.nonce, v.active # 0,
         \A f \in Frames(s) : f \notin Launches /\ f \notin Foreign(m.nonce)
  PROVE  Timely(v, s \o <<m>>)
<1> DEFINE z == Append(s, m)
<1>1. /\ s \o <<m>> = z
      /\ \A l \in DOMAIN z : (l \in DOMAIN s /\ z[l] = s[l]) \/ (l = Len(s) + 1 /\ z[l] = m)
      /\ Len(s) \in Nat /\ DOMAIN s = 1..Len(s) /\ Frames(s) \subseteq RelayType
  BY AppendIsConcat, AppendProperties, LenProperties, FramesConcat
<1> HIDE DEF z
<1> SUFFICES ASSUME NEW l \in DOMAIN z, z[l].type \in {"Begin", "Score"}
             PROVE  /\ v.active = z[l].nonce /\ v.active # 0
                    /\ \A k \in DOMAIN z : k < l /\ z[k].type \in Stamps =>
                         z[k].type = "RoomRoster" /\ z[k].nonce = z[l].nonce
  BY <1>1 DEF Timely
<1>2. CASE l \in DOMAIN s /\ z[l] = s[l]
  <2>1. \A k \in DOMAIN z : k < l => k \in DOMAIN s /\ z[k] = s[k]
    BY <1>1, <1>2
  <2> QED BY <1>2, <2>1 DEF Timely
<1>3. CASE l = Len(s) + 1 /\ z[l] = m
  <2>1. \A k \in DOMAIN z : k < l => k \in DOMAIN s /\ z[k] = s[k]
    BY <1>1, <1>3
  <2>2. \A k \in DOMAIN s : s[k] \in Frames(s) /\ s[k] \in RelayType
    BY <1>1 DEF Frames
  <2> QED BY <1>3, <2>1, <2>2 DEF Launches, Foreign, Stamps
<1> QED BY <1>1, <1>2, <1>3

\* The coordinator's copy h becomes w, and t is left of the joiner's frames u.
LEMMA MovePlays ==
  ASSUME NEW h, NEW i, NEW v, NEW x, NEW u, NEW s, Plays(h, i, v, x, u, s), NEW w, NEW t,
         Frames(t) \subseteq Frames(u),
         Says1(u, "Begin") => Says1(t, "Begin") \/ Runs(w, v),
         \/ /\ w.active = h.active /\ (h.begun => w.begun)
            /\ h.active # 0 =>
                 /\ w.begun => h.begun \/ v.active = h.active
                 /\ i \in w.loaded => i \in h.loaded \/ \E m \in Frames(u) : m.type \in RoundFrames
                 /\ i \in w.reset => i \in h.reset \/ Says1(u, "RoundReset")
         \/ /\ h.active = 0 /\ ~w.begun /\ i \notin w.loaded /\ i \notin w.reset
            /\ \A m \in Frames(u) : m.type \notin RoundFrames
         \/ w.active = 0 /\ (Runs(h, v) => Idles(v, x))
  PROVE  Plays(w, i, v, x, t, s)
<1>1. Says1(t, "RoundReset") => Says1(u, "RoundReset")
  BY DEF Says1
<1>2. (\E m \in Frames(t) : m.type \in RoundFrames) => \E m \in Frames(u) : m.type \in RoundFrames
  OBVIOUS
<1>3. CASE /\ w.active = h.active /\ (h.begun => w.begun)
           /\ h.active # 0 =>
                 /\ w.begun => h.begun \/ v.active = h.active
                 /\ i \in w.loaded => i \in h.loaded \/ \E m \in Frames(u) : m.type \in RoundFrames
                 /\ i \in w.reset => i \in h.reset \/ Says1(u, "RoundReset")
  <2>1. Runs(h, v) => Runs(w, v)
    BY <1>3 DEF Runs
  <2> QED BY <1>1, <1>2, <1>3, <2>1 DEF Plays
<1>4. CASE /\ h.active = 0 /\ ~w.begun /\ i \notin w.loaded /\ i \notin w.reset
           /\ \A m \in Frames(u) : m.type \notin RoundFrames
  <2>1. ~Runs(h, v)
    BY <1>4 DEF Runs
  <2>2. ~Says1(t, "RoundReset")
    BY <1>1, <1>4 DEF Says1, RoundFrames
  <2> QED BY <1>2, <1>4, <2>1, <2>2 DEF Plays
<1>5. CASE w.active = 0 /\ (Runs(h, v) => Idles(v, x))
  <2>1. Runs(h, v) => x.at \notin Play
    BY <1>5 DEF Idles, Play
  <2> QED BY <1>5, <2>1 DEF Plays
<1> QED BY <1>3, <1>4, <1>5

\* More frames for the joiner; only one who is in the match is told of its beginning.
LEMMA MorePlays ==
  ASSUME NEW h, NEW i, NEW v, NEW x, NEW u, NEW s \in Seq(RelayType), NEW t \in Seq(RelayType),
         Plays(h, i, v, x, u, s), Says1(t, "Begin") => Runs(h, v)
  PROVE  Plays(h, i, v, x, u, s \o t)
<1>1. Frames(s \o t) = Frames(s) \cup Frames(t)
  BY FramesConcat
<1> QED BY <1>1 DEF Plays, Says1

\* What the coordinator sends about a match, and what else.
LEMMA HandledOut ==
  ASSUME NEW h, NEW ord, NEW j, NEW m \in ActionType, NEW w, NEW out, Handled(h, ord, j, m, w, out)
  PROVE  \/ \A f \in Frames(out) : f.type \notin {"Begin", "Score"}
         \/ /\ HBegins(h, j, m, w, out) \/ HScores(h, j, m, w, out)
            /\ out = <<From(j, m)>> /\ From(j, m).type = m.type /\ From(j, m).nonce = m.nonce
            /\ m.nonce = h.active
<1>1. RosterMsg(w).type = "RoomRoster"
  BY DEF RosterMsg
<1>2. m.type \in {"Chat", "Begin", "Score", "Launch"} => From(j, m).type = m.type
  BY ActionFields DEF From
<1>3. m.type \in {"Begin", "Score"} => From(j, m).nonce = m.nonce
  BY ActionFields DEF From
<1>4. CASE HBegins(h, j, m, w, out) \/ HScores(h, j, m, w, out)
  BY <1>2, <1>3, <1>4 DEF HBegins, HScores
<1>5. CASE ~(HBegins(h, j, m, w, out) \/ HScores(h, j, m, w, out))
  <2>1. \/ out = <<>>
        \/ out = <<RosterMsg(w)>>
        \/ m.type = "Chat" /\ out = <<From(j, m)>>
        \/ m.type = "Launch" /\ out = <<From(j, m), RosterMsg(w)>>
    BY <1>5 DEF Handled, HTalks, HRenews, HLoads, HResets, HLaunches, HCloses
  <2> QED BY <1>1, <1>2, <2>1, FramesFew
<1> QED BY <1>4, <1>5

\* The coordinator accepts frame m of player j; t is left of the frames u of the
\* joiner, which lose no Begin but the one it accepts.
LEMMA HandledPlays ==
  ASSUME NEW h, NEW i, NEW v, NEW x, NEW u, NEW s, Sits(h, i, v, x, u, s), v.state = "Connected",
         Wire(h, i, u), Plays(h, i, v, x, u, s),
         NEW ord, NEW j \in Ids, NEW m \in ActionType, NEW w \in ViewType,
         NEW out, Handled(h, ord, j, m, w, out),
         m.type \in RoundFrames => m.nonce # 0, j = i => m \in Frames(u),
         NEW t, Frames(t) \subseteq Frames(u), Frames(u) \subseteq Frames(t) \cup {m},
         j # i => Frames(t) = Frames(u)
  PROVE  Plays(w, i, v, x, t, s)
<1>0. /\ i \in h.members /\ (\A f \in Frames(u) : f.type = "Begin" => f.type \in RoundFrames)
      /\ m.type # "Begin" => (Says1(u, "Begin") => Says1(t, "Begin"))
  BY DEF Sits, RoundFrames, Says1
<1>a. Says1(u, "RoundReset") => \E f \in Frames(u) : f.type \in RoundFrames
  BY DEF Says1, RoundFrames
<1>1. CASE HTalks(h, j, m, w, out)
  <2>1. /\ w.active = h.active /\ w.begun = h.begun /\ m.type # "Begin"
        /\ h.active # 0 => w.loaded = h.loaded /\ w.reset = h.reset
    BY <1>1 DEF HTalks, Round, OwnPart
  <2> QED BY <1>0, <2>1, MovePlays
<1>2. CASE HRenews(h, j, m, w, out)
  <2>1. w.active = h.active /\ w.begun = h.begun /\ m.type # "Begin" /\ h.active = 0
    BY <1>2 DEF HRenews, OwnPart
  <2> QED BY <1>0, <2>1, MovePlays
<1>3. CASE HLoads(h, j, m, w, out)
  <2>1. /\ w.active = h.active /\ w.begun = h.begun /\ m.type = "Loaded" /\ m.type # "Begin"
        /\ w.loaded = h.loaded \cup {j} /\ w.reset = h.reset
    BY <1>3 DEF HLoads, Round, OwnPart
  <2>2. i \in w.loaded => i \in h.loaded \/ \E f \in Frames(u) : f.type \in RoundFrames
    BY <2>1 DEF RoundFrames
  <2> QED BY <1>0, <2>1, <2>2, MovePlays
<1>4. CASE HBegins(h, j, m, w, out)
  <2>1. /\ w.active = h.active /\ w.begun /\ m.type = "Begin" /\ h.active # 0
        /\ w.loaded = h.loaded /\ w.reset = h.reset /\ h.members \subseteq h.loaded
    BY <1>4 DEF HBegins, Round, AllLoaded, RoundFrames
  <2>2. v.active = h.active
    BY <1>0, <2>1 DEF Plays
  <2>3. Runs(w, v)
    BY <2>1, <2>2 DEF Runs
  <2> QED BY <2>1, <2>2, <2>3, MovePlays
<1>5. CASE HScores(h, j, m, w, out)
  <2>1. /\ w.active = h.active /\ w.begun = h.begun /\ m.type # "Begin"
        /\ w.loaded = h.loaded /\ w.reset = h.reset
    BY <1>5 DEF HScores, Round, OwnPart
  <2> QED BY <1>0, <2>1, MovePlays
<1>6. CASE HResets(h, j, m, w, out)
  <2>1. /\ w.active = h.active /\ w.begun = h.begun /\ m.type = "RoundReset" /\ m.type # "Begin"
        /\ w.loaded \subseteq h.loaded /\ w.reset = h.reset \cup {j}
    BY <1>6 DEF HResets, Round, OwnPart
  <2>2. i \in w.reset => i \in h.reset \/ Says1(u, "RoundReset")
    BY <2>1 DEF Says1
  <2> QED BY <1>0, <2>1, <2>2, MovePlays
<1>7. CASE HLaunches(h, j, m, w, out)
  <2>1. /\ h.active = 0 /\ ~w.begun /\ w.loaded = {} /\ w.reset = {} /\ m.type # "Begin"
        /\ i \in h.ready
    BY <1>0, <1>7 DEF HLaunches, AllReady
  <2>2. \A f \in Frames(u) : f.type \notin RoundFrames
    BY <2>1 DEF Wire
  <2> QED BY <1>0, <2>1, <2>2, MovePlays
<1>8. CASE HCloses(h, ord, j, m, w, out)
  <2>1. w.active = 0 /\ m.type # "Begin"
    BY <1>8 DEF HCloses, Cleared
  <2>2. Runs(h, v) => Idles(v, x)
    <3>1. CASE ~h.begun
      BY <3>1 DEF Runs
    <3>2. CASE m.type = "RoundReset" /\ h.members \subseteq h.reset \cup {j}
      <4>1. i \in h.reset \/ Says1(u, "RoundReset")
        BY <1>0, <3>2 DEF Says1
      <4> QED BY <4>1 DEF Plays, Runs
    <3> QED BY <1>8, <3>1, <3>2 DEF HCloses
  <2> QED BY <1>0, <2>1, <2>2, MovePlays
<1> QED BY <1>1, <1>2, <1>3, <1>4, <1>5, <1>6, <1>7, <1>8 DEF Handled

\* ... and what it sends about it.
LEMMA HandledTells ==
  ASSUME NEW h, NEW i, NEW v, NEW x, NEW u, NEW s, Sits(h, i, v, x, u, s), v.state = "Connected",
         Timely(v, s), Entered(h, v, s), Plays(h, i, v, x, u, s),
         NEW ord, NEW j \in Ids, NEW m \in ActionType, NEW w \in ViewType,
         NEW out \in Seq(RelayType), Handled(h, ord, j, m, w, out),
         m.type \in RoundFrames => m.nonce # 0,
         m.type = "Score" /\ m.nonce = h.active => h.begun,
         NEW t, Plays(w, i, v, x, t, s)
  PROVE  Timely(v, s \o out) /\ Plays(w, i, v, x, t, s \o out)
<1>0. s \in Seq(RelayType) /\ i \in h.members
  BY DEF Sits
<1>1. CASE \A f \in Frames(out) : f.type \notin {"Begin", "Score"}
  <2>1. ~Says1(out, "Begin")
    BY <1>1 DEF Says1
  <2> QED BY <1>0, <1>1, <2>1, TimelyMore, MorePlays
<1>2. CASE /\ HBegins(h, j, m, w, out) \/ HScores(h, j, m, w, out)
           /\ out = <<From(j, m)>> /\ From(j, m).type = m.type /\ From(j, m).nonce = m.nonce
           /\ m.nonce = h.active
  <2> DEFINE f == From(j, m)
  <2>1. /\ h.active # 0 /\ w.active = h.active
        /\ h.begun \/ i \in h.loaded
        /\ w.begun
    BY <1>0, <1>2 DEF HBegins, HScores, Round, OwnPart, RoundFrames, AllLoaded
  <2>2. v.active = h.active
    BY <2>1 DEF Plays
  <2>3. \A g \in Frames(s) : g \notin Launches /\ g \notin Foreign(h.active)
    BY <2>1, <2>2 DEF Entered
  <2>4. f \in RelayType
    <3>1. m.type \in {"Begin", "Score"}
      BY <1>2 DEF HBegins, HScores
    <3> QED BY <3>1, FromType
  <2>5. Runs(w, v)
    BY <2>1, <2>2 DEF Runs
  <2>6. f.nonce = h.active /\ out = <<f>>
    BY <1>2
  <2> HIDE DEF f
  <2>7. Timely(v, s \o <<f>>)
    BY <1>0, <2>1, <2>2, <2>3, <2>4, <2>6, TimelyFrame
  <2> QED BY <1>0, <2>5, <2>6, <2>7, MorePlays
<1> QED BY <1>1, <1>2, HandledOut

\* A frame that opens nothing: the coordinator accepts one of its own.
LEMMA HandledOpens ==
  ASSUME NEW h, NEW i \in h.members, NEW u \in Seq(ActionType), Opens(h, u), Wire(h, i, u),
         NEW ord, NEW j, NEW m, NEW w, NEW out, Handled(h, ord, j, m, w, out),
         NEW t, \/ t = u
                \/ u # <<>> /\ m = Head(u) /\ t = Tail(u) /\ m \in ActionType
  PROVE  Opens(w, t)
<1> SUFFICES ASSUME w.active # 0, ~w.begun PROVE LedBy(t, Of("Begin"), Closing)
  BY DEF Opens
<1>1. CASE HLaunches(h, j, m, w, out)
  <2>1. h.active = 0 /\ i \in h.ready
    BY <1>1 DEF HLaunches, AllReady
  <2>2. \A f \in Frames(u) : f.type \notin RoundFrames
    BY <2>1 DEF Wire
  <2>3. \A f \in Frames(t) : f.type \notin RoundFrames
    BY <2>2, FramesTail
  <2> QED BY <2>3 DEF LedBy, Closing, RoundFrames, Frames
<1>2. CASE ~HLaunches(h, j, m, w, out)
  <2>1. w.active = h.active /\ ~h.begun /\ m.type # "Begin"
    BY <1>2 DEF Handled, HTalks, HRenews, HLoads, HBegins, HScores, HResets, HCloses, Round, OwnPart,
                Cleared
  <2>2. LedBy(u, Of("Begin"), Closing)
    BY <2>1 DEF Opens
  <2>3. u # <<>> => Head(u) \in Of("Begin") \/ LedBy(Tail(u), Of("Begin"), Closing)
    BY <2>2, TailOrder
  <2> QED BY <2>1, <2>2, <2>3 DEF Of
<1> QED BY <1>1, <1>2

\* A joiner moves.
LEMMA TalkPlays ==
  ASSUME NEW h, NEW i, NEW v, NEW x, NEW u, NEW s, Sits(h, i, v, x, u, s), v.state = "Connected",
         Lives(v, x), Plays(h, i, v, x, u, s), Opens(h, u),
         NEW w \in ViewType, NEW y \in UiType, Left(v, w), NEW t,
         \/ Silent(v, x, w, y) /\ t = u
         \/ \E m \in ActionType : Says(v, x, w, y, m) /\ t = Append(u, m)
  PROVE  Lives(w, y) /\ Plays(h, i, w, y, t, s) /\ Opens(h, t)
<1>0. /\ w.active = v.active /\ u \in Seq(ActionType) /\ Frames(u) \subseteq ActionType
      /\ Runs(h, w) <=> Runs(h, v)
      /\ Runs(h, v) => v.active # 0
      /\ h.active # 0 /\ v.active # 0 => v.active = h.active
  BY FramesConcat DEF Left, OwnCopy, SameRound, Runs, Sits, OfRoom
<1>1. CASE Silent(v, x, w, y) /\ t = u
  <2>1. CASE Alike(v, w) /\ y.at = x.at
    BY <1>0, <1>1, <2>1 DEF Alike, Lives, Plays, Idles
  <2>2. CASE /\ x.at = "lobby" /\ y.at \in {"lobby", "loading"}
             /\ v.active # 0 /\ v.launch # NoChart /\ w.launch = NoChart
             /\ w.begin = v.begin /\ w.dirty = v.dirty
    <3>1. ~Idles(v, x) /\ ~v.dirty
      BY <2>2 DEF Idles, Lives
    <3>2. Lives(w, y)
      BY <2>2, <3>1 DEF Lives
    <3> QED BY <1>0, <1>1, <2>2, <3>1, <3>2 DEF Plays, Play
  <2>3. CASE /\ x.at = "following" /\ y.at = "playing"
             /\ v.begin /\ ~w.begin /\ w.launch = v.launch /\ w.dirty = v.dirty
    <3>1. ~Idles(v, x) /\ ~v.dirty /\ v.launch = NoChart /\ Runs(h, v)
      BY <2>3 DEF Idles, Lives, Plays
    <3>2. Lives(w, y)
      BY <2>3, <3>1 DEF Lives
    <3> QED BY <1>0, <1>1, <2>3, <3>1, <3>2 DEF Plays
  <2>4. CASE v.active = 0 /\ y.at = "lobby" /\ Alike(v, w)
    <3>1. ~v.dirty /\ (Idles(v, x) => Idles(w, y)) /\ ~Runs(h, v)
      BY <1>0, <2>4 DEF Lives, Idles, Alike
    <3>2. Lives(w, y)
      BY <2>4, <3>1 DEF Lives, Alike
    <3> QED BY <1>0, <1>1, <2>4, <3>1, <3>2 DEF Plays, Alike, Play
  <2>5. CASE /\ x.at = "playing" /\ y.at = "playing" /\ v.active # 0
             /\ w.launch = v.launch /\ w.begin = v.begin
    <3>1. ~Idles(v, x) /\ v.launch = NoChart
      BY <2>5 DEF Idles, Lives
    <3>2. Lives(w, y)
      BY <1>0, <2>5, <3>1 DEF Lives
    <3> QED BY <1>0, <1>1, <2>5, <3>1, <3>2 DEF Plays, Play
  <2>6. CASE x.at = "finished" /\ y.at = "lobby" /\ Alike(v, w)
    <3>1. ~Idles(v, x) /\ ~v.dirty
      BY <2>6 DEF Idles, Lives
    <3>2. Lives(w, y)
      BY <2>6, <3>1 DEF Lives, Alike
    <3> QED BY <1>0, <1>1, <2>6, <3>1, <3>2 DEF Plays, Play, Alike
  <2> QED BY <1>1, <2>1, <2>2, <2>3, <2>4, <2>5, <2>6 DEF Silent
<1>2. ASSUME NEW m \in ActionType, Says(v, x, w, y, m), t = Append(u, m)
      PROVE  Lives(w, y) /\ Plays(h, i, w, y, t, s) /\ Opens(h, t)
  <2>0. Frames(t) = Frames(u) \cup {m}
    BY <1>0, <1>2, FramesAppend
  <2>a. m \in Closing => x.at \in Play
    BY <1>2 DEF Closing, Says, LobbySays, LoadedSays, BeginSays, LiveSays, FinalSays, ResetSays,
                Lives, Play
  <2>1. Opens(h, t)
    <3> SUFFICES ASSUME h.active # 0, ~h.begun PROVE LedBy(Append(u, m), Of("Begin"), Closing)
      BY <1>2 DEF Opens
    <3>1. LedBy(u, Of("Begin"), Closing)
      BY DEF Opens
    <3>2. m \in Closing => Frames(u) \cap Of("Begin") # {}
      <4> SUFFICES ASSUME m \in Closing PROVE Frames(u) \cap Of("Begin") # {}
        OBVIOUS
      <4>1. Says1(u, "Begin")
        BY <2>a DEF Plays, Runs
      <4> QED BY <1>0, <4>1 DEF Says1, Of
    <3> QED BY <1>0, <3>1, <3>2, AppendOrder
  <2>b. \A type : Says1(t, type) <=> Says1(u, type) \/ m.type = type
    BY <2>0 DEF Says1
  <2>c. (\E f \in Frames(t) : f.type \in RoundFrames) <=>
          (\E f \in Frames(u) : f.type \in RoundFrames) \/ m.type \in RoundFrames
    BY <2>0
  <2>d. m.type \in RoundFrames => v.active # 0
    BY <1>2 DEF Says, LobbySays, LoadedSays, BeginSays, LiveSays, FinalSays, ResetSays, RoundFrames
  <2>2. CASE LobbySays(v, x, w, y, m)
    <3>1. Lives(w, y)
      BY <1>0, <2>2 DEF LobbySays, Alike, Lives
    <3>2. m.type \notin RoundFrames
      BY <2>2 DEF LobbySays, RoundFrames
    <3> QED BY <1>0, <2>1, <2>2, <2>b, <2>c, <3>1, <3>2 DEF LobbySays, Alike, Plays, Idles, RoundFrames
  <2>3. CASE LoadedSays(v, x, w, y, m)
    <3>1. ~Idles(v, x) /\ ~v.dirty /\ v.launch = NoChart
      BY <2>3 DEF LoadedSays, Lives, Idles
    <3>2. Lives(w, y)
      BY <2>3, <3>1 DEF LoadedSays, Alike, Lives
    <3>3. m.type = "Loaded" /\ y.at \notin Play /\ w.begin = v.begin
      BY <2>3 DEF LoadedSays, Alike, Play
    <3> QED BY <1>0, <2>1, <2>b, <2>c, <2>d, <3>1, <3>2, <3>3 DEF Plays
  <2>4. CASE BeginSays(v, x, w, y, m)
    <3>1. ~Idles(v, x) /\ ~v.dirty /\ v.launch = NoChart
      BY <2>4 DEF BeginSays, Lives, Idles
    <3>2. Lives(w, y)
      BY <2>4, <3>1 DEF BeginSays, Lives
    <3>3. m.type = "Begin" /\ w.begin = v.begin
      BY <2>4 DEF BeginSays
    <3> QED BY <1>0, <2>1, <2>b, <2>c, <2>d, <3>1, <3>2, <3>3 DEF Plays
  <2>5. CASE LiveSays(v, x, w, y, m)
    <3>1. ~Idles(v, x) /\ x.at = "playing" /\ v.launch = NoChart
      BY <2>5 DEF LiveSays, Lives, Idles
    <3>2. Lives(w, y)
      BY <2>5, <3>1 DEF LiveSays, Lives
    <3>3. m.type = "Score" /\ w.begin = v.begin /\ y.at = x.at
      BY <2>5 DEF LiveSays
    <3> QED BY <1>0, <2>1, <2>b, <2>c, <2>d, <3>1, <3>2, <3>3 DEF Plays
  <2>6. CASE FinalSays(v, x, w, y, m)
    <3>1. ~Idles(v, x) /\ v.launch = NoChart
      BY <2>6 DEF FinalSays, Lives, Idles
    <3>2. Lives(w, y)
      BY <2>6, <3>1 DEF FinalSays, Lives
    <3>3. m.type = "Score" /\ w.begin = v.begin /\ x.at \in Play /\ y.at \in Play
      BY <2>6 DEF FinalSays, Play
    <3> QED BY <1>0, <2>1, <2>b, <2>c, <2>d, <3>1, <3>2, <3>3 DEF Plays
  <2>7. CASE ResetSays(v, x, w, y, m)
    <3>1. Idles(w, y) /\ Lives(w, y)
      BY <2>7 DEF ResetSays, Lives, Idles
    <3>2. m.type = "RoundReset" /\ y.at \notin Play
      BY <2>7 DEF ResetSays, Play
    <3>3. h.active # 0 => w.active = h.active
      BY <1>0, <2>d, <3>2 DEF RoundFrames
    <3>4. Plays(h, i, w, y, t, s)
      BY <3>1, <3>2, <3>3 DEF Plays
    <3> QED BY <2>1, <3>1, <3>4
  <2> QED BY <1>2, <2>2, <2>3, <2>4, <2>5, <2>6, <2>7 DEF Says
<1> QED BY <1>1, <1>2

\* A joiner in the room reads a frame.
LEMMA ReadPlays ==
  ASSUME NEW h, NEW i, NEW v, NEW x, NEW u, NEW s, Sits(h, i, v, x, u, s), v.state = "Connected",
         Copies(h, i, v, x, u, s), Lives(v, x), Timely(v, s), Plays(h, i, v, x, u, s),
         s # <<>>, NEW w, Applied(v, Head(s), w)
  PROVE  Lives(w, x) /\ Timely(w, Tail(s)) /\ Plays(h, i, w, x, u, Tail(s))
<1> DEFINE m == Head(s)
           t == Tail(s)
<1>0. /\ s \in Seq(RelayType) /\ Awaits(v, x, s) /\ Entered(h, v, s)
      /\ h.active # 0 /\ v.active = h.active => m \notin Launches /\ m \notin Foreign(h.active)
      /\ m.type # "RoomWelcome"
  <2>1. s \in Seq(RelayType) /\ m \in Frames(s)
    BY LessToRead DEF Sits
  <2> QED BY <2>1 DEF Sits, Copies, Entered, Greets
<1>1. /\ m \in RelayType /\ m \in Frames(s) /\ Frames(s) = {m} \cup Frames(t)
      /\ 1 \in DOMAIN s /\ s[1] = m /\ 1 \in Nat
      /\ \A l \in DOMAIN t : l \in Nat \ {0} /\ l + 1 \in DOMAIN s /\ t[l] = s[l + 1]
  BY <1>0, LessToRead
<1> HIDE DEF m, t
<1>2. Says1(t, "Begin") => Says1(s, "Begin")
  BY <1>1 DEF Says1
<1>t. ASSUME NEW l \in DOMAIN t, t[l].type \in {"Begin", "Score"}
      PROVE  /\ v.active = t[l].nonce /\ v.active # 0
             /\ m.type \in Stamps => m.type = "RoomRoster" /\ m.nonce = t[l].nonce
             /\ \A k \in DOMAIN t : k < l /\ t[k].type \in Stamps =>
                  t[k].type = "RoomRoster" /\ t[k].nonce = t[l].nonce
  <2>1. l \in Nat \ {0} /\ l + 1 \in DOMAIN s /\ s[l + 1] = t[l] /\ 1 < l + 1
    BY <1>1
  <2>2. /\ v.active = s[l + 1].nonce /\ v.active # 0
        /\ \A k \in DOMAIN s : k < l + 1 /\ s[k].type \in Stamps =>
             s[k].type = "RoomRoster" /\ s[k].nonce = s[l + 1].nonce
    BY <1>t, <2>1 DEF Timely
  <2>3. ASSUME NEW k \in DOMAIN t, k < l, t[k].type \in Stamps
        PROVE  t[k].type = "RoomRoster" /\ t[k].nonce = t[l].nonce
    <3>1. k + 1 \in DOMAIN s /\ k + 1 < l + 1 /\ s[k + 1] = t[k]
      BY <1>1, <2>1, <2>3
    <3> QED BY <2>1, <2>2, <2>3, <3>1
  <2> QED BY <1>1, <2>1, <2>2, <2>3
<1>3. ASSUME w.active = v.active PROVE Timely(w, t)
  BY <1>3, <1>t DEF Timely
<1>4. CASE m.type = "RoomRoster"
  <2>1. /\ ARoster(v, m, w) /\ w.active = m.nonce
        /\ m.nonce # 0 => w.begin = v.begin /\ w.launch = v.launch /\ w.dirty = v.dirty
        /\ m.nonce = 0 => ~w.begin /\ ~w.dirty /\ w.launch = NoChart
    BY <1>4 DEF Applied, AWelcome, ARoster, ALaunch, ABegin, AScore, m, OwnPart
  <2>2. Timely(w, t)
    BY <1>4, <1>t, <2>1 DEF Timely, Stamps
  <2>3. Lives(w, x)
    BY <2>1 DEF Lives
  <2>4. h.active # 0 /\ v.active = h.active => w.active = h.active
    BY <1>0, <1>1, <1>4, <2>1 DEF Foreign
  <2>5. (Runs(h, v) => Runs(h, w)) /\ (Idles(v, x) => Idles(w, x)) /\ (w.begin => v.begin)
    BY <2>1, <2>4 DEF Runs, Idles
  <2> QED BY <1>2, <2>2, <2>3, <2>4, <2>5 DEF Plays, t
<1>5. CASE m.type = "Launch"
  <2>1. /\ w.active = m.nonce /\ ~w.begin /\ w.launch = m.chart /\ w.dirty = v.dirty
    BY <1>5 DEF Applied, AWelcome, ARoster, ALaunch, ABegin, AScore, m
  <2>2. /\ v.active = 0 /\ x.at = "lobby" /\ ~v.dirty
    BY <1>0, <1>1, <1>5 DEF Awaits, Launches, Lives
  <2>3. \A l \in DOMAIN t : t[l].type \notin {"Begin", "Score"}
    BY <1>5, <1>t DEF Stamps
  <2>4. Timely(w, t) /\ ~Says1(t, "Begin")
    BY <2>3 DEF Timely, Says1, Frames
  <2>5. Lives(w, x) /\ x.at \notin Play
    BY <2>1, <2>2 DEF Lives, Play
  <2>6. ~(h.active # 0 /\ v.active = h.active)
    BY <2>2
  <2> QED BY <2>1, <2>4, <2>5, <2>6 DEF Plays, t
<1>6. CASE m.type \in {"Begin", "Score", "Chat"}
  <2>1. /\ w.active = v.active /\ w.launch = v.launch /\ w.dirty = v.dirty
        /\ w.begin => v.begin \/ m.type = "Begin"
    BY <1>6 DEF Applied, AWelcome, ARoster, ALaunch, ABegin, AScore, OwnPart, m
  <2>2. Timely(w, t) /\ Lives(w, x)
    BY <1>3, <2>1 DEF Lives
  <2>3. w.begin => v.begin \/ Says1(s, "Begin")
    BY <1>1, <2>1 DEF Says1
  <2>4. (Runs(h, v) <=> Runs(h, w)) /\ (Idles(v, x) <=> Idles(w, x))
    BY <2>1 DEF Runs, Idles
  <2> QED BY <1>2, <2>1, <2>2, <2>3, <2>4 DEF Plays, t
<1>7. m.type \in {"RoomRoster", "Launch", "Begin", "Score", "Chat"}
  BY <1>0 DEF Applied, AWelcome, ARoster, ALaunch, ABegin, AScore, m
<1> QED BY <1>4, <1>5, <1>6, <1>7

\* A joiner is let in.
LEMMA EnterPlays ==
  ASSUME NEW h, NEW i, NEW v, NEW x, NEW u, NEW s, Sits(h, i, v, x, u, s), v.state = "Joining",
         Copies(h, i, v, x, u, s), s # <<>>, NEW w, Applied(v, Head(s), w), w.state = "Connected"
  PROVE  /\ Lives(w, x) /\ Timely(w, Tail(s)) /\ Plays(h, i, w, x, u, Tail(s))
         /\ Quiet(w, u, Tail(s))
<1> DEFINE m == Head(s)
           t == Tail(s)
<1>1. /\ s \in Seq(RelayType) /\ m \in Frames(s) /\ m \in RelayType /\ t \in Seq(RelayType)
      /\ Frames(t) \subseteq RelayType
      /\ \A A, B : NoneAfter(s, A, B) => (m \in A => Frames(t) \cap B = {})
  BY LessToRead, FramesConcat DEF Sits
<1>2. Joins(h, i, u, s) /\ Greets(i, v, s) /\ x.at = "lobby"
  BY DEF Copies, Sits, End
<1>3. ARoster(v, m, w)
  BY DEF Applied, AWelcome, ALaunch, ABegin, AScore, Table
<1>4. v.id \in m.members /\ m.type = "RoomRoster"
  BY <1>3 DEF ARoster
<1>5. m.type # "RoomWelcome"
  BY <1>4
<1>6. m \in Naming(i)
  BY <1>1, <1>2, <1>4, <1>5 DEF Greets, Naming
<1>7. m.nonce = 0 /\ Frames(t) \cap (OfMatch \cup Foreign(0)) = {}
  BY <1>1, <1>2, <1>6 DEF Joins
<1> HIDE DEF m, t
<1>8. \A f \in Frames(t) : f.type \notin {"Launch", "Begin", "Score"} /\ (f.type = "RoomRoster" => f.nonce = 0)
  BY <1>1, <1>7 DEF OfMatch, Foreign
<1>9. w.active = 0 /\ ~w.begin /\ ~w.dirty /\ w.launch = NoChart
  BY <1>3, <1>7 DEF ARoster
<1>10. Timely(w, t)
  BY <1>8 DEF Timely, Frames
<1>11. Lives(w, x) /\ Plays(h, i, w, x, u, t)
  BY <1>2, <1>8, <1>9 DEF Lives, Plays, Says1, Joins, Play
<1>12. Quiet(w, u, t)
  BY <1>2, <1>8, <1>9 DEF Quiet, Joins, RoundFrames, Stamps
<1> QED BY <1>10, <1>11, <1>12 DEF t

-----------------------------------------------------------------------------
(* The match in every step.                                                *)

\* Somebody leaves while the coordinator and another player stay.
LEMMA StaysRemoved ==
  ASSUME NEW h, NEW ord, NEW id, NEW rest \in Seq(Ids), NEW w, Removed(h, ord, id, rest, w),
         InOrder(rest) = w.members, 1 \in w.members, NEW i \in w.members, i # 1
  PROVE  Less(h, id, w) \/ (Cleared(h, w) /\ h.active # 0 /\ w.members \subseteq h.reset)
<1>1. PICK a \in DOMAIN rest, b \in DOMAIN rest : rest[a] = 1 /\ rest[b] = i
  BY DEF InOrder
<1>2. a \in 1..Len(rest) /\ b \in 1..Len(rest) /\ a # b /\ Len(rest) \in Nat
  BY <1>1, LenProperties
<1>3. ~(Len(rest) < 2)
  BY <1>2
<1> QED BY <1>3 DEF Removed

\* The coordinator's menu, game thread or sender moves.
LEMMA BidPlays ==
  ASSUME NEW h, NEW i, NEW v, NEW x, NEW u, NEW s, Sits(h, i, v, x, u, s), v.state = "Connected",
         h.id = 1, NEW a, NEW n, HostState(h, a, n), InMatch(h, a, i, v, x, u, s),
         NEW w, NEW b, Left(h, w),
         Silent(h, a, w, b) \/ \E m \in ActionType : Says(h, a, w, b, m)
  PROVE  InMatch(w, b, i, v, x, u, s)
<1>0. i # 1 /\ i \in h.members /\ w.active = h.active
  BY DEF Sits, Left, OwnCopy, SameRound
<1>1. /\ h.begun => w.begun
      /\ w.begun => h.begun \/ (h.active # 0 /\ AllLoaded(h))
      /\ w.loaded \subseteq h.loaded \cup {1} /\ w.reset \subseteq h.reset \cup {1}
  BY DEF Silent, Says, LobbySays, LoadedSays, BeginSays, LiveSays, FinalSays, ResetSays, Alike
<1>2. h.active # 0 /\ w.begun => h.begun \/ v.active = h.active
  BY <1>0, <1>1 DEF AllLoaded, InMatch, Plays
<1>3. Plays(w, i, v, x, u, s)
  <2>1. Plays(h, i, v, x, u, s)
    BY DEF InMatch
  <2>2. i \in w.loaded => i \in h.loaded
    BY <1>0, <1>1
  <2>3. i \in w.reset => i \in h.reset
    BY <1>0, <1>1
  <2> QED BY <1>0, <1>1, <1>2, <2>1, <2>2, <2>3, MovePlays
<1>4. h.active = 0 /\ b.at \in Play => a.at \in Play
  <2> SUFFICES ASSUME h.active = 0, b.at \in Play PROVE a.at \in Play
    OBVIOUS
  <2>1. ~h.begin
    BY DEF HostState
  <2> QED BY <2>1 DEF Silent, Says, LobbySays, LoadedSays, BeginSays, LiveSays, FinalSays, ResetSays, Play
<1> QED BY <1>0, <1>3, <1>4 DEF InMatch

\* The frames that go out between two rounds are of no round.
LEMMA QuietMore ==
  ASSUME NEW v, NEW u, NEW s \in Seq(RelayType), Quiet(v, u, s), NEW out \in Seq(RelayType),
         \A f \in Frames(out) : f.type \in Stamps => f.nonce = 0,
         NEW t, Frames(t) \subseteq Frames(u)
  PROVE  Quiet(v, t, s \o out)
<1>1. Frames(s \o out) = Frames(s) \cup Frames(out)
  BY FramesConcat
<1> QED BY <1>1 DEF Quiet

\* The coordinator accepts a frame m of player j.
LEMMA HandledMatch ==
  ASSUME NEW h, NEW i, NEW v, NEW x, NEW u, NEW s, Sits(h, i, v, x, u, s), v.state = "Connected",
         Copies(h, i, v, x, u, s), Wire(h, i, u),
         NEW a, NEW n, HostState(h, a, n), InMatch(h, a, i, v, x, u, s),
         NEW ord, NEW j \in Ids, NEW m \in ActionType, NEW w \in ViewType,
         NEW out \in Seq(RelayType), Handled(h, ord, j, m, w, out),
         m.type \in RoundFrames => m.nonce # 0, j = i => m \in Frames(u),
         m.type = "Score" /\ m.nonce = h.active => h.begun,
         j = 1 /\ m.type = "RoundReset" /\ m.nonce = h.active => 1 \in h.reset,
         NEW t, Frames(t) \subseteq Frames(u), Frames(u) \subseteq Frames(t) \cup {m},
         j # i => Frames(t) = Frames(u)
  PROVE  InMatch(w, a, i, v, x, t, s \o out)
<1>0. s \in Seq(RelayType) /\ 1 \in h.members
  BY DEF Sits
<1>1. Plays(h, i, v, x, u, s) /\ Lives(v, x) /\ Timely(v, s) /\ Entered(h, v, s)
  BY DEF InMatch, Copies
<1>2. Plays(w, i, v, x, t, s)
  BY <1>1, HandledPlays
<1>3. Timely(v, s \o out) /\ Plays(w, i, v, x, t, s \o out)
  BY <1>1, <1>2, HandledTells
<1>4. ASSUME w.active = 0, a.at \in Play PROVE Quiet(v, t, s \o out)
  <2>1. h.active = 0
    <3> SUFFICES ASSUME h.active # 0 PROVE FALSE
      OBVIOUS
    <3>1. h.begun /\ 1 \notin h.reset
      BY <1>4 DEF HostState, Play
    <3>2. HCloses(h, ord, j, m, w, out)
      BY <1>4 DEF Handled, HTalks, HRenews, HLoads, HBegins, HScores, HResets, HLaunches, Round
    <3> QED BY <1>0, <3>1, <3>2 DEF HCloses
  <2>2. \A f \in Frames(out) : f.type \in Stamps => f.nonce = 0
    <3>1. \/ out = <<>>
          \/ out = <<RosterMsg(w)>>
          \/ m.type \in {"Chat", "Begin", "Score"} /\ out = <<From(j, m)>>
      BY <1>4 DEF Handled, HTalks, HRenews, HLoads, HBegins, HScores, HResets, HLaunches, HCloses
    <3>2. m.type \in {"Chat", "Begin", "Score"} => From(j, m).type \notin Stamps
      BY ActionFields DEF From, Stamps
    <3>3. RosterMsg(w).nonce = 0
      BY <1>4 DEF RosterMsg
    <3> QED BY <3>1, <3>2, <3>3, FramesFew
  <2> QED BY <1>0, <1>4, <2>1, <2>2, QuietMore DEF InMatch
<1> QED BY <1>1, <1>3, <1>4 DEF InMatch

\* Another player comes or goes.
LEMMA RosterMatch ==
  ASSUME NEW h, NEW i, NEW v, NEW x, NEW u, NEW s, Sits(h, i, v, x, u, s), v.state = "Connected",
         NEW a, NEW n, HostState(h, a, n), InMatch(h, a, i, v, x, u, s),
         NEW w, RosterMsg(w) \in RelayType, i \in w.members, 1 \in w.members,
         \/ \E f : Wider(h, w, f)
         \/ \E id : Less(h, id, w)
         \/ Cleared(h, w) /\ h.active # 0 /\ w.members \subseteq h.reset
  PROVE  InMatch(w, a, i, v, x, u, s \o <<RosterMsg(w)>>)
<1> DEFINE r == RosterMsg(w)
           t == <<r>>
<1>0. /\ s \in Seq(RelayType) /\ i # 1 /\ Lives(v, x) /\ Timely(v, s) /\ Plays(h, i, v, x, u, s)
      /\ t \in Seq(RelayType) /\ r.type = "RoomRoster" /\ r.nonce = w.active
      /\ h.active = 0 /\ a.at \in Play => Quiet(v, u, s)
  BY DEF Sits, InMatch, RosterMsg
<1> HIDE DEF r
<1>f. Frames(t) = {r}
  BY FramesFew
<1>1. Plays(w, i, v, x, u, s)
  <2>1. CASE \E f : Wider(h, w, f)
    <3>1. w.active = h.active /\ w.begun = h.begun /\ w.loaded = h.loaded /\ w.reset = h.reset
      BY <2>1 DEF Wider, Round, OwnPart
    <3> QED BY <1>0, <3>1, MovePlays
  <2>2. CASE \E id : Less(h, id, w)
    <3>1. /\ w.active = h.active /\ w.begun = h.begun
          /\ w.loaded \subseteq h.loaded /\ w.reset \subseteq h.reset
      BY <2>2 DEF Less, OwnPart
    <3> QED BY <1>0, <3>1, MovePlays
  <2>3. CASE Cleared(h, w) /\ h.active # 0 /\ w.members \subseteq h.reset
    <3>1. w.active = 0 /\ Idles(v, x)
      BY <1>0, <2>3 DEF Cleared, Plays
    <3> QED BY <1>0, <3>1, MovePlays
  <2> QED BY <2>1, <2>2, <2>3
<1> HIDE DEF t
<1>2. Timely(v, s \o t)
  BY <1>0, <1>f, TimelyMore
<1>3. Plays(w, i, v, x, u, s \o t)
  BY <1>0, <1>1, <1>f, MorePlays DEF Says1
<1>4. ASSUME w.active = 0, a.at \in Play PROVE Quiet(v, u, s \o t)
  <2>1. h.active = 0
    <3>1. h.active # 0 => 1 \notin h.reset
      BY <1>4 DEF HostState, Play
    <3> QED BY <1>4, <3>1 DEF Wider, Round, Less
  <2> QED BY <1>0, <1>4, <1>f, <2>1, QuietMore
<1>5. InMatch(w, a, i, v, x, u, s \o t)
  BY <1>0, <1>2, <1>3, <1>4 DEF InMatch
<1> QED BY <1>5 DEF t, r

\* The coordinator's own calls while it accepts a frame m of player j.
LEMMA HandledHostOpens ==
  ASSUME NEW h \in ViewType, NEW F, F \subseteq ActionType, HostOpens(h, F), NEW a, NEW n,
         HostState(h, a, n), HostQueue(h, a, F),
         NEW ord, NEW j, NEW m \in ActionType, LaunchFrames(h, {m}, n), NEW w, NEW out,
         Handled(h, ord, j, m, w, out)
  PROVE  HostOpens(w, F)
<1> SUFFICES ASSUME w.active # 0, NEW f \in F, f.type = "Score", f.nonce = w.active PROVE w.begun
  BY DEF HostOpens
<1>2. CASE HLaunches(h, j, m, w, out)
  <2>1. h.active = 0 /\ w.active = m.nonce /\ m.type = "Launch" /\ m.rev = h.rev
    BY <1>2 DEF HLaunches
  <2>2. h.closed < m.nonce
    BY <2>1 DEF LaunchFrames
  <2>3. f.nonce <= h.closed
    BY <2>1 DEF HostQueue, RoundFrames
  <2>4. h.closed \in Nat /\ m.nonce \in Nat /\ f.nonce \in Nat
    <3>1. f \in ActionType
      OBVIOUS
    <3> QED BY <2>1, <3>1, ViewFields, ActionFields
  <2> QED BY <2>1, <2>2, <2>3, <2>4
<1>3. CASE ~HLaunches(h, j, m, w, out)
  <2>1. w.active = h.active /\ (h.begun => w.begun)
    BY <1>3 DEF Handled, HTalks, HRenews, HLoads, HBegins, HScores, HResets, HCloses, Round, OwnPart,
                Cleared
  <2> QED BY <2>1 DEF HostOpens
<1> QED BY <1>2, <1>3

\* Fewer of its calls, or calls that are no score of a round that has not begun.
LEMMA HostOpensFew ==
  ASSUME NEW h, NEW F, HostOpens(h, F), NEW w, NEW G,
         w.active # 0 => w.active = h.active /\ (h.begun => w.begun),
         \A m \in G : m \in F \/ m.type # "Score" \/ w.begun
  PROVE  HostOpens(w, G)
BY DEF HostOpens

\* The coordinator's calls in every step.
LEMMA StepHostOpens ==
  ASSUME RoomInv, RoundInv, Ends, HostInv, Shape, view'[Host].state # "Off",
         view[Host].state # "Off" => HostOpens(view[Host], Frames(controls))
  PROVE  HostOpens(view'[Host], Frames(controls)')
<1> DEFINE h == view[Host]
           F == Frames(controls)
<1>0. /\ h \in ViewType /\ controls \in Seq(ActionType) /\ F \subseteq ActionType
      /\ \A c \in Joiners : up[c] \in Seq(ActionType)
      /\ controls # <<>> => Frames(Tail(controls)) \subseteq F
  <2>1. \A q \in Seq(ActionType) : Frames(q) \subseteq ActionType
    BY FramesConcat
  <2> QED BY <2>1, Shapely, FramesTail
<1>1. CASE HostMoves
  <2>1. PICK w \in ViewType, y \in UiType :
          /\ h.state # "Off" /\ view'[Host] = w /\ Left(h, w)
          /\ \/ Silent(h, ui[Host], w, y) /\ controls' = controls
             \/ \E m \in ActionType :
                  Says(h, ui[Host], w, y, m) /\ controls' = Append(controls, m)
    BY <1>1 DEF HostMoves
  <2>2. w.active = h.active /\ HostOpens(h, F) /\ HostState(h, ui[Host], rounds)
    BY <2>1 DEF Left, OwnCopy, SameRound, HostInv
  <2>3. CASE Silent(h, ui[Host], w, y) /\ controls' = controls
    <3>1. w.begun = h.begun
      BY <2>3 DEF Silent, Alike
    <3> QED BY <2>1, <2>2, <2>3, <3>1, HostOpensFew
  <2>4. ASSUME NEW m \in ActionType, Says(h, ui[Host], w, y, m), controls' = Append(controls, m)
        PROVE  HostOpens(view'[Host], Frames(controls)')
    <3>1. Frames(controls)' = F \cup {m}
      BY <1>0, <2>4, FramesAppend
    <3>2. h.begun => w.begun
      BY <2>4 DEF Says, LobbySays, LoadedSays, BeginSays, LiveSays, FinalSays, ResetSays, Alike
    <3>3. m.type = "Score" => h.begun
      BY <2>2, <2>4 DEF HostState, Play, Says, LobbySays, LoadedSays, BeginSays, LiveSays, FinalSays,
                        ResetSays
    <3> QED BY <2>1, <2>2, <3>1, <3>2, <3>3, HostOpensFew
  <2> QED BY <2>1, <2>3, <2>4
<1>2. CASE HostStill /\ Frames(controls') \subseteq F
  BY <1>2, HostOpensFew DEF HostStill
<1>3. CASE \/ \E c \in Joiners : JoinerMoves(c)
           \/ \E c \in Joiners : JoinerTurns(c)
           \/ Flushes
  BY <1>2, <1>3 DEF JoinerMoves, JoinerTurns, Flushes
<1>4. CASE Passes
  BY <1>0, <1>2, <1>4 DEF Passes, HostStill
<1>5. CASE Minds
  <2>1. PICK w \in ViewType, out \in Seq(RelayType) :
          /\ h.state # "Off" /\ controls # <<>> /\ controls' = Tail(controls)
          /\ Handled(h, order, 1, Head(controls), w, out) /\ view'[Host] = w
    BY <1>5 DEF Minds
  <2>2. Head(controls) \in F /\ Head(controls) \in ActionType
    BY <1>0, <2>1, FramesTail
  <2>3. /\ HostState(h, ui[Host], rounds) /\ HostQueue(h, ui[Host], F)
        /\ LaunchFrames(h, {Head(controls)}, rounds)
    BY <2>1, <2>2 DEF HostInv, LaunchFrames
  <2>4. HostOpens(w, F)
    BY <1>0, <2>1, <2>2, <2>3, HandledHostOpens
  <2> QED BY <1>0, <2>1, <2>4, HostOpensFew
<1>6. ASSUME NEW c \in Joiners, Hears(c) PROVE HostOpens(view'[Host], Frames(controls)')
  <2>1. PICK w \in ViewType, out \in Seq(RelayType) :
          /\ h.state # "Off" /\ link[c] = "up" /\ up[c] # <<>> /\ controls' = controls
          /\ Handled(h, order, seat[c], Head(up[c]), w, out) /\ view'[Host] = w
    BY <1>6 DEF Hears
  <2>2. Head(up[c]) \in Frames(up[c]) /\ Head(up[c]) \in ActionType
    BY <1>0, <2>1, FramesTail
  <2>3. /\ HostState(h, ui[Host], rounds) /\ HostQueue(h, ui[Host], F)
        /\ LaunchFrames(h, {Head(up[c])}, rounds)
    BY <2>1, <2>2 DEF HostInv, LaunchFrames
  <2>4. HostOpens(w, F)
    BY <1>0, <2>1, <2>2, <2>3, HandledHostOpens
  <2> QED BY <2>1, <2>4
<1>7. CASE Closes
  BY <1>7 DEF Closes, OffView, FreshView
<1>8. ASSUME NEW c \in Joiners, Seats(c) \/ Parts(c) PROVE HostOpens(view'[Host], Frames(controls)')
  <2>1. /\ h.state # "Off" /\ controls' = controls
        /\ view'[Host].active # 0 => view'[Host].active = h.active /\ view'[Host].begun = h.begun
    BY <1>8 DEF Seats, Parts, Removed, Less, Cleared, Round, OwnPart
  <2> QED BY <2>1, HostOpensFew
<1> QED BY <1>1, <1>3, <1>4, <1>5, <1>6, <1>7, <1>8 DEF Shape

\* A score that the coordinator accepts is of a round that has begun.
LEMMA ScoresBegun ==
  ASSUME RoomInv, PlayInv, view[Host].state # "Off", view[Host].active # 0,
         NEW m, \/ controls # <<>> /\ m = Head(controls)
                \/ \E d \in Joiners : link[d] = "up" /\ up[d] # <<>> /\ m = Head(up[d]),
         m.type = "Score" /\ m.nonce = view[Host].active
  PROVE  view[Host].begun
<1>1. controls \in Seq(ActionType) /\ \A d \in Joiners : up[d] \in Seq(ActionType)
  BY Shapely
<1>2. CASE controls # <<>> /\ m = Head(controls)
  <2>1. m \in Frames(controls)
    BY <1>1, <1>2, FramesTail
  <2> QED BY <2>1 DEF PlayInv, HostOpens
<1>3. ASSUME NEW d \in Joiners, link[d] = "up", up[d] # <<>>, m = Head(up[d]), ~view[Host].begun
      PROVE  FALSE
  <2>1. LedBy(up[d], Of("Begin"), Closing)
    BY <1>3 DEF PlayInv, Opens
  <2>2. m \notin Closing /\ m \in ActionType
    BY <1>1, <1>3, <2>1, TailOrder, FramesTail
  <2> QED BY <2>2 DEF Closing
<1> QED BY <1>2, <1>3

\* The match in every step.
LEMMA StepPlay ==
  ASSUME RoomInv, RoundInv, Ends, HostInv, WireInv, CopyInv, PlayInv, RoomInv', Shape
  PROVE  PlayInv'
<1>0. view'[Host].state # "Off" => HostOpens(view'[Host], Frames(controls)')
  BY StepHostOpens DEF PlayInv
<1> SUFFICES ASSUME NEW c \in Joiners, link'[c] = "up", view'[Host].state # "Off"
             PROVE  /\ Opens(view'[Host], up'[c])
                    /\ view'[c].state = "Connected" =>
                         InMatch(view'[Host], ui'[Host], seat'[c], view'[c], ui'[c], up'[c], Coming(c)')
  BY <1>0 DEF PlayInv
<1> DEFINE h == view[Host]
           a == ui[Host]
           v == view[c]
           x == ui[c]
           i == seat[c]
           u == up[c]
           s == Coming(c)
           Goal == InMatch(view'[Host], ui'[Host], seat'[c], view'[c], ui'[c], up'[c], Coming(c)')
<1>1. Sees(c)
  BY SeesStep
<1>2. ASSUME link[c] = "up"
      PROVE  /\ Opens(h, u) /\ Wire(h, i, u) /\ HostState(h, a, rounds) /\ HostOpens(h, Frames(controls))
             /\ HostQueue(h, a, Frames(controls))
             /\ h.id = 1 /\ i \in h.members /\ i \in Ids \ {1} /\ u \in Seq(ActionType)
             /\ h \in ViewType /\ h.state # "Off" /\ v \in ViewType
  <2>1. h.state # "Off"
    BY <1>2, SeatedFacts
  <2> QED BY <1>2, <2>1, SeatedFacts DEF PlayInv, WireInv, HostInv
<1>3. ASSUME link[c] = "up", v.state # "Off"
      PROVE  Sits(h, i, v, x, u, s) /\ Copies(h, i, v, x, u, s)
  BY <1>2, <1>3, SeatedSits DEF CopyInv
<1>4. ASSUME link[c] = "up", v.state = "Connected"
      PROVE  /\ InMatch(h, a, i, v, x, u, s) /\ Plays(h, i, v, x, u, s) /\ Lives(v, x) /\ Timely(v, s)
             /\ (h.active = 0 /\ a.at \in Play => Quiet(v, u, s))
  BY <1>2, <1>4 DEF PlayInv, InMatch
<1>f. ASSUME h.state # "Off",
             NEW m, \/ controls # <<>> /\ m = Head(controls)
                    \/ \E d \in Joiners : link[d] = "up" /\ up[d] # <<>> /\ m = Head(up[d])
      PROVE  /\ m.type \in RoundFrames => m.nonce # 0
             /\ m.type = "Score" /\ m.nonce = h.active => h.begun
  <2>1. m.type \in RoundFrames => m.nonce # 0
    BY <1>f, NoncesThere
  <2>2. m.type = "Score" /\ m.nonce = h.active => h.active # 0
    BY <2>1 DEF RoundFrames
  <2> QED BY <1>f, <2>1, <2>2, ScoresBegun
<1> HIDE DEF h, a, v, x, i, u, s
<1>u. Unmoved(c) => /\ link[c] = "up" /\ seat'[c] = i /\ view'[c] = v /\ ui'[c] = x /\ up'[c] = u
  BY DEF Unmoved, v, x, i, u
<1>s. \A t : Sends(c, t) /\ v.state # "Off" => Coming(c)' = s \o t
  BY DEF Sends, v, s
<1>q. Hushed(c) /\ v.state # "Off" => Coming(c)' = s
  BY DEF Hushed, v, s
<1>5. CASE Rests(c)
  <2>1. view'[Host] = h /\ ui'[Host] = a /\ Unmoved(c) /\ Hushed(c)
    BY <1>5 DEF Rests, HostStill, h, a
  <2> QED BY <1>2, <1>4, <1>u, <1>q, <2>1
<1>6. CASE Bids(c)
  <2>1. PICK w \in ViewType, y \in UiType :
          /\ view'[Host] = w /\ ui'[Host] = y /\ Left(h, w) /\ Unmoved(c) /\ Hushed(c)
          /\ Silent(h, a, w, y) \/ \E m \in ActionType : Says(h, a, w, y, m)
    BY <1>6 DEF Bids, h, a
  <2>2. w.active = h.active /\ (h.begun => w.begun)
    BY <2>1 DEF Left, OwnCopy, SameRound, Silent, Says, LobbySays, LoadedSays, BeginSays, LiveSays,
                FinalSays, ResetSays, Alike
  <2>3. Opens(w, u)
    BY <1>2, <1>u, <2>1, <2>2 DEF Opens
  <2>4. v.state = "Connected" => InMatch(w, y, i, v, x, u, s)
    BY <1>2, <1>3, <1>4, <1>u, <2>1, BidPlays
  <2> QED BY <1>u, <1>q, <2>1, <2>3, <2>4
<1>7. CASE Talks(c)
  <2>1. PICK w \in ViewType, y \in UiType :
          /\ HostStill /\ Hushed(c) /\ link[c] = "up" /\ seat'[c] = i /\ v.state = "Connected"
          /\ view'[c] = w /\ ui'[c] = y /\ Left(v, w)
          /\ \/ Silent(v, x, w, y) /\ up'[c] = u
             \/ \E m \in ActionType : Says(v, x, w, y, m) /\ up'[c] = Append(u, m)
    BY <1>7 DEF Talks, i, v, x, u
  <2>2. view'[Host] = h /\ ui'[Host] = a
    BY <2>1 DEF HostStill, h, a
  <2>3. Lives(w, y) /\ Plays(h, i, w, y, up'[c], s) /\ Opens(h, up'[c])
    BY <1>2, <1>3, <1>4, <2>1, TalkPlays
  <2>4. w.active = v.active
    BY <2>1 DEF Left, OwnCopy, SameRound
  <2>5. Timely(w, s)
    BY <1>4, <2>1, <2>4 DEF Timely
  <2>6. ASSUME Quiet(v, u, s) PROVE Quiet(w, up'[c], s)
    <3>1. ASSUME NEW m \in ActionType, Says(v, x, w, y, m), up'[c] = Append(u, m)
          PROVE  m.type \notin RoundFrames /\ Frames(up'[c]) = Frames(u) \cup {m}
      <4>1. m.type \notin RoundFrames
        BY <2>6, <3>1 DEF Quiet, Says, LobbySays, LoadedSays, BeginSays, LiveSays, FinalSays, ResetSays,
                          RoundFrames
      <4> QED BY <1>2, <2>1, <3>1, <4>1, FramesAppend
    <3> QED BY <2>1, <2>4, <2>6, <3>1 DEF Quiet
  <2> QED BY <1>4, <1>q, <2>1, <2>2, <2>3, <2>5, <2>6 DEF InMatch
<1>8. CASE Quits(c)
  <2>1. PICK k \in 0..Len(u) : /\ view'[Host] = h /\ link[c] = "up" /\ view'[c].state # "Connected"
                               /\ up'[c] = Append(SubSeq(u, 1, k), Bye)
    BY <1>8 DEF Quits, HostStill, OffView, FreshView, h, u
  <2>2. Bye \in ActionType /\ Bye \notin Closing
    BY DEF Bye, ActionType, Closing
  <2>3. LedBy(u, Of("Begin"), Closing) => LedBy(Append(SubSeq(u, 1, k), Bye), Of("Begin"), Closing)
    BY <1>2, <2>1, <2>2, PrefixOrder
  <2> QED BY <1>2, <2>1, <2>3 DEF Opens
<1>9. CASE Reads(c)
  <2>1. /\ view'[Host] = h /\ ui'[Host] = a /\ link[c] = "up" /\ v.state # "Off" /\ seat'[c] = i
        /\ ui'[c] = x /\ up'[c] = u /\ s # <<>> /\ Head(s).type # "Disconnect"
        /\ view'[c] = Apply(v, Head(s)) /\ Coming(c)' = Tail(s)
    BY <1>9 DEF Reads, HostStill, h, a, i, v, x, u, s
  <2> DEFINE w == Apply(v, Head(s))
  <2>2. Applied(v, Head(s), w) /\ s \in Seq(RelayType)
    <3>1. s \in Seq(RelayType)
      BY <1>3, <2>1 DEF Sits
    <3>2. Head(s) \in RelayType
      BY <2>1, <3>1, LessToRead
    <3> QED BY <1>2, <2>1, <3>1, <3>2, ApplyKinds
  <2> HIDE DEF w
  <2>3. ASSUME v.state = "Joining", w.state = "Connected" PROVE InMatch(h, a, i, w, x, u, Tail(s))
    BY <1>3, <2>1, <2>2, <2>3, EnterPlays DEF InMatch
  <2>4. ASSUME v.state = "Connected" PROVE InMatch(h, a, i, w, x, u, Tail(s))
    <3>1. Lives(w, x) /\ Timely(w, Tail(s)) /\ Plays(h, i, w, x, u, Tail(s))
      BY <1>3, <1>4, <2>1, <2>2, <2>4, ReadPlays
    <3>2. ASSUME Quiet(v, u, s) PROVE Quiet(w, u, Tail(s))
      <4>1. Frames(Tail(s)) \subseteq Frames(s) /\ Head(s) \in Frames(s)
        BY <2>1, <2>2, FramesTail
      <4>2. w.active = v.active \/ (w.active = Head(s).nonce /\ Head(s).type \in Stamps)
        BY <2>2, <2>4 DEF Applied, AWelcome, ARoster, ALaunch, ABegin, AScore, Stamps
      <4> QED BY <3>2, <4>1, <4>2 DEF Quiet
    <3> QED BY <1>4, <2>1, <2>4, <3>1, <3>2 DEF InMatch
  <2>5. v.state \in {"Joining", "Connected"}
    BY <1>3, <2>1 DEF Sits
  <2> QED BY <1>2, <2>1, <2>3, <2>4, <2>5 DEF w
<1>10. ASSUME NEW j \in Ids, NEW m \in ActionType, NEW w \in ViewType, NEW out \in Seq(RelayType),
              Minded(c, j, m, w, out)
       PROVE  Opens(view'[Host], up'[c]) /\ (view'[c].state = "Connected" => Goal)
  <2>1. /\ h.state # "Off" /\ Unmoved(c) /\ j # i /\ Handled(h, order, j, m, w, out)
        /\ view'[Host] = w /\ ui'[Host] = a /\ Sends(c, out)
    BY <1>10 DEF Minded, h, i, a
  <2>2. /\ m.type \in RoundFrames => m.nonce # 0
        /\ m.type = "Score" /\ m.nonce = h.active => h.begun
    BY <1>10, <1>f, <2>1 DEF Minded
  <2>3. j = 1 /\ m.type = "RoundReset" /\ m.nonce = h.active => 1 \in h.reset
    <3> SUFFICES ASSUME j = 1, m.type = "RoundReset", m.nonce = h.active PROVE 1 \in h.reset
      OBVIOUS
    <3>1. \A d \in Joiners : link[d] = "up" => seat[d] # 1
      BY SeatedFacts
    <3>2. controls # <<>> /\ m = Head(controls) /\ controls \in Seq(ActionType)
      BY <1>10, <3>1, Shapely DEF Minded
    <3>3. m \in Frames(controls)
      BY <3>2, FramesTail
    <3> QED BY <1>2, <1>u, <2>1, <3>3 DEF HostQueue
  <2>4. Opens(w, u)
    BY <1>2, <1>u, <2>1, HandledOpens
  <2>5. v.state = "Connected" => InMatch(w, a, i, v, x, u, s \o out)
    BY <1>2, <1>3, <1>4, <1>u, <2>1, <2>2, <2>3, HandledMatch
  <2> QED BY <1>u, <1>s, <2>1, <2>4, <2>5
<1>11. ASSUME NEW w \in ViewType, NEW out \in Seq(RelayType), Heeded(c, w, out)
       PROVE  Opens(view'[Host], up'[c]) /\ (view'[c].state = "Connected" => Goal)
  <2> DEFINE m == Head(u)
  <2>1. /\ h.state # "Off" /\ link[c] = "up" /\ u # <<>> /\ up'[c] = Tail(u) /\ seat'[c] = i
        /\ view'[c] = v /\ ui'[c] = x /\ Handled(h, order, i, m, w, out)
        /\ view'[Host] = w /\ ui'[Host] = a /\ Sends(c, out)
    BY <1>11 DEF Heeded, h, a, i, v, x, u
  <2>2. /\ m.type \in RoundFrames => m.nonce # 0
        /\ m.type = "Score" /\ m.nonce = h.active => h.begun
    BY <1>f, <2>1 DEF u
  <2>3. /\ m \in Frames(u) /\ m \in ActionType /\ Frames(Tail(u)) \subseteq Frames(u)
        /\ Frames(u) = {m} \cup Frames(Tail(u))
    BY <1>2, <2>1, FramesTail
  <2> HIDE DEF m
  <2>4. Opens(w, Tail(u))
    BY <1>2, <2>1, <2>3, HandledOpens DEF m
  <2>5. v.state = "Connected" => InMatch(w, a, i, v, x, Tail(u), s \o out)
    BY <1>2, <1>3, <1>4, <2>1, <2>2, <2>3, HandledMatch
  <2> QED BY <1>s, <2>1, <2>4, <2>5
<1>12. CASE Widens(c)
  <2>1. PICK w \in ViewType, f \in Ids \ {1} :
          Wider(h, w, f) /\ Unmoved(c) /\ view'[Host] = w /\ ui'[Host] = a /\ Sends(c, <<RosterMsg(w)>>)
    BY <1>12 DEF Widens, h, a
  <2>2. w.active = 0 /\ RosterMsg(w) \in RelayType /\ h.members \subseteq w.members
    BY <2>1 DEF Wider, Round
  <2>3. v.state = "Connected" => InMatch(w, a, i, v, x, u, s \o <<RosterMsg(w)>>)
    <3>1. link[c] = "up" /\ (v.state = "Connected" => Sits(h, i, v, x, u, s))
      BY <1>3, <1>u, <2>1
    <3>2. v.state = "Connected" => 1 \in w.members /\ i \in w.members
      BY <2>2, <3>1 DEF Sits
    <3> QED BY <1>2, <1>4, <2>1, <2>2, <3>1, <3>2, RosterMatch
  <2> QED BY <1>u, <1>s, <2>1, <2>2, <2>3 DEF Opens
<1>13. CASE Arrives(c)
  <2>1. PICK w \in ViewType, f \in Ids \ {1} :
          h.state # "Off" /\ link[c] = "greeting" /\ Wider(h, w, f) /\ view'[Host] = w /\ view'[c] = v
    BY <1>13 DEF Arrives, h, v
  <2>2. v.state # "Connected"
    <3>1. Joined(h, link[c], i, v, u, down[c], broadcasts, vote[c])
      BY <2>1 DEF RoundInv, h, i, v, u
    <3> QED BY <2>1, <3>1 DEF Joined, Waits
  <2> QED BY <2>1, <2>2 DEF Opens, Wider, Round
<1>14. CASE Narrows(c)
  <2>1. PICK w \in ViewType, id \in h.members \ {1} :
          /\ Removed(h, order, id, order', w) /\ Unmoved(c) /\ view'[Host] = w /\ ui'[Host] = a
          /\ i \in w.members /\ RosterMsg(w) \in RelayType /\ Sends(c, <<RosterMsg(w)>>)
    BY <1>14 DEF Narrows, h, a, i
  <2>2. 1 \in h.members /\ w.members = h.members \ {id} /\ 1 \in w.members
    <3>1. 1 \in h.members
      BY <1>u, <2>1, SeatedFacts DEF h
    <3> QED BY <2>1, <3>1 DEF Removed
  <2>3. order' \in Seq(Ids) /\ InOrder(order') = w.members
    BY <2>1 DEF RoomInv, SeatInv, Seating
  <2>4. Less(h, id, w) \/ (Cleared(h, w) /\ h.active # 0 /\ w.members \subseteq h.reset)
    BY <1>2, <1>u, <2>1, <2>2, <2>3, StaysRemoved
  <2>5. v.state = "Connected" => InMatch(w, a, i, v, x, u, s \o <<RosterMsg(w)>>)
    BY <1>2, <1>3, <1>4, <1>u, <2>1, <2>2, <2>4, RosterMatch
  <2>6. Opens(w, u)
    BY <1>2, <1>u, <2>1, <2>4 DEF Opens, Less, Cleared, OwnPart
  <2> QED BY <1>u, <1>s, <2>1, <2>5, <2>6
<1> QED BY <1>1, <1>5, <1>6, <1>7, <1>8, <1>9, <1>10, <1>11, <1>12, <1>13, <1>14 DEF Sees

\* Nobody plays at the start.
LEMMA InitPlay == Init => PlayInv
<1> SUFFICES ASSUME Init PROVE PlayInv
  OBVIOUS
<1>1. view[Host] = HostView /\ controls = <<>> /\ \A c \in Joiners : link[c] = "none"
  BY DEF Init, Procs
<1>2. HostView.active = 0
  BY DEF HostView, FreshView
<1> QED BY <1>1, <1>2 DEF PlayInv, HostOpens

\* Joiners and coordinator in every behaviour.
LEMMA PlayAlways ==
  Spec => [](RoomInv /\ RoundInv /\ Ends /\ HostInv /\ WireInv /\ CopyInv /\ PlayInv)
<1> DEFINE Inv == RoomInv /\ RoundInv /\ Ends /\ HostInv /\ WireInv /\ CopyInv /\ PlayInv
<1>1. Init => Inv
  BY InitRoom, InitRound, InitEnds, InitHost, InitCopy, InitPlay
<1>2. Inv /\ [Next]_vars => Inv'
  <2> SUFFICES ASSUME Inv, [Next]_vars PROVE Inv'
    OBVIOUS
  <2>1. RoomInv' /\ RoundInv' /\ Ends' /\ HostInv'
    BY StepRoom, StepRound, StepEnds, StepHost
  <2>2. Shape
    BY Shapes
  <2>3. WireInv' /\ CopyInv'
    BY <2>1, <2>2, StepWire, StepCopy
  <2>4. PlayInv'
    BY <2>1, <2>2, StepPlay
  <2> QED BY <2>1, <2>3, <2>4
<1> HIDE DEF Inv
<1>3. Spec => []Inv
  BY <1>1, <1>2, PTL DEF Spec
<1> QED BY <1>3 DEF Inv

\* The round outlives its players: as long as somebody plays it or looks at
\* its result, the coordinator neither closes it nor starts another one.
THEOREM RoundOutlives == Spec => []RoundOutlivesPlay
<1>1. RoomInv /\ RoundInv /\ Ends /\ PlayInv => RoundOutlivesPlay
  <2> SUFFICES ASSUME RoomInv, RoundInv, Ends, PlayInv, NEW p \in Procs, InPlay(p), Online(p),
                      p = Host => \E c \in Joiners : InPlay(c)
               PROVE  \/ view[Host].active # 0 /\ view[p].active = view[Host].active
                      \/ p # Host /\ \E k \in DOMAIN up[p] : up[p][k].type = "Begin"
    BY DEF RoundOutlivesPlay
  <2> DEFINE h == view[Host]
  <2>1. ASSUME NEW c \in Joiners, InPlay(c)
        PROVE  /\ InMatch(h, ui[Host], seat[c], view[c], ui[c], up[c], Coming(c))
               /\ ui[c].at \in Play /\ h.state # "Off"
    <3>1. link[c] = "up" /\ ui[c].at \in Play
      BY <2>1, Shapely DEF InPlay, Seated, Play
    <3>2. view[c].state = "Connected"
      BY <3>1 DEF Ends, End, Play
    <3> QED BY <3>1, <3>2, SeatedFacts DEF PlayInv
  <2>2. CASE p # Host
    <3>1. p \in Joiners
      BY <2>2, Shapely
    <3>2. Plays(h, seat[p], view[p], ui[p], up[p], Coming(p)) /\ ui[p].at \in Play
      BY <2>1, <3>1 DEF InMatch
    <3>3. Runs(h, view[p]) \/ Says1(up[p], "Begin")
      BY <3>2 DEF Plays
    <3> QED BY <2>2, <3>3 DEF Runs, Says1, Frames
  <2>3. CASE p = Host
    <3>1. PICK c \in Joiners : InPlay(c)
      BY <2>3
    <3>2. InMatch(h, ui[Host], seat[c], view[c], ui[c], up[c], Coming(c)) /\ ui[c].at \in Play
      BY <2>1, <3>1
    <3>3. Runs(h, view[c]) \/ Says1(up[c], "Begin")
      BY <3>2 DEF InMatch, Plays
    <3>4. h.active = 0 => Quiet(view[c], up[c], Coming(c))
      BY <2>3, <3>2 DEF InMatch, InPlay, Play
    <3>5. h.active # 0
      BY <3>3, <3>4 DEF Runs, Quiet, Says1, RoundFrames
    <3> QED BY <2>3, <3>5
  <2> QED BY <2>2, <2>3
<1> QED BY <1>1, PlayAlways, PTL

-----------------------------------------------------------------------------
(* Who has loaded the chart.                                               *)

\* Of the players S in the room each has reported the chart of round n.
Backed(n, S) == \A p \in Procs : Seated(p) /\ SeatOf(p) \in S => loadedFor[p] = n

\* The coordinator counts nobody who has not, and begins with all.
HostLoads ==
  LET h == view[Host] IN
  /\ Backed(h.active, h.loaded)
  /\ h.begun => Backed(h.active, Ids)
  /\ \A m \in Frames(controls) : m.type = "Loaded" /\ m.nonce = h.active => loadedFor[Host] = h.active

\* What joiner c has said is so, and what it knows or will read.
JoinerLoads(c) ==
  LET n == view[Host].active IN
  /\ Says1(up[c], "Loaded") => loadedFor[c] = n
  /\ Says1(up[c], "Begin") => Backed(n, Ids)
  /\ view[c].state = "Connected" =>
       /\ view[c].active = n => Backed(n, view[c].loaded)
       /\ \A m \in Frames(Coming(c)) : m.type = "RoomRoster" /\ m.nonce = n => Backed(n, m.loaded)

LoadInv ==
  view[Host].state # "Off" /\ view[Host].active # 0 =>
    HostLoads /\ \A c \in Joiners : link[c] = "up" => JoinerLoads(c)

\* While a round runs nobody sits down, and a report is about that round.
LEMMA LoadsCounted ==
  ASSUME RoomInv, RoundInv, HostInv, Shape, view'[Host].state # "Off", view[Host].active # 0
  PROVE  /\ view[Host].state # "Off"
         /\ loadedFor'[Host] \in {loadedFor[Host], view[Host].active}
         /\ \A c \in Joiners : link'[c] = "up" =>
              /\ link[c] = "up" /\ seat'[c] = seat[c] /\ (view'[c].state # "Off" => view[c].state # "Off")
              /\ loadedFor'[c] \in {loadedFor[c], view[Host].active}
<1> DEFINE h == view[Host]
           n == h.active
<1>0. Host \in Procs /\ Host \notin Joiners /\ \A c \in Joiners : c \in Procs /\ c # Host
  BY Shapely
<1>a. \A c \in Joiners : Still(c) /\ link'[c] = "up" =>
        /\ link[c] = "up" /\ seat'[c] = seat[c] /\ (view'[c].state # "Off" => view[c].state # "Off")
  BY DEF Still
<1>b. (HostStill => h.state # "Off") /\ (loadedFor' = loadedFor => \A p \in Procs : loadedFor'[p] = loadedFor[p])
  BY DEF HostStill
<1>1. CASE HostMoves
  <2>1. PICK w \in ViewType, y \in UiType :
          /\ h.state # "Off" /\ (\A c \in Joiners : Still(c))
          /\ \/ loadedFor' = loadedFor
             \/ \E m \in ActionType :
                  Says(h, ui[Host], w, y, m) /\ Counted(Host, m.type, m.nonce)
    BY <1>1 DEF HostMoves
  <2>2. ASSUME NEW m \in ActionType, Says(h, ui[Host], w, y, m), Counted(Host, m.type, m.nonce)
        PROVE  \A p \in Procs : loadedFor'[p] \in {loadedFor[p], n}
    <3>1. m.type = "Loaded" => m.nonce = n
      BY <2>2 DEF Says, LobbySays, LoadedSays, BeginSays, LiveSays, FinalSays, ResetSays
    <3> QED BY <2>2, <3>1 DEF Counted
  <2> QED BY <1>0, <1>a, <1>b, <2>1, <2>2
<1>2. ASSUME NEW c \in Joiners, JoinerMoves(c)
      PROVE  /\ h.state # "Off"
             /\ \A p \in Procs : loadedFor'[p] \in {loadedFor[p], n} \/ (p = c /\ link'[c] # "up")
             /\ \A d \in Joiners : link'[d] = "up" =>
                  link[d] = "up" /\ seat'[d] = seat[d] /\ (view'[d].state # "Off" => view[d].state # "Off")
  <2>1. PICK w \in ViewType, y \in UiType :
          /\ view[c].state = "Connected" /\ link'[c] = link[c] /\ seat'[c] = seat[c]
          /\ HostStill /\ (\A d \in Joiners \ {c} : Still(d))
          /\ \/ loadedFor' = loadedFor
             \/ \E m \in ActionType :
                  Says(view[c], ui[c], w, y, m) /\ Counted(c, m.type, m.nonce)
    BY <1>2 DEF JoinerMoves
  <2>2. ASSUME NEW m \in ActionType, Says(view[c], ui[c], w, y, m), Counted(c, m.type, m.nonce)
        PROVE  \A p \in Procs : loadedFor'[p] \in {loadedFor[p], n} \/ (p = c /\ link'[c] # "up")
    <3>1. m.type = "Loaded" => m.nonce = view[c].active /\ m.nonce # 0
      BY <2>2 DEF Says, LobbySays, LoadedSays, BeginSays, LiveSays, FinalSays, ResetSays
    <3>2. link'[c] = "up" => view[c].active \in {0, n}
      <4> SUFFICES ASSUME link'[c] = "up" PROVE view[c].active \in {0, n}
        OBVIOUS
      <4>1. OfRoom(h, view[c].rev, view[c].rate, view[c].active)
        BY <2>1, SeatedFacts
      <4> QED BY <4>1 DEF OfRoom
    <3> QED BY <2>2, <3>1, <3>2 DEF Counted
  <2> QED BY <1>a, <1>b, <2>1, <2>2
<1>3. ASSUME NEW c \in Joiners, JoinerTurns(c)
      PROVE  /\ h.state # "Off" /\ loadedFor' = loadedFor
             /\ \A d \in Joiners : link'[d] = "up" =>
                  link[d] = "up" /\ seat'[d] = seat[d] /\ (view'[d].state # "Off" => view[d].state # "Off")
  <2>1. link'[c] = "up" => link[c] = "up" /\ (view'[c].state # "Off" => view[c].state # "Off")
    BY <1>3 DEF JoinerTurns, OffView, FreshView
  <2> QED BY <1>3, <1>a, <1>b, <2>1 DEF JoinerTurns
<1>4. CASE Minds
  BY <1>0, <1>4, <1>a, <1>b DEF Minds
<1>5. ASSUME NEW c \in Joiners, Hears(c)
      PROVE  /\ h.state # "Off" /\ loadedFor' = loadedFor
             /\ \A d \in Joiners : link'[d] = "up" =>
                  link[d] = "up" /\ seat'[d] = seat[d] /\ (view'[d].state # "Off" => view[d].state # "Off")
  BY <1>5, <1>a DEF Hears
<1>6. CASE Passes
  <2>1. h.state # "Off" /\ loadedFor' = loadedFor /\ \A c \in Joiners : link'[c] = "up" => Still(c)
    BY <1>6 DEF Passes
  <2> QED BY <1>0, <1>a, <1>b, <2>1
<1>7. CASE Flushes
  BY <1>0, <1>7, <1>b DEF Flushes
<1>8. CASE Closes
  BY <1>8 DEF Closes, OffView, FreshView
<1>9. ASSUME NEW c \in Joiners, Seats(c) PROVE FALSE
  BY <1>9 DEF Seats
<1>10. ASSUME NEW c \in Joiners, Parts(c)
       PROVE  /\ h.state # "Off" /\ loadedFor' = loadedFor
              /\ \A d \in Joiners : link'[d] = "up" =>
                   link[d] = "up" /\ seat'[d] = seat[d] /\ (view'[d].state # "Off" => view[d].state # "Off")
  BY <1>10, <1>a DEF Parts
<1> HIDE DEF h, n
<1> QED BY <1>0, <1>1, <1>2, <1>3, <1>4, <1>5, <1>6, <1>7, <1>8, <1>9, <1>10, <1>b DEF Shape, h, n

\* What is backed after the step, among the players S.
BackedNext(n, S) == \A p \in Procs : Seated(p)' /\ SeatOf(p)' \in S => loadedFor'[p] = n

\* Whoever sits has sat, and is backed as before or by its own report.
LEMMA SeatedStays ==
  ASSUME RoomInv, RoundInv, HostInv, Shape, view'[Host].state # "Off", view[Host].active # 0
  PROVE  /\ \A p \in Procs : Seated(p)' =>
              /\ Seated(p) /\ SeatOf(p)' = SeatOf(p) /\ SeatOf(p) \in view[Host].members
              /\ p # Host => SeatOf(p) # 1
              /\ loadedFor'[p] \in {loadedFor[p], view[Host].active}
         /\ \A S : Backed(view[Host].active, S) => BackedNext(view[Host].active, S)
<1>1. ASSUME NEW p \in Procs, Seated(p)'
      PROVE  /\ Seated(p) /\ SeatOf(p)' = SeatOf(p) /\ SeatOf(p) \in view[Host].members
             /\ p # Host => SeatOf(p) # 1
             /\ loadedFor'[p] \in {loadedFor[p], view[Host].active}
  <2>1. /\ view[Host].state # "Off"
        /\ loadedFor'[Host] \in {loadedFor[Host], view[Host].active}
        /\ \A c \in Joiners : link'[c] = "up" =>
             /\ link[c] = "up" /\ seat'[c] = seat[c] /\ (view'[c].state # "Off" => view[c].state # "Off")
             /\ loadedFor'[c] \in {loadedFor[c], view[Host].active}
    BY LoadsCounted
  <2>2. CASE p = Host
    <3>1. 1 \in view[Host].members
      BY <2>1, HostFacts
    <3> QED BY <2>1, <2>2, <3>1 DEF Seated, SeatOf
  <2>3. CASE p # Host
    <3>1. p \in Joiners /\ link'[p] = "up" /\ view'[p].state # "Off"
      BY <1>1, <2>3, Shapely DEF Seated
    <3>2. link[p] = "up" /\ seat[p] \in view[Host].members /\ seat[p] # 1
      BY <2>1, <3>1, SeatedFacts
    <3> QED BY <2>1, <2>3, <3>1, <3>2 DEF Seated, SeatOf
  <2> QED BY <2>2, <2>3
<1> QED BY <1>1 DEF Backed, BackedNext

\* The round goes on: who counts as loaded after frame m of player j.
LoadsOn(h, j, m, w) ==
  /\ w.active = h.active /\ (w.begun => h.begun \/ AllLoaded(h))
  /\ \/ w.loaded \subseteq h.loaded
     \/ w.loaded = h.loaded \cup {j} /\ m.type = "Loaded" /\ m.nonce = h.active

\* What a frame does to the round that runs, or begins.
LEMMA HandledLoads ==
  ASSUME NEW h, NEW ord, NEW j, NEW m \in ActionType, NEW w, NEW out, Handled(h, ord, j, m, w, out),
         w.active # 0
  PROVE  /\ h.active # 0 => LoadsOn(h, j, m, w)
         /\ h.active = 0 => HLaunches(h, j, m, w, out) /\ w.loaded = {} /\ ~w.begun
<1>1. h.active # 0 => LoadsOn(h, j, m, w)
  BY DEF Handled, HTalks, HRenews, HLoads, HBegins, HScores, HResets, HLaunches, HCloses, Round, OwnPart,
         Cleared, LoadsOn
<1>2. h.active = 0 => HLaunches(h, j, m, w, out) /\ w.loaded = {} /\ ~w.begun
  <2> SUFFICES ASSUME h.active = 0 PROVE HLaunches(h, j, m, w, out) /\ w.loaded = {} /\ ~w.begun
    OBVIOUS
  <2>1. HLoads(h, j, m, w, out) \/ HBegins(h, j, m, w, out) \/ HScores(h, j, m, w, out)
          \/ HResets(h, j, m, w, out) \/ HTalks(h, j, m, w, out) => w.active = 0
    BY DEF HLoads, HBegins, HScores, HResets, HTalks, Round
  <2>2. HLaunches(h, j, m, w, out)
    BY <2>1 DEF Handled, HRenews, HCloses, Cleared
  <2> QED BY <2>2 DEF HLaunches
<1> QED BY <1>1, <1>2

\* The roster it is answered with tells who has loaded.
LEMMA HandledRosters ==
  ASSUME NEW h, NEW ord, NEW j, NEW m \in ActionType, NEW w, NEW out, Handled(h, ord, j, m, w, out),
         NEW f \in Frames(out), f.type = "RoomRoster"
  PROVE  f.loaded = w.loaded
<1>1. \/ out = <<>>
      \/ out = <<RosterMsg(w)>>
      \/ m.type \in {"Chat", "Begin", "Score"} /\ out = <<From(j, m)>>
      \/ m.type = "Launch" /\ out = <<From(j, m), RosterMsg(w)>>
  BY DEF Handled, HTalks, HRenews, HLoads, HBegins, HScores, HResets, HLaunches, HCloses
<1>2. RosterMsg(w).loaded = w.loaded
  BY DEF RosterMsg
<1>3. m.type \in {"Chat", "Begin", "Score", "Launch"} => From(j, m).type = m.type
  BY ActionFields DEF From
<1> QED BY <1>1, <1>2, <1>3, FramesFew

\* What the coordinator counts after the step, and what joiner's ends say.
HostLoadsNext(w, q) ==
  /\ BackedNext(w.active, w.loaded) /\ (w.begun => BackedNext(w.active, Ids))
  /\ \A m \in Frames(q) : m.type = "Loaded" /\ m.nonce = w.active => loadedFor'[Host] = w.active
JoinerLoadsNext(c, n, v, u, s) ==
  /\ Says1(u, "Loaded") => loadedFor'[c] = n
  /\ Says1(u, "Begin") => BackedNext(n, Ids)
  /\ v.state = "Connected" =>
       /\ v.active = n => BackedNext(n, v.loaded)
       /\ \A m \in Frames(s) : m.type = "RoomRoster" /\ m.nonce = n => BackedNext(n, m.loaded)

\* The reports that the coordinator holds, in every step.
LEMMA StepHostLoads ==
  ASSUME RoomInv, RoundInv, Ends, HostInv, LoadInv, Shape,
         view'[Host].state # "Off", view'[Host].active # 0
  PROVE  HostLoadsNext(view'[Host], controls')
<1> DEFINE h == view[Host]
           w == view'[Host]
           q == controls
<1> SUFFICES HostLoadsNext(w, controls')
  OBVIOUS
<1>0. /\ q \in Seq(ActionType) /\ Frames(q) \subseteq ActionType /\ h \in ViewType
      /\ q # <<>> => Frames(Tail(q)) \subseteq Frames(q) /\ Head(q) \in Frames(q)
      /\ \A c \in Joiners : up[c] \in Seq(ActionType) /\ c # Host /\ c \in Procs
      /\ Host \in Procs
  <2>1. \A z \in Seq(ActionType) : Frames(z) \subseteq ActionType
    BY FramesConcat
  <2> QED BY <2>1, Shapely, FramesTail
<1>1. CASE h.active # 0
  <2>1. /\ \A p \in Procs : Seated(p)' =>
              /\ Seated(p) /\ SeatOf(p)' = SeatOf(p) /\ SeatOf(p) \in h.members
              /\ p # Host => SeatOf(p) # 1
              /\ loadedFor'[p] \in {loadedFor[p], h.active}
        /\ \A S : Backed(h.active, S) => BackedNext(h.active, S)
        /\ h.state # "Off" /\ loadedFor'[Host] \in {loadedFor[Host], h.active}
    BY <1>1, SeatedStays, LoadsCounted
  <2>2. HostLoads /\ \A c \in Joiners : link[c] = "up" => JoinerLoads(c)
    BY <1>1, <2>1 DEF LoadInv
  <2>3. /\ BackedNext(h.active, h.loaded) /\ (h.begun => BackedNext(h.active, Ids))
        /\ AllLoaded(h) => BackedNext(h.active, Ids)
        /\ \A m \in Frames(q) : m.type = "Loaded" /\ m.nonce = h.active => loadedFor'[Host] = h.active
    <3>1. BackedNext(h.active, h.loaded) /\ (h.begun => BackedNext(h.active, Ids))
      BY <2>1, <2>2 DEF HostLoads
    <3>2. AllLoaded(h) => BackedNext(h.active, Ids)
      BY <2>1, <3>1 DEF BackedNext, AllLoaded
    <3> QED BY <2>1, <2>2, <3>1, <3>2 DEF HostLoads
  <2> HIDE DEF h, w, q
  <2>4. ASSUME w.active = h.active, Frames(controls') \subseteq Frames(q),
               w.begun => h.begun \/ AllLoaded(h), w.loaded \subseteq h.loaded
        PROVE  HostLoadsNext(w, controls')
    <3>1. BackedNext(h.active, w.loaded)
      BY <2>3, <2>4 DEF BackedNext
    <3> QED BY <2>3, <2>4, <3>1 DEF HostLoadsNext
  <2>5. CASE HostMoves
    <3>1. PICK y \in UiType :
            /\ w \in ViewType /\ Left(h, w)
            /\ \/ Silent(h, ui[Host], w, y) /\ controls' = q
               \/ \E m \in ActionType :
                    /\ Says(h, ui[Host], w, y, m) /\ controls' = Append(q, m)
                    /\ Counted(Host, m.type, m.nonce)
      BY <2>5 DEF HostMoves, h, w, q
    <3>2. w.active = h.active
      BY <3>1 DEF Left, OwnCopy, SameRound
    <3>3. CASE Silent(h, ui[Host], w, y) /\ controls' = q
      <4>1. w.begun = h.begun /\ w.loaded \subseteq h.loaded
        BY <3>3 DEF Silent, Alike
      <4> QED BY <2>4, <3>2, <3>3, <4>1
    <3>4. ASSUME NEW m \in ActionType, Says(h, ui[Host], w, y, m), controls' = Append(q, m),
                 Counted(Host, m.type, m.nonce)
          PROVE  HostLoadsNext(w, controls')
      <4>1. Frames(controls') = Frames(q) \cup {m}
        BY <1>0, <3>4, FramesAppend
      <4>2. w.begun => h.begun \/ AllLoaded(h)
        BY <3>4 DEF Says, LobbySays, LoadedSays, BeginSays, LiveSays, FinalSays, ResetSays, Alike
      <4>3. /\ m.type = "Loaded" => loadedFor'[Host] = h.active
            /\ w.loaded \subseteq h.loaded \/ (w.loaded = h.loaded \cup {1} /\ m.type = "Loaded")
        <5>1. h.id = 1
          BY <2>1, HostFacts DEF h
        <5> QED BY <1>0, <3>4, <5>1 DEF Says, LobbySays, LoadedSays, BeginSays, LiveSays, FinalSays,
                                        ResetSays, Counted
      <4>4. BackedNext(h.active, w.loaded)
        BY <2>1, <2>3, <4>3 DEF BackedNext
      <4> QED BY <2>3, <3>2, <4>1, <4>2, <4>3, <4>4 DEF HostLoadsNext
    <3> QED BY <3>1, <3>3, <3>4
  <2>6. CASE /\ HostStill
             /\ controls' = q \/ (q # <<>> /\ controls' = Tail(q))
    <3>1. w = h
      BY <2>6 DEF HostStill, w, h
    <3> QED BY <1>0, <2>4, <2>6, <3>1
  <2>7. CASE \/ \E c \in Joiners : JoinerMoves(c)
             \/ \E c \in Joiners : JoinerTurns(c)
             \/ Passes \/ Flushes
    BY <2>6, <2>7 DEF JoinerMoves, JoinerTurns, Passes, Flushes, HostStill, q
  <2>8. CASE Minds
    <3>1. PICK out \in Seq(RelayType) :
            q # <<>> /\ controls' = Tail(q) /\ Handled(h, order, 1, Head(q), w, out)
      BY <2>8 DEF Minds, h, w, q
    <3> DEFINE m == Head(q)
    <3>a. m \in Frames(q) /\ m \in ActionType /\ w.active # 0 /\ Handled(h, order, 1, m, w, out)
      BY <1>0, <3>1 DEF w
    <3> HIDE DEF m
    <3>2. /\ w.active = h.active /\ (w.begun => h.begun \/ AllLoaded(h))
          /\ \/ w.loaded \subseteq h.loaded
             \/ w.loaded = h.loaded \cup {1} /\ m.type = "Loaded" /\ m.nonce = h.active
      <4>1. LoadsOn(h, 1, m, w)
        BY <1>1, <3>a, HandledLoads
      <4> QED BY <4>1 DEF LoadsOn
    <3>3. BackedNext(h.active, w.loaded)
      <4>1. m.type = "Loaded" /\ m.nonce = h.active => loadedFor'[Host] = h.active
        BY <2>3, <3>a
      <4>2. CASE w.loaded \subseteq h.loaded
        BY <2>3, <4>2 DEF BackedNext
      <4>3. CASE w.loaded = h.loaded \cup {1} /\ loadedFor'[Host] = h.active
        <5>1. ASSUME NEW p \in Procs, Seated(p)', SeatOf(p)' = 1 PROVE p = Host
          BY <2>1, <5>1
        <5> QED BY <2>1, <2>3, <4>3, <5>1 DEF BackedNext
      <4> QED BY <3>2, <4>1, <4>2, <4>3
    <3> QED BY <1>0, <2>3, <3>1, <3>2, <3>3 DEF HostLoadsNext
  <2>9. ASSUME NEW c \in Joiners, Hears(c) PROVE HostLoadsNext(w, controls')
    <3>1. PICK out \in Seq(RelayType) :
            /\ link[c] = "up" /\ up[c] # <<>> /\ controls' = q /\ seat[c] \in Ids \ {1}
            /\ Handled(h, order, seat[c], Head(up[c]), w, out)
      BY <2>9 DEF Hears, h, w, q
    <3> DEFINE m == Head(up[c])
               j == seat[c]
    <3>a. /\ m \in Frames(up[c]) /\ m \in ActionType /\ w.active # 0
          /\ Handled(h, order, j, m, w, out)
      BY <1>0, <3>1, FramesTail DEF w
    <3> HIDE DEF m, j
    <3>b. /\ w.active = h.active /\ (w.begun => h.begun \/ AllLoaded(h))
          /\ w.loaded \subseteq h.loaded \/ (w.loaded = h.loaded \cup {j} /\ m.type = "Loaded")
      <4>1. LoadsOn(h, j, m, w)
        BY <1>1, <3>a, HandledLoads
      <4> QED BY <4>1 DEF LoadsOn
    <3> USE DEF m, j
    <3>2. /\ w.active = h.active /\ (w.begun => h.begun \/ AllLoaded(h))
          /\ \/ w.loaded \subseteq h.loaded
             \/ w.loaded = h.loaded \cup {seat[c]} /\ Head(up[c]).type = "Loaded"
      BY <3>b
    <3>3. BackedNext(h.active, w.loaded)
      <4>1. CASE w.loaded \subseteq h.loaded
        BY <2>3, <4>1 DEF BackedNext
      <4>2. CASE w.loaded = h.loaded \cup {seat[c]} /\ Head(up[c]).type = "Loaded"
        <5>1. loadedFor[c] = h.active
          BY <2>2, <3>1, <3>a, <4>2 DEF JoinerLoads, Says1, h
        <5>2. ASSUME NEW p \in Procs, Seated(p)', SeatOf(p)' \in w.loaded, SeatOf(p) \notin h.loaded
              PROVE  loadedFor'[p] = h.active
          <6>1. SeatOf(p) = seat[c] /\ Seated(p) /\ p # Host
            BY <2>1, <3>1, <4>2, <5>2 DEF SeatOf
          <6>2. p \in Joiners /\ link[p] = "up" /\ seat[p] = seat[c]
            BY <6>1, Shapely DEF Seated, SeatOf
          <6>3. p = c
            BY <2>1, <3>1, <6>2, HostFacts DEF h
          <6> QED BY <2>1, <5>1, <5>2, <6>3
        <5> QED BY <2>1, <2>3, <5>2 DEF BackedNext
      <4> QED BY <3>2, <4>1, <4>2
    <3> QED BY <2>3, <3>1, <3>2, <3>3 DEF HostLoadsNext
  <2>10. CASE Closes
    BY <2>10 DEF Closes, OffView, FreshView
  <2>11. ASSUME NEW c \in Joiners, Seats(c) \/ Parts(c) PROVE HostLoadsNext(w, controls')
    <3>1. /\ w.active = h.active /\ w.begun = h.begun /\ w.loaded \subseteq h.loaded
          /\ controls' = q
      BY <2>11 DEF Seats, Parts, Removed, Less, Cleared, Round, OwnPart, h, w, q
    <3> QED BY <2>4, <3>1
  <2> QED BY <2>5, <2>7, <2>8, <2>9, <2>10, <2>11 DEF Shape, w
<1>2. CASE h.active = 0
  <2>1. h.state # "Off" => HostState(h, ui[Host], rounds) /\ HostQueue(h, ui[Host], Frames(q))
                             /\ LaunchFrames(h, Frames(q), rounds)
                             /\ \A c \in Joiners : link[c] = "up" => LaunchFrames(h, Frames(up[c]), rounds)
    BY DEF HostInv
  <2> HIDE DEF h, w, q
  <2>2. ASSUME NEW j, NEW m \in ActionType, NEW out, Handled(h, order, j, m, w, out), h.state # "Off",
               LaunchFrames(h, {m}, rounds), Frames(controls') \subseteq Frames(q)
        PROVE  HostLoadsNext(w, controls')
    <3>1. HLaunches(h, j, m, w, out) /\ w.loaded = {} /\ ~w.begun
      BY <1>2, <2>2, HandledLoads DEF w
    <3>2. w.active = m.nonce /\ m.type = "Launch" /\ m.rev = h.rev
      BY <3>1 DEF HLaunches
    <3>3. ASSUME NEW f \in Frames(q), f.type = "Loaded", f.nonce = w.active PROVE FALSE
      <4>1. h.closed < m.nonce
        BY <1>2, <2>2, <3>2 DEF LaunchFrames
      <4>2. f.nonce # 0 /\ f.nonce <= h.closed
        BY <1>2, <2>1, <2>2, <3>3 DEF HostQueue, RoundFrames
      <4>3. f.nonce \in Nat /\ h.closed \in Nat /\ m.nonce \in Nat
        <5>1. f \in ActionType /\ h \in ViewType
          BY <1>0 DEF q
        <5> QED BY <3>2, <3>3, <5>1, ViewFields, ActionFields
      <4> QED BY <3>2, <3>3, <4>1, <4>2, <4>3
    <3> QED BY <2>2, <3>1, <3>3 DEF HostLoadsNext, BackedNext
  <2>3. CASE Minds
    <3>1. PICK out \in Seq(RelayType) :
            h.state # "Off" /\ q # <<>> /\ controls' = Tail(q) /\ Handled(h, order, 1, Head(q), w, out)
      BY <2>3 DEF Minds, h, w, q
    <3>2. Head(q) \in Frames(q) /\ Head(q) \in ActionType /\ LaunchFrames(h, {Head(q)}, rounds)
      BY <1>0, <2>1, <3>1 DEF LaunchFrames, q
    <3> QED BY <1>0, <2>2, <3>1, <3>2 DEF q
  <2>4. ASSUME NEW c \in Joiners, Hears(c) PROVE HostLoadsNext(w, controls')
    <3>1. PICK out \in Seq(RelayType) :
            /\ link[c] = "up" /\ up[c] # <<>> /\ controls' = q /\ h.state # "Off"
            /\ Handled(h, order, seat[c], Head(up[c]), w, out)
      BY <2>4 DEF Hears, h, w, q
    <3>2. Head(up[c]) \in Frames(up[c]) /\ Head(up[c]) \in ActionType
      BY <1>0, <3>1, FramesTail
    <3>3. LaunchFrames(h, {Head(up[c])}, rounds)
      BY <2>1, <3>1, <3>2 DEF LaunchFrames
    <3> QED BY <2>2, <3>1, <3>2, <3>3
  <2>5. ASSUME ~Minds, \A c \in Joiners : ~Hears(c) PROVE w.active = 0
    <3>1. CASE HostMoves
      BY <1>2, <3>1 DEF HostMoves, Left, OwnCopy, SameRound, h, w
    <3>2. CASE Passes \/ Flushes \/ (\E c \in Joiners : JoinerMoves(c) \/ JoinerTurns(c))
      BY <1>2, <3>2 DEF Passes, Flushes, JoinerMoves, JoinerTurns, HostStill, h, w
    <3>3. CASE Closes
      BY <3>3 DEF Closes, OffView, FreshView
    <3>4. ASSUME NEW c \in Joiners, Seats(c) \/ Parts(c) PROVE w.active = 0
      BY <1>2, <3>4 DEF Seats, Parts, Removed, Less, Cleared, Round, h, w
    <3> QED BY <2>5, <3>1, <3>2, <3>3, <3>4 DEF Shape
  <2> QED BY <2>3, <2>4, <2>5 DEF w
<1> QED BY <1>1, <1>2

\* The players of the room that have not reported round n, before the step
\* and after it.
Missing(n) == {SeatOf(p) : p \in {q \in Procs : Seated(q) /\ loadedFor[q] # n}}
MissingNext(n) == {SeatOf(p)' : p \in {q \in Procs : Seated(q)' /\ loadedFor'[q] # n}}

\* All that joiner v has said of round n, and knows of it or will, is so of the
\* players X that miss; has it reported itself?
Tells(n, v, u, s, has, X) ==
  /\ Says1(u, "Loaded") => has
  /\ Says1(u, "Begin") => Ids \cap X = {}
  /\ v.state = "Connected" =>
       /\ v.active = n => v.loaded \cap X = {}
       /\ \A m \in Frames(s) : m.type = "RoomRoster" /\ m.nonce = n => m.loaded \cap X = {}

\* JoinerLoads is Tells.
LEMMA LoadsTold ==
  /\ \A c \in Joiners :
       JoinerLoads(c) <=> Tells(view[Host].active, view[c], up[c], Coming(c), loadedFor[c] = view[Host].active,
                                Missing(view[Host].active))
  /\ \A n, S : Backed(n, S) <=> S \cap Missing(n) = {}
  /\ \A n, S : BackedNext(n, S) <=> S \cap MissingNext(n) = {}
<1>1. \A n, S : Backed(n, S) <=> S \cap Missing(n) = {}
  BY DEF Backed, Missing
<1>2. \A n, S : BackedNext(n, S) <=> S \cap MissingNext(n) = {}
  BY DEF BackedNext, MissingNext
<1>3. ASSUME NEW c \in Joiners
      PROVE  JoinerLoads(c) <=> Tells(view[Host].active, view[c], up[c], Coming(c),
                                      loadedFor[c] = view[Host].active, Missing(view[Host].active))
  BY <1>1 DEF JoinerLoads, Tells
<1> QED BY <1>1, <1>2, <1>3

\* What a joiner says itself.
LEMMA TalkTells ==
  ASSUME NEW n, n # 0, NEW v, NEW x, NEW u \in Seq(ActionType), NEW s, NEW has, NEW X, Tells(n, v, u, s, has, X),
         v.state = "Connected", v.active \in {0, n}, NEW M, X \subseteq M, v.active = n => M \subseteq v.members,
         NEW w, NEW y, Left(v, w), NEW t, NEW had, has => had, had => v.id \notin X,
         \/ Silent(v, x, w, y) /\ t = u
         \/ \E m \in ActionType : /\ Says(v, x, w, y, m) /\ t = Append(u, m)
                                  /\ m.type = "Loaded" => had
  PROVE  Tells(n, w, t, s, had, X)
<1>1. w.active = v.active /\ w.state = v.state
  BY DEF Left, OwnCopy, SameRound
<1>2. CASE Silent(v, x, w, y) /\ t = u
  BY <1>1, <1>2 DEF Silent, Alike, Tells
<1>3. ASSUME NEW m \in ActionType, Says(v, x, w, y, m), t = Append(u, m), m.type = "Loaded" => had
      PROVE  Tells(n, w, t, s, had, X)
  <2>1. Frames(t) = Frames(u) \cup {m}
    BY <1>3, FramesAppend
  <2>2. Says1(t, "Loaded") => had
    BY <1>3, <2>1 DEF Tells, Says1
  <2>3. Says1(t, "Begin") => Ids \cap X = {}
    <3>1. m.type = "Begin" => v.active # 0 /\ v.members \subseteq v.loaded
      BY <1>3 DEF Says, LobbySays, LoadedSays, BeginSays, LiveSays, FinalSays, ResetSays, AllLoaded
    <3>2. m.type = "Begin" => X = {}
      BY <3>1 DEF Tells
    <3> QED BY <2>1, <3>2 DEF Tells, Says1
  <2>4. w.active = n => w.loaded \cap X = {}
    <3>1. w.loaded \subseteq v.loaded \/ (w.loaded = v.loaded \cup {v.id} /\ m.type = "Loaded")
      BY <1>3 DEF Says, LobbySays, LoadedSays, BeginSays, LiveSays, FinalSays, ResetSays
    <3> QED BY <1>1, <1>3, <3>1 DEF Tells
  <2> QED BY <1>1, <2>2, <2>3, <2>4 DEF Tells
<1> QED BY <1>2, <1>3

\* What it reads.
LEMMA ReadTells ==
  ASSUME NEW n, NEW v, NEW u, NEW s \in Seq(RelayType), NEW has, NEW X, Tells(n, v, u, s, has, X),
         v.state = "Connected", s # <<>>, NEW w, Applied(v, Head(s), w), Head(s).type # "RoomWelcome"
  PROVE  Tells(n, w, u, Tail(s), has, X)
<1> DEFINE m == Head(s)
<1>1. m \in Frames(s) /\ Frames(Tail(s)) \subseteq Frames(s)
  BY FramesTail
<1> HIDE DEF m
<1>2. w.active = n => w.loaded \cap X = {}
  <2>1. CASE ARoster(v, m, w)
    BY <1>1, <2>1 DEF ARoster, Tells
  <2>2. CASE ALaunch(v, m, w)
    BY <2>2 DEF ALaunch
  <2>3. CASE ABegin(v, m, w) \/ AScore(v, m, w) \/ w = v
    BY <2>3 DEF ABegin, AScore, Tells
  <2> QED BY <2>1, <2>2, <2>3 DEF Applied, AWelcome, m
<1> QED BY <1>1, <1>2 DEF Tells

\* What is sent to it, and what of its own has been read.
LEMMA SentTells ==
  ASSUME NEW n, NEW v, NEW u, NEW s \in Seq(RelayType), NEW has, NEW X, Tells(n, v, u, s, has, X),
         NEW out \in Seq(RelayType), NEW had, has => had, NEW t, Frames(t) \subseteq Frames(u),
         \A f \in Frames(out) : f.type = "RoomRoster" => f.loaded \cap X = {}
  PROVE  Tells(n, v, t, s \o out, had, X)
<1>1. Frames(s \o out) = Frames(s) \cup Frames(out)
  BY FramesConcat
<1> QED BY <1>1 DEF Tells, Says1

\* What a joiner has said and knows, in every step while a round runs.
LEMMA StepTells ==
  ASSUME RoomInv, RoundInv, Ends, HostInv, CopyInv, LoadInv, RoomInv', Shape, view'[Host].state # "Off",
         view[Host].active # 0, view'[Host].active # 0, HostLoadsNext(view'[Host], controls'),
         NEW c \in Joiners, link'[c] = "up"
  PROVE  Tells(view'[Host].active, view'[c], up'[c], Coming(c)', loadedFor'[c] = view'[Host].active,
               MissingNext(view'[Host].active))
<1> DEFINE h == view[Host]
           hh == view'[Host]
           v == view[c]
           x == ui[c]
           i == seat[c]
           u == up[c]
           s == Coming(c)
           n == h.active
           has == loadedFor[c] = n
           had == loadedFor'[c] = n
           X == MissingNext(n)
<1>1. Sees(c)
  BY SeesStep
<1>2. /\ link[c] = "up" /\ (has => had) /\ h.state # "Off" /\ Host \in Procs /\ c \in Procs /\ c # Host
      /\ \A p \in Procs : Seated(p)' =>
           /\ Seated(p) /\ SeatOf(p)' = SeatOf(p) /\ SeatOf(p) \in h.members
           /\ p # Host => SeatOf(p) # 1
           /\ loadedFor'[p] \in {loadedFor[p], h.active}
      /\ \A S : Backed(n, S) => BackedNext(n, S)
  BY SeatedStays, LoadsCounted, Shapely
<1>3. /\ i \in h.members /\ i # 1 /\ u \in Seq(ActionType) /\ s \in Seq(RelayType) /\ h.id = 1
      /\ v.state # "Off" => OfRoom(h, v.rev, v.rate, v.active)
      /\ v.state # "Off" => Greets(i, v, s) /\ (v.state = "Joining" => Joins(h, i, u, s))
                              /\ (v.state = "Connected" => Entered(h, v, s))
      /\ v.state # "Off" => v.state \in {"Joining", "Connected"}
      /\ v \in ViewType /\ h \in ViewType
  BY <1>2, SeatedFacts DEF CopyInv, Copies, Ends, End
<1>4. X \subseteq h.members /\ (had => i \notin X) /\ \A S : BackedNext(n, S) <=> S \cap X = {}
  <2>1. X \subseteq h.members
    BY <1>2 DEF MissingNext
  <2>2. ASSUME had, i \in X PROVE FALSE
    <3>1. PICK p \in Procs : Seated(p)' /\ loadedFor'[p] # n /\ i = SeatOf(p)'
      BY <2>2 DEF MissingNext
    <3>2. p # Host /\ Seated(p) /\ SeatOf(p) = i
      BY <1>2, <1>3, <3>1 DEF SeatOf
    <3>3. p \in Joiners /\ link[p] = "up" /\ seat[p] = i
      BY <3>2, Shapely DEF Seated, SeatOf
    <3>4. p = c
      BY <1>2, <3>3, HostFacts
    <3> QED BY <2>2, <3>1, <3>4
  <2> QED BY <2>1, <2>2, LoadsTold
<1>5. Tells(n, v, u, s, has, X)
  <2>1. JoinerLoads(c)
    BY <1>2 DEF LoadInv
  <2> QED BY <1>2, <1>4, <2>1 DEF JoinerLoads, Tells
<1>6. h = view[Host] /\ hh = view'[Host] /\ v = view[c] /\ x = ui[c] /\ i = seat[c] /\ u = up[c] /\ s = Coming(c)
  OBVIOUS
<1>7. hh.active # 0 /\ HostLoadsNext(hh, controls')
  OBVIOUS
<1>g. SUFFICES hh.active = n /\ Tells(n, view'[c], up'[c], Coming(c)', had, X)
  OBVIOUS
<1>n. n = h.active
  OBVIOUS
<1> HIDE DEF h, hh, v, x, i, u, s, n, has, had, X
<1>u. Unmoved(c) => /\ seat'[c] = i /\ view'[c] = v /\ ui'[c] = x /\ up'[c] = u
  BY <1>6 DEF Unmoved
<1>s. /\ \A t : Sends(c, t) /\ v.state # "Off" => Coming(c)' = s \o t
      /\ Hushed(c) /\ v.state # "Off" => Coming(c)' = s
  BY <1>6 DEF Sends, Hushed
<1>o. \A t, r, y : v.state = "Off" => (Tells(n, v, t, r, had, X) <=> Tells(n, v, t, y, had, X))
  BY DEF Tells
<1>8. ASSUME NEW out \in Seq(RelayType), \A f \in Frames(out) : f.type = "RoomRoster" => f.loaded \cap X = {},
             NEW t, Frames(t) \subseteq Frames(u), view'[c] = v, up'[c] = t,
             Sends(c, out) \/ (Hushed(c) /\ out = <<>>)
      PROVE  Tells(n, view'[c], up'[c], Coming(c)', had, X)
  <2>1. Tells(n, v, t, s \o out, had, X)
    BY <1>2, <1>3, <1>5, <1>8, SentTells
  <2>2. v.state # "Off" => Coming(c)' = s \o out
    <3>1. s \o <<>> = s
      BY <1>3, ConcatEmptySeq
    <3> QED BY <1>8, <1>s, <3>1
  <2> QED BY <1>8, <1>o, <2>1, <2>2
<1>9. ASSUME NEW j, NEW m \in ActionType, NEW out, Handled(h, order, j, m, hh, out)
      PROVE  hh.active = n /\ \A f \in Frames(out) : f.type = "RoomRoster" => f.loaded \cap X = {}
  <2>1. LoadsOn(h, j, m, hh) /\ \A f \in Frames(out) : f.type = "RoomRoster" => f.loaded = hh.loaded
    <3>1. h.active # 0 /\ hh.active # 0
      BY <1>6, <1>7
    <3>2. LoadsOn(h, j, m, hh)
      BY <1>9, <3>1, HandledLoads
    <3>3. ASSUME NEW f \in Frames(out), f.type = "RoomRoster" PROVE f.loaded = hh.loaded
      BY <1>9, <3>3, HandledRosters
    <3> QED BY <3>2, <3>3
  <2>2. hh.active = n
    BY <1>n, <2>1 DEF LoadsOn
  <2>3. hh.loaded \cap X = {}
    BY <1>4, <1>7, <2>2 DEF HostLoadsNext
  <2> QED BY <2>1, <2>2, <2>3
<1>e. <<>> \in Seq(RelayType) /\ Frames(<<>>) = {}
  BY FramesFew
<1>10. CASE Rests(c)
  <2>1. hh = h /\ Unmoved(c) /\ Hushed(c)
    BY <1>6, <1>10 DEF Rests, HostStill
  <2> QED BY <1>8, <1>e, <1>n, <1>u, <2>1
<1>11. CASE Bids(c)
  <2>1. hh.active = h.active /\ Unmoved(c) /\ Hushed(c)
    BY <1>6, <1>11 DEF Bids, Left, OwnCopy, SameRound
  <2> QED BY <1>8, <1>e, <1>n, <1>u, <2>1
<1>12. CASE Talks(c)
  <2>1. PICK w \in ViewType, y \in UiType :
          /\ HostStill /\ Hushed(c) /\ v.state = "Connected"
          /\ view'[c] = w /\ ui'[c] = y /\ Left(v, w)
          /\ \/ Silent(v, x, w, y) /\ up'[c] = u
             \/ \E m \in ActionType : /\ Says(v, x, w, y, m) /\ up'[c] = Append(u, m)
                                      /\ m.type = "Loaded" => loadedFor'[c] = m.nonce
    BY <1>6, <1>12 DEF Talks
  <2>2. hh = h /\ Coming(c)' = s
    BY <1>6, <1>s, <2>1 DEF HostStill
  <2>3. v.active \in {0, n} /\ n # 0 /\ (v.active = n => h.members \subseteq v.members) /\ v.id = i
    BY <1>3, <1>6, <1>n, <2>1 DEF OfRoom, Entered, Greets
  <2>4. \/ Silent(v, x, w, y) /\ up'[c] = u
        \/ \E m \in ActionType : /\ Says(v, x, w, y, m) /\ up'[c] = Append(u, m)
                                 /\ m.type = "Loaded" => had
    <3>1. ASSUME NEW m \in ActionType, Says(v, x, w, y, m), m.type = "Loaded" PROVE m.nonce = n
      <4>1. m.nonce = v.active /\ v.active # 0
        BY <3>1 DEF Says, LobbySays, LoadedSays, BeginSays, LiveSays, FinalSays, ResetSays
      <4> QED BY <2>3, <4>1
    <3> QED BY <2>1, <3>1 DEF had
  <2>a. had => v.id \notin X
    BY <1>4, <2>3
  <2> DEFINE t == up'[c]
             M == h.members
  <2>b. X \subseteq M /\ (v.active = n => M \subseteq v.members) /\ v.state = "Connected" /\ Left(v, w)
    BY <1>4, <2>1, <2>3
  <2>c. \/ Silent(v, x, w, y) /\ t = u
        \/ \E m \in ActionType : /\ Says(v, x, w, y, m) /\ t = Append(u, m)
                                 /\ m.type = "Loaded" => had
    BY <2>4
  <2> HIDE DEF t, M
  <2>d. Tells(n, w, t, s, had, X)
    BY <1>2, <1>3, <1>5, <2>3, <2>a, <2>b, <2>c, TalkTells
  <2>5. Tells(n, w, up'[c], s, had, X)
    BY <2>d DEF t
  <2> QED BY <1>n, <2>1, <2>2, <2>5
<1>13. CASE Quits(c)
  <2>a. hh = h /\ view'[c] = OffView
    BY <1>6, <1>13 DEF Quits, HostStill
  <2>b. view'[c].state # "Connected"
    BY <2>a DEF OffView, FreshView
  <2>1. PICK k \in 0..Len(u) : /\ hh = h /\ view'[c].state # "Connected"
                               /\ up'[c] = Append(SubSeq(u, 1, k), Bye)
    BY <1>6, <1>13, <2>a, <2>b DEF Quits
  <2>2. Bye \in ActionType /\ Bye.type = "Disconnect"
    BY DEF Bye, ActionType
  <2>3. Frames(up'[c]) \subseteq Frames(u) \cup {Bye}
    BY <1>3, <2>1, <2>2, FramesPrefix
  <2> QED BY <1>2, <1>5, <1>n, <2>1, <2>2, <2>3 DEF Tells, Says1
<1>14. CASE Reads(c)
  <2>1. /\ hh = h /\ v.state # "Off" /\ up'[c] = u /\ s # <<>> /\ Head(s).type # "Disconnect"
        /\ view'[c] = Apply(v, Head(s)) /\ Coming(c)' = Tail(s)
    BY <1>6, <1>14 DEF Reads, HostStill
  <2>2. v.state = "Connected" /\ Head(s).type # "RoomWelcome"
    <3>1. v.state = "Connected"
      BY <1>3, <1>6, <2>1 DEF Joins
    <3>2. Head(s) \in Frames(s)
      BY <1>3, <2>1, FramesTail
    <3> QED BY <1>3, <3>1, <3>2 DEF Greets
  <2> DEFINE w == Apply(v, Head(s))
  <2>3. Applied(v, Head(s), w)
    <3>1. Head(s) \in RelayType
      BY <1>3, <2>1, LessToRead
    <3> QED BY <1>3, <2>1, <3>1, ApplyKinds
  <2> HIDE DEF w
  <2>4. Tells(n, w, u, Tail(s), has, X)
    BY <1>3, <1>5, <2>1, <2>2, <2>3, ReadTells
  <2>5. Tells(n, w, u, Tail(s), had, X)
    BY <1>2, <2>4 DEF Tells
  <2> QED BY <1>n, <2>1, <2>5 DEF w
<1>15. ASSUME NEW j \in Ids, NEW m \in ActionType, NEW w \in ViewType, NEW out \in Seq(RelayType),
              Minded(c, j, m, w, out)
       PROVE  hh.active = n /\ Tells(n, view'[c], up'[c], Coming(c)', had, X)
  <2>1. Unmoved(c) /\ Handled(h, order, j, m, hh, out) /\ Sends(c, out)
    BY <1>6, <1>15 DEF Minded
  <2>2. hh.active = n /\ \A f \in Frames(out) : f.type = "RoomRoster" => f.loaded \cap X = {}
    BY <1>9, <2>1
  <2> QED BY <1>8, <1>u, <2>1, <2>2
<1>16. ASSUME NEW w \in ViewType, NEW out \in Seq(RelayType), Heeded(c, w, out)
       PROVE  hh.active = n /\ Tells(n, view'[c], up'[c], Coming(c)', had, X)
  <2> DEFINE m == Head(u)
  <2>1. u # <<>> /\ up'[c] = Tail(u) /\ view'[c] = v /\ Handled(h, order, i, m, hh, out) /\ Sends(c, out)
    BY <1>6, <1>16 DEF Heeded
  <2>2. m \in ActionType /\ Frames(Tail(u)) \subseteq Frames(u)
    BY <1>3, <2>1, FramesTail
  <2> HIDE DEF m
  <2>3. hh.active = n /\ \A f \in Frames(out) : f.type = "RoomRoster" => f.loaded \cap X = {}
    BY <1>9, <2>1, <2>2
  <2> QED BY <1>8, <2>1, <2>2, <2>3
<1>17. CASE Widens(c) \/ Arrives(c)
  BY <1>6, <1>17 DEF Widens, Arrives, Wider
<1>18. CASE Narrows(c)
  <2>1. PICK w \in ViewType, id \in h.members \ {1} :
          /\ Removed(h, order, id, order', w) /\ Unmoved(c) /\ hh = w
          /\ RosterMsg(w) \in RelayType /\ Sends(c, <<RosterMsg(w)>>)
    BY <1>6, <1>18 DEF Narrows
  <2>2. hh.active = n
    BY <1>7, <1>n, <2>1 DEF Removed, Less, Cleared
  <2>3. RosterMsg(w).loaded \cap X = {}
    BY <1>4, <1>7, <2>1, <2>2 DEF HostLoadsNext, RosterMsg
  <2>4. <<RosterMsg(w)>> \in Seq(RelayType) /\ Frames(<<RosterMsg(w)>>) = {RosterMsg(w)}
    BY <2>1, FramesFew
  <2> QED BY <1>8, <1>u, <2>1, <2>2, <2>3, <2>4
<1> QED BY <1>1, <1>10, <1>11, <1>12, <1>13, <1>14, <1>15, <1>16, <1>17, <1>18 DEF Sees

\* What a joiner has said and knows when a round starts.
LEMMA StartTells ==
  ASSUME RoomInv, RoundInv, Ends, HostInv, WireInv, CopyInv, RoomInv', Shape, view'[Host].state # "Off",
         view[Host].active = 0, view'[Host].active # 0, NEW c \in Joiners, link'[c] = "up"
  PROVE  Tells(view'[Host].active, view'[c], up'[c], Coming(c)', loadedFor'[c] = view'[Host].active,
               MissingNext(view'[Host].active))
<1> DEFINE h == view[Host]
           hh == view'[Host]
           v == view[c]
           i == seat[c]
           u == up[c]
           s == Coming(c)
           n == hh.active
           had == loadedFor'[c] = n
           X == MissingNext(n)
<1>1. Sees(c)
  BY SeesStep
<1>2. h = view[Host] /\ hh = view'[Host] /\ v = view[c] /\ i = seat[c] /\ u = up[c] /\ s = Coming(c)
  OBVIOUS
<1>3. h.active = 0 /\ n # 0 /\ n = hh.active
  OBVIOUS
<1>g. SUFFICES Tells(n, view'[c], up'[c], Coming(c)', had, X)
  OBVIOUS
<1>4. ASSUME link[c] = "up"
      PROVE  /\ i \in h.members /\ u \in Seq(ActionType) /\ s \in Seq(RelayType)
             /\ v.state # "Off" => OfRoom(h, v.rev, v.rate, v.active)
             /\ v.state # "Off" => \A m \in Frames(s) : m.type \in Stamps =>
                                     OfRoom(h, m.rev, m.rate, m.nonce) /\ v.rev <= m.rev
             /\ i \in h.ready /\ v.state # "Off" => v.rev = h.rev
             /\ Wire(h, i, u) /\ v \in ViewType /\ h \in ViewType /\ Frames(s) \subseteq RelayType
  BY <1>4, SeatedFacts DEF WireInv
<1> HIDE DEF h, hh, v, i, u, s, n, had, X
<1>5. ASSUME link[c] = "up", NEW j, NEW m \in ActionType, NEW out \in Seq(RelayType),
             Handled(h, order, j, m, hh, out), NEW t, Frames(t) \subseteq Frames(u),
             view'[c] = v, up'[c] = t, v.state # "Off" => Coming(c)' = s \o out
      PROVE  Tells(n, view'[c], up'[c], Coming(c)', had, X)
  <2>0. hh.active # 0
    BY <1>3
  <2>1. HLaunches(h, j, m, hh, out) /\ hh.loaded = {}
    BY <1>3, <1>5, <2>0, HandledLoads
  <2>2. ASSUME NEW f \in Frames(out), f.type = "RoomRoster" PROVE f.loaded = {}
    <3>1. f.loaded = hh.loaded
      BY <1>5, <2>2, HandledRosters
    <3> QED BY <2>1, <3>1
  <2>3. i \in h.ready
    BY <1>4, <1>5, <2>1 DEF HLaunches, AllReady
  <2>4. \A f \in Frames(u) : f.type \notin RoundFrames
    BY <1>3, <1>4, <1>5, <2>3 DEF Wire
  <2>5. ~Says1(t, "Loaded") /\ ~Says1(t, "Begin")
    BY <1>5, <2>4 DEF Says1, RoundFrames
  <2>6. v.state # "Off" => v.active # n
    BY <1>3, <1>4, <1>5, <2>3 DEF OfRoom
  <2>7. ASSUME v.state # "Off", NEW f \in Frames(s), f.type = "RoomRoster" PROVE f.nonce # n
    <3>1. OfRoom(h, f.rev, f.rate, f.nonce) /\ h.rev <= f.rev
      BY <1>4, <1>5, <2>3, <2>7 DEF Stamps
    <3>2. f.rev = h.rev
      <4>1. f.rev \in Nat /\ h.rev \in Nat /\ f.rev <= h.rev
        <5>1. f \in RelayType /\ h \in ViewType
          BY <1>4, <1>5, <2>7
        <5> QED BY <2>7, <3>1, <5>1, ViewFields, RelayFields DEF OfRoom
      <4> QED BY <3>1, <4>1
    <3> QED BY <1>3, <3>1, <3>2 DEF OfRoom
  <2>8. Frames(s \o out) = Frames(s) \cup Frames(out)
    BY <1>4, <1>5, FramesConcat
  <2> QED BY <1>5, <2>2, <2>5, <2>6, <2>7, <2>8 DEF Tells
<1>6. CASE Rests(c) \/ Talks(c) \/ Quits(c) \/ Reads(c)
  BY <1>2, <1>3, <1>6 DEF Rests, Talks, Quits, Reads, HostStill
<1>7. CASE Bids(c)
  BY <1>2, <1>3, <1>7 DEF Bids, Left, OwnCopy, SameRound
<1>8. CASE Widens(c) \/ Arrives(c)
  BY <1>2, <1>3, <1>8 DEF Widens, Arrives, Wider, Round
<1>9. CASE Narrows(c)
  BY <1>2, <1>3, <1>9 DEF Narrows, Removed, Less, Cleared
<1>10. ASSUME NEW j \in Ids, NEW m \in ActionType, NEW w \in ViewType, NEW out \in Seq(RelayType),
              Minded(c, j, m, w, out)
       PROVE  Tells(n, view'[c], up'[c], Coming(c)', had, X)
  <2>1. /\ link[c] = "up" /\ view'[c] = v /\ up'[c] = u /\ Handled(h, order, j, m, hh, out)
        /\ v.state # "Off" => Coming(c)' = s \o out
    BY <1>2, <1>10 DEF Minded, Unmoved, Sends
  <2> QED BY <1>5, <2>1
<1>11. ASSUME NEW w \in ViewType, NEW out \in Seq(RelayType), Heeded(c, w, out)
       PROVE  Tells(n, view'[c], up'[c], Coming(c)', had, X)
  <2> DEFINE m == Head(u)
  <2>1. /\ link[c] = "up" /\ u # <<>> /\ view'[c] = v /\ up'[c] = Tail(u)
        /\ Handled(h, order, i, m, hh, out)
        /\ v.state # "Off" => Coming(c)' = s \o out
    BY <1>2, <1>11 DEF Heeded, Sends
  <2>2. m \in ActionType /\ Frames(Tail(u)) \subseteq Frames(u)
    BY <1>4, <2>1, FramesTail
  <2> HIDE DEF m
  <2> QED BY <1>5, <2>1, <2>2
<1> QED BY <1>1, <1>6, <1>7, <1>8, <1>9, <1>10, <1>11 DEF Sees

\* Who has loaded the chart, in every step.
LEMMA StepLoad ==
  ASSUME RoomInv, RoundInv, Ends, HostInv, WireInv, CopyInv, LoadInv, RoomInv', Shape
  PROVE  LoadInv'
<1> SUFFICES ASSUME view'[Host].state # "Off", view'[Host].active # 0
             PROVE  HostLoads' /\ \A c \in Joiners : link'[c] = "up" => JoinerLoads(c)'
  BY DEF LoadInv
<1> DEFINE w == view'[Host]
           n == w.active
<1>1. HostLoadsNext(w, controls')
  BY StepHostLoads
<1>2. HostLoads'
  BY <1>1 DEF HostLoads, HostLoadsNext, Backed, BackedNext
<1>3. ASSUME NEW c \in Joiners, link'[c] = "up" PROVE JoinerLoads(c)'
  <2>1. Tells(n, view'[c], up'[c], Coming(c)', loadedFor'[c] = n, MissingNext(n))
    <3>1. CASE view[Host].active # 0
      BY <1>1, <1>3, <3>1, StepTells
    <3>2. CASE view[Host].active = 0
      BY <1>3, <3>2, StartTells
    <3> QED BY <3>1, <3>2
  <2>2. \A S : BackedNext(n, S) <=> S \cap MissingNext(n) = {}
    BY LoadsTold
  <2>3. \A S : BackedNext(n, S) => \A p \in Procs : Seated(p)' /\ SeatOf(p)' \in S => loadedFor'[p] = n
    BY DEF BackedNext
  <2> QED BY <2>1, <2>2, <2>3 DEF JoinerLoads, Tells, Backed
<1> QED BY <1>2, <1>3

\* Nobody has loaded anything at first.
LEMMA InitLoad ==
  ASSUME Init
  PROVE  LoadInv
<1>1. view[Host].active = 0
  <2>1. view[Host] = HostView
    BY DEF Init, Procs
  <2> QED BY <2>1 DEF HostView, FreshView
<1> QED BY <1>1 DEF LoadInv

\* The reports in every behaviour.
LEMMA LoadAlways == Spec => [](RoomInv /\ RoundInv /\ Ends /\ HostInv /\ PlayInv /\ LoadInv)
<1> DEFINE Inv == RoomInv /\ RoundInv /\ Ends /\ HostInv /\ WireInv /\ CopyInv /\ PlayInv
<1>1. Init => LoadInv
  BY InitLoad
<1>2. Inv /\ LoadInv /\ Inv' /\ [Next]_vars => LoadInv'
  <2> SUFFICES ASSUME Inv, LoadInv, Inv', [Next]_vars PROVE LoadInv'
    OBVIOUS
  <2>1. Shape
    BY Shapes
  <2> QED BY <2>1, StepLoad
<1>3. Spec => []Inv
  BY PlayAlways
<1> HIDE DEF Inv
<1>4. Spec => []LoadInv
  BY <1>1, <1>2, <1>3, PTL DEF Spec
<1> QED BY <1>3, <1>4, PTL DEF Inv

\* The load barrier: whoever plays in the coordinator's round does so in one for
\* which every player of its roster has reported the chart loaded.
THEOREM Barrier == Spec => []BarrierHolds
<1>1. RoomInv /\ RoundInv /\ Ends /\ HostInv /\ PlayInv /\ LoadInv => BarrierHolds
  <2> SUFFICES ASSUME RoomInv, RoundInv, Ends, HostInv, PlayInv, LoadInv, NEW p \in Procs, NEW q \in Procs,
                      Seated(p), ui[p].at = "playing", view[p].active # 0,
                      view[p].active = view[Host].active, Seated(q), SeatOf(q) \in view[p].members
               PROVE  loadedFor[q] = view[p].active
    BY DEF BarrierHolds
  <2> DEFINE h == view[Host]
  <2>a. \A r \in Procs : Seated(r) => r = Host \/ (r \in Joiners /\ link[r] = "up")
    BY Shapely DEF Seated
  <2>1. h.state # "Off"
    BY <2>a, SeatedFacts DEF Seated
  <2>0. SeatOf(q) \in Ids
    <3>1. 1 \in Ids
      BY <2>1, HostFacts DEF ViewType
    <3> QED BY <2>1, <2>a, <3>1, HostFacts DEF SeatOf
  <2>2. HostLoads /\ \A c \in Joiners : link[c] = "up" => JoinerLoads(c)
    BY <2>1 DEF LoadInv
  <2>3. h.begun \/ \E c \in Joiners : c = p /\ link[c] = "up" /\ Says1(up[c], "Begin")
    <3>1. CASE p = Host
      BY <2>1, <3>1 DEF HostInv, HostState, Play
    <3>2. CASE p # Host
      <4>1. p \in Joiners /\ link[p] = "up"
        BY <3>2, Shapely DEF Seated
      <4>2. view[p].state = "Connected"
        BY <4>1 DEF Ends, End
      <4>3. Plays(h, seat[p], view[p], ui[p], up[p], Coming(p))
        BY <2>1, <4>1, <4>2 DEF PlayInv, InMatch
      <4> QED BY <4>1, <4>3 DEF Plays, Play, Runs
    <3> QED BY <3>1, <3>2
  <2>4. Backed(h.active, Ids)
    BY <2>2, <2>3 DEF HostLoads, JoinerLoads
  <2> QED BY <2>0, <2>4 DEF Backed
<1> QED BY <1>1, LoadAlways, PTL

-----------------------------------------------------------------------------
(* Who has finished.                                                       *)

\* The final scores, and all scores, of round n.
FinalsOf(n) == {m \in ActionType : m.type = "Score" /\ m.score = "final" /\ m.nonce = n}
ScoresOf(n) == {m \in ActionType : m.type = "Score" /\ m.nonce = n}

\* The player behind copy v and menu x has nothing more to score.
Over(v, x) == x.at \in {"finished", "lobby"} /\ v.launch = NoChart /\ ~v.dirty
\* The coordinator has its own final score, and no other will follow it.
HostDone(h, q) == h.score[1] = "final" /\ \A m \in Frames(q) : m \notin ScoresOf(h.active)

\* A final score of its own is its last, and so is that of everybody who has
\* left the result; nobody leaves his before the coordinator has finished.
HostEnd(h, x, q) ==
  h.active # 0 =>
    /\ h.score[1] = "final" => Over(h, x)
    /\ \A m \in Frames(q) : m \in FinalsOf(h.active) => Over(h, x)
    /\ NoneAfter(q, FinalsOf(h.active), ScoresOf(h.active))
    /\ \A j \in h.reset \ {1} : h.score[j] = "final" /\ HostDone(h, q)

\* The coordinator's copy h, menu x and calls q become w, y and r.
Ending(h, x, q, w, y, r) ==
  /\ HostEnd(h, x, q) => HostEnd(w, y, r)
  /\ h.active # 0 /\ w.active # 0 =>
       w.active = h.active /\ (HostEnd(h, x, q) /\ HostDone(h, q) => HostDone(w, r))

\* The coordinator's menu moves.
LEMMA MoveEnding ==
  ASSUME NEW h \in ViewType, h.id = 1, 1 \in Ids, NEW x, NEW n, HostState(h, x, n), NEW q \in Seq(ActionType),
         NEW w, NEW y, Left(h, w), NEW r,
         \/ Silent(h, x, w, y) /\ r = q
         \/ \E m \in ActionType : Says(h, x, w, y, m) /\ r = Append(q, m)
  PROVE  Ending(h, x, q, w, y, r)
<1>1. w.active = h.active /\ h.score \in [Ids -> Scores]
  BY DEF Left, OwnCopy, SameRound, ViewType
<1>2. CASE h.active = 0
  BY <1>1, <1>2 DEF Ending, HostEnd
<1>3. CASE h.active # 0
  <2> SUFFICES ASSUME HostEnd(h, x, q)
               PROVE  HostEnd(w, y, r) /\ (HostDone(h, q) => HostDone(w, r))
    BY <1>1, <1>3 DEF Ending
  <2>1. /\ \A j \in Ids \ {1} : w.score[j] = h.score[j]
        /\ w.score[1] = h.score[1] \/ x.at = "playing"
        /\ w.reset \subseteq h.reset \cup {1}
        /\ Over(h, x) => Over(w, y) /\ w.score[1] = h.score[1]
    BY <1>1, <1>3 DEF Silent, Alike, Says, LobbySays, LoadedSays, BeginSays, LiveSays, FinalSays,
                      ResetSays, Over, HostState
  <2>2. h.reset \subseteq Ids
    BY DEF ViewType
  <2>3. CASE Silent(h, x, w, y) /\ r = q
    <3>1. w.score[1] = "final" => h.score[1] = "final"
      BY <1>1, <2>3 DEF Silent, Alike
    <3> QED BY <1>1, <1>3, <2>1, <2>2, <2>3, <3>1 DEF HostEnd, HostDone
  <2>4. ASSUME NEW m \in ActionType, Says(h, x, w, y, m), r = Append(q, m)
        PROVE  HostEnd(w, y, r) /\ (HostDone(h, q) => HostDone(w, r))
    <3>1. Frames(r) = Frames(q) \cup {m}
      BY <2>4, FramesAppend
    <3>2. m.type = "Score" => x.at = "playing" \/ h.dirty
      BY <2>4 DEF Says, LobbySays, LoadedSays, BeginSays, LiveSays, FinalSays, ResetSays
    <3>3. m \in FinalsOf(h.active) \/ (w.score[1] = "final" /\ h.score[1] # "final") => Over(w, y)
      BY <1>1, <1>3, <2>4 DEF FinalsOf, Says, LobbySays, LoadedSays, BeginSays, LiveSays, FinalSays,
                        ResetSays, Over, Alike, HostState
    <3>4. Over(h, x) => m.type # "Score"
      BY <3>2 DEF Over
    <3>5. NoneAfter(r, FinalsOf(h.active), ScoresOf(h.active))
      <4>1. m \in ScoresOf(h.active) => Frames(q) \cap FinalsOf(h.active) = {}
        BY <1>3, <3>4 DEF HostEnd, ScoresOf
      <4>2. NoneAfter(q, FinalsOf(h.active), ScoresOf(h.active))
        BY <1>3 DEF HostEnd
      <4> QED BY <2>4, <4>1, <4>2, AppendOrder
    <3>6. HostDone(h, q) => HostDone(w, r)
      BY <1>1, <1>3, <2>1, <3>1, <3>4 DEF HostEnd, HostDone, ScoresOf
    <3>7. \A k \in w.reset \ {1} : w.score[k] = "final" /\ HostDone(w, r)
      BY <1>3, <2>1, <2>2, <3>6 DEF HostEnd
    <3> QED BY <1>1, <1>3, <2>1, <3>1, <3>3, <3>5, <3>6, <3>7 DEF HostEnd
  <2> QED BY <2>3, <2>4
<1> QED BY <1>2, <1>3

\* The coordinator accepts a frame m of player j.
LEMMA HandledEnding ==
  ASSUME NEW h \in ViewType, 1 \in Ids, NEW x, NEW q \in Seq(ActionType), NEW ord, NEW j \in Ids,
         NEW m \in ActionType, NEW w \in ViewType, NEW out, Handled(h, ord, j, m, w, out), NEW r,
         \/ j = 1 /\ q # <<>> /\ m = Head(q) /\ r = Tail(q)
         \/ j # 1 /\ r = q,
         j # 1 /\ m.type = "RoundReset" /\ m.nonce = h.active /\ h.active # 0 => HostDone(h, q),
         j # 1 /\ m.type = "Score" /\ m.nonce = h.active => h.score[j] # "final",
         HLaunches(h, j, m, w, out) => \A f \in Frames(q) : f \notin ScoresOf(m.nonce)
  PROVE  Ending(h, x, q, w, x, r)
<1>0. /\ Frames(r) \subseteq Frames(q)
      /\ h.active # 0 /\ NoneAfter(q, FinalsOf(h.active), ScoresOf(h.active)) =>
           NoneAfter(r, FinalsOf(h.active), ScoresOf(h.active))
      /\ h.reset \subseteq Ids /\ h.score \in [Ids -> Scores]
  <2>1. h.reset \subseteq Ids /\ h.score \in [Ids -> Scores]
    BY DEF ViewType
  <2>2. CASE r = q
    BY <2>1, <2>2
  <2>3. CASE q # <<>> /\ r = Tail(q)
    BY <2>1, <2>3, FramesTail, TailOrder
  <2> QED BY <2>2, <2>3
<1>1. CASE HLaunches(h, j, m, w, out)
  <2>1. /\ h.active = 0 /\ w.active = m.nonce /\ w.reset = {} /\ w.score[1] = "none"
        /\ \A f \in Frames(r) : f \notin ScoresOf(m.nonce)
    BY <1>0, <1>1 DEF HLaunches, NoScores
  <2>2. \A f \in Frames(r) : f \notin FinalsOf(m.nonce)
    BY <2>1 DEF FinalsOf, ScoresOf
  <2>3. NoneAfter(r, FinalsOf(m.nonce), ScoresOf(m.nonce))
    BY <2>1 DEF NoneAfter, Frames
  <2> QED BY <2>1, <2>2, <2>3 DEF Ending, HostEnd
<1>2. CASE ~HLaunches(h, j, m, w, out) /\ w.active # 0
  <2>1. /\ w.active = h.active /\ w.launch = h.launch /\ w.dirty = h.dirty
        /\ w.reset \subseteq h.reset \/ (w.reset = h.reset \cup {j} /\ m.type = "RoundReset" /\ m.nonce = h.active
                                         /\ h.score[j] = "final")
        /\ \/ w.score = h.score
           \/ m.type = "Score" /\ m.nonce = h.active /\ w.score = [h.score EXCEPT ![j] = m.score]
    BY <1>2 DEF Handled, HTalks, HRenews, HLoads, HBegins, HScores, HResets, HCloses, Round, OwnPart, Cleared
  <2>2. SUFFICES ASSUME HostEnd(h, x, q)
                 PROVE  HostEnd(w, x, r) /\ (HostDone(h, q) => HostDone(w, r))
    BY <1>2, <2>1 DEF Ending
  <2>3. Over(h, x) <=> Over(w, x)
    BY <2>1 DEF Over
  <2>4. HostDone(h, q) => HostDone(w, r)
    <3>1. ASSUME HostDone(h, q), m.type = "Score", m.nonce = h.active PROVE j # 1
      BY <3>1, FramesTail DEF HostDone, ScoresOf
    <3> QED BY <1>0, <2>1, <3>1 DEF HostDone
  <2>5. ASSUME NEW k \in w.reset \ {1} PROVE w.score[k] = "final" /\ HostDone(w, r)
    <3>1. h.score[k] = "final" /\ HostDone(h, q)
      BY <1>2, <2>1, <2>2, <2>5 DEF HostEnd
    <3>2. k \in Ids
      BY <1>0, <2>1, <2>5
    <3> QED BY <1>0, <2>1, <2>4, <2>5, <3>1, <3>2
  <2>6. w.score[1] = "final" => Over(h, x)
    <3>1. CASE w.score = h.score \/ j # 1
      BY <1>0, <1>2, <2>1, <2>2, <3>1 DEF HostEnd
    <3>2. CASE j = 1 /\ m.type = "Score" /\ m.nonce = h.active /\ w.score = [h.score EXCEPT ![j] = m.score]
      <4>1. w.score[1] = m.score /\ m \in Frames(q)
        BY <1>0, <3>2, FramesTail
      <4> QED BY <1>2, <2>1, <2>2, <3>2, <4>1 DEF HostEnd, FinalsOf
    <3> QED BY <2>1, <3>1, <3>2
  <2> QED BY <1>0, <1>2, <2>1, <2>2, <2>3, <2>4, <2>5, <2>6 DEF HostEnd
<1>3. CASE w.active = 0
  BY <1>3 DEF Ending, HostEnd
<1> QED BY <1>1, <1>2, <1>3

\* The final scores of joiner i, whose frames u are under way: it leaves no
\* result without one, and sends none after it.
Scored(h, i, u) ==
  h.active # 0 =>
    /\ h.score[i] # "final" => LedBy(u, FinalsOf(h.active), Of("RoundReset"))
    /\ NoneAfter(u, FinalsOf(h.active), Of("Score"))
    /\ h.score[i] = "final" => ~Says1(u, "Score")

\* The coordinator has its final score, or will.
Ended(h, i, u) == h.score[i] = "final" \/ \E m \in Frames(u) : m \in FinalsOf(h.active)

\* What joiner i, with copy v and menu x, has scored itself, and what it has
\* heard or will hear of the coordinator's score.
Scores1(h, q, i, v, x, u, s) ==
  h.active # 0 =>
    /\ Ended(h, i, u) => v.active = h.active /\ Over(v, x)
    /\ v.active = h.active /\ v.finalSent => Ended(h, i, u)
    /\ v.active = h.active /\ v.score[1] = "final" => HostDone(h, q)
    /\ \A m \in Frames(s) :
         m.type = "Score" /\ m.nonce = h.active /\ m.player = 1 /\ m.score = "final" => HostDone(h, q)

\* What it has still to say.
Finishes(h, q, i, u) ==
  /\ Scored(h, i, u)
  /\ h.active # 0 /\ Says1(u, "RoundReset") => HostDone(h, q)

ScoreInv ==
  LET h == view[Host] IN
  h.state # "Off" =>
    /\ HostEnd(h, ui[Host], controls)
    /\ \A c \in Joiners : link[c] = "up" =>
         /\ Finishes(h, controls, seat[c], up[c])
         /\ view[c].state = "Connected" =>
              Scores1(h, controls, seat[c], view[c], ui[c], up[c], Coming(c))

\* The coordinator in every step.
LEMMA StepEnding ==
  ASSUME RoomInv, RoundInv, HostInv, WireInv, ScoreInv, Shape, view'[Host].state # "Off"
  PROVE  /\ view[Host].state # "Off"
         /\ Ending(view[Host], ui[Host], controls, view'[Host], ui'[Host], controls')
<1> DEFINE h == view[Host]
           x == ui[Host]
           q == controls
           w == view'[Host]
           y == ui'[Host]
           r == controls'
<1>1. /\ q \in Seq(ActionType) /\ h \in ViewType /\ \A c \in Joiners : up[c] \in Seq(ActionType)
      /\ 1 \in Ids
  BY Shapely, RoomAssumption DEF Ids
<1>2. h.state # "Off" => h.id = 1 /\ HostState(h, x, rounds) /\ HostQueue(h, x, Frames(q))
  BY HostFacts DEF HostInv
<1>d. h = view[Host] /\ x = ui[Host] /\ q = controls /\ w = view'[Host] /\ y = ui'[Host] /\ r = controls'
  OBVIOUS
<1>g. SUFFICES h.state # "Off" /\ Ending(h, x, q, w, y, r)
  OBVIOUS
<1>3. \A c \in Joiners : link[c] = "up" =>
        /\ h.state # "Off" /\ seat[c] \in Ids \ {1} /\ Wire(h, seat[c], up[c]) /\ Scored(h, seat[c], up[c])
        /\ h.active # 0 /\ Says1(up[c], "RoundReset") => HostDone(h, q)
        /\ LaunchFrames(h, Frames(up[c]), rounds)
  BY SeatedFacts DEF WireInv, ScoreInv, HostInv, Finishes
<1>4. h.state # "Off" => LaunchFrames(h, Frames(q), rounds)
  BY DEF HostInv
<1>o. w.state # "Off"
  OBVIOUS
<1> HIDE DEF h, x, q, w, y, r
<1>5. ASSUME h.state # "Off", NEW j, NEW m \in ActionType, NEW out, HLaunches(h, j, m, w, out),
             LaunchFrames(h, {m}, rounds), NEW f \in Frames(q), f \in ScoresOf(m.nonce)
      PROVE  FALSE
  <2>1. h.active = 0 /\ m.type = "Launch" /\ m.rev = h.rev
    BY <1>5 DEF HLaunches
  <2>2. h.closed < m.nonce
    BY <1>5, <2>1 DEF LaunchFrames
  <2>3. f \in ActionType /\ f.type = "Score" /\ f.nonce = m.nonce
    BY <1>5 DEF ScoresOf
  <2>4. f.nonce # 0 /\ f.nonce <= h.closed
    BY <1>2, <1>5, <2>1, <2>3 DEF HostQueue, RoundFrames
  <2>5. f.nonce \in Nat /\ h.closed \in Nat /\ m.nonce \in Nat
    BY <1>1, <2>1, <2>3, ViewFields, ActionFields
  <2> QED BY <2>2, <2>3, <2>4, <2>5
<1>6. CASE HostMoves
  <2>1. /\ h.state # "Off" /\ Left(h, w)
        /\ \/ Silent(h, x, w, y) /\ r = q
           \/ \E m \in ActionType : Says(h, x, w, y, m) /\ r = Append(q, m)
    BY <1>6, <1>d DEF HostMoves
  <2> QED BY <1>1, <1>2, <2>1, MoveEnding
<1>7. CASE w = h /\ y = x /\ (r = q \/ (q # <<>> /\ r = Tail(q)))
  <2>1. CASE r = q
    BY <1>7, <1>o, <2>1 DEF Ending
  <2>2. CASE q # <<>> /\ r = Tail(q)
    <3>1. /\ Frames(r) \subseteq Frames(q)
          /\ NoneAfter(q, FinalsOf(h.active), ScoresOf(h.active)) =>
               NoneAfter(r, FinalsOf(h.active), ScoresOf(h.active))
      BY <1>1, <2>2, FramesTail, TailOrder
    <3> QED BY <1>7, <1>o, <3>1 DEF Ending, HostEnd, HostDone
  <2> QED BY <1>7, <2>1, <2>2
<1>8. CASE \/ \E c \in Joiners : JoinerMoves(c)
           \/ \E c \in Joiners : JoinerTurns(c)
           \/ Passes \/ Flushes
  BY <1>7, <1>8, <1>d DEF JoinerMoves, JoinerTurns, Passes, Flushes, HostStill
<1>9. CASE Minds
  <2>1. PICK out \in Seq(RelayType) :
          /\ h.state # "Off" /\ q # <<>> /\ r = Tail(q) /\ Handled(h, order, 1, Head(q), w, out) /\ y = x
          /\ w \in ViewType
    BY <1>9, <1>d DEF Minds
  <2> DEFINE m == Head(q)
  <2>2. m \in Frames(q) /\ m \in ActionType
    BY <1>1, <2>1, FramesTail
  <2>3. m = Head(q) /\ Handled(h, order, 1, m, w, out)
    BY <2>1
  <2> HIDE DEF m
  <2>4. LaunchFrames(h, {m}, rounds)
    BY <1>4, <2>1, <2>2 DEF LaunchFrames
  <2>5. HLaunches(h, 1, m, w, out) => \A f \in Frames(q) : f \notin ScoresOf(m.nonce)
    BY <1>5, <2>1, <2>2, <2>4
  <2>6. Ending(h, x, q, w, x, r)
    BY <1>1, <2>1, <2>2, <2>3, <2>5, HandledEnding
  <2> QED BY <2>1, <2>6
<1>10. ASSUME NEW c \in Joiners, Hears(c) PROVE h.state # "Off" /\ Ending(h, x, q, w, y, r)
  <2>1. PICK out \in Seq(RelayType) :
          /\ h.state # "Off" /\ link[c] = "up" /\ up[c] # <<>> /\ r = q /\ y = x
          /\ Handled(h, order, seat[c], Head(up[c]), w, out) /\ w \in ViewType
    BY <1>10, <1>d DEF Hears
  <2> DEFINE m == Head(up[c])
             j == seat[c]
  <2>2. m \in Frames(up[c]) /\ m \in ActionType
    BY <1>1, <2>1, FramesTail
  <2>3. /\ Handled(h, order, j, m, w, out) /\ j \in Ids \ {1}
        /\ h.active # 0 /\ h.score[j] = "final" => ~Says1(up[c], "Score")
        /\ h.active # 0 /\ Says1(up[c], "RoundReset") => HostDone(h, q)
        /\ LaunchFrames(h, Frames(up[c]), rounds)
    BY <1>3, <2>1 DEF Scored
  <2> HIDE DEF m, j
  <2>4. LaunchFrames(h, {m}, rounds)
    BY <2>2, <2>3 DEF LaunchFrames
  <2>5. HLaunches(h, j, m, w, out) => \A f \in Frames(q) : f \notin ScoresOf(m.nonce)
    BY <1>5, <2>1, <2>2, <2>4
  <2>6. m.type \in {"Score", "RoundReset"} => m.nonce # 0
    BY <2>2, <2>3 DEF LaunchFrames, RoundFrames
  <2>7. /\ m.type = "RoundReset" /\ m.nonce = h.active /\ h.active # 0 => HostDone(h, q)
        /\ m.type = "Score" /\ m.nonce = h.active => h.score[j] # "final"
    BY <2>2, <2>3, <2>6 DEF Says1
  <2>8. Ending(h, x, q, w, x, r)
    BY <1>1, <2>1, <2>2, <2>3, <2>5, <2>7, HandledEnding
  <2> QED BY <2>1, <2>8
<1>11. CASE Closes
  BY <1>11, <1>d, <1>o DEF Closes, OffView, FreshView
<1>12. ASSUME NEW c \in Joiners, Seats(c) \/ Parts(c) PROVE h.state # "Off" /\ Ending(h, x, q, w, y, r)
  <2>1. CASE Seats(c)
    <3>1. h.state # "Off" /\ h.active = 0 /\ w.active = 0
      BY <1>d, <2>1 DEF Seats, Round
    <3> QED BY <3>1 DEF Ending, HostEnd
  <2>2. CASE Parts(c)
    <3>1. /\ h.state # "Off" /\ r = q /\ y = x /\ seat[c] # 1
          /\ Less(h, seat[c], w) \/ w.active = 0
      BY <1>d, <2>2 DEF Parts, Removed, Cleared
    <3>2. CASE Less(h, seat[c], w)
      <4>1. /\ w.active = h.active /\ w.launch = h.launch /\ w.dirty = h.dirty
            /\ w.reset = h.reset \ {seat[c]} /\ w.score = [h.score EXCEPT ![seat[c]] = "none"]
        BY <3>2 DEF Less, OwnPart
      <4>2. h.score \in [Ids -> Scores] /\ h.reset \subseteq Ids
        BY <1>1 DEF ViewType
      <4>3. \A k \in Ids : k # seat[c] => w.score[k] = h.score[k]
        BY <4>1, <4>2
      <4>4. w.score[1] = h.score[1] /\ (Over(w, y) <=> Over(h, x))
        BY <1>1, <3>1, <4>1, <4>3 DEF Over
      <4> QED BY <3>1, <4>1, <4>2, <4>3, <4>4 DEF Ending, HostEnd, HostDone
    <3>3. CASE w.active = 0
      BY <3>1, <3>3 DEF Ending, HostEnd
    <3> QED BY <3>1, <3>2, <3>3
  <2> QED BY <1>12, <2>1, <2>2
<1> QED BY <1>6, <1>8, <1>9, <1>10, <1>11, <1>12 DEF Shape

\* The coordinator's side moves, and nothing that player i has scored.
LEMMA ScoresStay ==
  ASSUME NEW h, NEW q, NEW i, NEW w, NEW r, w.active = h.active, w.score[i] = h.score[i],
         h.active # 0 /\ HostDone(h, q) => HostDone(w, r)
  PROVE  /\ \A u : Finishes(h, q, i, u) => Finishes(w, r, i, u)
         /\ \A v, x, u, s : Scores1(h, q, i, v, x, u, s) => Scores1(w, r, i, v, x, u, s)
BY DEF Finishes, Scored, Scores1, Ended

\* A score that is sent on is the one that was accepted.
LEMMA ScoreOut ==
  ASSUME NEW h, NEW ord, NEW j, NEW m \in ActionType, NEW w, NEW out, Handled(h, ord, j, m, w, out),
         NEW f \in Frames(out), f.type = "Score"
  PROVE  /\ HScores(h, j, m, w, out) /\ f.player = j /\ f.score = m.score /\ f.nonce = m.nonce
         /\ m.type = "Score" /\ m.nonce = h.active
<1>1. RosterMsg(w).type = "RoomRoster"
  BY DEF RosterMsg
<1>2. m.type \in {"Chat", "Begin", "Score", "Launch"} => From(j, m).type = m.type
  BY ActionFields DEF From
<1>3. ASSUME m.type = "Score", out = <<From(j, m)>>
      PROVE  f.player = j /\ f.score = m.score /\ f.nonce = m.nonce
  <2>1. f = From(j, m)
    BY <1>3, FramesFew
  <2> QED BY <1>3, <2>1 DEF From
<1>4. HScores(h, j, m, w, out)
  BY <1>1, <1>2, FramesFew DEF Handled, HTalks, HRenews, HLoads, HBegins, HScores, HResets, HLaunches,
                               HCloses
<1> QED BY <1>3, <1>4 DEF HScores

\* The coordinator accepts a frame of another player, j, in the round that runs.
LEMMA HandledScores ==
  ASSUME NEW h \in ViewType, NEW x, NEW q \in Seq(ActionType), HostEnd(h, x, q), h.active # 0, 1 \in Ids,
         NEW i \in Ids, NEW ord, NEW j \in Ids, j # i, NEW m \in ActionType, NEW w \in ViewType,
         NEW out \in Seq(RelayType), Handled(h, ord, j, m, w, out), w.active = h.active, NEW r,
         \/ j = 1 /\ q # <<>> /\ m = Head(q) /\ r = Tail(q)
         \/ j # 1 /\ r = q,
         HostDone(h, q) => HostDone(w, r),
         NEW v, NEW y, NEW u, NEW s \in Seq(RelayType), Finishes(h, q, i, u)
  PROVE  /\ Finishes(w, r, i, u)
         /\ Scores1(h, q, i, v, y, u, s) => Scores1(w, r, i, v, y, u, s \o out)
<1>1. w.score[i] = h.score[i]
  <2>1. h.score \in [Ids -> Scores]
    BY DEF ViewType
  <2> QED BY <2>1 DEF Handled, HTalks, HRenews, HLoads, HBegins, HScores, HResets, HLaunches, HCloses, Cleared
<1>2. ASSUME NEW f \in Frames(out), f.type = "Score", f.nonce = h.active, f.player = 1, f.score = "final"
      PROVE  HostDone(w, r)
  <2>1. HScores(h, 1, m, w, out) /\ m \in FinalsOf(h.active) /\ j = 1
    BY <1>2, ScoreOut DEF FinalsOf
  <2>2. w.score[1] = "final"
    <3>1. h.score \in [Ids -> Scores]
      BY DEF ViewType
    <3> QED BY <2>1, <3>1 DEF HScores, FinalsOf
  <2>3. Frames(r) \cap ScoresOf(h.active) = {}
    <3>1. NoneAfter(q, FinalsOf(h.active), ScoresOf(h.active))
      BY DEF HostEnd
    <3>2. q # <<>> /\ Head(q) \in FinalsOf(h.active) /\ r = Tail(q)
      BY <2>1
    <3>3. Frames(Tail(q)) \cap ScoresOf(h.active) = {}
      BY <3>1, <3>2, TailOrder
    <3> QED BY <3>2, <3>3
  <2> QED BY <2>2, <2>3 DEF HostDone
<1>3. Frames(s \o out) = Frames(s) \cup Frames(out)
  BY FramesConcat
<1>4. /\ Finishes(w, r, i, u)
      /\ Scores1(h, q, i, v, y, u, s) => Scores1(w, r, i, v, y, u, s)
  BY <1>1, ScoresStay
<1> QED BY <1>2, <1>3, <1>4 DEF Scores1

\* It accepts one of player i itself.
LEMMA HeededScores ==
  ASSUME NEW h \in ViewType, NEW q, h.active # 0,
         NEW i \in Ids \ {1}, NEW ord, NEW w \in ViewType, NEW out \in Seq(RelayType),
         NEW u \in Seq(ActionType), u # <<>>, Handled(h, ord, i, Head(u), w, out), w.active = h.active,
         HostDone(h, q) => HostDone(w, q),
         NEW v, NEW y, NEW s \in Seq(RelayType), Finishes(h, q, i, u)
  PROVE  /\ Finishes(w, q, i, Tail(u))
         /\ Scores1(h, q, i, v, y, u, s) => Scores1(w, q, i, v, y, Tail(u), s \o out)
<1> DEFINE m == Head(u)
           t == Tail(u)
           n == h.active
<1>1. /\ m \in Frames(u) /\ m \in ActionType /\ Frames(t) \subseteq Frames(u) /\ Frames(u) = {m} \cup Frames(t)
      /\ Handled(h, ord, i, m, w, out)
      /\ \A A, B : NoneAfter(u, A, B) => NoneAfter(t, A, B) /\ (m \in A => Frames(t) \cap B = {})
      /\ \A A, B : LedBy(u, A, B) => m \notin B /\ (m \in A \/ LedBy(t, A, B))
  BY FramesTail, TailOrder
<1>2. /\ h.score[i] # "final" => LedBy(u, FinalsOf(n), Of("RoundReset"))
      /\ NoneAfter(u, FinalsOf(n), Of("Score"))
      /\ h.score[i] = "final" => ~Says1(u, "Score")
      /\ Says1(u, "RoundReset") => HostDone(h, q)
  BY DEF Finishes, Scored
<1> HIDE DEF m, t, n
<1>n. n = h.active /\ t = Tail(u)
  BY DEF n, t
<1>3. /\ m.type = "Score" /\ m.nonce = n => w.score[i] = m.score
      /\ w.score[i] = h.score[i] \/ (m.type = "Score" /\ m.nonce = n)
  <2>1. h.score \in [Ids -> Scores]
    BY DEF ViewType
  <2> QED BY <1>1, <1>n, <2>1 DEF Handled, HTalks, HRenews, HLoads, HBegins, HScores, HResets, HLaunches,
                                  HCloses, Cleared, RoundFrames
<1>4. h.score[i] = "final" => w.score[i] = "final" /\ m.type # "Score"
  BY <1>1, <1>2, <1>3 DEF Says1
<1>5. Scored(w, i, t)
  <2>1. w.score[i] # "final" => LedBy(t, FinalsOf(n), Of("RoundReset"))
    <3>1. m \in FinalsOf(n) => w.score[i] = "final"
      BY <1>3 DEF FinalsOf
    <3> QED BY <1>1, <1>2, <1>4, <3>1
  <2>2. NoneAfter(t, FinalsOf(n), Of("Score"))
    BY <1>1, <1>2
  <2>3. w.score[i] = "final" => ~Says1(t, "Score")
    <3>1. CASE h.score[i] = "final"
      BY <1>1, <1>2, <3>1 DEF Says1
    <3>2. CASE h.score[i] # "final" /\ w.score[i] = "final"
      <4>1. m \in FinalsOf(n)
        BY <1>1, <1>3, <3>2 DEF FinalsOf
      <4>2. Frames(t) \cap Of("Score") = {} /\ Frames(t) \subseteq ActionType
        BY <1>1, <1>2, <4>1, FramesConcat
      <4> QED BY <4>2 DEF Says1, Of
    <3> QED BY <3>1, <3>2
  <2> QED BY <1>n, <2>1, <2>2, <2>3 DEF Scored
<1>6. Finishes(w, q, i, t)
  <2>1. Says1(t, "RoundReset") => Says1(u, "RoundReset")
    BY <1>1 DEF Says1
  <2> QED BY <1>2, <1>5, <2>1 DEF Finishes
<1>7. Ended(w, i, t) <=> Ended(h, i, u)
  <2>1. m \in FinalsOf(n) => w.score[i] = "final"
    BY <1>3 DEF FinalsOf
  <2>2. w.score[i] = "final" => h.score[i] = "final" \/ m \in FinalsOf(n)
    BY <1>1, <1>3 DEF FinalsOf
  <2> QED BY <1>1, <1>4, <1>n, <2>1, <2>2 DEF Ended
<1>8. ASSUME NEW f \in Frames(out), f.type = "Score", f.player = 1 PROVE FALSE
  BY <1>1, <1>8, ScoreOut
<1>9. Frames(s \o out) = Frames(s) \cup Frames(out)
  BY FramesConcat
<1>10. Scores1(h, q, i, v, y, u, s) => Scores1(w, q, i, v, y, t, s \o out)
  BY <1>7, <1>8, <1>9 DEF Scores1
<1> QED BY <1>6, <1>10, <1>n

\* A joiner scores, leaves its result or says something else.
LEMMA TalkScores ==
  ASSUME NEW h, h.active # 0, NEW q, NEW i \in Ids \ {1}, NEW v \in ViewType, NEW x,
         NEW u \in Seq(ActionType), NEW s,
         Finishes(h, q, i, u), Scores1(h, q, i, v, x, u, s),
         v.state = "Connected", v.id = i, 1 \in v.members, v.active \in {0, h.active}, Lives(v, x),
         NEW w, NEW y, Left(v, w), NEW t,
         \/ Silent(v, x, w, y) /\ t = u
         \/ \E m \in ActionType : Says(v, x, w, y, m) /\ t = Append(u, m)
  PROVE  Finishes(h, q, i, t) /\ Scores1(h, q, i, w, y, t, s)
<1> DEFINE n == h.active
<1>1. /\ w.active = v.active /\ v.score \in [Ids -> Scores] /\ 1 \in Ids
      /\ h.score[i] # "final" => LedBy(u, FinalsOf(n), Of("RoundReset"))
      /\ NoneAfter(u, FinalsOf(n), Of("Score"))
      /\ h.score[i] = "final" => ~Says1(u, "Score")
      /\ Says1(u, "RoundReset") => HostDone(h, q)
      /\ Ended(h, i, u) => v.active = n /\ Over(v, x)
      /\ v.active = n /\ v.finalSent => Ended(h, i, u)
      /\ v.active = n /\ v.score[1] = "final" => HostDone(h, q)
      /\ \A m \in Frames(s) :
           m.type = "Score" /\ m.nonce = n /\ m.player = 1 /\ m.score = "final" => HostDone(h, q)
      /\ n # 0 /\ n = h.active
  BY RoomAssumption DEF Left, OwnCopy, SameRound, ViewType, Finishes, Scored, Scores1, Ids
<1> HIDE DEF n
<1>2. w.score[1] = v.score[1]
  BY <1>1 DEF Silent, Alike, Says, LobbySays, LoadedSays, BeginSays, LiveSays, FinalSays, ResetSays
<1>3. CASE Silent(v, x, w, y) /\ t = u
  <2>1. /\ w.finalSent = v.finalSent
        /\ Over(v, x) => Over(w, y)
    BY <1>3 DEF Silent, Alike, Over
  <2> QED BY <1>1, <1>2, <1>3, <2>1 DEF Scores1
<1>4. ASSUME NEW m \in ActionType, Says(v, x, w, y, m), t = Append(u, m)
      PROVE  Finishes(h, q, i, t) /\ Scores1(h, q, i, w, y, t, s)
  <2>1. /\ Frames(t) = Frames(u) \cup {m}
        /\ \A A, B : NoneAfter(u, A, B) /\ (m \in B => Frames(u) \cap A = {}) => NoneAfter(t, A, B)
        /\ \A A, B : LedBy(u, A, B) /\ (m \in B => Frames(u) \cap A # {}) => LedBy(t, A, B)
    BY <1>4, FramesAppend, AppendOrder
  <2>2. /\ m.type = "Score" => v.active # 0 /\ m.nonce = v.active /\ (x.at = "playing" \/ v.dirty)
        /\ m.type = "RoundReset" => v.active # 0 /\ v.finalSent /\ RemoteFinished(v)
        /\ w.finalSent # v.finalSent => (m.type = "Score" /\ m.score = "final") \/ m.type = "RoundReset"
        /\ m.type = "Score" /\ m.score = "final" => x.at = "playing" /\ y.at = "finished" /\ ~w.dirty
                                                     /\ w.launch = v.launch
        /\ Over(v, x) => Over(w, y)
    BY <1>4 DEF Says, LobbySays, LoadedSays, BeginSays, LiveSays, FinalSays, ResetSays, Alike, Over
  <2>3. m.type = "Score" => ~Ended(h, i, u)
    BY <1>1, <2>2 DEF Over, Lives
  <2>4. m.type = "RoundReset" => Ended(h, i, u) /\ HostDone(h, q)
    <3>1. m.type = "RoundReset" => v.score[1] = "final"
      BY <2>2 DEF RemoteFinished, Others
    <3> QED BY <1>1, <2>2, <3>1
  <2>5. Scored(h, i, t)
    <3>1. h.score[i] # "final" => LedBy(t, FinalsOf(n), Of("RoundReset"))
      <4>1. m \in Of("RoundReset") /\ h.score[i] # "final" => Frames(u) \cap FinalsOf(n) # {}
        BY <1>1, <2>4 DEF Ended, Of
      <4> QED BY <1>1, <2>1, <4>1
    <3>2. NoneAfter(t, FinalsOf(n), Of("Score"))
      <4>1. m \in Of("Score") => Frames(u) \cap FinalsOf(n) = {}
        BY <1>1, <2>3 DEF Ended, Of
      <4> QED BY <1>1, <2>1, <4>1
    <3>3. h.score[i] = "final" => ~Says1(t, "Score")
      BY <1>1, <2>1, <2>3 DEF Ended, Says1
    <3> QED BY <1>1, <3>1, <3>2, <3>3 DEF Scored
  <2>6. Finishes(h, q, i, t)
    BY <1>1, <2>1, <2>4, <2>5 DEF Finishes, Says1
  <2>7. Ended(h, i, u) => Ended(h, i, t)
    BY <2>1 DEF Ended
  <2>8. Ended(h, i, t) => v.active = n /\ Over(w, y)
    <3>1. CASE Ended(h, i, u)
      BY <1>1, <2>2, <3>1
    <3>2. CASE m \in FinalsOf(n)
      <4>1. x.at = "playing" /\ v.launch = NoChart
        BY <2>2, <3>2 DEF FinalsOf, Lives
      <4> QED BY <1>1, <2>2, <3>2, <4>1 DEF FinalsOf, Over
    <3> QED BY <1>1, <2>1, <3>1, <3>2 DEF Ended
  <2>9. v.active = n /\ w.finalSent => Ended(h, i, t)
    <3>1. CASE w.finalSent = v.finalSent \/ m.type = "RoundReset"
      BY <1>1, <2>2, <2>4, <2>7, <3>1
    <3>2. CASE m.type = "Score" /\ m.score = "final"
      BY <1>1, <2>1, <2>2, <3>2 DEF Ended, FinalsOf
    <3> QED BY <2>2, <3>1, <3>2
  <2> QED BY <1>1, <1>2, <2>6, <2>8, <2>9 DEF Scores1
<1> QED BY <1>3, <1>4

\* It reads a frame.
LEMMA ReadScores ==
  ASSUME NEW h, h.active # 0, NEW q, NEW i \in Ids \ {1}, NEW v \in ViewType, NEW x, NEW u,
         NEW s \in Seq(RelayType), s # <<>>, Scores1(h, q, i, v, x, u, s),
         v.state = "Connected", Awaits(v, x, s), Entered(h, v, s),
         NEW w, Applied(v, Head(s), w), Head(s).type # "RoomWelcome"
  PROVE  Scores1(h, q, i, w, x, u, Tail(s))
<1> DEFINE n == h.active
           m == Head(s)
           t == Tail(s)
<1>1. /\ v.score \in [Ids -> Scores] /\ 1 \in Ids
      /\ Ended(h, i, u) => v.active = n /\ Over(v, x)
      /\ v.active = n /\ v.finalSent => Ended(h, i, u)
      /\ v.active = n /\ v.score[1] = "final" => HostDone(h, q)
      /\ \A f \in Frames(s) :
           f.type = "Score" /\ f.nonce = n /\ f.player = 1 /\ f.score = "final" => HostDone(h, q)
      /\ n # 0 /\ n = h.active
  BY RoomAssumption DEF ViewType, Scores1, Ids
<1>2. /\ m \in Frames(s) /\ m \in RelayType /\ Frames(s) = {m} \cup Frames(t) /\ Frames(t) \subseteq Frames(s)
      /\ \A A, B : NoneAfter(s, A, B) => (m \in A => Frames(t) \cap B = {})
      /\ Applied(v, m, w) /\ m.type # "RoomWelcome"
  BY LessToRead
<1>3. /\ v.active = n => \A f \in Frames(s) : f \notin Launches /\ f \notin Foreign(n)
      /\ v.active # n => \E f \in Frames(s) : f \in Launches
      /\ NoneAfter(s, Launches \cup Foreign(0), Launches)
  BY <1>1 DEF Entered, Awaits
<1>g. SUFFICES Scores1(h, q, i, w, x, u, t)
  OBVIOUS
<1> HIDE DEF n, m, t
<1>4. CASE ARoster(v, m, w)
  <2>1. w.active = m.nonce /\ m.type = "RoomRoster" /\ (m.nonce # 0 => OwnPart(v, w))
    BY <1>4 DEF ARoster
  <2>2. v.active = n => m.nonce = n
    BY <1>2, <1>3, <2>1 DEF Foreign
  <2>3. m.nonce = n => v.active = n
    <3> SUFFICES ASSUME m.nonce = n, v.active # n PROVE FALSE
      OBVIOUS
    <3>1. PICK f \in Frames(s) : f \in Launches
      BY <1>3
    <3>2. f \in Frames(t)
      BY <1>2, <2>1, <3>1 DEF Launches
    <3>3. m \in Foreign(0)
      BY <1>1, <1>2, <2>1 DEF Foreign
    <3> QED BY <1>2, <1>3, <3>1, <3>2, <3>3
  <2>4. w.score[1] = "final" => v.score[1] = "final"
    BY <1>1, <1>4 DEF ARoster
  <2>5. v.active = n => w.launch = v.launch /\ w.dirty = v.dirty /\ w.finalSent = v.finalSent
    BY <1>1, <2>1, <2>2 DEF OwnPart
  <2> QED BY <1>1, <1>2, <2>1, <2>2, <2>3, <2>4, <2>5 DEF Scores1, Over
<1>5. CASE ALaunch(v, m, w)
  <2>1. v.active # n
    BY <1>2, <1>3, <1>5 DEF ALaunch, Launches
  <2>2. ~w.finalSent /\ w.score[1] = "none"
    BY <1>1, <1>5 DEF ALaunch, NoScores
  <2> QED BY <1>1, <1>2, <2>1, <2>2 DEF Scores1
<1>6. CASE ABegin(v, m, w) \/ w = v
  <2>1. /\ w.active = v.active /\ w.score = v.score /\ w.finalSent = v.finalSent /\ w.launch = v.launch
        /\ w.dirty = v.dirty
    BY <1>6 DEF ABegin
  <2> QED BY <1>1, <1>2, <2>1 DEF Scores1, Over
<1>7. CASE AScore(v, m, w)
  <2>1. w.active = v.active /\ w.finalSent = v.finalSent /\ w.launch = v.launch /\ w.dirty = v.dirty
    BY <1>7 DEF AScore, OwnPart
  <2>2. w.score[1] = "final" => v.score[1] = "final" \/
          (m.type = "Score" /\ m.nonce = v.active /\ m.player = 1 /\ m.score = "final")
    BY <1>1, <1>7 DEF AScore
  <2> QED BY <1>1, <1>2, <2>1, <2>2 DEF Scores1, Over
<1> QED BY <1>2, <1>4, <1>5, <1>6, <1>7 DEF Applied, AWelcome

\* A joiner's scores, in every step while a round runs.
LEMMA RunScores ==
  ASSUME RoomInv, RoundInv, Ends, HostInv, CopyInv, PlayInv, ScoreInv, RoomInv', Shape,
         view'[Host].state # "Off", view[Host].active # 0, view'[Host].active # 0,
         Ending(view[Host], ui[Host], controls, view'[Host], ui'[Host], controls'),
         NEW c \in Joiners, link'[c] = "up"
  PROVE  /\ Finishes(view'[Host], controls', seat'[c], up'[c])
         /\ view'[c].state = "Connected" =>
              Scores1(view'[Host], controls', seat'[c], view'[c], ui'[c], up'[c], Coming(c)')
<1> DEFINE h == view[Host]
           hh == view'[Host]
           hx == ui[Host]
           q == controls
           r == controls'
           v == view[c]
           x == ui[c]
           i == seat[c]
           u == up[c]
           s == Coming(c)
           Next1(w, y, t, z) == Finishes(hh, r, i, t) /\ (w.state = "Connected" => Scores1(hh, r, i, w, y, t, z))
<1>1. Sees(c)
  BY SeesStep
<1>2. link[c] = "up"
  BY <1>1 DEF Sees, Rests, Bids, Talks, Quits, Reads, Heeded, Minded, Widens, Arrives, Narrows, Unmoved, Wider
<1>3. /\ h.state # "Off" /\ h \in ViewType /\ v \in ViewType /\ i \in Ids \ {1} /\ h.id = 1 /\ 1 \in Ids
      /\ u \in Seq(ActionType) /\ s \in Seq(RelayType) /\ q \in Seq(ActionType)
      /\ Finishes(h, q, i, u) /\ HostEnd(h, hx, q)
      /\ v.state \notin {"Off", "Connected"} => v.state = "Joining"
      /\ v.state = "Connected" => v.active \in {0, h.active}
  BY <1>2, SeatedFacts, Shapely, RoomAssumption DEF ScoreInv, Ends, End, OfRoom, Ids
<1>4. /\ v.state # "Off" => v.state = "Connected"
      /\ v.state = "Connected" =>
           /\ Scores1(h, q, i, v, x, u, s) /\ Awaits(v, x, s) /\ Entered(h, v, s) /\ Lives(v, x)
           /\ v.id = i /\ 1 \in v.members /\ \A m \in Frames(s) : m.type # "RoomWelcome"
  BY <1>2, <1>3 DEF CopyInv, PlayInv, ScoreInv, Copies, Joins, Greets, InMatch
<1>5. hh.active = h.active /\ (HostDone(h, q) => HostDone(hh, r))
  BY <1>3 DEF Ending
<1>6. /\ h = view[Host] /\ hh = view'[Host] /\ hx = ui[Host] /\ q = controls /\ r = controls'
      /\ v = view[c] /\ x = ui[c] /\ i = seat[c] /\ u = up[c] /\ s = Coming(c)
  OBVIOUS
<1>7. h.active # 0 /\ hh.active # 0
  OBVIOUS
<1>8. seat'[c] = i
  BY <1>1, <1>6, <1>7 DEF Sees, Rests, Bids, Talks, Quits, Reads, Heeded, Minded, Widens, Arrives, Narrows, Unmoved, Wider
<1>g. SUFFICES Next1(view'[c], ui'[c], up'[c], Coming(c)')
  BY <1>8
<1> HIDE DEF h, hh, hx, q, r, v, x, i, u, s
<1>u. Unmoved(c) => view'[c] = v /\ ui'[c] = x /\ up'[c] = u
  BY <1>6 DEF Unmoved
<1>s. /\ \A t : Sends(c, t) /\ v.state # "Off" => Coming(c)' = s \o t
      /\ Hushed(c) /\ v.state # "Off" => Coming(c)' = s
  BY <1>6 DEF Sends, Hushed
<1>9. ASSUME hh.score[i] = h.score[i], Unmoved(c), NEW out \in Seq(RelayType), \A f \in Frames(out) : f.type # "Score",
             Sends(c, out) \/ (Hushed(c) /\ out = <<>>)
      PROVE  Next1(view'[c], ui'[c], up'[c], Coming(c)')
  <2>1. Frames(s \o out) = Frames(s) \cup Frames(out)
    BY <1>3, <1>9, FramesConcat
  <2>2. v.state = "Connected" => Scores1(h, q, i, v, x, u, s \o out)
    BY <1>4, <1>9, <2>1 DEF Scores1
  <2>3. Finishes(hh, r, i, u) /\ (v.state = "Connected" => Scores1(hh, r, i, v, x, u, s \o out))
    BY <1>3, <1>5, <1>9, <2>2, ScoresStay
  <2>4. v.state = "Connected" => Coming(c)' = s \o out
    <3>1. s \o <<>> = s
      BY <1>3, ConcatEmptySeq
    <3> QED BY <1>9, <1>s, <3>1
  <2> QED BY <1>9, <1>u, <2>3, <2>4
<1>e. <<>> \in Seq(RelayType) /\ Frames(<<>>) = {}
  BY FramesFew
<1>10. CASE Rests(c)
  <2>1. hh = h /\ Unmoved(c) /\ Hushed(c)
    BY <1>6, <1>10 DEF Rests, HostStill
  <2> QED BY <1>9, <1>e, <2>1
<1>11. CASE Bids(c)
  <2>1. Unmoved(c) /\ Hushed(c)
    BY <1>11 DEF Bids
  <2>2. hh.score[i] = h.score[i]
    <3>1. h.score \in [Ids -> Scores]
      BY <1>3 DEF ViewType
    <3>2. \/ Silent(h, ui[Host], hh, ui'[Host])
          \/ \E m \in ActionType : Says(h, ui[Host], hh, ui'[Host], m)
      BY <1>6, <1>11 DEF Bids
    <3> QED BY <1>3, <3>1, <3>2 DEF Silent, Alike, Says, LobbySays, LoadedSays, BeginSays, LiveSays,
                                   FinalSays, ResetSays
  <2> QED BY <1>9, <1>e, <2>1, <2>2
<1>12. CASE Talks(c)
  <2>1. PICK w \in ViewType, y \in UiType :
          /\ hh = h /\ r = q /\ Hushed(c) /\ v.state = "Connected"
          /\ view'[c] = w /\ ui'[c] = y /\ Left(v, w)
          /\ \/ Silent(v, x, w, y) /\ up'[c] = u
             \/ \E m \in ActionType : Says(v, x, w, y, m) /\ up'[c] = Append(u, m)
    BY <1>6, <1>12 DEF Talks, HostStill
  <2> DEFINE t == up'[c]
  <2>2. \/ Silent(v, x, w, y) /\ t = u
        \/ \E m \in ActionType : Says(v, x, w, y, m) /\ t = Append(u, m)
    BY <2>1
  <2>g. SUFFICES Next1(w, y, t, s)
    BY <1>s, <2>1
  <2> HIDE DEF t
  <2>3. Finishes(h, q, i, t) /\ Scores1(h, q, i, w, y, t, s)
    BY <1>3, <1>4, <1>7, <2>1, <2>2, TalkScores
  <2> QED BY <2>1, <2>3
<1>13. CASE Quits(c)
  <2>1. hh = h /\ r = q /\ view'[c] = OffView
    BY <1>6, <1>13 DEF Quits, HostStill
  <2>2. view'[c].state # "Connected"
    BY <2>1 DEF OffView, FreshView
  <2>3. PICK k \in 0..Len(u) : up'[c] = Append(SubSeq(u, 1, k), Bye)
    BY <1>6, <1>13 DEF Quits
  <2> DEFINE t == Append(SubSeq(u, 1, k), Bye)
  <2>4. Bye \in ActionType /\ Bye.type = "Disconnect" /\ Bye \notin Of("Score") /\ Bye \notin Of("RoundReset")
    BY DEF Bye, ActionType, Of
  <2>5. /\ NoneAfter(u, FinalsOf(h.active), Of("Score")) => NoneAfter(t, FinalsOf(h.active), Of("Score"))
        /\ LedBy(u, FinalsOf(h.active), Of("RoundReset")) => LedBy(t, FinalsOf(h.active), Of("RoundReset"))
    BY <1>3, <2>4, PrefixOrder
  <2>6. Frames(t) \subseteq Frames(u) \cup {Bye}
    BY <1>3, <2>4, FramesPrefix
  <2>7. up'[c] = t
    BY <2>3
  <2> HIDE DEF t
  <2>8. Finishes(h, q, i, t)
    BY <1>3, <2>4, <2>5, <2>6 DEF Finishes, Scored, Says1
  <2> QED BY <2>1, <2>2, <2>7, <2>8
<1>14. CASE Reads(c)
  <2>1. /\ hh = h /\ r = q /\ v.state # "Off" /\ ui'[c] = x /\ up'[c] = u /\ s # <<>>
        /\ Head(s).type # "Disconnect"
        /\ view'[c] = Apply(v, Head(s)) /\ Coming(c)' = Tail(s)
    BY <1>6, <1>14 DEF Reads, HostStill
  <2>2. Head(s).type # "RoomWelcome"
    BY <1>3, <1>4, <2>1, FramesTail
  <2> DEFINE w == Apply(v, Head(s))
  <2>3. Applied(v, Head(s), w)
    <3>1. Head(s) \in RelayType
      BY <1>3, <2>1, LessToRead
    <3> QED BY <1>3, <2>1, <3>1, ApplyKinds
  <2> HIDE DEF w
  <2>4. Scores1(h, q, i, w, x, u, Tail(s))
    BY <1>3, <1>4, <1>7, <2>1, <2>2, <2>3, ReadScores
  <2> QED BY <1>3, <2>1, <2>4 DEF w
<1>15. ASSUME NEW j \in Ids, NEW m \in ActionType, NEW w \in ViewType, NEW out \in Seq(RelayType),
              Minded(c, j, m, w, out)
       PROVE  Next1(view'[c], ui'[c], up'[c], Coming(c)')
  <2>1. /\ Unmoved(c) /\ Handled(h, order, j, m, hh, out) /\ Sends(c, out) /\ hh \in ViewType /\ j # i
        /\ \/ j = 1 /\ q # <<>> /\ m = Head(q) /\ r = Tail(q)
           \/ j # 1 /\ r = q
    <3>1. \A d \in Joiners : link[d] = "up" => seat[d] # 1
      BY <1>3, <1>6, HostFacts
    <3> QED BY <1>6, <1>15, <3>1 DEF Minded
  <2>2. /\ Finishes(hh, r, i, u)
        /\ v.state = "Connected" => Scores1(hh, r, i, v, x, u, s \o out)
    BY <1>3, <1>4, <1>5, <1>7, <1>15, <2>1, HandledScores
  <2>3. v.state = "Connected" => Coming(c)' = s \o out
    BY <1>s, <2>1
  <2> QED BY <1>u, <2>1, <2>2, <2>3
<1>16. ASSUME NEW w \in ViewType, NEW out \in Seq(RelayType), Heeded(c, w, out)
       PROVE  Next1(view'[c], ui'[c], up'[c], Coming(c)')
  <2>1. /\ u # <<>> /\ up'[c] = Tail(u) /\ view'[c] = v /\ ui'[c] = x /\ r = q /\ hh \in ViewType
        /\ Handled(h, order, i, Head(u), hh, out) /\ Sends(c, out)
    BY <1>6, <1>16 DEF Heeded
  <2>2. /\ Finishes(hh, q, i, Tail(u))
        /\ v.state = "Connected" => Scores1(hh, q, i, v, x, Tail(u), s \o out)
    BY <1>3, <1>4, <1>5, <1>7, <1>16, <2>1, HeededScores
  <2>3. v.state = "Connected" => Coming(c)' = s \o out
    BY <1>s, <2>1
  <2> QED BY <2>1, <2>2, <2>3
<1>17. CASE Widens(c) \/ Arrives(c)
  BY <1>6, <1>7, <1>17 DEF Widens, Arrives, Wider
<1>18. CASE Narrows(c)
  <2>1. PICK w \in ViewType, id \in h.members \ {1} :
          /\ Removed(h, order, id, order', w) /\ id # i /\ Unmoved(c) /\ hh = w
          /\ RosterMsg(w) \in RelayType /\ Sends(c, <<RosterMsg(w)>>)
    BY <1>6, <1>18 DEF Narrows
  <2>2. hh.score[i] = h.score[i]
    <3>1. h.score \in [Ids -> Scores]
      BY <1>3 DEF ViewType
    <3> QED BY <1>3, <1>7, <2>1, <3>1 DEF Removed, Less, Cleared
  <2>3. RosterMsg(w).type # "Score"
    BY DEF RosterMsg
  <2>4. <<RosterMsg(w)>> \in Seq(RelayType) /\ Frames(<<RosterMsg(w)>>) = {RosterMsg(w)}
    BY <2>1, FramesFew
  <2> QED BY <1>9, <2>1, <2>2, <2>3, <2>4
<1> QED BY <1>1, <1>10, <1>11, <1>12, <1>13, <1>14, <1>15, <1>16, <1>17, <1>18 DEF Sees

\* A joiner's scores when a round starts: there are none.
LEMMA StartScores ==
  ASSUME RoomInv, RoundInv, Ends, HostInv, WireInv, CopyInv, PlayInv, RoomInv', Shape,
         view'[Host].state # "Off", view[Host].active = 0, view'[Host].active # 0,
         NEW c \in Joiners, link'[c] = "up"
  PROVE  /\ Finishes(view'[Host], controls', seat'[c], up'[c])
         /\ view'[c].state = "Connected" =>
              Scores1(view'[Host], controls', seat'[c], view'[c], ui'[c], up'[c], Coming(c)')
<1> DEFINE h == view[Host]
           hh == view'[Host]
           v == view[c]
           x == ui[c]
           i == seat[c]
           u == up[c]
           s == Coming(c)
           r == controls'
           Next1(w, y, t, z) == Finishes(hh, r, i, t) /\ (w.state = "Connected" => Scores1(hh, r, i, w, y, t, z))
<1>1. Sees(c)
  BY SeesStep
<1>2. /\ h = view[Host] /\ hh = view'[Host] /\ v = view[c] /\ x = ui[c] /\ i = seat[c] /\ u = up[c] /\ s = Coming(c)
      /\ r = controls'
  OBVIOUS
<1>3. h.active = 0 /\ hh.active # 0
  OBVIOUS
<1>4. ASSUME link[c] = "up"
      PROVE  /\ i \in h.members /\ i \in Ids \ {1} /\ u \in Seq(ActionType) /\ s \in Seq(RelayType)
             /\ v.state # "Off" => OfRoom(h, v.rev, v.rate, v.active)
             /\ i \in h.ready /\ v.state # "Off" => v.rev = h.rev
             /\ Wire(h, i, u) /\ v \in ViewType /\ h \in ViewType
             /\ v.state = "Connected" => Timely(v, s)
  BY <1>4, SeatedFacts DEF WireInv, PlayInv, InMatch
<1>5. seat'[c] = i \/ link[c] # "up"
  BY <1>1, <1>2 DEF Sees, Rests, Bids, Talks, Quits, Reads, Heeded, Minded, Widens, Arrives, Narrows, Unmoved, Wider
<1>6. SUFFICES /\ link[c] = "up"
               /\ link[c] = "up" => Next1(view'[c], ui'[c], up'[c], Coming(c)')
  BY <1>5
<1> HIDE DEF h, hh, v, x, i, u, s, r
<1>7. ASSUME link[c] = "up", NEW j \in Ids, NEW m \in ActionType, NEW out \in Seq(RelayType),
             Handled(h, order, j, m, hh, out), NEW t, Frames(t) \subseteq Frames(u),
             view'[c] = v, ui'[c] = x, up'[c] = t, v.state # "Off" => Coming(c)' = s \o out
      PROVE  Next1(view'[c], ui'[c], up'[c], Coming(c)')
  <2>1. HLaunches(h, j, m, hh, out)
    BY <1>3, <1>7 DEF Handled, HTalks, HRenews, HLoads, HBegins, HScores, HResets, HCloses, Round, Cleared,
                      RoundFrames
  <2>2. i \in h.ready
    BY <1>4, <1>7, <2>1 DEF HLaunches, AllReady
  <2>3. \A f \in Frames(t) : f.type \notin RoundFrames
    BY <1>3, <1>4, <1>7, <2>2 DEF Wire
  <2>4. v.state # "Off" => v.active = 0
    BY <1>3, <1>4, <1>7, <2>2 DEF OfRoom
  <2>5. hh.score = NoScores /\ hh.score[i] = "none"
    BY <1>4, <1>7, <2>1 DEF HLaunches, NoScores
  <2>6. ~Ended(hh, i, t)
    BY <2>3, <2>5 DEF Ended, FinalsOf, RoundFrames
  <2>7. Finishes(hh, r, i, t)
    <3>1. \A f \in Frames(t) : f \notin Of("RoundReset") /\ f \notin FinalsOf(hh.active) /\ f \notin Of("Score")
      BY <2>3 DEF Of, FinalsOf, RoundFrames
    <3>2. LedBy(t, FinalsOf(hh.active), Of("RoundReset")) /\ NoneAfter(t, FinalsOf(hh.active), Of("Score"))
      BY <3>1 DEF LedBy, NoneAfter, Frames
    <3> QED BY <2>3, <2>5, <3>2 DEF Finishes, Scored, Says1, RoundFrames
  <2>8. ASSUME v.state = "Connected", NEW f \in Frames(s \o out) PROVE f.type # "Score"
    <3>1. Frames(s \o out) = Frames(s) \cup Frames(out)
      BY <1>4, <1>7, FramesConcat
    <3>2. CASE f \in Frames(s)
      BY <1>4, <1>7, <2>4, <2>8, <3>2 DEF Timely, Frames
    <3>3. CASE f \in Frames(out)
      <4>1. out = <<From(j, m), RosterMsg(hh)>> /\ m.type = "Launch"
        BY <2>1 DEF HLaunches
      <4>2. RosterMsg(hh).type # "Score" /\ From(j, m).type = "Launch"
        BY <4>1, ActionFields DEF RosterMsg, From
      <4> QED BY <3>3, <4>1, <4>2, FramesFew
    <3> QED BY <2>8, <3>1, <3>2, <3>3
  <2> QED BY <1>3, <1>7, <2>4, <2>6, <2>7, <2>8 DEF Scores1
<1>8. CASE Rests(c) \/ Talks(c) \/ Quits(c) \/ Reads(c)
  BY <1>2, <1>3, <1>8 DEF Rests, Talks, Quits, Reads, HostStill
<1>9. CASE Bids(c)
  BY <1>2, <1>3, <1>9 DEF Bids, Left, OwnCopy, SameRound
<1>10. CASE Widens(c) \/ Arrives(c)
  BY <1>2, <1>3, <1>10 DEF Widens, Arrives, Wider, Round
<1>11. CASE Narrows(c)
  BY <1>2, <1>3, <1>11 DEF Narrows, Removed, Less, Cleared
<1>12. ASSUME NEW j \in Ids, NEW m \in ActionType, NEW w \in ViewType, NEW out \in Seq(RelayType),
              Minded(c, j, m, w, out)
       PROVE  link[c] = "up" /\ Next1(view'[c], ui'[c], up'[c], Coming(c)')
  <2>1. /\ link[c] = "up" /\ view'[c] = v /\ ui'[c] = x /\ up'[c] = u /\ Handled(h, order, j, m, hh, out)
        /\ v.state # "Off" => Coming(c)' = s \o out
    BY <1>2, <1>12 DEF Minded, Unmoved, Sends
  <2> QED BY <1>7, <2>1
<1>13. ASSUME NEW w \in ViewType, NEW out \in Seq(RelayType), Heeded(c, w, out)
       PROVE  link[c] = "up" /\ Next1(view'[c], ui'[c], up'[c], Coming(c)')
  <2> DEFINE m == Head(u)
  <2>1. /\ link[c] = "up" /\ u # <<>> /\ view'[c] = v /\ ui'[c] = x /\ up'[c] = Tail(u)
        /\ Handled(h, order, i, m, hh, out)
        /\ v.state # "Off" => Coming(c)' = s \o out
    BY <1>2, <1>13 DEF Heeded, Sends
  <2>2. m \in ActionType /\ Frames(Tail(u)) \subseteq Frames(u) /\ i \in Ids
    BY <1>4, <2>1, FramesTail
  <2> HIDE DEF m
  <2> QED BY <1>7, <2>1, <2>2
<1> QED BY <1>1, <1>8, <1>9, <1>10, <1>11, <1>12, <1>13 DEF Sees

\* The scores, in every step.
LEMMA StepScore ==
  ASSUME RoomInv, RoundInv, Ends, HostInv, WireInv, CopyInv, PlayInv, ScoreInv, RoomInv', Shape
  PROVE  ScoreInv'
<1> SUFFICES ASSUME view'[Host].state # "Off"
             PROVE  ScoreInv'
  BY DEF ScoreInv
<1>1. /\ view[Host].state # "Off"
      /\ Ending(view[Host], ui[Host], controls, view'[Host], ui'[Host], controls')
  BY StepEnding
<1>2. HostEnd(view'[Host], ui'[Host], controls')
  BY <1>1 DEF ScoreInv, Ending
<1>3. ASSUME NEW c \in Joiners, link'[c] = "up"
      PROVE  /\ Finishes(view'[Host], controls', seat'[c], up'[c])
             /\ view'[c].state = "Connected" =>
                  Scores1(view'[Host], controls', seat'[c], view'[c], ui'[c], up'[c], Coming(c)')
  <2>1. CASE view'[Host].active = 0
    BY <2>1 DEF Finishes, Scored, Scores1
  <2>2. CASE view[Host].active = 0 /\ view'[Host].active # 0
    BY <1>3, <2>2, StartScores
  <2>3. CASE view[Host].active # 0 /\ view'[Host].active # 0
    BY <1>1, <1>3, <2>3, RunScores
  <2> QED BY <2>1, <2>2, <2>3
<1> QED BY <1>2, <1>3 DEF ScoreInv

\* Nobody has scored at first.
LEMMA InitScore ==
  ASSUME Init
  PROVE  ScoreInv
<1>1. view[Host].active = 0
  <2>1. view[Host] = HostView
    BY DEF Init, Procs
  <2> QED BY <2>1 DEF HostView, FreshView
<1> QED BY <1>1 DEF ScoreInv, HostEnd, Finishes, Scored, Scores1

\* The scores in every behaviour.
LEMMA ScoreAlways ==
  Spec => [](RoomInv /\ RoundInv /\ Ends /\ HostInv /\ WireInv /\ CopyInv /\ PlayInv /\ ScoreInv)
<1> DEFINE Inv == RoomInv /\ RoundInv /\ Ends /\ HostInv /\ WireInv /\ CopyInv /\ PlayInv
<1>1. Init => ScoreInv
  BY InitScore
<1>2. Inv /\ ScoreInv /\ Inv' /\ [Next]_vars => ScoreInv'
  <2> SUFFICES ASSUME Inv, ScoreInv, Inv', [Next]_vars PROVE ScoreInv'
    OBVIOUS
  <2>1. Shape
    BY Shapes
  <2> QED BY <2>1, StepScore
<1>3. Spec => []Inv
  BY PlayAlways
<1> HIDE DEF Inv
<1>4. Spec => []ScoreInv
  BY <1>1, <1>2, <1>3, PTL DEF Spec
<1> QED BY <1>3, <1>4, PTL DEF Inv

\* A frame that closes a round which has begun is the last player's return from
\* the result.
LEMMA HandledCloses ==
  ASSUME NEW h \in ViewType, NEW x, NEW q, HostEnd(h, x, q), h.active # 0, h.begun, 1 \in Ids,
         NEW ord, NEW j, NEW m, NEW w, NEW out, Handled(h, ord, j, m, w, out), w.active = 0,
         j # 1 /\ m.type = "RoundReset" /\ m.nonce = h.active => HostDone(h, q)
  PROVE  /\ \A i \in w.members : h.score[i] = "final"
         /\ m.type = "RoundReset" /\ m.nonce = h.active /\ w.members \subseteq h.reset \cup {j}
<1>1. HCloses(h, ord, j, m, w, out)
  BY DEF Handled, HTalks, HRenews, HLoads, HBegins, HScores, HResets, HLaunches, Round
<1>2. /\ w.members = h.members /\ h.members \subseteq h.reset \cup {j} /\ h.score[j] = "final"
      /\ m.type = "RoundReset" /\ m.nonce = h.active
  BY <1>1 DEF HCloses, Table
<1>3. ASSUME NEW i \in w.members PROVE h.score[i] = "final"
  <2>1. CASE i = j
    BY <1>2, <2>1
  <2>2. CASE i # j /\ i # 1
    BY <1>2, <1>3, <2>2 DEF HostEnd
  <2>3. CASE i # j /\ i = 1
    BY <1>2, <2>3 DEF HostDone
  <2> QED BY <2>1, <2>2, <2>3
<1> QED BY <1>2, <1>3

\* The players of the seats s are back in the lobby.
Home(s) == \A p \in Procs : Seated(p) /\ SeatOf(p) \in s => ui[p].at = "lobby"

\* Whoever has left the result, or has the frame that says so under way, is.
LEMMA ResetIsHome ==
  ASSUME Ends, HostInv, PlayInv, view[Host].state # "Off", view[Host].active # 0, NEW s,
         1 \in s => 1 \in view[Host].reset,
         \A c \in Joiners : link[c] = "up" /\ seat[c] \in s =>
           seat[c] \in view[Host].reset \/ Says1(up[c], "RoundReset")
  PROVE  Home(s)
<1> SUFFICES ASSUME NEW p \in Procs, Seated(p), SeatOf(p) \in s PROVE ui[p].at = "lobby"
  BY DEF Home
<1>1. CASE p = Host
  <2>1. 1 \in view[Host].reset
    BY <1>1 DEF SeatOf
  <2>2. HostState(view[Host], ui[Host], rounds)
    BY DEF HostInv
  <2> QED BY <1>1, <2>1, <2>2 DEF HostState
<1>2. CASE p # Host
  <2>1. p \in Joiners /\ link[p] = "up" /\ seat[p] \in s
    BY <1>2 DEF Procs, Seated, SeatOf
  <2>2. CASE view[p].state # "Connected"
    BY <2>1, <2>2 DEF Ends, End
  <2>3. CASE view[p].state = "Connected"
    <3>1. Plays(view[Host], seat[p], view[p], ui[p], up[p], Coming(p))
      BY <2>1, <2>3 DEF PlayInv, InMatch
    <3> QED BY <2>1, <3>1 DEF Plays, Idles
  <2> QED BY <2>2, <2>3
<1> QED BY <1>1, <1>2

\* A round that began closes in full, in every step.
LEMMA StepCloses ==
  ASSUME RoomInv, RoundInv, Ends, HostInv, PlayInv, ScoreInv, RoomInv', Shape,
         view[Host].active # 0, view'[Host].active = 0, view[Host].begun, Len(order') > 1
  PROVE  /\ \A i \in view'[Host].members : view[Host].score[i] = "final"
         /\ Home(view'[Host].members)
<1> DEFINE h == view[Host]
           w == view'[Host]
           x == ui[Host]
           q == controls
<1>1. /\ h = view[Host] /\ w = view'[Host] /\ x = ui[Host] /\ q = controls
      /\ h.active # 0 /\ w.active = 0 /\ h.begun
  OBVIOUS
<1>2. q \in Seq(ActionType) /\ h \in ViewType /\ 1 \in Ids /\ \A c \in Joiners : up[c] \in Seq(ActionType)
  BY Shapely, RoomAssumption DEF Ids
<1>3. h.state # "Off" => HostEnd(h, x, q)
  BY DEF ScoreInv
<1>h. ASSUME NEW s, h.state # "Off", 1 \in s => 1 \in h.reset,
             \A c \in Joiners : link[c] = "up" /\ seat[c] \in s =>
               seat[c] \in h.reset \/ Says1(up[c], "RoundReset")
      PROVE  Home(s)
  BY <1>1, <1>h, ResetIsHome
<1>g. SUFFICES (\A i \in w.members : h.score[i] = "final") /\ Home(w.members)
  OBVIOUS
<1> HIDE DEF h, w, x, q
<1>4. CASE HostMoves
  BY <1>1, <1>4 DEF HostMoves, Left, OwnCopy, SameRound
<1>5. CASE Passes \/ Flushes
  BY <1>1, <1>5 DEF Passes, Flushes, HostStill
<1>6. ASSUME NEW c \in Joiners, JoinerMoves(c) \/ JoinerTurns(c) \/ Seats(c)
      PROVE  FALSE
  BY <1>1, <1>6 DEF JoinerMoves, JoinerTurns, Seats, HostStill
<1>7. CASE Minds
  <2>1. PICK out : h.state # "Off" /\ q # <<>> /\ Handled(h, order, 1, Head(q), w, out)
    BY <1>1, <1>7 DEF Minds
  <2>2. /\ \A i \in w.members : h.score[i] = "final"
        /\ Head(q).type = "RoundReset" /\ Head(q).nonce = h.active
        /\ w.members \subseteq h.reset \cup {1}
    BY <1>1, <1>2, <1>3, <2>1, HandledCloses
  <2>3. 1 \in h.reset
    <3>1. Head(q) \in Frames(q)
      BY <1>2, <2>1, FramesTail
    <3>2. HostQueue(h, x, Frames(q))
      BY <1>1, <2>1 DEF HostInv
    <3> QED BY <2>2, <3>1, <3>2 DEF HostQueue
  <2> QED BY <1>h, <2>1, <2>2, <2>3
<1>8. ASSUME NEW c \in Joiners, Hears(c)
      PROVE  (\A i \in w.members : h.score[i] = "final") /\ Home(w.members)
  <2>1. PICK out : /\ h.state # "Off" /\ link[c] = "up" /\ up[c] # <<>>
                   /\ Handled(h, order, seat[c], Head(up[c]), w, out)
    BY <1>1, <1>8 DEF Hears
  <2>2. Head(up[c]) \in Frames(up[c])
    BY <1>2, <2>1, FramesTail
  <2>3. Head(up[c]).type = "RoundReset" => HostDone(h, q)
    BY <1>1, <2>1, <2>2 DEF ScoreInv, Finishes, Says1
  <2>4. /\ \A i \in w.members : h.score[i] = "final"
        /\ Head(up[c]).type = "RoundReset" /\ w.members \subseteq h.reset \cup {seat[c]}
    BY <1>1, <1>2, <1>3, <2>1, <2>3, HandledCloses
  <2>5. /\ seat[c] # 1
        /\ \A d \in Joiners : link[d] = "up" /\ seat[d] = seat[c] => d = c
    BY <1>1, <2>1, HostFacts
  <2>6. Says1(up[c], "RoundReset")
    BY <2>2, <2>4 DEF Says1
  <2> QED BY <1>h, <2>1, <2>4, <2>5, <2>6
<1>9. CASE Closes
  <2>1. w.members = {}
    BY <1>1, <1>9 DEF Closes, OffView, FreshView
  <2> QED BY <2>1 DEF Home
<1>10. ASSUME NEW c \in Joiners, Parts(c)
       PROVE  (\A i \in w.members : h.score[i] = "final") /\ Home(w.members)
  <2>1. /\ h.state # "Off" /\ seat[c] \in h.members \ {1}
        /\ Removed(h, order, seat[c], order', w)
    BY <1>1, <1>10 DEF Parts
  <2>2. w.state # "Off"
    BY <2>1 DEF Removed, Less
  <2>3. order' \in Seq(Ids) /\ NoRepeat(order') /\ InOrder(order') = w.members
    BY <1>1, <2>2 DEF RoomInv, SeatInv, Seating
  <2>4. Len(order') >= 2
    <3>1. Len(order') \in Nat
      BY <2>3, LenProperties
    <3> QED BY <3>1
  <2>5. PICK j \in w.members : j # 1
    BY <2>3, <2>4, SeveralThere
  <2>6. w.members \subseteq h.reset
    <3>1. ~Less(h, seat[c], w)
      BY <1>1 DEF Less
    <3>2. ~(Len(order') < 2)
      <4>1. Len(order') \in Nat
        BY <2>3, LenProperties
      <4> QED BY <2>4, <4>1
    <3> QED BY <2>1, <3>1, <3>2 DEF Removed
  <2>7. \A k \in h.reset \ {1} : h.score[k] = "final" /\ HostDone(h, q)
    BY <1>1, <1>3, <2>1 DEF HostEnd
  <2>8. h.score[1] = "final"
    BY <2>5, <2>6, <2>7 DEF HostDone
  <2> QED BY <1>h, <2>1, <2>6, <2>7, <2>8
<1> QED BY <1>4, <1>5, <1>6, <1>7, <1>8, <1>9, <1>10 DEF Shape

\* A round that has begun closes only when everybody who is still there has sent
\* a final score and is back in the lobby, unless one player is left: a round reset
\* counts as one more return, whoever sends it and in whatever order the frames
\* arrive (all_players_reset_locked).
THEOREM RoundsCloseInFull == Spec => ClosedInFull
<1> DEFINE Inv == RoomInv /\ RoundInv /\ Ends /\ HostInv /\ WireInv /\ CopyInv /\ PlayInv /\ ScoreInv
           Full == view[Host].active # 0 /\ view'[Host].active = 0 /\ view[Host].begun /\ Len(order') > 1
                     => /\ \A i \in view'[Host].members : view[Host].score[i] = "final"
                        /\ Home(view'[Host].members)
<1>1. Inv /\ Inv' /\ [Next]_vars => Full
  <2> SUFFICES ASSUME Inv, Inv', [Next]_vars PROVE Full
    OBVIOUS
  <2>1. Shape
    BY Shapes
  <2> QED BY <2>1, StepCloses
<1>2. Inv /\ Inv' /\ [Next]_vars => [Full]_vars
  BY <1>1
<1>3. Spec => []Inv
  BY ScoreAlways
<1>4. Spec => [][Full]_vars
  <2> HIDE DEF Inv, Full
  <2> QED BY <1>2, <1>3, PTL DEF Spec
<1> QED BY <1>4 DEF ClosedInFull, Home

-----------------------------------------------------------------------------
(* The frames that are left on a link the coordinator has given up.        *)

\* What joiner i, with copy v, will make of the frames s.  Whoever has not been
\* greeted is greeted first; whoever has not been let in hears nothing of a
\* match once it is; and whoever is in the room hears of its own round, from
\* the leader it knows by then.
Tuned(i, v, s) ==
  /\ \/ v.id = i /\ \A m \in Frames(s) : m.type # "RoomWelcome"
     \/ /\ v.state # "Connected"
        /\ s # <<>> /\ Head(s).type # "Disconnect" =>
             /\ Head(s).type = "RoomWelcome" /\ Head(s).player = i
             /\ \A m \in Frames(Tail(s)) : m.type # "RoomWelcome"
  /\ v.state = "Joining" => NoneAfter(s, Naming(i), OfMatch)
  /\ v.state = "Connected" =>
       /\ Timely(v, s)
       /\ \A l \in DOMAIN s : s[l].type = "Begin" => Heard(v, s, l, s[l].player, {})

FrozenInv ==
  \A c \in Joiners :
    /\ link[c] \in {"none", "greeting"} => down[c] = <<>>
    /\ link[c] # "up" /\ view[c].state # "Off" => Tuned(seat[c], view[c], down[c])

\* A beginning of what is under way.
LEMMA TunedPrefix ==
  ASSUME NEW s \in Seq(RelayType), NEW t \in Seq(RelayType), NEW i, NEW v, Tuned(i, v, s \o t)
  PROVE  Tuned(i, v, s)
<1> DEFINE z == s \o t
<1>1. /\ Len(s) \in Nat /\ DOMAIN s = 1..Len(s) /\ z \in Seq(RelayType)
      /\ \A k \in DOMAIN s : k \in DOMAIN z /\ z[k] = s[k]
      /\ s # <<>> => z # <<>> /\ Head(z) = Head(s) /\ Frames(Tail(s)) \subseteq Frames(Tail(z))
  <2>1. /\ Len(s) \in Nat /\ DOMAIN s = 1..Len(s) /\ z \in Seq(RelayType) /\ Len(t) \in Nat
        /\ Len(z) = Len(s) + Len(t) /\ DOMAIN z = 1..Len(z)
        /\ \A k \in 1..Len(s) : z[k] = s[k]
    BY LenProperties, ConcatProperties
  <2>2. \A k \in DOMAIN s : k \in DOMAIN z /\ z[k] = s[k]
    BY <2>1
  <2>3. ASSUME s # <<>>
        PROVE  z # <<>> /\ Head(z) = Head(s) /\ Frames(Tail(s)) \subseteq Frames(Tail(z))
    <3>1. Len(s) >= 1
      BY <2>1, <2>3, EmptySeq
    <3>2. z # <<>>
      BY <2>1, <3>1, EmptySeq
    <3>3. /\ DOMAIN Tail(s) = 1..(Len(s) - 1) /\ \A k \in DOMAIN Tail(s) : Tail(s)[k] = s[k + 1]
          /\ DOMAIN Tail(z) = 1..(Len(z) - 1) /\ \A k \in DOMAIN Tail(z) : Tail(z)[k] = z[k + 1]
          /\ Head(z) = z[1] /\ Head(s) = s[1]
      BY <2>1, <2>3, <3>2, HeadTailProperties, LenProperties
    <3>4. \A k \in DOMAIN Tail(s) : k \in DOMAIN Tail(z) /\ Tail(z)[k] = Tail(s)[k]
      BY <2>1, <2>2, <3>3
    <3> QED BY <2>1, <3>1, <3>2, <3>3, <3>4 DEF Frames
  <2> QED BY <2>1, <2>2, <2>3
<1>2. Frames(s) \subseteq Frames(z)
  BY <1>1 DEF Frames
<1>3. Tuned(i, v, z)
  OBVIOUS
<1> HIDE DEF z
<1>4. \/ v.id = i /\ \A m \in Frames(s) : m.type # "RoomWelcome"
      \/ /\ v.state # "Connected"
         /\ s # <<>> /\ Head(s).type # "Disconnect" =>
              /\ Head(s).type = "RoomWelcome" /\ Head(s).player = i
              /\ \A m \in Frames(Tail(s)) : m.type # "RoomWelcome"
  BY <1>1, <1>2, <1>3 DEF Tuned
<1>5. v.state = "Joining" => NoneAfter(s, Naming(i), OfMatch)
  BY <1>1, <1>3 DEF Tuned, NoneAfter
<1>6. v.state = "Connected" => Timely(v, s)
  BY <1>1, <1>3 DEF Tuned, Timely
<1>7. ASSUME v.state = "Connected", NEW l \in DOMAIN s, s[l].type = "Begin"
      PROVE  Heard(v, s, l, s[l].player, {})
  <2>1. Heard(v, z, l, s[l].player, {})
    BY <1>1, <1>3, <1>7 DEF Tuned
  <2>2. \A k \in DOMAIN z : k < l => k \in DOMAIN s
    <3>1. DOMAIN z \subseteq Nat \ {0}
      BY <1>1, LenProperties
    <3> QED BY <1>1, <3>1
  <2>3. DOMAIN s \subseteq DOMAIN z /\ \A k \in DOMAIN s : z[k] = s[k]
    BY <1>1
  <2>4. (\A k \in DOMAIN s : k < l => s[k].type # "RoomRoster") => v.leader = s[l].player /\ {} \subseteq v.members
    BY <2>1, <2>2, <2>3 DEF Heard
  <2>5. ASSUME NEW k \in DOMAIN s, k < l, s[k].type = "RoomRoster",
               \A n \in DOMAIN s : k < n /\ n < l => s[n].type # "RoomRoster"
        PROVE  s[k].leader = s[l].player /\ {} \subseteq s[k].members
    <3>1. \A n \in DOMAIN z : k < n /\ n < l => z[n].type # "RoomRoster"
      BY <2>2, <2>3, <2>5
    <3>2. k \in DOMAIN z /\ z[k] = s[k]
      BY <2>3
    <3>3. z[k].leader = s[l].player
      BY <2>1, <2>5, <3>1, <3>2 DEF Heard
    <3> QED BY <3>2, <3>3
  <2> QED BY <2>4, <2>5 DEF Heard
<1> QED BY <1>4, <1>5, <1>6, <1>7 DEF Tuned

\* One frame more, that is not of a match.
LEMMA TunedBye ==
  ASSUME NEW s \in Seq(RelayType), NEW i, NEW v, Tuned(i, v, s)
  PROVE  Tuned(i, v, Append(s, Bye))
<1> DEFINE z == Append(s, Bye)
<1>1. /\ Bye \in RelayType /\ Bye.type = "Disconnect" /\ Bye \notin OfMatch
  BY DEF Bye, RelayType, OfMatch
<1>2. /\ Len(s) \in Nat /\ DOMAIN s = 1..Len(s) /\ z \in Seq(RelayType)
      /\ DOMAIN z = 1..(Len(s) + 1) /\ z[Len(s) + 1] = Bye
      /\ \A k \in DOMAIN s : k \in DOMAIN z /\ z[k] = s[k]
  BY <1>1, LenProperties, AppendProperties
<1>3. Frames(z) = Frames(s) \cup {Bye}
  BY <1>1, FramesAppend
<1>4. /\ s = <<>> => Head(z) = Bye
      /\ s # <<>> => Head(z) = Head(s) /\ Frames(Tail(z)) = Frames(Tail(s)) \cup {Bye}
  <2>1. CASE s = <<>>
    BY <2>1, HeadTailAppend
  <2>2. CASE s # <<>>
    <3>1. Head(z) = Head(s) /\ Tail(z) = Append(Tail(s), Bye)
      BY <2>2, HeadTailAppend
    <3> DEFINE t == Tail(s)
    <3>2. t \in Seq(RelayType)
      BY <2>2, FramesTail
    <3>3. Frames(Append(t, Bye)) = Frames(t) \cup {Bye}
      <4> HIDE DEF t
      <4> QED BY <1>1, <3>2, FramesAppend
    <3> QED BY <2>2, <3>1, <3>3
  <2> QED BY <2>1, <2>2
<1>5. \/ v.id = i /\ \A m \in Frames(z) : m.type # "RoomWelcome"
      \/ /\ v.state # "Connected"
         /\ z # <<>> /\ Head(z).type # "Disconnect" =>
              /\ Head(z).type = "RoomWelcome" /\ Head(z).player = i
              /\ \A m \in Frames(Tail(z)) : m.type # "RoomWelcome"
  BY <1>1, <1>3, <1>4 DEF Tuned
<1>6. v.state = "Joining" => NoneAfter(z, Naming(i), OfMatch)
  BY <1>1, AppendOrder DEF Tuned
<1>g. SUFFICES Tuned(i, v, z)
  OBVIOUS
<1> HIDE DEF z
<1>7. ASSUME v.state = "Connected"
      PROVE  /\ Timely(v, z)
             /\ \A l \in DOMAIN z : z[l].type = "Begin" => Heard(v, z, l, z[l].player, {})
  <2>1. \A l \in DOMAIN z : z[l].type \in {"Begin", "Score"} => l \in DOMAIN s
    BY <1>1, <1>2
  <2>2. \A l \in DOMAIN s : \A k \in DOMAIN z : k < l => k \in DOMAIN s
    BY <1>2
  <2>3. Timely(v, z)
    BY <1>2, <1>7, <2>1, <2>2 DEF Tuned, Timely
  <2>4. ASSUME NEW l \in DOMAIN z, z[l].type = "Begin" PROVE Heard(v, z, l, z[l].player, {})
    <3>1. l \in DOMAIN s /\ z[l] = s[l]
      BY <1>2, <2>1, <2>4
    <3>2. Heard(v, s, l, s[l].player, {})
      BY <1>7, <2>4, <3>1 DEF Tuned
    <3> HIDE DEF Tuned
    <3> QED BY <1>2, <2>2, <3>1, <3>2 DEF Heard
  <2> QED BY <2>3, <2>4
<1> QED BY <1>5, <1>6, <1>7 DEF Tuned

\* It reads a frame.
LEMMA TunedTail ==
  ASSUME NEW s \in Seq(RelayType), s # <<>>, Head(s).type # "Disconnect", NEW i, NEW v \in ViewType,
         v.state \in {"Joining", "Connected"}, Tuned(i, v, s), NEW w, Applied(v, Head(s), w)
  PROVE  Tuned(i, w, Tail(s))
<1> DEFINE m == Head(s)
           t == Tail(s)
<1>1. /\ m \in RelayType /\ t \in Seq(RelayType) /\ m \in Frames(s) /\ Frames(s) = {m} \cup Frames(t)
      /\ \A l \in DOMAIN t : l \in Nat \ {0} /\ l + 1 \in DOMAIN s /\ t[l] = s[l + 1]
      /\ \A A, B : NoneAfter(s, A, B) => NoneAfter(t, A, B) /\ (m \in A => Frames(t) \cap B = {})
      /\ 1 \in DOMAIN s /\ s[1] = m /\ Applied(v, m, w) /\ m.type # "Disconnect"
      /\ s # <<>> /\ m = Head(s) /\ t = Tail(s)
  BY LessToRead
<1>g. SUFFICES Tuned(i, w, t)
  OBVIOUS
<1> HIDE DEF m, t
<1>2. CASE m.type = "RoomWelcome"
  <2>1. /\ v.state = "Joining" /\ m.player = i /\ \A f \in Frames(t) : f.type # "RoomWelcome"
    BY <1>1, <1>2 DEF Tuned
  <2>2. w.id = i /\ w.state = v.state
    BY <1>1, <1>2, <2>1 DEF Applied, AWelcome, ARoster, ALaunch, ABegin, AScore
  <2>3. NoneAfter(t, Naming(i), OfMatch)
    BY <1>1, <2>1 DEF Tuned
  <2> QED BY <2>1, <2>2, <2>3 DEF Tuned
<1>3. CASE m.type # "RoomWelcome"
  <2>1. v.id = i /\ \A f \in Frames(s) : f.type # "RoomWelcome"
    BY <1>1, <1>3 DEF Tuned
  <2>2. w.id = i /\ \A f \in Frames(t) : f.type # "RoomWelcome"
    BY <1>1, <1>3, <2>1 DEF Applied, AWelcome, ARoster, ALaunch, ABegin, AScore, Table
  <2>3. CASE v.state = "Joining"
    <3>1. NoneAfter(s, Naming(i), OfMatch)
      BY <2>3 DEF Tuned
    <3>2. NoneAfter(t, Naming(i), OfMatch) /\ (m \in Naming(i) => Frames(t) \cap OfMatch = {})
      BY <1>1, <3>1
    <3>3. w.state = v.state \/ (w.state = "Connected" /\ m \in Naming(i))
      BY <1>1, <1>3, <2>1 DEF Applied, AWelcome, ARoster, ALaunch, ABegin, AScore, Table, Naming
    <3>4. ASSUME m \in Naming(i), NEW l \in DOMAIN t PROVE t[l].type \notin {"Begin", "Score"}
      <4>1. t[l] \in Frames(t) /\ t[l] \in RelayType
        BY <1>1 DEF Frames
      <4> QED BY <3>2, <3>4, <4>1 DEF OfMatch
    <3> QED BY <2>2, <2>3, <3>2, <3>3, <3>4 DEF Tuned, Timely
  <2>4. CASE v.state = "Connected"
    <3>1. /\ Timely(v, s)
          /\ \A l \in DOMAIN s : s[l].type = "Begin" => Heard(v, s, l, s[l].player, {})
      BY <2>4 DEF Tuned
    <3>2. w.state = "Connected"
      BY <1>1, <1>3, <2>4 DEF Applied, AWelcome, ARoster, ALaunch, ABegin, AScore, Table
    <3>3. ASSUME NEW l \in DOMAIN t, t[l].type \in {"Begin", "Score"}
          PROVE  /\ w.active = t[l].nonce /\ w.active # 0
                 /\ \A k \in DOMAIN t : k < l /\ t[k].type \in Stamps =>
                      t[k].type = "RoomRoster" /\ t[k].nonce = t[l].nonce
      <4>1. /\ v.active = t[l].nonce /\ v.active # 0
            /\ \A k \in DOMAIN s : k < l + 1 /\ s[k].type \in Stamps =>
                 s[k].type = "RoomRoster" /\ s[k].nonce = t[l].nonce
        BY <1>1, <3>1, <3>3 DEF Timely
      <4>2. 1 < l + 1
        BY <1>1
      <4>3. m.type \in Stamps => m.type = "RoomRoster" /\ m.nonce = t[l].nonce
        BY <1>1, <4>1, <4>2
      <4>4. w.active = v.active
        BY <1>1, <1>3, <4>1, <4>3 DEF Applied, AWelcome, ARoster, ALaunch, ABegin, AScore, Stamps
      <4>5. ASSUME NEW k \in DOMAIN t, k < l, t[k].type \in Stamps
            PROVE  t[k].type = "RoomRoster" /\ t[k].nonce = t[l].nonce
        <5>1. k + 1 \in DOMAIN s /\ k + 1 < l + 1 /\ s[k + 1] = t[k]
          BY <1>1, <4>5
        <5> QED BY <4>1, <4>5, <5>1
      <4> QED BY <4>1, <4>4, <4>5
    <3>4. ASSUME NEW l \in DOMAIN t, t[l].type = "Begin" PROVE Heard(w, t, l, t[l].player, {})
      <4>1. Heard(v, s, l + 1, t[l].player, {})
        BY <1>1, <3>1, <3>4
      <4> QED BY <1>1, <1>3, <4>1, ReadHeard
    <3> QED BY <2>2, <3>2, <3>3, <3>4 DEF Tuned, Timely
  <2> QED BY <2>3, <2>4
<1> QED BY <1>2, <1>3

\* A call leaves it as it is.
LEMMA TunedCall ==
  ASSUME NEW i, NEW v, NEW w, NEW s, Tuned(i, v, s), Left(v, w)
  PROVE  Tuned(i, w, s)
BY DEF Tuned, Timely, Heard, Left, OwnCopy, SameRound

\* A seated joiner's copy is in tune with everything that is under way to it.
LEMMA SeatedTuned ==
  ASSUME RoomInv, RoundInv, Ends, CopyInv, PlayInv, NEW c \in Joiners, link[c] = "up", view[c].state # "Off"
  PROVE  Tuned(seat[c], view[c], Coming(c)) /\ Tuned(seat[c], view[c], down[c])
<1> DEFINE h == view[Host]
           v == view[c]
           i == seat[c]
           s == Coming(c)
<1>1. /\ h.state # "Off" /\ s \in Seq(RelayType) /\ v.state \in {"Joining", "Connected"}
      /\ Copies(h, i, v, ui[c], up[c], s)
      /\ v.state = "Connected" => Timely(v, s)
  BY SeatedFacts DEF CopyInv, PlayInv, InMatch, Ends, End
<1>2. Tuned(i, v, s)
  <2> HIDE DEF h, v, i, s
  <2>1. Greets(i, v, s)
    BY <1>1 DEF Copies
  <2>2. v.state = "Joining" => NoneAfter(s, Naming(i), OfMatch)
    BY <1>1 DEF Copies, Joins, NoneAfter
  <2>3. v.state = "Connected" =>
          \A l \in DOMAIN s : s[l].type = "Begin" => Heard(v, s, l, s[l].player, {})
    BY <1>1 DEF Copies, Obeys
  <2> QED BY <1>1, <2>1, <2>2, <2>3 DEF Tuned, Greets
<1>3. down[c] \in Seq(RelayType) /\ broadcasts \in Seq(RelayType)
  BY Shapely
<1> QED BY <1>2, <1>3, TunedPrefix DEF Coming

\* What is left on the links, in every step.
LEMMA StepFrozen ==
  ASSUME RoomInv, RoundInv, Ends, CopyInv, PlayInv, FrozenInv, [Next]_vars
  PROVE  FrozenInv'
<1> SUFFICES ASSUME NEW c \in Joiners
             PROVE  /\ link'[c] \in {"none", "greeting"} => down'[c] = <<>>
                    /\ link'[c] # "up" /\ view'[c].state # "Off" => Tuned(seat'[c], view'[c], down'[c])
  BY DEF FrozenInv
<1> DEFINE Fine == /\ link'[c] \in {"none", "greeting"} => down'[c] = <<>>
                   /\ link'[c] # "up" /\ view'[c].state # "Off" => Tuned(seat'[c], view'[c], down'[c])
<1>1. /\ view \in [Procs -> ViewType] /\ link \in [Joiners -> Links] /\ seat \in [Joiners -> 0..MaxPlayers]
      /\ down \in [Joiners -> Seq(RelayType)] /\ Host \in Procs /\ Host \notin Joiners
      /\ \A d \in Joiners : d \in Procs /\ d # Host
      /\ view[c] \in ViewType /\ down[c] \in Seq(RelayType)
      /\ \A p \in Procs : p # Host => p \in Joiners
  BY Shapely
<1>2. view[c].state \in {"Off", "Joining", "Connected"}
  BY DEF Ends, End
<1>3. /\ link[c] \in {"none", "greeting"} => down[c] = <<>>
      /\ view[c].state # "Off" => Tuned(seat[c], view[c], down[c])
  BY SeatedTuned DEF FrozenInv
<1>g. SUFFICES Fine
  OBVIOUS
<1>4. ASSUME link'[c] = link[c] \/ link'[c] \notin {"none", "greeting"}, down'[c] = down[c], seat'[c] = seat[c],
             view'[c] = view[c]
      PROVE  Fine
  BY <1>3, <1>4
<1>o. OffView.state = "Off"
  BY DEF OffView, FreshView
<1>5. ASSUME NEW p \in Procs, PlayerMoves(p) PROVE Fine
  <2>1. PICK w \in ViewType : /\ view' = [view EXCEPT ![p] = w] /\ Left(view[p], w)
                              /\ link' = link /\ seat' = seat /\ down' = down
    BY <1>5 DEF PlayerMoves
  <2>2. CASE p # c
    <3>1. view'[c] = view[c]
      BY <1>1, <2>1, <2>2
    <3> QED BY <1>4, <2>1, <3>1
  <2>3. CASE p = c
    <3>1. view'[c] = w /\ w.state = view[c].state
      BY <1>1, <2>1, <2>3 DEF Left, OwnCopy, SameRound
    <3> QED BY <1>3, <2>1, <2>3, <3>1, TunedCall
  <2> QED BY <2>2, <2>3
<1>6. ASSUME NEW d \in Joiners, Join(d) PROVE Fine
  <2>1. /\ link[d] = "none" /\ link' = [link EXCEPT ![d] = "greeting"]
        /\ view' = [view EXCEPT ![d] = JoinerView] /\ seat' = seat /\ down' = down
    BY <1>6 DEF Join
  <2>2. CASE d # c
    <3>1. view'[c] = view[c] /\ link'[c] = link[c]
      BY <1>1, <2>1, <2>2
    <3> QED BY <1>4, <2>1, <3>1
  <2>3. CASE d = c
    <3>1. view'[c] = JoinerView /\ down'[c] = <<>>
      BY <1>1, <1>3, <2>1, <2>3
    <3>2. JoinerView.state = "Joining"
      BY DEF JoinerView, FreshView
    <3>3. NoneAfter(<<>>, Naming(seat'[c]), OfMatch)
      BY DEF NoneAfter
    <3> QED BY <3>1, <3>2, <3>3 DEF Tuned
  <2> QED BY <2>2, <2>3
<1>7. ASSUME NEW d \in Joiners, Breaking(d) PROVE Fine
  <2>1. /\ view' = [view EXCEPT ![d] = OffView] /\ down' = [down EXCEPT ![d] = <<>>]
        /\ link' = link /\ seat' = seat
    BY <1>7 DEF Breaking, Sever
  <2>2. CASE d # c
    <3>1. view'[c] = view[c] /\ down'[c] = down[c]
      BY <1>1, <2>1, <2>2
    <3> QED BY <1>4, <2>1, <3>1
  <2>3. CASE d = c
    <3>1. view'[c] = OffView /\ down'[c] = <<>>
      BY <1>1, <2>1, <2>3
    <3> QED BY <1>o, <3>1
  <2> QED BY <2>2, <2>3
<1>8. ASSUME NEW d \in Joiners, Applies(d) PROVE Fine
  <2>1. /\ view[d].state # "Off" /\ down[d] # <<>> /\ Head(down[d]).type # "Disconnect"
        /\ view' = [view EXCEPT ![d] = Apply(view[d], Head(down[d]))]
        /\ down' = [down EXCEPT ![d] = Tail(down[d])] /\ link' = link /\ seat' = seat
    BY <1>8 DEF Applies
  <2>2. CASE d # c
    <3>1. view'[c] = view[c] /\ down'[c] = down[c]
      BY <1>1, <2>1, <2>2
    <3> QED BY <1>4, <2>1, <3>1
  <2>3. CASE d = c
    <3> DEFINE v == view[c]
               s == down[c]
               w == Apply(v, Head(s))
    <3>1. /\ view'[c] = w /\ down'[c] = Tail(s) /\ s # <<>> /\ Head(s).type # "Disconnect"
          /\ v.state \in {"Joining", "Connected"} /\ Tuned(seat[c], v, s)
          /\ s \in Seq(RelayType) /\ v \in ViewType
      BY <1>1, <1>2, <1>3, <2>1, <2>3
    <3>2. link[c] \notin {"none", "greeting"}
      BY <1>3, <3>1
    <3>3. Applied(v, Head(s), w)
      <4>1. Head(s) \in RelayType
        BY <3>1, LessToRead
      <4> QED BY <3>1, <4>1, ApplyKinds
    <3> HIDE DEF v, s, w
    <3>4. Tuned(seat[c], w, Tail(s))
      BY <3>1, <3>3, TunedTail
    <3> QED BY <2>1, <3>1, <3>2, <3>4
  <2> QED BY <2>2, <2>3
<1>9. CASE HostLocal \/ HostEndPass
  <2>1. /\ link' = link /\ seat' = seat /\ down' = down
        /\ view' = view \/ \E w : view' = [view EXCEPT ![Host] = w]
    <3>1. CASE HostLocal
      BY <3>1 DEF HostLocal, wires
    <3>2. CASE HostEndPass
      BY <3>2 DEF HostEndPass, wires
    <3> QED BY <1>9, <3>1, <3>2
  <2>2. view'[c] = view[c]
    BY <1>1, <2>1
  <2> QED BY <1>4, <2>1, <2>2
<1>10. CASE HostFlush
  <2>1. /\ link' = link /\ seat' = seat /\ view' = view /\ (link[c] # "up" => down'[c] = down[c])
    BY <1>10 DEF HostFlush
  <2> QED BY <1>4, <2>1
<1>11. ASSUME NEW d \in Joiners, HostGreet(d) PROVE Fine
  <2>1. /\ link[d] = "greeting"
        /\ \/ /\ link' = [link EXCEPT ![d] = "gone"] /\ down' = [down EXCEPT ![d] = <<Bye>>]
              /\ view' = view /\ seat' = seat
           \/ /\ link' = [link EXCEPT ![d] = "up"]
              /\ seat' = [seat EXCEPT ![d] = FreeId]
              /\ \E w : view' = [view EXCEPT ![Host] = w]
              /\ \E t : down' = [down EXCEPT ![d] = t]
    <3> DEFINE full == view[Host].active # 0 \/ Len(order) >= MaxPlayers
    <3>1. CASE full
      BY <1>11, <3>1 DEF HostGreet
    <3>2. CASE ~full
      BY <1>11, <3>2 DEF HostGreet
    <3> QED BY <3>1, <3>2
  <2>2. CASE d # c
    <3>1. view'[c] = view[c] /\ down'[c] = down[c] /\ link'[c] = link[c] /\ seat'[c] = seat[c]
      BY <1>1, <2>1, <2>2
    <3> QED BY <1>4, <3>1
  <2>3. CASE d = c
    <3>1. CASE link'[c] = "up"
      BY <3>1
    <3>2. CASE link'[c] # "up"
      <4>1. /\ link'[c] = "gone" /\ down'[c] = <<Bye>> /\ view'[c] = view[c] /\ seat'[c] = seat[c]
            /\ down[c] = <<>>
        BY <1>1, <1>3, <2>1, <2>3, <3>2
      <4>2. Append(<<>>, Bye) = <<Bye>>
        OBVIOUS
      <4>3. view[c].state # "Off" => Tuned(seat[c], view[c], Append(<<>>, Bye))
        BY <1>1, <1>3, <4>1, TunedBye
      <4> QED BY <4>1, <4>2, <4>3
    <3> QED BY <3>1, <3>2
  <2> QED BY <2>2, <2>3
<1>12. ASSUME NEW d \in Joiners, HostForget(d) \/ HostReceive(d) \/ HostTimeout(d) PROVE Fine
  <2>1. /\ seat' = seat /\ down' = down
        /\ view' = view \/ \E w : view' = [view EXCEPT ![Host] = w]
        /\ link' = link \/ \E k \in {"dropping", "gone"} : link' = [link EXCEPT ![d] = k]
    <3>1. CASE HostForget(d)
      BY <3>1 DEF HostForget, session
    <3>2. CASE HostReceive(d)
      BY <3>2 DEF HostReceive
    <3>3. CASE HostTimeout(d)
      BY <3>3 DEF HostTimeout, session
    <3> QED BY <1>12, <3>1, <3>2, <3>3
  <2>2. view'[c] = view[c] /\ (link'[c] = link[c] \/ link'[c] \notin {"none", "greeting"})
    BY <1>1, <2>1
  <2> QED BY <1>4, <2>1, <2>2
<1>13. ASSUME NEW d \in Joiners, HostRemove(d) PROVE Fine
  <2>1. /\ link[d] = "dropping" /\ link' = [link EXCEPT ![d] = "gone"] /\ seat' = seat
        /\ \E w : view' = [view EXCEPT ![Host] = w]
        /\ down' = IF view[d].state = "Off" THEN down ELSE [down EXCEPT ![d] = Append(down[d], Bye)]
    BY <1>13 DEF HostRemove
  <2>2. view'[c] = view[c]
    BY <1>1, <2>1
  <2>3. CASE d # c
    <3>1. link'[c] = link[c] /\ down'[c] = down[c]
      BY <1>1, <2>1, <2>3
    <3> QED BY <1>4, <2>1, <2>2, <3>1
  <2>4. CASE d = c
    <3>1. link'[c] = "gone" /\ (view[c].state # "Off" => down'[c] = Append(down[c], Bye))
      BY <1>1, <2>1, <2>4
    <3>2. view[c].state # "Off" => Tuned(seat[c], view[c], Append(down[c], Bye))
      BY <1>1, <1>3, TunedBye
    <3> QED BY <2>1, <2>2, <3>1, <3>2
  <2> QED BY <2>3, <2>4
<1>14. CASE HostClose
  <2>1. /\ link' = [d \in Joiners |-> "gone"] /\ seat' = seat /\ view' = [view EXCEPT ![Host] = OffView]
        /\ down' = [d \in Joiners |-> IF view[d].state = "Off" THEN <<>> ELSE Append(down[d], Bye)]
    BY <1>14 DEF HostClose
  <2>2. view'[c] = view[c] /\ link'[c] = "gone" /\ seat'[c] = seat[c]
        /\ (view[c].state # "Off" => down'[c] = Append(down[c], Bye))
    BY <1>1, <2>1
  <2>3. view[c].state # "Off" => Tuned(seat[c], view[c], Append(down[c], Bye))
    BY <1>1, <1>3, TunedBye
  <2> QED BY <2>2, <2>3
<1>15. CASE UNCHANGED vars
  <2>1. link' = link /\ seat' = seat /\ view' = view /\ down' = down
    BY <1>15 DEF vars
  <2> QED BY <1>4, <2>1
<1> QED BY <1>5, <1>6, <1>7, <1>8, <1>9, <1>10, <1>11, <1>12, <1>13, <1>14, <1>15, StepKinds

\* A frame of a round is accepted, in every step.
LEMMA StepAccepts ==
  ASSUME RoomInv, RoundInv, Ends, HostInv, WireInv, CopyInv, PlayInv, ScoreInv, FrozenInv,
         RoundFramesAccepted, [Next]_vars
  PROVE  RoundFramesAccepted'
<1> DEFINE h == view[Host]
<1>1. faults' = faults => RoundFramesAccepted'
  BY DEF RoundFramesAccepted
<1>2. ASSUME NEW c \in Joiners, Breaking(c) PROVE RoundFramesAccepted'
  <2> DEFINE v == view[c]
             s == down[c]
             m == Head(s)
  <2>1. CASE faults' = faults
    BY <1>1, <2>1
  <2>2. CASE /\ v.state # "Off" /\ s # <<>> /\ Breaks(v, m)
             /\ faults' = faults \cup {<<IF Online(c) THEN "joiner" ELSE "newcomer", m.type>>}
    <3>1. ASSUME Online(c), m.type \in {"Begin", "Score"} PROVE FALSE
      <4>1. v.state = "Connected"
        BY <3>1 DEF Online
      <4>2. s \in Seq(RelayType) /\ Tuned(seat[c], v, s)
        <5>1. s \in Seq(RelayType)
          BY Shapely
        <5>0. v.state # "Off"
          BY <2>2
        <5>2. CASE link[c] = "up"
          BY <5>0, <5>1, <5>2, SeatedTuned
        <5>3. CASE link[c] # "up"
          BY <5>0, <5>1, <5>3 DEF FrozenInv
        <5> QED BY <5>1, <5>2, <5>3
      <4>3. 1 \in DOMAIN s /\ s[1] = m
        BY <2>2, <4>2, LessToRead
      <4>4. m.type \in {"Begin", "Score"} /\ s # <<>> /\ Breaks(v, m)
        BY <2>2, <3>1
      <4> HIDE DEF v, s, m
      <4>5. v.active = m.nonce
        BY <4>1, <4>2, <4>3, <4>4 DEF Tuned, Timely
      <4>6. m.type = "Begin" => v.leader = m.player
        <5>1. \A k \in DOMAIN s : ~(k < 1)
          <6>1. DOMAIN s \subseteq Nat \ {0}
            BY <4>2, LenProperties
          <6> QED BY <6>1
        <5>2. m.type = "Begin" => Heard(v, s, 1, m.player, {})
          BY <4>1, <4>2, <4>3 DEF Tuned
        <5> QED BY <5>1, <5>2 DEF Heard
      <4> QED BY <4>4, <4>5, <4>6 DEF Breaks, UnknownRound
    <3>2. \A t \in {"Loaded", "Score", "RoundReset"} : <<"host", t>> \notin faults'
      BY <2>2 DEF RoundFramesAccepted
    <3>3. \A t \in {"Begin", "Score"} : <<"joiner", t>> \notin faults'
      BY <2>2, <3>1 DEF RoundFramesAccepted
    <3> QED BY <3>2, <3>3 DEF RoundFramesAccepted
  <2> QED BY <1>2, <2>1, <2>2 DEF Breaking
<1>3. ASSUME NEW c \in Joiners, HostReceive(c) PROVE RoundFramesAccepted'
  <2> DEFINE i == seat[c]
             u == up[c]
             m == Head(u)
  <2>1. CASE faults' = faults
    BY <1>1, <2>1
  <2>2. CASE /\ link[c] = "up" /\ u # <<>> /\ m.type # "Disconnect" /\ Rejects(h, i, m)
             /\ faults' = faults \cup {<<"host", m.type>>}
    <3>1. ASSUME m.type \in {"Loaded", "Score", "RoundReset"} PROVE FALSE
      <4>1. /\ h.state # "Off" /\ i \in h.members /\ u \in Seq(ActionType) /\ Wire(h, i, u) /\ Scored(h, i, u)
            /\ LaunchFrames(h, Frames(u), rounds)
        BY <2>2, SeatedFacts DEF WireInv, ScoreInv, Finishes, HostInv
      <4>2. m \in Frames(u) /\ m \in ActionType
        BY <2>2, <4>1, FramesTail
      <4>3. m.type \in {"Loaded", "Score", "RoundReset"} /\ u # <<>> /\ Rejects(h, i, m) /\ m = Head(u)
        BY <2>2, <3>1
      <4> HIDE DEF h, i, u, m
      <4>4. /\ m.nonce # 0
            /\ m.nonce = IF h.active # 0 THEN h.active ELSE h.closed
        BY <4>1, <4>2, <4>3 DEF Wire, LaunchFrames, RoundFrames
      <4>5. m.type = "RoundReset" /\ m.nonce = h.active => h.score[i] = "final"
        <5> SUFFICES ASSUME m.type = "RoundReset", m.nonce = h.active, h.score[i] # "final" PROVE FALSE
          OBVIOUS
        <5>1. LedBy(u, FinalsOf(h.active), Of("RoundReset"))
          BY <4>1, <4>4 DEF Scored
        <5>2. m \notin Of("RoundReset")
          BY <4>1, <4>3, <5>1, TailOrder
        <5> QED BY <4>2, <5>2 DEF Of
      <4> QED BY <4>1, <4>3, <4>4, <4>5 DEF Rejects, UnknownRound, Late, Actions
    <3>2. \A t \in {"Loaded", "Score", "RoundReset"} : <<"host", t>> \notin faults'
      BY <2>2, <3>1 DEF RoundFramesAccepted
    <3>3. \A t \in {"Begin", "Score"} : <<"joiner", t>> \notin faults'
      BY <2>2 DEF RoundFramesAccepted
    <3> QED BY <3>2, <3>3 DEF RoundFramesAccepted
  <2> QED BY <1>3, <2>1, <2>2 DEF HostReceive
<1>4. ASSUME \/ \E p \in Procs : PlayerMoves(p)
             \/ \E c \in Joiners : Join(c) \/ Applies(c)
             \/ HostLocal \/ HostFlush \/ HostEndPass
             \/ \E c \in Joiners : HostGreet(c) \/ HostForget(c) \/ HostTimeout(c) \/ HostRemove(c)
             \/ HostClose
             \/ UNCHANGED vars
      PROVE  faults' = faults
  <2>1. CASE \E p \in Procs : PlayerMoves(p)
    BY <2>1 DEF PlayerMoves
  <2>2. CASE \E c \in Joiners : Join(c) \/ Applies(c)
    BY <2>2 DEF Join, Applies, history
  <2>3. CASE HostLocal \/ HostFlush \/ HostEndPass
    BY <2>3 DEF HostLocal, HostFlush, HostEndPass, history
  <2>4. CASE \E c \in Joiners : HostGreet(c) \/ HostForget(c) \/ HostTimeout(c) \/ HostRemove(c)
    BY <2>4 DEF HostGreet, HostForget, HostTimeout, HostRemove, history
  <2>5. CASE HostClose \/ UNCHANGED vars
    BY <2>5 DEF HostClose, vars, history
  <2> QED BY <1>4, <2>1, <2>2, <2>3, <2>4, <2>5
<1> QED BY <1>1, <1>2, <1>3, <1>4, StepKinds

\* No link has anything on it at first.
LEMMA InitFrozen == Init => FrozenInv /\ RoundFramesAccepted
<1> SUFFICES ASSUME Init PROVE FrozenInv /\ RoundFramesAccepted
  OBVIOUS
<1>1. ASSUME NEW c \in Joiners PROVE down[c] = <<>> /\ view[c].state = "Off"
  <2>1. c \in Procs /\ c # Host
    BY RoomAssumption DEF Procs
  <2> QED BY <2>1 DEF Init, OffView, FreshView
<1> QED BY <1>1 DEF Init, FrozenInv, RoundFramesAccepted

\* Loaded, Score and RoundReset are never refused by the coordinator
\* (apply_host_action_locked), nor Begin and Score by a player who has entered
\* (apply_client_message_locked), whatever crosses with a cancelled launch, a
\* close or a departure, and also on a link that is being given up.  It promises
\* nothing of a Launch or a Begin at the coordinator, which refuses a second
\* Start and the Begin of a launch that was called off.
THEOREM RoundFramesPass == Spec => []RoundFramesAccepted
<1> DEFINE Inv == RoomInv /\ RoundInv /\ Ends /\ HostInv /\ WireInv /\ CopyInv /\ PlayInv /\ ScoreInv
<1>1. Init => FrozenInv /\ RoundFramesAccepted
  BY InitFrozen
<1>2. Inv /\ FrozenInv /\ RoundFramesAccepted /\ [Next]_vars => FrozenInv' /\ RoundFramesAccepted'
  BY StepFrozen, StepAccepts
<1>3. Spec => []Inv
  BY ScoreAlways
<1> HIDE DEF Inv
<1> QED BY <1>1, <1>2, <1>3, PTL DEF Spec

=============================================================================
