--------------------------- MODULE PeerRoomProofs ---------------------------
(***************************************************************************)
(* Proofs about PeerRoom (src/src/network/PeerSession.cpp), for any number *)
(* of joiners, seats, charts, rates and rounds: the seating of the room    *)
(* (join_order, the links, the participants and the leader) is consistent  *)
(* in every behaviour, every frame and every copy is well formed           *)
(* (RoomTyped), and no late roster, launch or vote takes anybody back to   *)
(* older settings or to a round that is over.                              *)
(*                                                                         *)
(* SeatInv is the seating.  RoomInv adds to TypeOK what makes it           *)
(* inductive: the seating, a leader in every broadcast, and the calls of a *)
(* pass, which are among those queued.  RoundInv says which revision, rate *)
(* and round the frames under way may still be stamped with.               *)
(***************************************************************************)
EXTENDS PeerRoom, FiniteSetTheorems, SequenceTheorems, WellFoundedInduction, TLAPS

-----------------------------------------------------------------------------
(* Sequences of player ids.                                                *)

InOrder(ord) == {ord[k] : k \in DOMAIN ord}
NoRepeat(ord) == \A i, j \in DOMAIN ord : ord[i] = ord[j] => i = j

LEMMA LeastOf ==
  ASSUME NEW T, T \subseteq Nat, T # {}
  PROVE  \E x \in T : \A y \in T : x <= y
<1>1. PICK x \in T : \A y \in T : ~ (<<y, x>> \in OpToRel(<, Nat))
  BY WFMin, NatLessThanWellFounded
<1>2. \A y \in T : ~ (y < x)
  BY <1>1 DEF OpToRel
<1> QED BY <1>2

\* A position of the rotation is a position of the sequence.
LEMMA Remainder ==
  ASSUME NEW k \in Nat, NEW n \in Nat \ {0}
  PROVE  (k % n) + 1 \in 1..n
OBVIOUS

\* The rotation always names a player that is there.
LEMMA NextLeaderSeated ==
  ASSUME NEW ord \in Seq(Ids), ord # <<>>, NEW id
  PROVE  NextLeader(ord, id) \in InOrder(ord)
<1>1. Len(ord) \in Nat \ {0} /\ DOMAIN ord = 1..Len(ord)
  OBVIOUS
<1>2. CASE \E k \in DOMAIN ord : ord[k] = id
  <2> DEFINE k == CHOOSE k \in DOMAIN ord : ord[k] = id
  <2>1. k \in 1..Len(ord)
    BY <1>1, <1>2
  <2>2. (k % Len(ord)) + 1 \in 1..Len(ord)
    <3> HIDE DEF k
    <3>1. k \in Nat
      BY <1>1, <2>1
    <3> QED BY <1>1, <3>1, Remainder
  <2> QED BY <1>1, <1>2, <2>2 DEF NextLeader, InOrder
<1>3. CASE ~ \E k \in DOMAIN ord : ord[k] = id
  BY <1>1, <1>3 DEF NextLeader, InOrder
<1> QED BY <1>2, <1>3

\* Taking a player out of the order takes out nobody else.
LEMMA WithoutOne ==
  ASSUME NEW ord \in Seq(Ids), NoRepeat(ord), NEW id \in InOrder(ord)
  PROVE  /\ Without(ord, id) \in Seq(Ids)
         /\ Len(Without(ord, id)) = Len(ord) - 1
         /\ NoRepeat(Without(ord, id))
         /\ InOrder(Without(ord, id)) = InOrder(ord) \ {id}
<1> DEFINE at == Position(ord, id)
           w == [k \in 1..(Len(ord) - 1) |-> IF k < at THEN ord[k] ELSE ord[k + 1]]
<1>1. DOMAIN ord = 1..Len(ord) /\ Len(ord) \in Nat /\ \A k \in 1..Len(ord) : ord[k] \in Ids
  OBVIOUS
<1>2. at \in 1..Len(ord) /\ ord[at] = id
  BY <1>1 DEF Position, InOrder
<1>3. Len(ord) - 1 \in Nat
  BY <1>1, <1>2
<1>4. w \in [1..(Len(ord) - 1) -> Ids]
  BY <1>1, <1>2, <1>3
<1>5. w \in Seq(Ids) /\ Len(w) = Len(ord) - 1 /\ DOMAIN w = 1..(Len(ord) - 1)
  BY <1>3, <1>4
<1>6. NoRepeat(w)
  BY <1>1, <1>2, <1>3, <1>5 DEF NoRepeat
<1>7. InOrder(w) \subseteq InOrder(ord) \ {id}
  BY <1>1, <1>2, <1>3, <1>5 DEF NoRepeat, InOrder
<1>8. ASSUME NEW j \in 1..Len(ord), ord[j] # id
      PROVE  \E k \in 1..(Len(ord) - 1) : w[k] = ord[j]
  <2>1. CASE j < at
    BY <2>1, <1>1, <1>2, <1>3
  <2>2. CASE j > at
    <3>1. j - 1 \in 1..(Len(ord) - 1) /\ ~ (j - 1 < at) /\ (j - 1) + 1 = j
      BY <2>2, <1>1, <1>2, <1>3
    <3> QED BY <3>1
  <2>3. j # at
    BY <1>2, <1>8
  <2> QED BY <2>1, <2>2, <2>3, <1>1, <1>2
<1>9. InOrder(ord) \ {id} \subseteq InOrder(w)
  BY <1>1, <1>5, <1>8 DEF InOrder
<1> HIDE DEF w
<1> QED BY <1>5, <1>6, <1>7, <1>9 DEF Without, w

\* A new id at the end of the order adds that id and nothing else.
LEMMA AppendOne ==
  ASSUME NEW ord \in Seq(Ids), NoRepeat(ord), NEW f \in Ids, f \notin InOrder(ord)
  PROVE  /\ Append(ord, f) \in Seq(Ids)
         /\ NoRepeat(Append(ord, f))
         /\ InOrder(Append(ord, f)) = InOrder(ord) \cup {f}
<1> DEFINE n == Len(ord)
           w == Append(ord, f)
<1>1. /\ w \in Seq(Ids) /\ DOMAIN w = 1..(n + 1) /\ DOMAIN ord = 1..n /\ n \in Nat
      /\ w[n + 1] = f /\ \A k \in 1..n : w[k] = ord[k]
  OBVIOUS
<1> HIDE DEF n, w
<1>2. DOMAIN w = DOMAIN ord \cup {n + 1} /\ \A k \in DOMAIN ord : w[k] = ord[k] /\ ord[k] # f
  BY <1>1 DEF InOrder
<1>3. NoRepeat(w)
  BY <1>1, <1>2 DEF NoRepeat
<1>4. InOrder(w) = InOrder(ord) \cup {f}
  BY <1>1, <1>2 DEF InOrder
<1> QED BY <1>1, <1>3, <1>4 DEF w
-----------------------------------------------------------------------------
(* What the operations of the room do to the participants and the leader.  *)

Shaped(v) == {"members", "leader", "state"} \subseteq DOMAIN v
SameRoom(v, w) == w.members = v.members /\ w.leader = v.leader /\ w.state = v.state

LEMMA InvalidateKeeps ==
  ASSUME NEW v, Shaped(v)
  PROVE  Shaped(InvalidateVotes(v)) /\ SameRoom(v, InvalidateVotes(v))
BY DEF InvalidateVotes, Shaped, SameRoom

LEMMA CancelKeeps ==
  ASSUME NEW v, Shaped(v)
  PROVE  Shaped(CancelLaunch(v)) /\ SameRoom(v, CancelLaunch(v))
BY InvalidateKeeps DEF CancelLaunch, Shaped, SameRoom

LEMMA AnnounceKeeps ==
  ASSUME NEW v, Shaped(v), NEW x
  PROVE  Shaped(AnnounceChart(v, x)) /\ SameRoom(v, AnnounceChart(v, x))
BY DEF AnnounceChart, Shaped, SameRoom

\* The end of a round rotates the leadership and touches nothing else here.
LEMMA ClearRotates ==
  ASSUME NEW v, Shaped(v), NEW ord
  PROVE  LET w == ClearRound(v, ord, TRUE)
         IN /\ Shaped(w) /\ w.members = v.members /\ w.state = v.state
            /\ w.leader = IF Len(ord) > 1 THEN NextLeader(ord, v.leader) ELSE v.leader
BY CancelKeeps DEF ClearRound, Shaped, SameRoom

LEMMA ClearKeeps ==
  ASSUME NEW v, Shaped(v), NEW ord
  PROVE  Shaped(ClearRound(v, ord, FALSE)) /\ SameRoom(v, ClearRound(v, ord, FALSE))
BY CancelKeeps DEF ClearRound, Shaped, SameRoom

\* An accepted frame leaves the participants alone and the leader among them.
Governed(v, ord, w) ==
  /\ Shaped(w) /\ w.members = v.members /\ w.state = v.state
  /\ w.leader = v.leader \/ w.leader \in InOrder(ord)

LEMMA HandleGoverns ==
  ASSUME NEW v, Shaped(v), NEW ord \in Seq(Ids), NEW src, NEW m, ~Rejects(v, src, m)
  PROVE  Governed(v, ord, Handle(v, ord, src, m).view)
<1>0. m.type \in Actions
  BY DEF Rejects
<1>1. CASE m.type = "Chat"
  BY <1>1 DEF Handle, Reply, Governed
<1>2. CASE m.type = "Chart"
  <2>1. Handle(v, ord, src, m) = OnChart(v, src, m)
    BY <1>2 DEF Handle
  <2> QED BY <2>1 DEF OnChart, Publish, Reply, Governed, Shaped
<1>3. CASE m.type = "Ready"
  <2>1. Handle(v, ord, src, m) = OnReady(v, src, m)
    BY <1>3 DEF Handle
  <2> QED BY <2>1, CancelKeeps DEF OnReady, Publish, Reply, Governed, Shaped, SameRoom
<1>4. CASE m.type = "RoomRate"
  <2>1. Handle(v, ord, src, m) = OnRate(v, src, m)
    BY <1>4 DEF Handle
  <2>2. LET r == [v EXCEPT !.rate = m.rate] IN Shaped(r) /\ SameRoom(v, r)
    BY DEF Shaped, SameRoom
  <2>3. LET r == InvalidateVotes([v EXCEPT !.rate = m.rate]) IN Shaped(r) /\ SameRoom(v, r)
    BY <2>2, InvalidateKeeps DEF SameRoom
  <2> QED BY <2>1, <2>3 DEF OnRate, Publish, Reply, Governed, Shaped, SameRoom
<1>5. CASE m.type = "Launch"
  <2>1. Handle(v, ord, src, m) = OnLaunch(v, src, m)
    BY <1>5 DEF Handle
  <2> QED BY <2>1 DEF OnLaunch, Publish, Reply, Governed, Shaped
<1>6. CASE m.type = "Loaded"
  <2>1. Handle(v, ord, src, m) = OnLoaded(v, src, m)
    BY <1>6 DEF Handle
  <2> QED BY <2>1 DEF OnLoaded, Publish, Reply, Governed, Shaped
<1>7. CASE m.type = "Begin"
  <2>1. Handle(v, ord, src, m) = OnBegin(v, src, m)
    BY <1>7 DEF Handle
  <2> DEFINE b == v.begin \/ src # v.id
             begun == [v EXCEPT !.begun = TRUE, !.begin = b]
  <2>2. Governed(v, ord, begun)
    <3> HIDE DEF b
    <3> QED BY DEF Governed, Shaped
  <2>3. OnBegin(v, src, m).view = begun
    BY DEF OnBegin, Reply
  <2> QED BY <2>1, <2>2, <2>3
<1>8. CASE m.type = "Score"
  <2>1. Handle(v, ord, src, m) = OnScore(v, src, m)
    BY <1>8 DEF Handle
  <2> QED BY <2>1 DEF OnScore, Reply, Governed, Shaped
<1>9. CASE m.type = "RoundReset"
  <2>1. Handle(v, ord, src, m) = OnReset(v, ord, src, m)
    BY <1>9 DEF Handle
  <2> DEFINE left == [v EXCEPT !.reset = @ \cup {src}, !.ready = @ \ {src}, !.loaded = @ \ {src}]
  <2>2. Shaped(left) /\ SameRoom(v, left)
    BY DEF Shaped, SameRoom
  <2>3. Governed(v, ord, ClearRound(left, ord, TRUE))
    <3> HIDE DEF left
    <3>1. Len(ord) > 1 => NextLeader(ord, left.leader) \in InOrder(ord)
      BY NextLeaderSeated
    <3> DEFINE cleared == ClearRound(left, ord, TRUE)
    <3>2. /\ Shaped(cleared) /\ cleared.members = left.members /\ cleared.state = left.state
          /\ cleared.leader = IF Len(ord) > 1 THEN NextLeader(ord, left.leader) ELSE left.leader
      BY <2>2, ClearRotates
    <3> HIDE DEF cleared
    <3>3. Governed(v, ord, cleared)
      BY <2>2, <3>1, <3>2 DEF Governed, SameRoom
    <3> QED BY <3>3 DEF cleared
  <2>4. Governed(v, ord, left) /\ Governed(v, ord, v)
    BY <2>2 DEF Governed, SameRoom
  <2>5. OnReset(v, ord, src, m).view \in {v, left, ClearRound(left, ord, TRUE)}
    BY DEF OnReset, Publish, Reply
  <2> HIDE DEF left
  <2> QED BY <2>1, <2>3, <2>4, <2>5
<1> QED BY <1>0, <1>1, <1>2, <1>3, <1>4, <1>5, <1>6, <1>7, <1>8, <1>9 DEF Actions

\* The departure of a player leaves everybody else, led by one of them.
LEMMA RemoveLeaves ==
  ASSUME NEW v, Shaped(v), NEW ord \in Seq(Ids), NoRepeat(ord),
         v.members = InOrder(ord), v.leader \in InOrder(ord), 1 \in InOrder(ord),
         NEW id \in InOrder(ord), id # 1
  PROVE  LET w == RemovePlayer(v, ord, id)
         IN /\ Shaped(w)
            /\ w.members = v.members \ {id}
            /\ w.leader \in w.members
            /\ w.state \in {v.state, "Listening"}
<1> DEFINE rest == Without(ord, id)
           gone == [v EXCEPT !.members = @ \ {id}, !.ready = @ \ {id}, !.loaded = @ \ {id},
                             !.reset = @ \ {id}, !.chart = [@ EXCEPT ![id] = NoChart],
                             !.score = [@ EXCEPT ![id] = "none"]]
           led == IF v.leader # id \/ rest = <<>> THEN gone
                  ELSE [(IF v.active = 0 THEN InvalidateVotes(gone) ELSE gone)
                          EXCEPT !.leader = rest[((Position(ord, id) - 1) % Len(rest)) + 1]]
<1>1. /\ rest \in Seq(Ids) /\ Len(rest) = Len(ord) - 1
      /\ InOrder(rest) = v.members \ {id}
  BY WithoutOne
<1>2. Shaped(gone) /\ gone.members = v.members \ {id} /\ gone.leader = v.leader
      /\ gone.state = v.state
  BY DEF Shaped
<1>3. Position(ord, id) \in 1..Len(ord)
  BY DEF Position, InOrder
<1>4. rest # <<>> => rest[((Position(ord, id) - 1) % Len(rest)) + 1] \in InOrder(rest)
  <2> SUFFICES ASSUME rest # <<>>
               PROVE  rest[((Position(ord, id) - 1) % Len(rest)) + 1] \in InOrder(rest)
    OBVIOUS
  <2> DEFINE n == Len(rest)
             k == Position(ord, id) - 1
  <2>1. n \in Nat \ {0} /\ DOMAIN rest = 1..n /\ k \in Nat
    BY <1>1, <1>3
  <2>2. (k % n) + 1 \in 1..n
    <3> HIDE DEF n, k
    <3> QED BY <2>1, Remainder
  <2> QED BY <2>1, <2>2 DEF InOrder
<1>5. /\ Shaped(led) /\ led.members = v.members \ {id} /\ led.state = v.state
      /\ rest # <<>> => led.leader \in v.members \ {id}
  <2> HIDE DEF gone, rest
  <2>1. CASE v.leader # id \/ rest = <<>>
    BY <2>1, <1>2
  <2>2. CASE ~ (v.leader # id \/ rest = <<>>)
    <3> DEFINE base == IF v.active = 0 THEN InvalidateVotes(gone) ELSE gone
    <3>1. Shaped(base) /\ SameRoom(gone, base)
      BY <1>2, InvalidateKeeps DEF SameRoom
    <3> HIDE DEF base
    <3>2. led = [base EXCEPT !.leader = rest[((Position(ord, id) - 1) % Len(rest)) + 1]]
      BY <2>2 DEF base
    <3> HIDE DEF led
    <3> QED BY <2>2, <3>1, <3>2, <1>1, <1>2, <1>4 DEF Shaped, SameRoom
  <2> QED BY <2>1, <2>2
<1> DEFINE alone == [ClearRound(led, rest, FALSE) EXCEPT !.leader = 1, !.state = "Listening"]
           cleared == ClearRound(led, rest, TRUE)
<1>6. RemovePlayer(v, ord, id) = IF Len(rest) < 2 THEN alone
                                 ELSE IF led.active # 0 /\ AllReset(led) THEN cleared ELSE led
  BY DEF RemovePlayer
<1> HIDE DEF led, gone, rest
<1>7. Shaped(alone) /\ alone.members = v.members \ {id} /\ alone.leader = 1
      /\ alone.state = "Listening"
  <2>1. LET w == ClearRound(led, rest, FALSE) IN Shaped(w) /\ w.members = led.members
    BY <1>5, ClearKeeps DEF SameRoom
  <2> QED BY <2>1, <1>5 DEF Shaped
<1>8. Len(rest) >= 2 =>
        /\ Shaped(cleared) /\ cleared.members = v.members \ {id} /\ cleared.state = v.state
        /\ cleared.leader \in v.members \ {id}
  <2> SUFFICES ASSUME Len(rest) >= 2
               PROVE  /\ Shaped(cleared) /\ cleared.members = v.members \ {id}
                      /\ cleared.state = v.state /\ cleared.leader \in v.members \ {id}
    OBVIOUS
  <2>1. Len(rest) > 1
    BY <1>1
  <2>2. NextLeader(rest, led.leader) \in InOrder(rest)
    BY <1>1, NextLeaderSeated
  <2>3. /\ Shaped(cleared) /\ cleared.members = led.members /\ cleared.state = led.state
        /\ cleared.leader = IF Len(rest) > 1 THEN NextLeader(rest, led.leader) ELSE led.leader
    BY <1>5, ClearRotates
  <2> HIDE DEF cleared
  <2>4. cleared.leader \in InOrder(rest)
    BY <2>1, <2>2, <2>3
  <2> QED BY <1>1, <1>5, <2>3, <2>4
<1>9. Len(rest) >= 2 => rest # <<>>
  BY <1>1
<1> HIDE DEF alone, cleared
<1> QED BY <1>1, <1>5, <1>6, <1>7, <1>8, <1>9
-----------------------------------------------------------------------------
(* The inductive invariant: SeatsAgree, that no joiner holds the id of the *)
(* host, and that a host that closed its room runs no more passes.         *)

Links == {"none", "greeting", "up", "dropping", "gone"}
AtTable(lnk) == {c \in Joiners : lnk[c] \in {"up", "dropping"}}

Seating(room, ord, lnk, st) ==
  /\ NoRepeat(ord)
  /\ \A c, d \in AtTable(lnk) : c # d => st[c] # st[d]
  /\ \A c \in AtTable(lnk) : st[c] # 1
  /\ room.members = {1} \cup {st[c] : c \in AtTable(lnk)}
  /\ room.members = InOrder(ord)
  /\ room.leader \in room.members

SeatInv ==
  /\ DOMAIN view = Procs /\ Shaped(view[Host])
  /\ order \in Seq(Ids)
  /\ link \in [Joiners -> Links]
  /\ seat \in [Joiners -> 0..MaxPlayers]
  /\ view[Host].state = "Off" => phase = "closed"
  /\ view[Host].state # "Off" => Seating(view[Host], order, link, seat)

LEMMA InvIsSeatsAgree == SeatInv => SeatsAgree
BY DEF SeatInv, Seating, AtTable, NoRepeat, InOrder, SeatsAgree

LEMMA InitSeats == Init => SeatInv
<1> SUFFICES ASSUME Init PROVE SeatInv
  OBVIOUS
<1>1. Host \in Procs /\ DOMAIN view = Procs /\ view[Host] = HostView
  BY DEF Init, Procs
<1>2. Shaped(HostView) /\ HostView.members = {1} /\ HostView.leader = 1 /\ HostView.state = "Listening"
  BY DEF HostView, FreshView, Shaped
<1>3. order \in Seq(Ids) /\ NoRepeat(order) /\ InOrder(order) = {1}
  BY RoomAssumption DEF Init, Ids, NoRepeat, InOrder
<1>4. /\ link \in [Joiners -> Links] /\ AtTable(link) = {}
      /\ seat \in [Joiners -> 0..MaxPlayers]
  BY RoomAssumption DEF Init, Links, AtTable
<1> QED BY <1>1, <1>2, <1>3, <1>4 DEF SeatInv, Seating
-----------------------------------------------------------------------------
(* Steps that seat nobody and take nobody's seat.                          *)

Undisturbed ==
  /\ DOMAIN view' = Procs /\ Governed(view[Host], order, view'[Host])
  /\ order' = order /\ seat' = seat
  /\ link' \in [Joiners -> Links] /\ AtTable(link') = AtTable(link)
  /\ phase = "closed" => phase' = "closed"

LEMMA UndisturbedKeeps == SeatInv /\ Undisturbed => SeatInv'
BY DEF SeatInv, Undisturbed, Seating, Governed

\* A process that changes its own view only has to answer for the host's.
LEMMA OwnView ==
  ASSUME SeatInv, NEW p \in Procs, NEW w,
         p = Host => Governed(view[Host], order, w),
         view' = [view EXCEPT ![p] = w],
         UNCHANGED <<order, link, seat>>,
         phase = "closed" => phase' = "closed"
  PROVE  Undisturbed
<1>1. Host \in Procs /\ Governed(view[Host], order, view[Host])
  BY DEF SeatInv, Procs, Governed
<1> QED BY <1>1 DEF SeatInv, Undisturbed

LEMMA SameView ==
  ASSUME SeatInv, UNCHANGED <<view, order, link, seat>>, phase = "closed" => phase' = "closed"
  PROVE  Undisturbed
BY DEF SeatInv, Undisturbed, Governed

LEMMA CallKeeps ==
  ASSUME SeatInv, NEW p \in Procs, NEW w, NEW m, Call(p, w, m),
         p = Host => Governed(view[Host], order, w)
  PROVE  Undisturbed
BY OwnView DEF Call

LEMMA AnnounceGoverned ==
  ASSUME NEW v, Shaped(v), NEW ord, NEW x
  PROVE  Governed(v, ord, AnnounceChart(v, x))
BY AnnounceKeeps DEF Governed, SameRoom
-----------------------------------------------------------------------------
(* The calls of the players, one lemma for each group of the model.        *)

LEMMA ChooseKeeps ==
  ASSUME SeatInv, NEW p \in Procs, NEW x, ChooseChart(p, x)
  PROVE  Undisturbed
<1>1. p = Host => Governed(view[Host], order, AnnounceChart(view[p], x))
  BY AnnounceGoverned DEF SeatInv
<1> QED BY <1>1, CallKeeps DEF ChooseChart

LEMMA ReadyKeeps == ASSUME SeatInv, NEW p \in Procs, SetReady(p) PROVE Undisturbed
<1> DEFINE v == view[p]
           w == IF v.id \notin v.ready THEN [v EXCEPT !.ready = @ \cup {v.id}]
                ELSE [v EXCEPT !.ready = @ \ {v.id}, !.loaded = @ \ {v.id}]
<1>1. p = Host => Governed(view[Host], order, w)
  BY DEF SeatInv, Governed, Shaped
<1>2. Call(p, w, ReadyMsg(v.id \notin v.ready, v))
  BY DEF SetReady
<1> HIDE DEF w
<1> QED BY <1>1, <1>2, CallKeeps

LEMMA LobbySteps == ASSUME SeatInv, NEW p \in Procs, Lobby(p) PROVE Undisturbed
<1> DEFINE v == view[p]
<1>0. p = Host => Shaped(v)
  BY DEF SeatInv
<1>1. ASSUME NEW x, ChooseChart(p, x) PROVE Undisturbed
  BY <1>1, ChooseKeeps
<1>2. CASE SetReady(p)
  BY <1>2, ReadyKeeps
<1>3. CASE StartMatch(p)
  <2> DEFINE w == [v EXCEPT !.chart = [@ EXCEPT ![v.id] = NoChart], !.ready = @ \ {v.id}]
  <2>1. p = Host => Governed(view[Host], order, w)
    BY <1>0 DEF Governed, Shaped
  <2>2. Call(p, w, ReadyMsg(FALSE, v)) \/ UNCHANGED <<session, wires, pass, vote>>
    BY <1>3 DEF StartMatch
  <2> HIDE DEF w
  <2> QED BY <2>1, <2>2, CallKeeps, SameView DEF session, wires, pass
<1>4. CASE FinishMatch(p)
  BY <1>0, <1>4, AnnounceGoverned, CallKeeps DEF FinishMatch
<1>5. CASE SendLaunch(p)
  <2>1. p = Host => Governed(view[Host], order, v)
    BY <1>0 DEF Governed
  <2> QED BY <1>5, <2>1, CallKeeps DEF SendLaunch
<1> QED BY <1>1, <1>2, <1>3, <1>4, <1>5 DEF Lobby

LEMMA GameSteps == ASSUME SeatInv, NEW p \in Procs, Game(p) PROVE Undisturbed
<1> DEFINE v == view[p]
<1>0. p = Host => Shaped(v)
  BY DEF SeatInv
<1>1. CASE PollLaunch(p)
  <2> DEFINE w == [v EXCEPT !.launch = NoChart]
  <2>1. p = Host => Governed(view[Host], order, w)
    BY <1>0 DEF Governed, Shaped
  <2>2. view' = [view EXCEPT ![p] = w] /\ UNCHANGED <<order, link, seat, phase>>
    BY <1>1 DEF PollLaunch, wires, pass
  <2> QED BY <2>1, <2>2, OwnView
<1>2. CASE MarkLoaded(p)
  <2>1. p = Host => Governed(view[Host], order, [v EXCEPT !.loaded = @ \cup {v.id}])
    BY <1>0 DEF Governed, Shaped
  <2> QED BY <1>2, <2>1, CallKeeps DEF MarkLoaded
<1>3. CASE LeadBegin(p)
  <2>1. p = Host => Governed(view[Host], order, [v EXCEPT !.begun = TRUE])
    BY <1>0 DEF Governed, Shaped
  <2> QED BY <1>3, <2>1, CallKeeps DEF LeadBegin
<1>4. CASE FollowBegin(p)
  <2> DEFINE w == [v EXCEPT !.begin = FALSE]
  <2>1. p = Host => Governed(view[Host], order, w)
    BY <1>0 DEF Governed, Shaped
  <2>2. view' = [view EXCEPT ![p] = w] /\ UNCHANGED <<order, link, seat, phase>>
    BY <1>4 DEF FollowBegin, wires, pass
  <2> QED BY <2>1, <2>2, OwnView
<1>5. CASE AbortLoad(p)
  BY <1>5, SameView DEF AbortLoad, session, wires, pass
<1>6. CASE FinishGame(p)
  <2> DEFINE w == [v EXCEPT !.score = [@ EXCEPT ![v.id] = "final"], !.dirty = FALSE,
                            !.finalSent = TRUE]
  <2>1. p = Host => Governed(view[Host], order, w)
    BY <1>0 DEF Governed, Shaped
  <2>2. Call(p, w, ScoreMsg(0, v.active, "final"))
    BY <1>6 DEF FinishGame
  <2> HIDE DEF w
  <2> QED BY <2>1, <2>2, CallKeeps
<1>7. CASE LeaveResult(p)
  <2> DEFINE off == [v EXCEPT !.ready = @ \ {v.id}, !.loaded = @ \ {v.id}]
             left == [v EXCEPT !.reset = @ \cup {v.id}, !.ready = @ \ {v.id},
                               !.loaded = @ \ {v.id}, !.dirty = FALSE,
                               !.launch = NoChart, !.begin = FALSE]
  <2>1. p = Host => Governed(view[Host], order, off) /\ Governed(view[Host], order, left)
    BY <1>0 DEF Governed, Shaped
  <2>2. \/ view' = [view EXCEPT ![p] = off] /\ UNCHANGED <<order, link, seat, phase>>
        \/ UNCHANGED <<view, order, link, seat, phase>>
        \/ Call(p, left, ResetMsg(v.active))
    BY <1>7 DEF LeaveResult, session, wires, pass, SeatInv
  <2> HIDE DEF off, left
  <2> QED BY <2>1, <2>2, CallKeeps, OwnView, SameView
<1> QED BY <1>1, <1>2, <1>3, <1>4, <1>5, <1>6, <1>7 DEF Game

LEMMA ExtraCalls ==
  ASSUME SeatInv, NEW p \in Procs,
         (\E r \in Rates : SetRate(p, r)) \/ LiveScore(p) \/ Chat(p)
  PROVE  Undisturbed
<1> DEFINE v == view[p]
<1>0. p = Host => Shaped(v)
  BY DEF SeatInv
<1>1. ASSUME NEW r \in Rates, SetRate(p, r) PROVE Undisturbed
  <2> DEFINE w == [v EXCEPT !.pendingRev = v.rev, !.ratePending = TRUE, !.ready = @ \ {v.id}]
  <2>1. p = Host => Governed(view[Host], order, w)
    BY <1>0 DEF Governed, Shaped
  <2>2. Call(p, w, RateMsg(r, v))
    BY <1>1 DEF SetRate
  <2> HIDE DEF w
  <2> QED BY <2>1, <2>2, CallKeeps
<1>2. CASE LiveScore(p)
  <2> DEFINE w == [v EXCEPT !.score = [@ EXCEPT ![v.id] = "live"], !.dirty = TRUE]
  <2>1. p = Host => Governed(view[Host], order, w)
    BY <1>0 DEF Governed, Shaped
  <2>2. view' = [view EXCEPT ![p] = w] /\ UNCHANGED <<order, link, seat, phase>>
    BY <1>2 DEF LiveScore, wires, pass, SeatInv
  <2> HIDE DEF w
  <2> QED BY <2>1, <2>2, OwnView
<1>3. CASE Chat(p)
  <2>1. p = Host => Governed(view[Host], order, v)
    BY <1>0 DEF Governed
  <2> QED BY <1>3, <2>1, CallKeeps DEF Chat
<1> QED BY <1>1, <1>2, <1>3
-----------------------------------------------------------------------------
(* The joiners: their views are not the room.                              *)

LEMMA OtherView ==
  ASSUME SeatInv, NEW c \in Joiners, NEW w, view' = [view EXCEPT ![c] = w],
         UNCHANGED <<order, link, seat, phase>>
  PROVE  Undisturbed
BY OwnView, RoomAssumption DEF Procs

LEMMA SeverKeeps == ASSUME SeatInv, NEW c \in Joiners, Sever(c) PROVE Undisturbed
BY OtherView DEF Sever, pass

LEMMA JoinerSteps ==
  ASSUME SeatInv, NEW c \in Joiners, Joiner(c) \/ Leave(c)
  PROVE  Undisturbed
<1>1. CASE Join(c)
  <2>1. Host \in Procs /\ c # Host /\ view'[Host] = view[Host] /\ DOMAIN view' = Procs
    BY <1>1, RoomAssumption DEF Join, SeatInv, Procs
  <2>2. link' \in [Joiners -> Links] /\ AtTable(link') = AtTable(link)
    BY <1>1 DEF Join, SeatInv, Links, AtTable
  <2> QED BY <1>1, <2>1, <2>2 DEF Join, Undisturbed, SeatInv, Governed, pass
<1>2. CASE StartFails(c) \/ Leave(c)
  BY <1>2, SeverKeeps DEF StartFails, Leave
<1>3. CASE Receive(c)
  <2>1. CASE Sever(c)
    BY <2>1, SeverKeeps
  <2>2. CASE ~Sever(c)
    <3>1. view' = [view EXCEPT ![c] = Apply(view[c], Head(down[c]))]
          /\ UNCHANGED <<order, link, seat, phase>>
      BY <1>3, <2>2 DEF Receive, pass
    <3> QED BY <3>1, OtherView
  <2> QED BY <2>1, <2>2
<1>4. CASE PumpScore(c)
  <2>1. Call(c, [view[c] EXCEPT !.dirty = FALSE], ScoreMsg(0, view[c].active, "live"))
    BY <1>4 DEF PumpScore
  <2> QED BY <2>1, OtherView DEF Call
<1> QED BY <1>1, <1>2, <1>3, <1>4 DEF Joiner
-----------------------------------------------------------------------------
(* The host's worker.                                                      *)

LEMMA WorkerQuiet ==
  ASSUME SeatInv, HostLocal \/ HostFlush \/ HostEndPass
  PROVE  Undisturbed
<1> DEFINE h == view[Host]
<1>0. Host \in Procs /\ Shaped(h)
  BY DEF SeatInv, Procs
<1>1. CASE HostLocal
  <2> DEFINE m == Head(controls)
  <2>1. CASE Rejects(h, 1, m)
    BY <1>1, <2>1, SameView DEF HostLocal, wires
  <2>2. CASE ~Rejects(h, 1, m)
    <3>1. Governed(h, order, Handle(h, order, 1, m).view)
      BY <1>0, <2>2, HandleGoverns DEF SeatInv
    <3>2. view' = [view EXCEPT ![Host] = Handle(h, order, 1, m).view]
          /\ UNCHANGED <<order, link, seat, phase>>
      BY <1>1, <2>2 DEF HostLocal, wires
    <3> QED BY <1>0, <3>1, <3>2, OwnView
  <2> QED BY <2>1, <2>2
<1>2. CASE HostFlush
  BY <1>2, SameView DEF HostFlush
<1>3. CASE HostEndPass
  <2> DEFINE w == [h EXCEPT !.dirty = FALSE]
  <2>1. Governed(h, order, w)
    BY <1>0 DEF Governed, Shaped
  <2>2. /\ UNCHANGED <<order, link, seat>> /\ phase # "closed"
        /\ view' = view \/ view' = [view EXCEPT ![Host] = w]
    BY <1>3 DEF HostEndPass, wires
  <2> HIDE DEF w
  <2> QED BY <1>0, <2>1, <2>2, OwnView, SameView
<1> QED BY <1>1, <1>2, <1>3

LEMMA LinkQuiet ==
  ASSUME SeatInv, NEW c \in Joiners, HostForget(c) \/ HostReceive(c) \/ HostTimeout(c)
  PROVE  Undisturbed
<1> DEFINE h == view[Host]
<1>0. Host \in Procs /\ Shaped(h) /\ DOMAIN view = Procs /\ Governed(h, order, h)
  BY DEF SeatInv, Procs, Governed
<1>1. CASE HostForget(c)
  <2>1. link' \in [Joiners -> Links] /\ AtTable(link') = AtTable(link)
    BY <1>1 DEF HostForget, SeatInv, Links, AtTable
  <2> QED BY <1>0, <1>1, <2>1 DEF HostForget, Undisturbed, session, pass
<1>2. CASE HostReceive(c) \/ HostTimeout(c)
  <2> DEFINE m == Head(up[c])
  <2>1. link[c] = "up" /\ (link' = link \/ link' = [link EXCEPT ![c] = "dropping"])
    BY <1>2 DEF HostReceive, HostTimeout
  <2>2. link' \in [Joiners -> Links] /\ AtTable(link') = AtTable(link)
    BY <2>1 DEF SeatInv, Links, AtTable
  <2>3. UNCHANGED <<order, seat, phase>>
    BY <1>2 DEF HostReceive, HostTimeout, session, pass
  <2>4. \/ view' = view
        \/ ~Rejects(h, seat[c], m)
           /\ view' = [view EXCEPT ![Host] = Handle(h, order, seat[c], m).view]
    BY <1>2 DEF HostReceive, HostTimeout, session
  <2>5. ~Rejects(h, seat[c], m) => Governed(h, order, Handle(h, order, seat[c], m).view)
    BY <1>0, HandleGoverns DEF SeatInv
  <2> HIDE DEF m
  <2>6. DOMAIN view' = Procs /\ Governed(h, order, view'[Host])
    BY <1>0, <2>4, <2>5
  <2> QED BY <2>2, <2>3, <2>6 DEF Undisturbed
<1> QED BY <1>1, <1>2
-----------------------------------------------------------------------------
(* A newcomer takes a seat.                                                *)

\* A room that is not full has an id to give, and the lowest one is free.
LEMMA FreeIdIsFree ==
  ASSUME order \in Seq(Ids), InOrder(order) = view[Host].members, 1 \in InOrder(order),
         Len(order) < MaxPlayers
  PROVE  FreeId \in Ids /\ FreeId # 1 /\ FreeId \notin view[Host].members
<1> DEFINE free == Ids \ InOrder(order)
<1>1. Len(order) \in Nat /\ DOMAIN order = 1..Len(order)
  OBVIOUS
<1>2. free # {}
  <2> SUFFICES ASSUME Ids \subseteq InOrder(order) PROVE FALSE
    OBVIOUS
  <2>1. IsFiniteSet(1..Len(order)) /\ Cardinality(1..Len(order)) = Len(order)
    <3> DEFINE n == Len(order)
    <3> HIDE DEF n
    <3>1. n \in Nat /\ 1 \in Int /\ n \in Int
      BY <1>1 DEF n
    <3>2. IsFiniteSet(1..n) /\ Cardinality(1..n) = IF 1 > n THEN 0 ELSE n - 1 + 1
      BY <3>1, FS_Interval
    <3>3. Cardinality(1..n) = n
      BY <3>1, <3>2
    <3> QED BY <3>2, <3>3 DEF n
  <2>2. order \in Surjection(1..Len(order), InOrder(order))
    BY <1>1 DEF InOrder, Surjection
  <2>3. IsFiniteSet(InOrder(order)) /\ Cardinality(InOrder(order)) <= Len(order)
    BY <2>1, <2>2, FS_Surjection
  <2>4. Cardinality(Ids) = MaxPlayers
    BY RoomAssumption, FS_Interval DEF Ids
  <2>5. Cardinality(Ids) <= Cardinality(InOrder(order))
    BY <2>3, FS_Subset
  <2>6. Cardinality(InOrder(order)) \in Nat
    BY <2>3, FS_CardinalityType
  <2> QED BY <1>1, <2>3, <2>4, <2>5, <2>6, RoomAssumption
<1>3. PICK i \in free : \A j \in free : i <= j
  <2>1. free \subseteq Nat
    BY DEF Ids
  <2> HIDE DEF free
  <2> QED BY <1>2, <2>1, LeastOf
<1> QED BY <1>3 DEF FreeId

\* Seating somebody on a free id keeps the room consistent.
LEMMA GreetSeats ==
  ASSUME SeatInv, NEW c \in Joiners, HostGreet(c)
  PROVE  SeatInv'
<1> DEFINE h == view[Host]
           f == FreeId
           joined == [h EXCEPT !.members = @ \cup {f}, !.state = "Connected"]
<1>0. /\ Host \in Procs /\ Shaped(h) /\ h.state # "Off" /\ Seating(h, order, link, seat)
      /\ link[c] = "greeting" /\ order \in Seq(Ids)
  BY DEF SeatInv, Procs, HostGreet
<1>1. CASE h.active # 0 \/ Len(order) >= MaxPlayers
  <2>1. link' = [link EXCEPT ![c] = "gone"] /\ UNCHANGED <<view, order, seat, phase>>
    BY <1>1 DEF HostGreet, pass
  <2>2. link' \in [Joiners -> Links] /\ AtTable(link') = AtTable(link)
    BY <1>0, <2>1 DEF SeatInv, Links, AtTable
  <2>3. Undisturbed
    BY <1>0, <2>1, <2>2 DEF SeatInv, Undisturbed, Governed
  <2> QED BY <2>3, UndisturbedKeeps
<1>2. CASE ~ (h.active # 0 \/ Len(order) >= MaxPlayers)
  <2>1. /\ link' = [link EXCEPT ![c] = "up"] /\ seat' = [seat EXCEPT ![c] = f]
        /\ order' = Append(order, f) /\ view' = [view EXCEPT ![Host] = joined]
        /\ phase' = phase
    BY <1>2 DEF HostGreet, pass
  <2>2. Len(order) < MaxPlayers
    BY <1>0, <1>2, RoomAssumption
  <2>3. f \in Ids /\ f # 1 /\ f \notin h.members
    BY <1>0, <2>2, FreeIdIsFree DEF Seating
  <2> HIDE DEF f
  <2>4. /\ view'[Host] = joined /\ DOMAIN view' = Procs
        /\ Shaped(joined) /\ joined.members = h.members \cup {f}
        /\ joined.leader = h.leader /\ joined.state = "Connected"
    BY <1>0, <2>1 DEF SeatInv, Shaped
  <2>5. /\ order' \in Seq(Ids) /\ NoRepeat(order')
        /\ InOrder(order') = InOrder(order) \cup {f}
    BY <1>0, <2>1, <2>3, AppendOne DEF Seating
  <2>6. /\ link' \in [Joiners -> Links] /\ seat' \in [Joiners -> 0..MaxPlayers]
        /\ AtTable(link') = AtTable(link) \cup {c} /\ c \notin AtTable(link)
        /\ seat'[c] = f /\ \A d \in AtTable(link) : seat'[d] = seat[d]
    BY <1>0, <2>1, <2>3, RoomAssumption DEF SeatInv, Links, AtTable, Ids
  <2>7. \A d \in AtTable(link) : seat[d] \in h.members
    BY <1>0 DEF Seating
  <2>8. Seating(joined, order', link', seat')
    <3> HIDE DEF joined
    <3>1. \A d, e \in AtTable(link') : d # e => seat'[d] # seat'[e]
      BY <1>0, <2>3, <2>6, <2>7 DEF Seating
    <3>2. \A d \in AtTable(link') : seat'[d] # 1
      BY <1>0, <2>3, <2>6 DEF Seating
    <3>3. {seat'[d] : d \in AtTable(link')} = {seat[d] : d \in AtTable(link)} \cup {f}
      BY <2>6
    <3>4. joined.members = {1} \cup {seat'[d] : d \in AtTable(link')}
      BY <1>0, <2>4, <3>3 DEF Seating
    <3>5. joined.members = InOrder(order') /\ joined.leader \in joined.members
      BY <1>0, <2>4, <2>5 DEF Seating
    <3> QED BY <2>5, <3>1, <3>2, <3>4, <3>5 DEF Seating
  <2> QED BY <2>1, <2>4, <2>5, <2>6, <2>8 DEF SeatInv
<1> QED BY <1>1, <1>2

\* Removing a player frees his seat and no other.
LEMMA RemoveSeats ==
  ASSUME SeatInv, NEW c \in Joiners, HostRemove(c)
  PROVE  SeatInv'
<1> DEFINE h == view[Host]
           id == seat[c]
           w == RemovePlayer(h, order, id)
<1>0. /\ Host \in Procs /\ Shaped(h) /\ h.state # "Off" /\ Seating(h, order, link, seat)
      /\ link[c] = "dropping" /\ order \in Seq(Ids) /\ c \in AtTable(link)
  BY DEF SeatInv, Procs, HostRemove, AtTable
<1>1. /\ link' = [link EXCEPT ![c] = "gone"] /\ view' = [view EXCEPT ![Host] = w]
      /\ order' = Without(order, id) /\ seat' = seat
  BY DEF HostRemove
<1>2. id \in InOrder(order) /\ id # 1 /\ 1 \in InOrder(order)
  BY <1>0 DEF Seating
<1>3. /\ Shaped(w) /\ w.members = h.members \ {id} /\ w.leader \in w.members
      /\ w.state \in {h.state, "Listening"}
  BY <1>0, <1>2, RemoveLeaves DEF Seating
<1>4. order' \in Seq(Ids) /\ NoRepeat(order') /\ InOrder(order') = InOrder(order) \ {id}
  BY <1>0, <1>1, <1>2, WithoutOne DEF Seating
<1>5. /\ link' \in [Joiners -> Links] /\ AtTable(link') = AtTable(link) \ {c}
  BY <1>0, <1>1 DEF SeatInv, Links, AtTable
<1> HIDE DEF w
<1>6. view'[Host] = w /\ DOMAIN view' = Procs
  BY <1>0, <1>1 DEF SeatInv
<1>7. w.members = {1} \cup {seat[d] : d \in AtTable(link')}
  BY <1>0, <1>2, <1>3, <1>5 DEF Seating
<1>8. Seating(w, order', link', seat')
  <2>1. \A d, e \in AtTable(link') : d # e => seat'[d] # seat'[e]
    BY <1>0, <1>1, <1>5 DEF Seating
  <2>2. \A d \in AtTable(link') : seat'[d] # 1
    BY <1>0, <1>1, <1>5 DEF Seating
  <2>3. w.members = InOrder(order')
    BY <1>0, <1>3, <1>4 DEF Seating
  <2>4. w.members = {1} \cup {seat'[d] : d \in AtTable(link')}
    BY <1>1, <1>7
  <2> QED BY <1>3, <1>4, <2>1, <2>2, <2>3, <2>4 DEF Seating
<1> QED BY <1>0, <1>1, <1>3, <1>4, <1>5, <1>6, <1>8 DEF SeatInv

LEMMA CloseSeats == SeatInv /\ HostClose => SeatInv'
<1> SUFFICES ASSUME SeatInv, HostClose PROVE SeatInv'
  OBVIOUS
<1>1. Host \in Procs /\ DOMAIN view' = Procs /\ view'[Host] = OffView
  BY DEF HostClose, SeatInv, Procs
<1>2. Shaped(OffView) /\ OffView.state = "Off"
  BY DEF OffView, FreshView, Shaped
<1>3. link' \in [Joiners -> Links]
  BY DEF HostClose, Links
<1> QED BY <1>1, <1>2, <1>3 DEF HostClose, SeatInv
-----------------------------------------------------------------------------
(* Every step keeps the invariant.                                         *)

LEMMA StepSeats == SeatInv /\ [Next]_vars => SeatInv'
<1> SUFFICES ASSUME SeatInv, [Next]_vars PROVE SeatInv'
  OBVIOUS
<1>1. CASE \E p \in Procs : Lobby(p) \/ Game(p) \/ SetReady(p) \/ LiveScore(p) \/ Chat(p)
                             \/ (\E x \in Charts : ChooseChart(p, x))
                             \/ (\E r \in Rates : SetRate(p, r))
  BY <1>1, ChooseKeeps, ReadyKeeps, LobbySteps, GameSteps, ExtraCalls, UndisturbedKeeps
<1>2. CASE \E c \in Joiners : Joiner(c) \/ Leave(c)
  BY <1>2, JoinerSteps, UndisturbedKeeps
<1>3. CASE HostLocal \/ HostFlush \/ HostEndPass
  BY <1>3, WorkerQuiet, UndisturbedKeeps
<1>4. CASE \E c \in Joiners : HostForget(c) \/ HostReceive(c) \/ HostTimeout(c)
  BY <1>4, LinkQuiet, UndisturbedKeeps
<1>5. CASE \E c \in Joiners : HostGreet(c)
  BY <1>5, GreetSeats
<1>6. CASE \E c \in Joiners : HostRemove(c)
  BY <1>6, RemoveSeats
<1>7. CASE HostClose
  BY <1>7, CloseSeats
<1>8. CASE UNCHANGED vars
  BY <1>8, SameView, UndisturbedKeeps DEF vars
<1>9. Course => \/ \E p \in Procs : Lobby(p) \/ Game(p)
                \/ \E c \in Joiners : Joiner(c)
                \/ Worker
                \/ HostClose
  BY DEF Course
<1>10. Worker => \/ HostLocal \/ HostFlush \/ HostEndPass
                 \/ \E c \in Joiners : HostGreet(c) \/ HostForget(c) \/ HostReceive(c) \/ HostRemove(c)
  BY DEF Worker
<1>11. Extra => \/ \E p \in Procs : SetReady(p) \/ LiveScore(p) \/ Chat(p)
                     \/ (\E x \in Charts : ChooseChart(p, x)) \/ (\E r \in Rates : SetRate(p, r))
                \/ \E c \in Joiners : Leave(c) \/ HostTimeout(c)
                \/ HostClose
  BY DEF Extra
<1> QED BY <1>1, <1>2, <1>3, <1>4, <1>5, <1>6, <1>7, <1>8, <1>9, <1>10, <1>11 DEF Next

\* The room's seating agrees in every state of every behaviour, whoever joins,
\* leaves, fails or is refused, for every number of joiners and seats.
THEOREM SeatsAgreeAlways == Spec => []SeatsAgree
<1>1. Init => SeatInv
  BY InitSeats
<1>2. SeatInv /\ [Next]_vars => SeatInv'
  BY StepSeats
<1>3. SeatInv => SeatsAgree
  BY InvIsSeatsAgree
<1> QED BY <1>1, <1>2, <1>3, PTL DEF Spec

-----------------------------------------------------------------------------
(* Types of views and frames.                                              *)

\* The states of a session.
States == {"Off", "Joining", "Listening", "Connected"}

\* The ids of players, and the 0 of a player without one.
LEMMA IdRange == Ids \subseteq 0..MaxPlayers /\ 0 \in 0..MaxPlayers /\ 1 \in Ids
BY RoomAssumption DEF Ids

\* What reset_room_locked, join and host set up is a typed copy.
LEMMA FreshType ==
  ASSUME NEW id \in 0..MaxPlayers, NEW state \in States
  PROVE  FreshView(id, state) \in ViewType
BY IdRange, RoomAssumption DEF FreshView, ViewType, States, NoCharts, NoScores, MaybeChart, Scores

\* local_chart is a chart or none.
LEMMA SelectedType ==
  ASSUME NEW v \in ViewType
  PROVE  Selected(v) \in MaybeChart
BY DEF Selected, ViewType, MaybeChart

\* invalidate_readiness_locked leaves a typed copy.
LEMMA InvalidateType ==
  ASSUME NEW v \in ViewType
  PROVE  InvalidateVotes(v) \in ViewType
<1> DEFINE r == v.rev + 1
<1>1. r \in Nat
  BY DEF ViewType
<1> HIDE DEF r
<1>2. [v EXCEPT !.rev = r, !.ratePending = FALSE, !.ready = {}, !.loaded = {}] \in ViewType
  BY <1>1 DEF ViewType
<1> QED BY <1>2 DEF InvalidateVotes, r

\* cancel_launch_locked leaves a typed copy.
LEMMA CancelType ==
  ASSUME NEW v \in ViewType
  PROVE  CancelLaunch(v) \in ViewType
<1> DEFINE w == InvalidateVotes(v)
<1>1. w \in ViewType
  BY InvalidateType
<1>2. NoScores \in [Ids -> Scores] /\ NoChart \in MaybeChart /\ v.active \in Nat
  BY DEF NoScores, Scores, MaybeChart, ViewType
<1> HIDE DEF w
<1>3. [w EXCEPT
     !.closed = IF v.active # 0 THEN v.active ELSE @,
     !.active = 0, !.begun = FALSE, !.finalSent = FALSE, !.launch = NoChart,
     !.begin = FALSE, !.dirty = FALSE, !.reset = {}, !.score = NoScores] \in ViewType
  BY <1>1, <1>2 DEF ViewType
<1> QED BY <1>3 DEF CancelLaunch, w

\* clear_round_locked, with or without a new leader, leaves a typed copy.
LEMMA ClearType ==
  ASSUME NEW v \in ViewType, NEW ord \in Seq(Ids), NEW rotate \in BOOLEAN
  PROVE  ClearRound(v, ord, rotate) \in ViewType
<1> DEFINE w == CancelLaunch(v)
           heir == IF rotate /\ Len(ord) > 1 THEN NextLeader(ord, w.leader) ELSE w.leader
<1>1. w \in ViewType
  BY CancelType
<1>2. heir \in 0..MaxPlayers
  <2>1. Len(ord) > 1 => NextLeader(ord, w.leader) \in Ids
    BY NextLeaderSeated DEF InOrder
  <2>2. w.leader \in 0..MaxPlayers
    BY <1>1 DEF ViewType
  <2> QED BY <2>1, <2>2, IdRange
<1>3. NoCharts \in [Ids -> MaybeChart]
  BY DEF NoCharts, MaybeChart
<1> HIDE DEF w, heir
<1>4. [w EXCEPT !.chart = NoCharts, !.leader = heir] \in ViewType
  BY <1>1, <1>2, <1>3 DEF ViewType
<1> QED BY <1>4 DEF ClearRound, w, heir

\* Both ways a round ends leave a typed copy.
LEMMA OverType ==
  ASSUME NEW v \in ViewType, NEW ord \in Seq(Ids)
  PROVE  ClearRound(v, ord, TRUE) \in ViewType /\ ClearRound(v, ord, FALSE) \in ViewType
<1>1. ClearRound(v, ord, TRUE) \in ViewType
  BY ClearType
<1>2. ClearRound(v, ord, FALSE) \in ViewType
  BY ClearType
<1> QED BY <1>1, <1>2

\* A roster of a room with a leader is a typed broadcast.
LEMMA RosterType ==
  ASSUME NEW v \in ViewType, v.leader \in Ids
  PROVE  RosterMsg(v) \in RelayType
BY DEF RosterMsg, RelayType, ViewType

\* The fields each kind of player's frame carries.
LEMMA ActionFields ==
  ASSUME NEW m \in ActionType
  PROVE  /\ m.type = "Chart" => m.chart \in Charts
         /\ m.type = "Ready" => m.ready \in BOOLEAN /\ m.rate \in Rates /\ m.rev \in Nat
         /\ m.type = "RoomRate" => m.rate \in Rates /\ m.rev \in Nat
         /\ m.type = "Launch" => m \in [type: {"Launch"}, player: {0}, chart: Charts,
                                        nonce: Nat \ {0}, rate: Rates, rev: Nat]
         /\ m.type \in {"Loaded", "RoundReset"} => m.nonce \in Nat
         /\ m.type = "Begin" => m \in [type: {"Begin"}, player: {0}, nonce: Nat]
         /\ m.type = "Chat" => m \in [type: {"Chat"}, player: {0}]
         /\ m.type = "Score" => m \in [type: {"Score"}, player: {0}, nonce: Nat, score: Scores]
BY DEF ActionType

\* A frame passed on with its sender's id is a typed broadcast.
LEMMA FromType ==
  ASSUME NEW m \in ActionType, m.type \in {"Chat", "Launch", "Begin", "Score"}, NEW i \in Ids
  PROVE  From(i, m) \in RelayType
<1>1. CASE m.type = "Chat"
  BY <1>1, ActionFields DEF From, RelayType
<1>2. CASE m.type = "Launch"
  BY <1>2, ActionFields DEF From, RelayType
<1>3. CASE m.type = "Begin"
  BY <1>3, ActionFields DEF From, RelayType
<1>4. CASE m.type = "Score"
  BY <1>4, ActionFields DEF From, RelayType
<1> QED BY <1>1, <1>2, <1>3, <1>4

\* A typed reply r of the coordinator, whose copy was v.
ReplyTyped(v, r) ==
  /\ r.view \in ViewType /\ r.view.id = v.id
  /\ r.out \in Seq(RelayType)

\* A handler that ends in publish_roster_locked has a typed reply.
LEMMA PublishTyped ==
  ASSUME NEW v, NEW w \in ViewType, w.id = v.id, w.leader \in Ids
  PROVE  ReplyTyped(v, Publish(w))
BY RosterType DEF Publish, Reply, ReplyTyped

\* So has one that broadcasts nothing.
LEMMA QuietTyped ==
  ASSUME NEW v, NEW w \in ViewType, w.id = v.id
  PROVE  ReplyTyped(v, Reply(w, <<>>))
BY DEF Reply, ReplyTyped

\* The ends of a round leave the id and, unless it rotates, the leader alone.
LEMMA CancelId ==
  ASSUME NEW v \in ViewType
  PROVE  /\ InvalidateVotes(v).id = v.id /\ CancelLaunch(v).id = v.id
         /\ InvalidateVotes(v).leader = v.leader /\ CancelLaunch(v).leader = v.leader
         /\ \A ord : ClearRound(v, ord, TRUE).id = v.id /\ ClearRound(v, ord, FALSE).id = v.id
BY DEF InvalidateVotes, CancelLaunch, ClearRound, ViewType

\* An accepted frame leaves a typed room and typed broadcasts, and the id of
\* the coordinator alone.
LEMMA HandleTyped ==
  ASSUME NEW v \in ViewType, v.leader \in Ids, NEW ord \in Seq(Ids), NEW src \in Ids,
         NEW m \in ActionType, ~Rejects(v, src, m)
  PROVE  ReplyTyped(v, Handle(v, ord, src, m))
<1>0. m.type \in Actions
  BY DEF Rejects
<1>1. CASE m.type = "Chat"
  <2>1. <<From(src, m)>> \in Seq(RelayType)
    BY <1>1, FromType
  <2> QED BY <1>1, <2>1 DEF Handle, Reply, ReplyTyped
<1>2. CASE m.type = "Chart"
  <2> DEFINE led == [v EXCEPT !.chart = [NoCharts EXCEPT ![src] = m.chart], !.ready = {},
                       !.loaded = {}, !.reset = {}, !.score = NoScores]
             confirmed == [v EXCEPT !.chart = [@ EXCEPT ![src] = m.chart], !.ready = @ \ {src}]
  <2>0. m.chart \in MaybeChart /\ NoCharts \in [Ids -> MaybeChart] /\ NoScores \in [Ids -> Scores]
    BY <1>2, ActionFields DEF MaybeChart, NoCharts, NoScores, Scores
  <2>1. led \in ViewType /\ led.id = v.id /\ led.leader = v.leader
    BY <2>0 DEF ViewType
  <2>2. confirmed \in ViewType /\ confirmed.id = v.id /\ confirmed.leader = v.leader
    BY <2>0 DEF ViewType
  <2>3. Handle(v, ord, src, m) \in {Reply(v, <<>>), Publish(led), Publish(confirmed)}
    BY <1>2 DEF Handle, OnChart
  <2> HIDE DEF led, confirmed
  <2> QED BY <2>1, <2>2, <2>3, QuietTyped, PublishTyped
<1>3. CASE m.type = "Ready"
  <2> DEFINE yes == [v EXCEPT !.ready = @ \cup {src}]
             no == [v EXCEPT !.ready = @ \ {src}, !.loaded = @ \ {src}]
  <2>1. yes \in ViewType /\ yes.id = v.id /\ yes.leader = v.leader
    BY DEF ViewType
  <2>2. no \in ViewType /\ no.id = v.id /\ no.leader = v.leader
    BY DEF ViewType
  <2>3. Handle(v, ord, src, m) \in {Reply(v, <<>>), Publish(v), Publish(yes), Publish(no),
                                   Publish(CancelLaunch(v))}
    BY <1>3 DEF Handle, OnReady
  <2> HIDE DEF yes, no
  <2> QED BY <2>1, <2>2, <2>3, QuietTyped, PublishTyped, CancelType, CancelId
<1>4. CASE m.type = "RoomRate"
  <2> DEFINE settled == [v EXCEPT !.ratePending = FALSE]
             rated == [v EXCEPT !.rate = m.rate]
  <2>1. settled \in ViewType /\ settled.id = v.id /\ settled.leader = v.leader
    BY DEF ViewType
  <2>2. rated \in ViewType /\ rated.id = v.id /\ rated.leader = v.leader
    BY <1>4, ActionFields DEF ViewType
  <2>3. Handle(v, ord, src, m) \in {Publish(v), Publish(settled), Publish(InvalidateVotes(rated))}
    BY <1>4 DEF Handle, OnRate
  <2> HIDE DEF settled, rated
  <2> QED BY <2>1, <2>2, <2>3, PublishTyped, InvalidateType, CancelId
<1>5. CASE m.type = "Launch"
  <2> DEFINE launched == [v EXCEPT !.active = m.nonce, !.roundRate = v.rate, !.ratePending = FALSE,
                            !.loaded = {}, !.reset = {}, !.score = NoScores,
                            !.begun = FALSE, !.finalSent = FALSE, !.launch = m.chart]
  <2>0. m.nonce \in Nat /\ m.chart \in MaybeChart /\ NoScores \in [Ids -> Scores]
    BY <1>5, ActionFields DEF MaybeChart, NoScores, Scores
  <2>1. launched \in ViewType /\ launched.id = v.id /\ launched.leader = v.leader
    BY <2>0 DEF ViewType
  <2> HIDE DEF launched
  <2>2. <<From(src, m), RosterMsg(launched)>> \in Seq(RelayType)
    BY <1>5, <2>1, FromType, RosterType
  <2>3. Handle(v, ord, src, m) \in {Publish(v), Reply(launched, <<From(src, m), RosterMsg(launched)>>)}
    BY <1>5 DEF Handle, OnLaunch, launched
  <2>4. ReplyTyped(v, Reply(launched, <<From(src, m), RosterMsg(launched)>>))
    BY <2>1, <2>2 DEF Reply, ReplyTyped
  <2> QED BY <2>3, <2>4, PublishTyped
<1>6. CASE m.type = "Loaded"
  <2> DEFINE w == [v EXCEPT !.loaded = @ \cup {src}]
  <2>1. w \in ViewType /\ w.id = v.id /\ w.leader = v.leader
    BY DEF ViewType
  <2>2. Handle(v, ord, src, m) \in {Reply(v, <<>>), Publish(w)}
    BY <1>6 DEF Handle, OnLoaded
  <2> HIDE DEF w
  <2> QED BY <2>1, <2>2, QuietTyped, PublishTyped
<1>7. CASE m.type = "Begin"
  <2> DEFINE b == v.begin \/ src # v.id
             w == [v EXCEPT !.begun = TRUE, !.begin = b]
  <2>1. b \in BOOLEAN
    BY DEF ViewType
  <2> HIDE DEF b
  <2>2. w \in ViewType /\ w.id = v.id
    BY <2>1 DEF ViewType
  <2>3. Handle(v, ord, src, m) = Reply(w, <<From(src, m)>>)
    BY <1>7 DEF Handle, OnBegin, b
  <2>4. <<From(src, m)>> \in Seq(RelayType)
    BY <1>7, FromType
  <2> HIDE DEF w
  <2> QED BY <2>2, <2>3, <2>4 DEF Reply, ReplyTyped
<1>8. CASE m.type = "Score"
  <2> DEFINE w == [v EXCEPT !.score = [@ EXCEPT ![src] = m.score]]
  <2>1. w \in ViewType /\ w.id = v.id
    BY <1>8, ActionFields DEF ViewType
  <2>2. Handle(v, ord, src, m) \in {Reply(v, <<>>), Reply(w, <<From(src, m)>>)}
    BY <1>8 DEF Handle, OnScore
  <2>3. <<From(src, m)>> \in Seq(RelayType)
    BY <1>8, FromType
  <2> HIDE DEF w
  <2>4. ReplyTyped(v, Reply(w, <<From(src, m)>>))
    BY <2>1, <2>3 DEF Reply, ReplyTyped
  <2> QED BY <2>2, <2>4, QuietTyped
<1>9. CASE m.type = "RoundReset"
  <2> DEFINE left == [v EXCEPT !.reset = @ \cup {src}, !.ready = @ \ {src}, !.loaded = @ \ {src}]
             over == ClearRound(left, ord, TRUE)
  <2>1. left \in ViewType /\ left.id = v.id /\ left.leader = v.leader
    BY DEF ViewType
  <2>2. Handle(v, ord, src, m) \in {Reply(v, <<>>), Publish(left), Publish(over)}
    BY <1>9 DEF Handle, OnReset
  <2> HIDE DEF left
  <2>3. over \in ViewType /\ over.id = v.id
    BY <2>1, OverType, CancelId
  <2>4. over.leader \in Ids
    <3>1. Shaped(left)
      BY <2>1 DEF ViewType, Shaped
    <3>2. Len(ord) > 1 => NextLeader(ord, left.leader) \in Ids
      BY NextLeaderSeated DEF InOrder
    <3> QED BY <2>1, <3>1, <3>2, ClearRotates
  <2> HIDE DEF over
  <2> QED BY <2>1, <2>2, <2>3, <2>4, QuietTyped, PublishTyped
<1> QED BY <1>0, <1>1, <1>2, <1>3, <1>4, <1>5, <1>6, <1>7, <1>8, <1>9 DEF Actions

\* The departure of a player leaves a typed room.
LEMMA RemoveTyped ==
  ASSUME NEW v \in ViewType, NEW ord \in Seq(Ids), NoRepeat(ord), NEW id \in InOrder(ord)
  PROVE  RemovePlayer(v, ord, id) \in ViewType /\ RemovePlayer(v, ord, id).id = v.id
<1> DEFINE rest == Without(ord, id)
           gone == [v EXCEPT !.members = @ \ {id}, !.ready = @ \ {id}, !.loaded = @ \ {id},
                             !.reset = @ \ {id}, !.chart = [@ EXCEPT ![id] = NoChart],
                             !.score = [@ EXCEPT ![id] = "none"]]
           base == IF v.active = 0 THEN InvalidateVotes(gone) ELSE gone
           heir == rest[((Position(ord, id) - 1) % Len(rest)) + 1]
           led == IF v.leader # id \/ rest = <<>> THEN gone ELSE [base EXCEPT !.leader = heir]
<1>1. /\ rest \in Seq(Ids) /\ Len(rest) = Len(ord) - 1 /\ id \in Ids
  BY WithoutOne DEF InOrder
<1>2. gone \in ViewType /\ gone.id = v.id
  BY <1>1 DEF ViewType, MaybeChart, Scores
<1>3. Position(ord, id) \in 1..Len(ord)
  BY DEF Position, InOrder
<1>4. rest # <<>> => heir \in Ids
  <2> SUFFICES ASSUME rest # <<>> PROVE heir \in Ids
    OBVIOUS
  <2> DEFINE n == Len(rest)
             k == Position(ord, id) - 1
  <2>1. n \in Nat \ {0} /\ DOMAIN rest = 1..n /\ k \in Nat
    BY <1>1, <1>3
  <2>2. (k % n) + 1 \in 1..n
    <3> HIDE DEF n, k
    <3> QED BY <2>1, Remainder
  <2> QED BY <1>1, <2>1, <2>2
<1> HIDE DEF gone, rest, heir
<1>5. base \in ViewType /\ base.id = v.id
  BY <1>2, InvalidateType, CancelId
<1> HIDE DEF base
<1>6. led \in ViewType /\ led.id = v.id
  BY <1>2, <1>4, <1>5, IdRange DEF ViewType
<1>7. RemovePlayer(v, ord, id) =
        IF Len(rest) < 2
        THEN [ClearRound(led, rest, FALSE) EXCEPT !.leader = 1, !.state = "Listening"]
        ELSE IF led.active # 0 /\ AllReset(led) THEN ClearRound(led, rest, TRUE) ELSE led
  BY DEF RemovePlayer, led, base, heir, gone, rest
<1> HIDE DEF led
<1> DEFINE over == ClearRound(led, rest, FALSE)
<1>8. over \in ViewType /\ over.id = v.id /\ ClearRound(led, rest, TRUE) \in ViewType
      /\ ClearRound(led, rest, TRUE).id = v.id
  BY <1>1, <1>6, OverType, CancelId
<1> HIDE DEF over
<1>9. [over EXCEPT !.leader = 1, !.state = "Listening"] \in ViewType
      /\ [over EXCEPT !.leader = 1, !.state = "Listening"].id = v.id
  BY <1>8, IdRange DEF ViewType
<1> QED BY <1>6, <1>7, <1>8, <1>9 DEF over

-----------------------------------------------------------------------------
(* The types of the whole room.                                            *)

\* A typed view, with a seat once the room has let it in.
Fit(v) == v \in ViewType /\ (v.state \in {"Connected", "Listening"} => v.id \in Ids)

\* Copies, queues and links.
Netted ==
  /\ DOMAIN view = Procs /\ \A p \in Procs : Fit(view[p])
  /\ view \in [Procs -> ViewType]
  /\ controls \in Seq(ActionType) /\ batch \in Nat
  /\ broadcasts \in Seq(RelayType)
  /\ phase \in {"drain", "links", "remove", "closed"}
  /\ up \in [Joiners -> Seq(ActionType)] /\ down \in [Joiners -> Seq(RelayType)]

\* The application's books.
Booked ==
  /\ ui \in [Procs -> UiType]
  /\ rounds \in Nat
  /\ loadedFor \in [Procs -> Nat]
  /\ vote \in [Procs -> Nat]

\* The fields each kind of broadcast carries.
LEMMA RelayFields ==
  ASSUME NEW m \in RelayType
  PROVE  /\ m.type \in {"Disconnect", "Chat", "RoomWelcome", "Launch", "Begin", "Score", "RoomRoster"}
         /\ m.type = "RoomWelcome" => m.player \in Ids /\ m.leader \in Ids
         /\ m.type = "Launch" => m.chart \in Charts /\ m.nonce \in Nat /\ m.rate \in Rates
                                 /\ m.rev \in Nat
         /\ m.type = "Begin" => m.player \in Ids /\ m.nonce \in Nat
         /\ m.type = "Score" => m.player \in Ids /\ m.nonce \in Nat /\ m.score \in Scores
         /\ m.type = "RoomRoster" => m \in
              [type: {"RoomRoster"}, leader: Ids, nonce: Nat, rate: Rates, rev: Nat,
               members: SUBSET Ids, ready: SUBSET Ids, loaded: SUBSET Ids, reset: SUBSET Ids,
               chart: [Ids -> MaybeChart]]
BY DEF RelayType

\* A roster applied to a joiner's copy leaves it typed and seated.
LEMMA RosterFits ==
  ASSUME NEW v, Fit(v), NEW m \in RelayType, m.type = "RoomRoster"
  PROVE  Fit(ApplyRoster(v, m))
<1> DEFINE pending == v.ratePending /\ m.rev <= v.pendingRev /\ m.nonce = 0 /\ m.leader = v.id
           score == [i \in Ids |-> IF i \in m.members \cap v.members THEN v.score[i] ELSE "none"]
           state == IF v.id \in m.members THEN "Connected" ELSE v.state
           closed == IF v.active # 0 THEN v.active ELSE v.closed
           taken == [v EXCEPT
              !.ratePending = pending,
              !.rate = m.rate, !.rev = m.rev, !.leader = m.leader, !.members = m.members,
              !.ready = m.ready, !.loaded = m.loaded, !.reset = m.reset, !.chart = m.chart,
              !.score = score, !.state = state, !.active = m.nonce]
<1>1. /\ m.rate \in Rates /\ m.rev \in Nat /\ m.leader \in Ids /\ m.members \in SUBSET Ids
      /\ m.ready \in SUBSET Ids /\ m.loaded \in SUBSET Ids /\ m.reset \in SUBSET Ids
      /\ m.chart \in [Ids -> MaybeChart] /\ m.nonce \in Nat
  BY RelayFields
<1>2. /\ pending \in BOOLEAN /\ score \in [Ids -> Scores] /\ state \in States /\ closed \in Nat
      /\ state \in {"Connected", "Listening"} => v.id \in Ids
  BY <1>1 DEF Fit, ViewType, Scores, States
<1>3. ApplyRoster(v, m) =
        IF m.nonce # 0 THEN [taken EXCEPT !.roundRate = m.rate]
        ELSE [taken EXCEPT !.closed = closed,
                        !.launch = NoChart, !.begin = FALSE, !.begun = FALSE,
                        !.finalSent = FALSE, !.dirty = FALSE]
  <2>1. v.active = taken.active \/ TRUE
    OBVIOUS
  <2>2. taken.closed = v.closed
    BY DEF Fit, ViewType
  <2> QED BY <2>2 DEF ApplyRoster
<1> HIDE DEF pending, score, state, closed
<1>4. taken \in ViewType /\ taken.state = state /\ taken.id = v.id
  BY <1>1, <1>2, IdRange DEF Fit, ViewType, States
<1> HIDE DEF taken
<1>5. CASE m.nonce # 0
  <2> DEFINE w == [taken EXCEPT !.roundRate = m.rate]
  <2>1. w \in ViewType /\ w.state = state /\ w.id = v.id
    BY <1>1, <1>4 DEF ViewType
  <2> QED BY <1>2, <1>3, <1>5, <2>1 DEF Fit
<1>6. CASE m.nonce = 0
  <2> DEFINE w == [taken EXCEPT !.closed = closed,
                        !.launch = NoChart, !.begin = FALSE, !.begun = FALSE,
                        !.finalSent = FALSE, !.dirty = FALSE]
  <2>1. w \in ViewType /\ w.state = state /\ w.id = v.id
    BY <1>2, <1>4 DEF ViewType, MaybeChart
  <2> QED BY <1>2, <1>3, <1>6, <2>1 DEF Fit
<1> QED BY <1>5, <1>6

\* So does any broadcast but Disconnect, which ends the session.
LEMMA ApplyFits ==
  ASSUME NEW v, Fit(v), NEW m \in RelayType, m.type # "Disconnect"
  PROVE  Fit(Apply(v, m))
<1>1. CASE m.type = "RoomWelcome"
  <2>1. Apply(v, m) = [v EXCEPT !.id = m.player, !.leader = m.leader]
    BY <1>1 DEF Apply
  <2>2. [v EXCEPT !.id = m.player, !.leader = m.leader] \in ViewType
        /\ [v EXCEPT !.id = m.player, !.leader = m.leader].id \in Ids
    BY <1>1, RelayFields, IdRange DEF Fit, ViewType
  <2> QED BY <2>1, <2>2 DEF Fit
<1>2. CASE m.type = "RoomRoster"
  BY <1>2, RosterFits DEF Apply
<1>3. CASE m.type = "Launch"
  <2> DEFINE w == [v EXCEPT !.active = m.nonce, !.roundRate = m.rate, !.ratePending = FALSE,
            !.begun = FALSE, !.finalSent = FALSE, !.begin = FALSE,
            !.loaded = {}, !.reset = {}, !.score = NoScores, !.launch = m.chart]
  <2>1. w \in ViewType /\ w.state = v.state /\ w.id = v.id
    <3>1. NoScores \in [Ids -> Scores] /\ m.chart \in MaybeChart
      BY <1>3, RelayFields DEF NoScores, Scores, MaybeChart
    <3> QED BY <1>3, <3>1, RelayFields DEF Fit, ViewType
  <2>2. Apply(v, m) = w
    BY <1>3 DEF Apply, ApplyLaunch
  <2> QED BY <2>1, <2>2 DEF Fit
<1>4. CASE m.type = "Begin"
  <2> DEFINE b == v.begin \/ m.player # v.id
             w == [v EXCEPT !.begin = b, !.begun = TRUE]
  <2>1. b \in BOOLEAN
    BY DEF Fit, ViewType
  <2>2. Apply(v, m) = w
    BY <1>4 DEF Apply
  <2> HIDE DEF b
  <2>3. w \in ViewType /\ w.state = v.state /\ w.id = v.id
    BY <2>1 DEF Fit, ViewType
  <2> QED BY <2>2, <2>3 DEF Fit
<1>5. CASE m.type = "Score"
  <2> DEFINE w == [v EXCEPT !.score = [@ EXCEPT ![m.player] = m.score]]
  <2>1. w \in ViewType /\ w.state = v.state /\ w.id = v.id
    BY <1>5, RelayFields DEF Fit, ViewType
  <2>2. Apply(v, m) \in {v, w}
    BY <1>5 DEF Apply
  <2> QED BY <2>1, <2>2 DEF Fit
<1>6. CASE m.type = "Chat"
  BY <1>6 DEF Apply
<1> QED BY <1>1, <1>2, <1>3, <1>4, <1>5, <1>6, RelayFields
-----------------------------------------------------------------------------
(* The players' calls.                                                     *)

\* A step that changes one copy to a typed one keeps the room typed.
LEMMA ViewNetted ==
  ASSUME Netted, NEW p \in Procs, NEW w, Fit(w), view' = [view EXCEPT ![p] = w],
         UNCHANGED <<controls, broadcasts, batch, phase, up, down>>
  PROVE  Netted'
<1>1. \A q \in Procs : view'[q] = IF q = p THEN w ELSE view[q]
  BY DEF Netted
<1>2. \A q \in Procs : Fit(view'[q])
  BY <1>1 DEF Netted
<1> QED BY <1>2 DEF Netted, Fit

\* So does a call that also sends a frame: to the controls or to the host.
LEMMA CallNetted ==
  ASSUME Netted, NEW p \in Procs, NEW w, Fit(w), NEW m \in ActionType, Call(p, w, m)
  PROVE  Netted'
<1>1. \A q \in Procs : view'[q] = IF q = p THEN w ELSE view[q]
  BY DEF Netted, Call
<1>2. \A q \in Procs : Fit(view'[q])
  BY <1>1 DEF Netted
<1>3. DOMAIN view' = Procs /\ view' \in [Procs -> ViewType]
  BY <1>2 DEF Netted, Call, Fit
<1>4. controls' \in Seq(ActionType)
  <2>1. controls' = controls \/ controls' = Append(controls, m)
    BY DEF Call, Queue
  <2>2. Append(controls, m) \in Seq(ActionType)
    BY AppendProperties DEF Netted
  <2> QED BY <2>1, <2>2 DEF Netted
<1>5. up' \in [Joiners -> Seq(ActionType)]
  <2>1. \/ up' = up
        \/ p \in Joiners /\ up' = [up EXCEPT ![p] = Append(@, m)]
    <3>1. CASE p = Host
      BY <3>1 DEF Call, Queue
    <3>2. CASE p # Host
      BY <3>2 DEF Call, Queue, Procs
    <3> QED BY <3>1, <3>2
  <2>2. p \in Joiners => Append(up[p], m) \in Seq(ActionType)
    BY AppendProperties DEF Netted
  <2> QED BY <2>1, <2>2 DEF Netted
<1> QED BY <1>2, <1>3, <1>4, <1>5 DEF Netted, Call

\* And a step that leaves the session and the links alone.
LEMMA SameNetted ==
  ASSUME Netted, UNCHANGED <<session, up, down, pass>>
  PROVE  Netted'
BY DEF Netted, Fit, session, pass

\* Moving the application to another state keeps its books typed.
LEMMA EnterBooked ==
  ASSUME ui \in [Procs -> UiType], NEW p \in Procs,
         NEW a \in {"lobby", "loading", "leading", "following", "playing", "finished"}, Enter(p, a)
  PROVE  ui' \in [Procs -> UiType]
BY DEF Enter, UiType

\* The frames of the calls.
LEMMA CallFrames ==
  ASSUME NEW v \in ViewType
  PROVE  /\ \A x \in Charts : ChartMsg(x) \in ActionType
         /\ ReadyMsg(TRUE, v) \in ActionType /\ ReadyMsg(FALSE, v) \in ActionType
         /\ \A r \in Rates : RateMsg(r, v) \in ActionType
         /\ \A x \in Charts, n \in Nat \ {0} : LaunchMsg(0, x, n, v) \in ActionType
         /\ LoadedMsg(v.active) \in ActionType /\ ResetMsg(v.active) \in ActionType
         /\ BeginMsg(0, v.active) \in ActionType /\ ChatMsg(0) \in ActionType
         /\ ScoreMsg(0, v.active, "live") \in ActionType
         /\ ScoreMsg(0, v.active, "final") \in ActionType
BY DEF ViewType, ActionType, ChartMsg, ReadyMsg, RateMsg, LaunchMsg, LoadedMsg, ResetMsg,
       BeginMsg, ChatMsg, ScoreMsg, Scores

\* set_local_chart leaves a typed copy.
LEMMA AnnounceFits ==
  ASSUME NEW v, Fit(v), NEW x \in Charts
  PROVE  Fit(AnnounceChart(v, x))
<1> DEFINE own == [v EXCEPT !.chart = [@ EXCEPT ![v.id] = x], !.ready = @ \ {v.id}]
           lead == [own EXCEPT !.chart = [NoCharts EXCEPT ![v.id] = x], !.ready = {}]
<1>1. own \in ViewType /\ own.state = v.state /\ own.id = v.id
  BY DEF Fit, ViewType, MaybeChart
<1>2. NoCharts \in [Ids -> MaybeChart] /\ x \in MaybeChart
  BY DEF NoCharts, MaybeChart
<1>3. AnnounceChart(v, x) \in {v, own, lead}
  BY DEF AnnounceChart
<1> HIDE DEF own
<1>4. lead \in ViewType /\ lead.state = own.state /\ lead.id = own.id
  BY <1>1, <1>2 DEF ViewType
<1> QED BY <1>1, <1>3, <1>4 DEF Fit

\* A chart chosen.
LEMMA ChooseTyped ==
  ASSUME Netted, Booked, NEW p \in Procs, NEW x \in Charts, ChooseChart(p, x)
  PROVE  Netted' /\ Booked'
<1>1. Fit(view[p]) /\ Fit(AnnounceChart(view[p], x)) /\ ChartMsg(x) \in ActionType
  BY AnnounceFits, CallFrames DEF Netted, Fit
<1>2. Netted'
  BY <1>1, CallNetted DEF ChooseChart
<1>3. ui' \in [Procs -> UiType] /\ vote' \in [Procs -> Nat]
  BY DEF ChooseChart, Booked, UiType, MaybeChart
<1> QED BY <1>2, <1>3 DEF ChooseChart, Booked

\* A match started.
LEMMA StartTyped ==
  ASSUME Netted, Booked, NEW p \in Procs, StartMatch(p)
  PROVE  Netted' /\ Booked'
<1> DEFINE v == view[p]
           cleared == [v EXCEPT !.chart = [@ EXCEPT ![v.id] = NoChart], !.ready = @ \ {v.id}]
<1>1. Fit(v) /\ v \in ViewType
  BY DEF Netted, Fit
<1>2. Fit(cleared) /\ Selected(v) \in MaybeChart
  BY <1>1, SelectedType DEF Fit, ViewType, MaybeChart
<1>3. ReadyMsg(FALSE, v) \in ActionType
  BY <1>1, CallFrames
<1>4. /\ \/ Call(p, cleared, ReadyMsg(FALSE, v)) /\ vote' = [vote EXCEPT ![p] = 0]
         \/ UNCHANGED <<session, wires, pass>> /\ vote' = vote
      /\ ui' = [ui EXCEPT ![p].path = NoChart, ![p].target = Selected(v)]
      /\ UNCHANGED <<rounds, faults, loadedFor>>
  BY DEF StartMatch
<1>5. ui' \in [Procs -> UiType]
  BY <1>2, <1>4 DEF Booked, UiType, MaybeChart
<1> HIDE DEF cleared, v
<1>6. Netted'
  BY <1>2, <1>3, <1>4, CallNetted, SameNetted DEF wires
<1>7. vote' \in [Procs -> Nat]
  <2>1. vote' \in {vote, [vote EXCEPT ![p] = 0]}
    BY <1>4
  <2> QED BY <2>1 DEF Booked
<1> QED BY <1>4, <1>5, <1>6, <1>7 DEF Booked

\* A match given up.
LEMMA FinishTyped ==
  ASSUME Netted, Booked, NEW p \in Procs, FinishMatch(p)
  PROVE  Netted' /\ Booked'
<1> DEFINE v == view[p]
           x == Selected(v)
<1>1. Fit(v) /\ v \in ViewType /\ x \in Charts
  BY SelectedType DEF Netted, Fit, FinishMatch, MaybeChart
<1>2. Fit(AnnounceChart(v, x)) /\ ChartMsg(x) \in ActionType
  BY <1>1, AnnounceFits, CallFrames
<1>3. Call(p, AnnounceChart(v, x), ChartMsg(x)) /\ ui' = [ui EXCEPT ![p].path = x]
      /\ vote' = [vote EXCEPT ![p] = 0] /\ UNCHANGED <<rounds, faults, loadedFor>>
  BY DEF FinishMatch
<1> HIDE DEF x, v
<1>4. Netted'
  BY <1>2, <1>3, CallNetted
<1>5. ui' \in [Procs -> UiType] /\ vote' \in [Procs -> Nat]
  BY <1>1, <1>3 DEF Booked, UiType, MaybeChart
<1> QED BY <1>3, <1>4, <1>5 DEF Booked

\* A vote given or taken back.
LEMMA ReadyTyped ==
  ASSUME Netted, Booked, NEW p \in Procs, SetReady(p)
  PROVE  Netted' /\ Booked'
<1> DEFINE v == view[p]
           yes == [v EXCEPT !.ready = @ \cup {v.id}]
           no == [v EXCEPT !.ready = @ \ {v.id}, !.loaded = @ \ {v.id}]
<1>1. Fit(v) /\ v \in ViewType /\ v.id \in Ids
  BY DEF Netted, Fit, SetReady, Online
<1>2. Fit(yes) /\ Fit(no)
  BY <1>1 DEF Fit, ViewType
<1>3. ReadyMsg(TRUE, v) \in ActionType /\ ReadyMsg(FALSE, v) \in ActionType
  BY <1>1, CallFrames
<1>4. /\ \/ Call(p, yes, ReadyMsg(TRUE, v))
         \/ Call(p, no, ReadyMsg(FALSE, v))
      /\ \/ vote' = [vote EXCEPT ![p] = v.rev]
         \/ vote' = [vote EXCEPT ![p] = 0]
      /\ UNCHANGED <<ui, rounds, faults, loadedFor>>
  <2>1. CASE v.id \notin v.ready
    <3>1. (v.id \notin v.ready) = TRUE
      BY <2>1
    <3> QED BY <2>1, <3>1 DEF SetReady
  <2>2. CASE v.id \in v.ready
    <3>1. (v.id \notin v.ready) = FALSE
      BY <2>2
    <3> QED BY <2>2, <3>1 DEF SetReady
  <2> QED BY <2>1, <2>2
<1>5. v.rev \in Nat
  BY <1>1 DEF ViewType
<1> HIDE DEF yes, no, v
<1>6. Netted'
  BY <1>2, <1>3, <1>4, CallNetted
<1>7. vote' \in [Procs -> Nat]
  BY <1>4, <1>5 DEF Booked
<1> QED BY <1>4, <1>6, <1>7 DEF Booked

\* A rate set by the leader.
LEMMA RateTyped ==
  ASSUME Netted, Booked, NEW p \in Procs, NEW r \in Rates, SetRate(p, r)
  PROVE  Netted' /\ Booked'
<1> DEFINE v == view[p]
           w == [v EXCEPT !.pendingRev = v.rev, !.ratePending = TRUE, !.ready = @ \ {v.id}]
<1>1. Fit(v) /\ v \in ViewType
  BY DEF Netted, Fit
<1>2. Fit(w) /\ RateMsg(r, v) \in ActionType
  BY <1>1, CallFrames DEF Fit, ViewType
<1>3. Call(p, w, RateMsg(r, v)) /\ UNCHANGED <<ui, history>>
  BY DEF SetRate
<1> HIDE DEF w, v
<1> QED BY <1>2, <1>3, CallNetted DEF Booked, history

\* A launch sent by the leader.
LEMMA LaunchTyped ==
  ASSUME Netted, Booked, NEW p \in Procs, SendLaunch(p)
  PROVE  Netted' /\ Booked'
<1> DEFINE v == view[p]
<1>1. Fit(v) /\ v \in ViewType
  BY DEF Netted, Fit
<1>2. Selected(v) \in Charts
  <2>1. PICK i \in v.members : Matches(v, i)
    BY DEF SendLaunch, CanStart, AllReady, Several
  <2> QED BY <1>1, <2>1, SelectedType DEF Matches, MaybeChart
<1>3. rounds + 1 \in Nat \ {0}
  BY DEF Booked
<1>4. LaunchMsg(0, Selected(v), rounds + 1, v) \in ActionType
  BY <1>1, <1>2, <1>3, CallFrames
<1>5. Call(p, v, LaunchMsg(0, Selected(v), rounds + 1, v)) /\ rounds' = rounds + 1
      /\ UNCHANGED <<ui, faults, loadedFor, vote>>
  BY DEF SendLaunch
<1> HIDE DEF v
<1> QED BY <1>1, <1>3, <1>4, <1>5, CallNetted DEF Booked

\* A line of chat.
LEMMA ChatTyped ==
  ASSUME Netted, Booked, NEW p \in Procs, Chat(p)
  PROVE  Netted' /\ Booked'
<1>1. Fit(view[p]) /\ ChatMsg(0) \in ActionType
  BY CallFrames DEF Netted, Fit
<1>2. Call(p, view[p], ChatMsg(0)) /\ UNCHANGED <<ui, history>>
  BY DEF Chat
<1> QED BY <1>1, <1>2, CallNetted DEF Booked, history

-----------------------------------------------------------------------------
(* A match.                                                                *)

\* A launch taken by the application.
LEMMA PollTyped ==
  ASSUME Netted, Booked, NEW p \in Procs, PollLaunch(p)
  PROVE  Netted' /\ Booked'
<1> DEFINE v == view[p]
           w == [v EXCEPT !.launch = NoChart]
<1>1. Fit(v) /\ v \in ViewType
  BY DEF Netted, Fit
<1>0. Fit(w)
  BY <1>1 DEF Fit, ViewType, MaybeChart
<1>2. view' = [view EXCEPT ![p] = w] /\ UNCHANGED <<controls, broadcasts, batch, phase, up, down>>
      /\ UNCHANGED history /\ (Enter(p, "loading") \/ UNCHANGED ui)
  BY DEF PollLaunch, wires, pass
<1> HIDE DEF w
<1>3. Netted'
  BY <1>0, <1>2, ViewNetted
<1>4. ui' \in [Procs -> UiType]
  BY <1>2, EnterBooked DEF Booked
<1> QED BY <1>2, <1>3, <1>4 DEF Booked, history

\* A chart loaded and reported.
LEMMA LoadTyped ==
  ASSUME Netted, Booked, NEW p \in Procs, MarkLoaded(p)
  PROVE  Netted' /\ Booked'
<1> DEFINE v == view[p]
           w == [v EXCEPT !.loaded = @ \cup {v.id}]
<1>1. Fit(v) /\ v \in ViewType /\ v.id \in Ids
  BY DEF Netted, Fit, MarkLoaded, Online
<1>2. Fit(w) /\ LoadedMsg(v.active) \in ActionType /\ v.active \in Nat
  BY <1>1, CallFrames DEF Fit, ViewType
<1>3. /\ Call(p, w, LoadedMsg(v.active)) /\ loadedFor' = [loadedFor EXCEPT ![p] = v.active]
      /\ Enter(p, "leading") \/ Enter(p, "following")
      /\ UNCHANGED <<rounds, faults, vote>>
  BY DEF MarkLoaded
<1> HIDE DEF w, v
<1>4. Netted'
  BY <1>2, <1>3, CallNetted
<1>5. ui' \in [Procs -> UiType]
  BY <1>3, EnterBooked DEF Booked
<1>6. loadedFor' \in [Procs -> Nat]
  BY <1>2, <1>3 DEF Booked
<1> QED BY <1>3, <1>4, <1>5, <1>6 DEF Booked

\* A round begun.
LEMMA BeginTyped ==
  ASSUME Netted, Booked, NEW p \in Procs, LeadBegin(p) \/ FollowBegin(p)
  PROVE  Netted' /\ Booked'
<1> DEFINE v == view[p]
           w == [v EXCEPT !.begun = TRUE]
           x == [v EXCEPT !.begin = FALSE]
<1>1. Fit(v) /\ v \in ViewType
  BY DEF Netted, Fit
<1>2. Fit(w) /\ Fit(x) /\ BeginMsg(0, v.active) \in ActionType
  BY <1>1, CallFrames DEF Fit, ViewType
<1>3. /\ \/ Call(p, w, BeginMsg(0, v.active))
         \/ /\ view' = [view EXCEPT ![p] = x]
            /\ UNCHANGED <<controls, broadcasts, batch, phase, up, down>>
      /\ Enter(p, "playing") /\ UNCHANGED history
  BY DEF LeadBegin, FollowBegin, wires, pass
<1> HIDE DEF w, x, v
<1>4. Netted'
  BY <1>2, <1>3, CallNetted, ViewNetted
<1>5. ui' \in [Procs -> UiType]
  BY <1>3, EnterBooked DEF Booked
<1> QED BY <1>3, <1>4, <1>5 DEF Booked, history

\* A load given up.
LEMMA AbortTyped ==
  ASSUME Netted, Booked, NEW p \in Procs, AbortLoad(p)
  PROVE  Netted' /\ Booked'
<1>1. Netted'
  BY SameNetted DEF AbortLoad, wires
<1>2. ui' \in [Procs -> UiType]
  BY EnterBooked DEF AbortLoad, Booked
<1> QED BY <1>1, <1>2 DEF AbortLoad, Booked, history

\* A score published, passed on or final.
LEMMA ScoreTyped ==
  ASSUME Netted, Booked, NEW p \in Procs, LiveScore(p) \/ PumpScore(p) \/ FinishGame(p)
  PROVE  Netted' /\ Booked'
<1> DEFINE v == view[p]
           live == [v EXCEPT !.score = [@ EXCEPT ![v.id] = "live"], !.dirty = TRUE]
           pumped == [v EXCEPT !.dirty = FALSE]
           final == [v EXCEPT !.score = [@ EXCEPT ![v.id] = "final"], !.dirty = FALSE,
                          !.finalSent = TRUE]
<1>1. Fit(v) /\ v \in ViewType
  BY DEF Netted, Fit
<1>2. Fit(live) /\ Fit(pumped) /\ Fit(final)
  BY <1>1 DEF Fit, ViewType, Scores
<1>3. /\ ScoreMsg(0, v.active, "live") \in ActionType
      /\ ScoreMsg(0, v.active, "final") \in ActionType
  BY <1>1, CallFrames
<1>4. CASE LiveScore(p)
  <2>1. /\ view' = [view EXCEPT ![p] = live]
        /\ UNCHANGED <<controls, broadcasts, batch, phase, up, down>> /\ UNCHANGED ui
        /\ UNCHANGED history
    BY <1>4 DEF LiveScore, wires, pass, Netted
  <2> HIDE DEF live
  <2> QED BY <1>2, <2>1, ViewNetted DEF Booked, history
<1>5. CASE PumpScore(p)
  <2>1. Call(p, pumped, ScoreMsg(0, v.active, "live")) /\ UNCHANGED <<ui, history>>
    BY <1>5 DEF PumpScore
  <2> HIDE DEF pumped
  <2> QED BY <1>2, <1>3, <2>1, CallNetted DEF Booked, history
<1>6. CASE FinishGame(p)
  <2>1. Call(p, final, ScoreMsg(0, v.active, "final")) /\ UNCHANGED history
        /\ Enter(p, "finished")
    BY <1>6 DEF FinishGame
  <2>2. ui' \in [Procs -> UiType]
    BY <2>1, EnterBooked DEF Booked
  <2> HIDE DEF final
  <2> QED BY <1>2, <1>3, <2>1, <2>2, CallNetted DEF Booked, history
<1> QED BY <1>4, <1>5, <1>6

\* A result left.
LEMMA ResultTyped ==
  ASSUME Netted, Booked, NEW p \in Procs, LeaveResult(p)
  PROVE  Netted' /\ Booked'
<1> DEFINE v == view[p]
           off == [v EXCEPT !.ready = @ \ {v.id}, !.loaded = @ \ {v.id}]
           left == [v EXCEPT !.reset = @ \cup {v.id}, !.ready = @ \ {v.id}, !.loaded = @ \ {v.id},
                        !.dirty = FALSE, !.launch = NoChart, !.begin = FALSE]
<1>1. Fit(v) /\ v \in ViewType /\ (Online(p) => v.id \in Ids)
  BY DEF Netted, Fit, Online
<1>2. Fit(off) /\ (Online(p) => Fit(left))
  BY <1>1 DEF Fit, ViewType, MaybeChart
<1>3. ResetMsg(v.active) \in ActionType
  BY <1>1, CallFrames
<1>4. /\ \/ /\ view' = [view EXCEPT ![p] = off]
            /\ UNCHANGED <<controls, broadcasts, batch, phase, up, down>>
         \/ UNCHANGED <<session, wires, pass>>
         \/ Online(p) /\ Call(p, left, ResetMsg(v.active))
      /\ Enter(p, "lobby") /\ UNCHANGED history
  BY DEF LeaveResult, wires, pass, Netted
<1> HIDE DEF off, left, v
<1>5. Netted'
  BY <1>2, <1>3, <1>4, CallNetted, ViewNetted, SameNetted DEF wires
<1>6. ui' \in [Procs -> UiType]
  BY <1>4, EnterBooked DEF Booked
<1> QED BY <1>4, <1>5, <1>6 DEF Booked, history

-----------------------------------------------------------------------------
(* The joiners' ends.                                                      *)

\* A frame cut off at any point is still frames.
LEMMA PrefixType ==
  ASSUME NEW S, NEW s \in Seq(S), NEW k \in 0..Len(s)
  PROVE  SubSeq(s, 1, k) \in Seq(S)
<1>1. CASE k = 0
  <2>1. SubSeq(s, 1, k) = <<>>
    BY <1>1, SubSeqProperties
  <2> QED BY <2>1
<1>2. CASE k # 0
  <2>1. k \in 1..Len(s) + 1
    BY <1>2, LenProperties
  <2> QED BY <1>2, SubSeqProperties, LenProperties
<1> QED BY <1>1, <1>2

\* The copies of a session before it has begun and after its end are typed.
LEMMA OffFits == Fit(OffView) /\ Fit(JoinerView) /\ Fit(HostView) /\ LobbyUi \in UiType
<1>1. /\ FreshView(0, "Off") \in ViewType /\ FreshView(0, "Joining") \in ViewType
      /\ FreshView(1, "Listening") \in ViewType
  BY FreshType, IdRange DEF States
<1>2. FreshView(0, "Off").state = "Off" /\ FreshView(0, "Joining").state = "Joining"
      /\ FreshView(1, "Listening").id = 1
  BY DEF FreshView
<1>3. Fit(OffView) /\ Fit(JoinerView)
  BY <1>1, <1>2 DEF OffView, JoinerView, Fit
<1>4. HostView \in ViewType /\ HostView.id = 1
  <2> DEFINE f == FreshView(1, "Listening")
  <2> HIDE DEF f
  <2>1. f \in ViewType => [f EXCEPT !.members = {1}] \in ViewType /\ [f EXCEPT !.members = {1}].id = f.id
    BY IdRange DEF ViewType
  <2> QED BY <1>1, <1>2, <2>1 DEF HostView, f
<1>5. LobbyUi \in UiType
  BY DEF LobbyUi, UiType, MaybeChart
<1> QED BY <1>3, <1>4, <1>5, IdRange DEF Fit

\* A joiner's link lost, by his choice or not.
LEMMA SeverTyped ==
  ASSUME Netted, Booked, NEW c \in Joiners, Sever(c)
  PROVE  Netted' /\ Booked'
<1>0. c \in Procs
  BY DEF Procs
<1>1. \A q \in Procs : view'[q] = IF q = c THEN OffView ELSE view[q]
  BY DEF Netted, Sever
<1>2. \A q \in Procs : Fit(view'[q])
  BY <1>1, OffFits DEF Netted
<1>3. DOMAIN view' = Procs /\ view' \in [Procs -> ViewType]
  BY <1>0, <1>2, OffFits DEF Netted, Sever, Fit
<1>4. up' \in [Joiners -> Seq(ActionType)]
  <2>1. PICK k \in 0..Len(up[c]) : up' = [up EXCEPT ![c] = Append(SubSeq(@, 1, k), Bye)]
    BY DEF Sever
  <2>2. up[c] \in Seq(ActionType) /\ Bye \in ActionType
    BY DEF Netted, Bye, ActionType
  <2>3. SubSeq(up[c], 1, k) \in Seq(ActionType)
    BY <2>2, PrefixType
  <2>4. Append(SubSeq(up[c], 1, k), Bye) \in Seq(ActionType)
    BY <2>2, <2>3, AppendProperties
  <2> QED BY <2>1, <2>4 DEF Netted
<1>5. down' \in [Joiners -> Seq(RelayType)]
  <2>1. down' = [down EXCEPT ![c] = <<>>]
    BY DEF Sever
  <2>2. <<>> \in Seq(RelayType)
    OBVIOUS
  <2> QED BY <2>1, <2>2 DEF Netted
<1>6. ui' \in [Procs -> UiType] /\ vote' \in [Procs -> Nat]
  BY OffFits DEF Sever, Booked
<1> QED BY <1>2, <1>3, <1>4, <1>5, <1>6 DEF Sever, Netted, Booked, pass

\* A joiner dials.
LEMMA JoinTyped ==
  ASSUME Netted, Booked, NEW c \in Joiners, Join(c)
  PROVE  Netted' /\ Booked'
<1>0. c \in Procs
  BY DEF Procs
<1>1. \A q \in Procs : view'[q] = IF q = c THEN JoinerView ELSE view[q]
  BY DEF Netted, Join
<1>2. \A q \in Procs : Fit(view'[q])
  BY <1>1, OffFits DEF Netted
<1>3. DOMAIN view' = Procs /\ view' \in [Procs -> ViewType]
  BY <1>0, <1>2, OffFits DEF Netted, Join, Fit
<1>4. up' \in [Joiners -> Seq(ActionType)]
  <2>1. <<HelloMsg>> \in Seq(ActionType)
    BY DEF HelloMsg, ActionType
  <2> QED BY <2>1 DEF Join, Netted
<1> QED BY <1>2, <1>3, <1>4 DEF Join, Netted, Booked, pass, history

\* The rest of a sequence of S, and its first element.
LEMMA TailType ==
  ASSUME NEW S, NEW s \in Seq(S), s # <<>>
  PROVE  Tail(s) \in Seq(S) /\ Head(s) \in S
BY HeadTailProperties

\* A frame of the host received.
LEMMA ReceiveTyped ==
  ASSUME Netted, Booked, NEW c \in Joiners, Receive(c)
  PROVE  Netted' /\ Booked'
<1>1. CASE Sever(c)
  BY <1>1, SeverTyped
<1>2. CASE ~Sever(c)
  <2> DEFINE v == view[c]
             m == Head(down[c])
             w == Apply(v, m)
  <2>1. /\ down[c] # <<>> /\ m.type # "Disconnect"
        /\ view' = [view EXCEPT ![c] = w]
        /\ down' = [down EXCEPT ![c] = Tail(@)]
        /\ UNCHANGED <<ui, controls, broadcasts, batch, phase, up, history>>
    BY <1>2 DEF Receive, pass
  <2>2. m \in RelayType /\ Tail(down[c]) \in Seq(RelayType) /\ c \in Procs
    BY <2>1, TailType DEF Netted, Procs
  <2>3. Fit(w)
    BY <2>1, <2>2, ApplyFits DEF Netted
  <2> HIDE DEF w
  <2>4. \A q \in Procs : view'[q] = IF q = c THEN w ELSE view[q]
    BY <2>1 DEF Netted
  <2>5. \A q \in Procs : Fit(view'[q])
    BY <2>3, <2>4 DEF Netted
  <2>6. DOMAIN view' = Procs /\ view' \in [Procs -> ViewType]
    BY <2>1, <2>2, <2>3 DEF Netted, Fit
  <2>7. down' \in [Joiners -> Seq(RelayType)]
    BY <2>1, <2>2 DEF Netted
  <2> QED BY <2>1, <2>5, <2>6, <2>7 DEF Netted, Booked, history
<1> QED BY <1>1, <1>2

-----------------------------------------------------------------------------
(* The host's worker.                                                      *)

\* A typed new copy of the host's keeps all copies typed.
LEMMA HostViewNetted ==
  ASSUME Netted, NEW w, Fit(w), view' = [view EXCEPT ![Host] = w]
  PROVE  DOMAIN view' = Procs /\ view' \in [Procs -> ViewType] /\ \A q \in Procs : Fit(view'[q])
<1>0. Host \in Procs
  BY DEF Procs
<1>1. \A q \in Procs : view'[q] = IF q = Host THEN w ELSE view[q]
  BY DEF Netted
<1> QED BY <1>0, <1>1 DEF Netted, Fit

\* A room that is open has a leader, seats its players and lists them in order.
LEMMA HostLeads ==
  ASSUME SeatInv, view[Host].state # "Off", Netted
  PROVE  /\ view[Host].leader \in Ids /\ view[Host] \in ViewType /\ Fit(view[Host])
         /\ \A c \in AtTable(link) : seat[c] \in Ids
         /\ order \in Seq(Ids) /\ NoRepeat(order) /\ InOrder(order) = view[Host].members
<1>1. Fit(view[Host]) /\ view[Host] \in ViewType
  BY DEF Netted, Procs, Fit
<1>2. view[Host].members \subseteq Ids
  BY <1>1 DEF ViewType
<1> QED BY <1>1, <1>2 DEF SeatInv, Seating

\* What the coordinator makes of a frame is a typed room.
LEMMA ReplyNetted ==
  ASSUME SeatInv, Netted, view[Host].state # "Off", NEW src \in Ids, NEW m \in ActionType,
         ~Rejects(view[Host], src, m)
  PROVE  LET r == Handle(view[Host], order, src, m)
         IN Fit(r.view) /\ broadcasts \o r.out \in Seq(RelayType)
<1> DEFINE h == view[Host]
           r == Handle(h, order, src, m)
<1>1. h \in ViewType /\ h.leader \in Ids /\ Fit(h) /\ order \in Seq(Ids)
  BY HostLeads
<1>2. ReplyTyped(h, r)
  BY <1>1, HandleTyped
<1>3. r.view.state = h.state
  BY <1>1, HandleGoverns DEF SeatInv, Governed
<1> HIDE DEF r
<1>4. Fit(r.view)
  BY <1>1, <1>2, <1>3 DEF ReplyTyped, Fit
<1>5. broadcasts \o r.out \in Seq(RelayType)
  BY <1>2, ConcatProperties DEF ReplyTyped, Netted
<1> QED BY <1>4, <1>5 DEF r

\* The worker takes one of the host's own calls.
LEMMA LocalTyped ==
  ASSUME SeatInv, Netted, Booked, HostLocal, batch <= Len(controls)
  PROVE  Netted' /\ Booked'
<1> DEFINE h == view[Host]
           m == Head(controls)
           r == Handle(h, order, 1, m)
<1>0. h.state # "Off" /\ phase = "drain" /\ batch \in Nat \ {0}
  BY DEF SeatInv, HostLocal, Netted
<1>1. controls # <<>>
  BY <1>0 DEF Netted
<1>2. m \in ActionType /\ Tail(controls) \in Seq(ActionType) /\ batch - 1 \in Nat
  BY <1>0, <1>1, TailType DEF Netted
<1>3. controls' = Tail(controls) /\ batch' = batch - 1 /\ UNCHANGED <<ui, phase, up, down, history>>
  BY DEF HostLocal, wires
<1>4. CASE Rejects(h, 1, m)
  <2>1. UNCHANGED <<view, broadcasts>>
    BY <1>4 DEF HostLocal
  <2> QED BY <1>2, <1>3, <2>1 DEF Netted, Booked, history
<1>5. CASE ~Rejects(h, 1, m)
  <2>1. view' = [view EXCEPT ![Host] = r.view] /\ broadcasts' = broadcasts \o r.out
    BY <1>5 DEF HostLocal
  <2>2. Fit(r.view) /\ broadcasts \o r.out \in Seq(RelayType)
    BY <1>0, <1>2, <1>5, IdRange, ReplyNetted
  <2> HIDE DEF r
  <2>3. DOMAIN view' = Procs /\ view' \in [Procs -> ViewType] /\ \A q \in Procs : Fit(view'[q])
    BY <2>1, <2>2, HostViewNetted
  <2> QED BY <1>2, <1>3, <2>1, <2>2, <2>3 DEF Netted, Booked, history
<1> QED BY <1>4, <1>5

\* The worker sends a broadcast to every seat.
LEMMA FlushTyped ==
  ASSUME Netted, Booked, HostFlush
  PROVE  Netted' /\ Booked'
<1>1. \A c \in Joiners : down[c] \o broadcasts \in Seq(RelayType)
  BY ConcatProperties DEF Netted
<1>2. down' \in [Joiners -> Seq(RelayType)]
  BY <1>1 DEF HostFlush, Netted
<1> QED BY <1>2 DEF HostFlush, Netted, Booked, history, Fit

\* The worker ends a pass.
LEMMA EndTyped ==
  ASSUME Netted, Booked, HostEndPass
  PROVE  Netted' /\ Booked'
<1> DEFINE h == view[Host]
           w == [h EXCEPT !.dirty = FALSE]
           pumped == Append(controls, ScoreMsg(0, h.active, "live"))
<1>1. Fit(h) /\ h \in ViewType
  BY DEF Netted, Fit, Procs
<1>2. Fit(w)
  BY <1>1 DEF Fit, ViewType
<1>3. pumped \in Seq(ActionType)
  <2>1. ScoreMsg(0, h.active, "live") \in ActionType
    BY <1>1, CallFrames
  <2> QED BY <2>1, AppendProperties DEF Netted
<1>4. /\ UNCHANGED <<ui, broadcasts, up, down, history>>
      /\ phase' \in {"remove", "drain"}
      /\ \/ UNCHANGED <<view, controls, batch>>
         \/ UNCHANGED <<view, controls>> /\ batch' = Len(controls)
         \/ view' = [view EXCEPT ![Host] = w] /\ controls' = pumped /\ batch' = Len(pumped)
  BY DEF HostEndPass, wires, Netted
<1>5. Len(controls) \in Nat /\ Len(pumped) \in Nat
  BY <1>3, LenProperties DEF Netted
<1> HIDE DEF w, pumped
<1>6. DOMAIN view' = Procs /\ view' \in [Procs -> ViewType] /\ \A q \in Procs : Fit(view'[q])
  BY <1>2, <1>4, HostViewNetted DEF Netted, Fit
<1> QED BY <1>3, <1>4, <1>5, <1>6 DEF Netted, Booked, history

\* The worker seats a joiner or turns him away.
LEMMA GreetTyped ==
  ASSUME SeatInv, Netted, Booked, view[Host].state # "Joining", NEW c \in Joiners, HostGreet(c)
  PROVE  Netted' /\ Booked'
<1> DEFINE h == view[Host]
           f == FreeId
           joined == [h EXCEPT !.members = @ \cup {f}, !.state = "Connected"]
<1>0. h.state # "Off" /\ up[c] # <<>> /\ up' = [up EXCEPT ![c] = Tail(@)]
      /\ UNCHANGED <<ui, controls, batch, phase, history>>
  BY DEF SeatInv, HostGreet, pass
<1>1. up' \in [Joiners -> Seq(ActionType)]
  BY <1>0, TailType DEF Netted
<1>2. CASE h.active # 0 \/ Len(order) >= MaxPlayers
  <2>1. down' = [down EXCEPT ![c] = <<Bye>>] /\ UNCHANGED <<view, broadcasts>>
    BY <1>2 DEF HostGreet
  <2>2. <<Bye>> \in Seq(RelayType)
    BY DEF Bye, RelayType
  <2>3. down' \in [Joiners -> Seq(RelayType)]
    BY <2>1, <2>2 DEF Netted
  <2> QED BY <1>0, <1>1, <2>1, <2>3 DEF Netted, Booked, history
<1>3. CASE ~ (h.active # 0 \/ Len(order) >= MaxPlayers)
  <2>1. /\ view' = [view EXCEPT ![Host] = joined]
        /\ down' = [down EXCEPT ![c] = <<WelcomeMsg(f, h)>>]
        /\ broadcasts' = Append(broadcasts, RosterMsg(joined))
    BY <1>3 DEF HostGreet
  <2>2. h \in ViewType /\ h.leader \in Ids /\ Fit(h) /\ order \in Seq(Ids) /\ InOrder(order) = h.members
    BY <1>0, HostLeads
  <2>3. f \in Ids
    <3>1. Len(order) < MaxPlayers
      BY <1>3, <2>2, RoomAssumption, LenProperties
    <3>2. 1 \in InOrder(order)
      BY <1>0, <2>2 DEF SeatInv, Seating
    <3> QED BY <2>2, <3>1, <3>2, FreeIdIsFree
  <2> HIDE DEF f
  <2>4. joined \in ViewType /\ joined.leader = h.leader /\ joined.id = h.id
    BY <2>2, <2>3 DEF ViewType
  <2>5. h.id \in Ids
    <3>1. h.state \in {"Connected", "Listening"}
      BY <1>0, <2>2 DEF ViewType
    <3> QED BY <2>2, <3>1 DEF Fit
  <2>6. Fit(joined)
    BY <2>4, <2>5 DEF Fit
  <2>7. <<WelcomeMsg(f, h)>> \in Seq(RelayType)
    BY <2>2, <2>3 DEF WelcomeMsg, RelayType
  <2> HIDE DEF joined
  <2>8. broadcasts' \in Seq(RelayType)
    BY <2>1, <2>2, <2>4, RosterType, AppendProperties DEF Netted
  <2>9. down' \in [Joiners -> Seq(RelayType)]
    BY <2>1, <2>7 DEF Netted
  <2>10. DOMAIN view' = Procs /\ view' \in [Procs -> ViewType] /\ \A q \in Procs : Fit(view'[q])
    BY <2>1, <2>6, HostViewNetted
  <2> QED BY <1>0, <1>1, <2>8, <2>9, <2>10 DEF Netted, Booked, history
<1> QED BY <1>2, <1>3

\* The worker drops a link, times one out or takes a frame from it.
LEMMA LinkTyped ==
  ASSUME SeatInv, Netted, Booked, NEW c \in Joiners,
         HostForget(c) \/ HostReceive(c) \/ HostTimeout(c)
  PROVE  Netted' /\ Booked'
<1>1. CASE HostForget(c)
  <2>1. up' \in [Joiners -> Seq(ActionType)]
    BY <1>1 DEF HostForget, Netted
  <2> QED BY <1>1, <2>1 DEF HostForget, Netted, Booked, session, pass, history, Fit
<1>2. CASE HostTimeout(c)
  BY <1>2 DEF HostTimeout, Netted, Booked, session, pass, history, Fit
<1>3. CASE HostReceive(c)
  <2> DEFINE h == view[Host]
             m == Head(up[c])
             r == Handle(h, order, seat[c], m)
  <2>0. h.state # "Off" /\ link[c] = "up" /\ up[c] # <<>> /\ up' = [up EXCEPT ![c] = Tail(@)]
        /\ UNCHANGED <<ui, order, controls, seat, batch, phase, down, rounds, loadedFor, vote>>
    BY <1>3 DEF SeatInv, HostReceive, pass
  <2>1. m \in ActionType /\ Tail(up[c]) \in Seq(ActionType)
    BY <2>0, TailType DEF Netted
  <2>2. up' \in [Joiners -> Seq(ActionType)]
    BY <2>0, <2>1 DEF Netted
  <2>3. \/ UNCHANGED <<view, broadcasts>>
        \/ /\ ~Rejects(h, seat[c], m)
           /\ view' = [view EXCEPT ![Host] = r.view] /\ broadcasts' = broadcasts \o r.out
    BY <1>3 DEF HostReceive
  <2>4. CASE UNCHANGED <<view, broadcasts>>
    BY <2>0, <2>2, <2>4 DEF Netted, Booked, Fit
  <2>5. CASE /\ ~Rejects(h, seat[c], m)
             /\ view' = [view EXCEPT ![Host] = r.view] /\ broadcasts' = broadcasts \o r.out
    <3>1. seat[c] \in Ids
      BY <2>0, HostLeads DEF AtTable
    <3>2. Fit(r.view) /\ broadcasts \o r.out \in Seq(RelayType)
      BY <2>0, <2>1, <2>5, <3>1, ReplyNetted
    <3> HIDE DEF r
    <3>3. DOMAIN view' = Procs /\ view' \in [Procs -> ViewType] /\ \A q \in Procs : Fit(view'[q])
      BY <2>5, <3>2, HostViewNetted
    <3> QED BY <2>0, <2>2, <2>5, <3>2, <3>3 DEF Netted, Booked
  <2> QED BY <2>3, <2>4, <2>5
<1> QED BY <1>1, <1>2, <1>3

\* The worker removes the player of a lost link.
LEMMA RemovalTyped ==
  ASSUME SeatInv, Netted, Booked, view[Host].state # "Joining", NEW c \in Joiners, HostRemove(c)
  PROVE  Netted' /\ Booked'
<1> DEFINE v == view[Host]
           h == RemovePlayer(v, order, seat[c])
<1>0. v.state # "Off" /\ c \in AtTable(link)
  BY DEF SeatInv, HostRemove, AtTable
<1>1. /\ v \in ViewType /\ Fit(v) /\ order \in Seq(Ids) /\ NoRepeat(order)
      /\ seat[c] \in InOrder(order) /\ seat[c] # 1 /\ Seating(v, order, link, seat) /\ Shaped(v)
  BY <1>0, HostLeads DEF SeatInv, Seating
<1>2. h \in ViewType /\ h.id = v.id
  BY <1>1, RemoveTyped
<1>3. h.leader \in h.members /\ h.state \in {v.state, "Listening"}
  BY <1>1, RemoveLeaves DEF Seating
<1>4. v.state \in {"Connected", "Listening", "Joining"}
  BY <1>0, <1>1 DEF ViewType
<1>5. v.id \in Ids
  BY <1>1, <1>4 DEF Fit
<1> HIDE DEF h
<1>6. Fit(h) /\ h.leader \in Ids
  BY <1>2, <1>3, <1>5 DEF Fit, ViewType
<1>7. DOMAIN view' = Procs /\ view' \in [Procs -> ViewType] /\ \A q \in Procs : Fit(view'[q])
  BY <1>6, HostViewNetted DEF HostRemove, h
<1>8. broadcasts' \in Seq(RelayType)
  <2>1. broadcasts' = Append(broadcasts, RosterMsg(h))
    BY DEF HostRemove, h
  <2> QED BY <1>2, <1>6, <2>1, RosterType, AppendProperties DEF Netted
<1>9. up' \in [Joiners -> Seq(ActionType)] /\ down' \in [Joiners -> Seq(RelayType)]
  <2>1. Bye \in RelayType
    BY DEF Bye, RelayType
  <2>2. Append(down[c], Bye) \in Seq(RelayType)
    BY <2>1, AppendProperties DEF Netted
  <2>3. down' \in {down, [down EXCEPT ![c] = Append(@, Bye)]} /\ up' = [up EXCEPT ![c] = <<>>]
    BY DEF HostRemove
  <2>4. down' \in [Joiners -> Seq(RelayType)]
    BY <2>2, <2>3 DEF Netted
  <2>5. <<>> \in Seq(ActionType)
    OBVIOUS
  <2>6. up' \in [Joiners -> Seq(ActionType)]
    BY <2>3, <2>5 DEF Netted
  <2> QED BY <2>4, <2>6
<1>10. /\ UNCHANGED <<ui, controls, history>>
       /\ \/ UNCHANGED <<phase, batch>>
          \/ phase' = "drain" /\ batch' = Len(controls)
  BY DEF HostRemove
<1>11. Len(controls) \in Nat
  BY LenProperties DEF Netted
<1> QED BY <1>7, <1>8, <1>9, <1>10, <1>11 DEF Netted, Booked, history

\* The host closes the room.
LEMMA CloseTyped ==
  ASSUME Netted, Booked, HostClose
  PROVE  Netted' /\ Booked'
<1>1. DOMAIN view' = Procs /\ view' \in [Procs -> ViewType] /\ \A q \in Procs : Fit(view'[q])
  BY OffFits, HostViewNetted DEF HostClose
<1>2. \A c \in Joiners : Append(down[c], Bye) \in Seq(RelayType)
  BY AppendProperties DEF Netted, Bye, RelayType
<1>3. down' \in [Joiners -> Seq(RelayType)] /\ up' \in [Joiners -> Seq(ActionType)]
  BY <1>2 DEF HostClose
<1>4. ui' \in [Procs -> UiType]
  BY OffFits DEF HostClose, Booked
<1>5. controls' \in Seq(ActionType) /\ broadcasts' \in Seq(RelayType) /\ batch' \in Nat
      /\ phase' = "closed"
  BY DEF HostClose
<1> QED BY <1>1, <1>3, <1>4, <1>5 DEF Netted, Booked, HostClose, history

-----------------------------------------------------------------------------
(* Every step.                                                             *)

\* Only a newcomer, a departure and the end of the room touch the seating.
LEMMA Disturbances ==
  ASSUME SeatInv, [Next]_vars
  PROVE  \/ Undisturbed
         \/ \E c \in Joiners : HostGreet(c) \/ HostRemove(c)
         \/ HostClose
<1>1. CASE \E p \in Procs : Lobby(p) \/ Game(p) \/ SetReady(p) \/ LiveScore(p) \/ Chat(p)
                             \/ (\E x \in Charts : ChooseChart(p, x))
                             \/ (\E r \in Rates : SetRate(p, r))
  BY <1>1, ChooseKeeps, ReadyKeeps, LobbySteps, GameSteps, ExtraCalls
<1>2. CASE \E c \in Joiners : Joiner(c) \/ Leave(c)
  BY <1>2, JoinerSteps
<1>3. CASE HostLocal \/ HostFlush \/ HostEndPass
  BY <1>3, WorkerQuiet
<1>4. CASE \E c \in Joiners : HostForget(c) \/ HostReceive(c) \/ HostTimeout(c)
  BY <1>4, LinkQuiet
<1>5. CASE UNCHANGED vars
  BY <1>5, SameView DEF vars
<1>6. CASE \E c \in Joiners : HostGreet(c) \/ HostRemove(c)
  BY <1>6
<1>7. CASE HostClose
  BY <1>7
<1> QED BY <1>1, <1>2, <1>3, <1>4, <1>5, <1>6, <1>7 DEF Next, Course, Extra, Worker

\* The host is never in the state of a joiner whose handshake is under way.
HostPresent == view[Host].state # "Joining"

\* No step puts the host in a joiner's handshake.
LEMMA PresentStep ==
  ASSUME SeatInv, HostPresent, [Next]_vars
  PROVE  HostPresent'
<1>0. Host \in Procs /\ DOMAIN view = Procs
  BY DEF SeatInv, Procs
<1>1. CASE Undisturbed
  BY <1>1 DEF Undisturbed, Governed, HostPresent
<1>2. ASSUME NEW c \in Joiners, HostGreet(c)
      PROVE  HostPresent'
  <2> DEFINE joined == [view[Host] EXCEPT !.members = @ \cup {FreeId}, !.state = "Connected"]
  <2>1. view' = view \/ view' = [view EXCEPT ![Host] = joined]
    BY <1>2 DEF HostGreet
  <2>2. joined.state = "Connected"
    BY DEF SeatInv, Shaped
  <2> QED BY <1>0, <2>1, <2>2 DEF HostPresent
<1>3. ASSUME NEW c \in Joiners, HostRemove(c)
      PROVE  HostPresent'
  <2> DEFINE w == RemovePlayer(view[Host], order, seat[c])
  <2>1. view' = [view EXCEPT ![Host] = w]
    BY <1>3 DEF HostRemove
  <2>2. Seating(view[Host], order, link, seat) /\ c \in AtTable(link)
        /\ Shaped(view[Host]) /\ order \in Seq(Ids)
    BY <1>3 DEF SeatInv, HostRemove, AtTable
  <2>3. seat[c] \in InOrder(order) /\ seat[c] # 1 /\ 1 \in InOrder(order)
    BY <2>2 DEF Seating
  <2>4. w.state \in {view[Host].state, "Listening"}
    BY <2>2, <2>3, RemoveLeaves DEF Seating
  <2> QED BY <1>0, <2>1, <2>4 DEF HostPresent
<1>4. CASE HostClose
  <2>1. OffView.state = "Off"
    BY DEF OffView, FreshView
  <2> QED BY <1>0, <1>4, <2>1 DEF HostClose, HostPresent
<1> QED BY <1>1, <1>2, <1>3, <1>4, Disturbances

\* The pass works on calls that are queued.
Batched == batch <= Len(controls)

\* A call only adds to the queue of the pass.
LEMMA CallBatched ==
  ASSUME Netted, Batched, NEW p, NEW w, NEW m, Call(p, w, m)
  PROVE  Batched'
<1>1. Len(Append(controls, m)) = Len(controls) + 1 /\ Len(controls) \in Nat /\ batch \in Nat
  BY LenProperties DEF Netted
<1>2. controls' = controls \/ controls' = Append(controls, m)
  BY DEF Call, Queue
<1> QED BY <1>1, <1>2 DEF Batched, Call

\* No step takes more calls than are queued.
LEMMA BatchedStep ==
  ASSUME SeatInv, Netted, Batched, [Next]_vars
  PROVE  Batched'
<1>0. Len(controls) \in Nat /\ batch \in Nat
  BY LenProperties DEF Netted
<1>1. ASSUME NEW p \in Procs,
             Lobby(p) \/ SetReady(p) \/ Chat(p) \/ (\E x \in Charts : ChooseChart(p, x))
             \/ (\E r \in Rates : SetRate(p, r))
      PROVE  Batched'
  <2>1. (\E w, m : Call(p, w, m)) \/ UNCHANGED <<session, pass>>
    BY <1>1 DEF Lobby, ChooseChart, SetReady, StartMatch, FinishMatch, SendLaunch, Chat, SetRate
  <2> QED BY <2>1, CallBatched DEF Batched, session, pass
<1>2. ASSUME NEW p \in Procs, Game(p) \/ LiveScore(p)
      PROVE  Batched'
  <2>1. (\E w, m : Call(p, w, m)) \/ UNCHANGED <<controls, batch>>
    BY <1>2 DEF Game, LiveScore, PollLaunch, MarkLoaded, LeadBegin, FollowBegin, AbortLoad,
                FinishGame, LeaveResult, session, pass
  <2> QED BY <2>1, CallBatched DEF Batched
<1>3. ASSUME NEW c \in Joiners, Joiner(c) \/ Leave(c)
      PROVE  Batched'
  <2>1. (\E w, m : Call(c, w, m)) \/ UNCHANGED <<controls, batch>>
    BY <1>3 DEF Joiner, Leave, Join, StartFails, Receive, PumpScore, Sever, pass
  <2> QED BY <2>1, CallBatched DEF Batched
<1>4. CASE HostLocal
  <2>1. controls # <<>> /\ controls' = Tail(controls) /\ batch' = batch - 1
    BY <1>0, <1>4 DEF HostLocal, Batched
  <2>2. Len(Tail(controls)) = Len(controls) - 1
    BY <2>1, HeadTailProperties DEF Netted
  <2> QED BY <1>0, <2>1, <2>2 DEF Batched
<1>5. CASE HostFlush
  BY <1>5 DEF HostFlush, Batched
<1>6. CASE HostEndPass
  <2> DEFINE pumped == Append(controls, ScoreMsg(0, view[Host].active, "live"))
  <2>1. \/ UNCHANGED <<controls, batch>>
        \/ UNCHANGED controls /\ batch' = Len(controls)
        \/ controls' = pumped /\ batch' = Len(pumped)
    BY <1>6 DEF HostEndPass
  <2>2. Len(pumped) \in Nat
    BY <1>0, LenProperties DEF Netted
  <2> HIDE DEF pumped
  <2> QED BY <1>0, <2>1, <2>2 DEF Batched
<1>7. ASSUME NEW c \in Joiners, HostGreet(c) \/ HostForget(c) \/ HostReceive(c) \/ HostTimeout(c)
      PROVE  Batched'
  BY <1>7 DEF HostGreet, HostForget, HostReceive, HostTimeout, session, pass, Batched
<1>8. ASSUME NEW c \in Joiners, HostRemove(c)
      PROVE  Batched'
  BY <1>0, <1>8 DEF HostRemove, Batched
<1>9. CASE HostClose
  <2>1. Len(<<>>) = 0
    OBVIOUS
  <2> QED BY <1>9, <2>1 DEF HostClose, Batched
<1>10. CASE UNCHANGED vars
  BY <1>10 DEF vars, Batched
<1> QED BY <1>1, <1>2, <1>3, <1>4, <1>5, <1>6, <1>7, <1>8, <1>9, <1>10 DEF Next, Course, Extra, Worker

\* The strengthening of the type invariant.
RoomInv == SeatInv /\ HostPresent /\ Netted /\ Batched /\ Booked /\ spent \in Nat

\* The strengthened invariant implies the type invariant.
LEMMA RoomTypes == RoomInv => TypeOK
BY DEF RoomInv, SeatInv, Netted, Booked, TypeOK, Links

\* It holds of the room before anybody hosts.
LEMMA InitRoom == Init => RoomInv
<1> SUFFICES ASSUME Init PROVE RoomInv
  OBVIOUS
<1>1. SeatInv
  BY InitSeats
<1>2. Host \in Procs /\ \A p \in Procs : view[p] \in {HostView, OffView}
      /\ view[Host] = HostView /\ DOMAIN view = Procs
  BY DEF Init, Procs
<1>3. \A p \in Procs : Fit(view[p])
  BY <1>2, OffFits
<1>4. view = [p \in Procs |-> IF p = Host THEN HostView ELSE OffView]
  BY DEF Init
<1>5. view \in [Procs -> ViewType]
  BY <1>4, OffFits DEF Fit
<1>6. HostPresent
  BY <1>2 DEF HostView, FreshView, HostPresent
<1>7. Netted /\ Batched
  BY <1>2, <1>3, <1>5 DEF Init, Netted, Batched
<1>8. Booked /\ spent \in Nat
  BY OffFits DEF Init, Booked
<1> QED BY <1>1, <1>6, <1>7, <1>8 DEF RoomInv

\* Every step keeps the room typed, one case per action.
LEMMA StepTyped ==
  ASSUME RoomInv, [Next]_vars
  PROVE  Netted' /\ Booked'
<1>0. SeatInv /\ Netted /\ Booked /\ batch <= Len(controls) /\ view[Host].state # "Joining"
  BY DEF RoomInv, Batched, HostPresent
<1>1. ASSUME NEW p \in Procs,
             Lobby(p) \/ SetReady(p) \/ Chat(p) \/ (\E x \in Charts : ChooseChart(p, x))
             \/ (\E r \in Rates : SetRate(p, r))
      PROVE  Netted' /\ Booked'
  BY <1>0, <1>1, ChooseTyped, ReadyTyped, StartTyped, FinishTyped, LaunchTyped, ChatTyped,
     RateTyped DEF Lobby
<1>2. ASSUME NEW p \in Procs, Game(p) \/ LiveScore(p)
      PROVE  Netted' /\ Booked'
  BY <1>0, <1>2, PollTyped, LoadTyped, BeginTyped, AbortTyped, ScoreTyped, ResultTyped DEF Game
<1>3. ASSUME NEW c \in Joiners, Joiner(c) \/ Leave(c)
      PROVE  Netted' /\ Booked'
  <2>1. c \in Procs
    BY DEF Procs
  <2> QED BY <1>0, <1>3, <2>1, JoinTyped, SeverTyped, ReceiveTyped, ScoreTyped
          DEF Joiner, StartFails, Leave
<1>4. CASE HostLocal \/ HostFlush \/ HostEndPass
  BY <1>0, <1>4, LocalTyped, FlushTyped, EndTyped
<1>5. ASSUME NEW c \in Joiners,
             HostGreet(c) \/ HostForget(c) \/ HostReceive(c) \/ HostTimeout(c) \/ HostRemove(c)
      PROVE  Netted' /\ Booked'
  BY <1>0, <1>5, GreetTyped, LinkTyped, RemovalTyped
<1>6. CASE HostClose
  BY <1>0, <1>6, CloseTyped
<1>7. CASE UNCHANGED vars
  <2>1. UNCHANGED <<session, up, down, pass>>
    BY <1>7 DEF vars, session, pass
  <2>2. Netted'
    BY <1>0, <2>1, SameNetted
  <2> QED BY <1>0, <1>7, <2>2 DEF vars, Booked
<1> QED BY <1>1, <1>2, <1>3, <1>4, <1>5, <1>6, <1>7 DEF Next, Course, Extra, Worker

\* Every step keeps the strengthened invariant.
LEMMA StepRoom == RoomInv /\ [Next]_vars => RoomInv'
<1> SUFFICES ASSUME RoomInv, [Next]_vars PROVE RoomInv'
  OBVIOUS
<1>1. SeatInv'
  BY StepSeats DEF RoomInv
<1>2. HostPresent'
  BY PresentStep DEF RoomInv
<1>3. Netted' /\ Booked'
  BY StepTyped
<1>4. Batched'
  BY BatchedStep DEF RoomInv
<1>5. spent' \in Nat
  BY DEF RoomInv, Next, Course, Extra, vars
<1> QED BY <1>1, <1>2, <1>3, <1>4, <1>5 DEF RoomInv

\* Whatever the players call and the links lose, every frame that is sent and
\* every copy of the room is well formed, and a roster always names a player as
\* its leader.
THEOREM RoomTyped == Spec => []TypeOK
<1>1. Init => RoomInv
  BY InitRoom
<1>2. RoomInv /\ [Next]_vars => RoomInv'
  BY StepRoom
<1>3. RoomInv => TypeOK
  BY RoomTypes
<1> QED BY <1>1, <1>2, <1>3, PTL DEF Spec

-----------------------------------------------------------------------------
(* Rounds and votes.  Every roster and launch is stamped with the revision *)
(* of the settings, and the revision grows with every change of the rate   *)
(* and with the end of every round.  Stamps reach a player in order, so a  *)
(* vote for the current revision says that nothing older is under way.     *)

\* The frames that carry the revision, the rate and the round.
Stamps == {"RoomRoster", "Launch"}
\* The frames by which a player gives or takes back his vote.
Words == {"Ready", "Chart"}

\* The revisions of the frames T of queue s never fall.
Dated(T, s) ==
  \A i, j \in DOMAIN s : i <= j /\ s[i].type \in T /\ s[j].type \in T => s[i].rev <= s[j].rev
\* None of them is earlier than r.
Since(T, s, r) == \A i \in DOMAIN s : s[i].type \in T => r <= s[i].rev
\* None of them is later than a stamp of t.
Before(T, s, t) ==
  \A i \in DOMAIN s, j \in DOMAIN t :
    s[i].type \in T /\ t[j].type \in Stamps => s[i].rev <= t[j].rev

\* A stamp the room has given: of the round that runs or the one closed last,
\* and of no other than the current revision while a round runs.
OfRoom(h, rev, rate, nonce) ==
  /\ rev <= h.rev
  /\ nonce \in {0, h.active, h.closed}
  /\ rev = h.rev => rate = h.rate /\ nonce \in {0, h.active}
  /\ h.active # 0 => rev = h.rev

\* Every stamp of s is one the room h has given.
Known(h, s) ==
  \A i \in DOMAIN s : s[i].type \in Stamps => OfRoom(h, s[i].rev, s[i].rate, s[i].nonce)

\* The coordinator's own copy.
HostRound(h) ==
  /\ h.id = 1 /\ h.ready \subseteq h.members
  /\ h.rev >= 1 /\ (h.rev = 1 => h.rate = DefaultRate)
  /\ h.active # 0 => h.roundRate = h.rate

\* A joiner v before its handshake: u is under way to the host, d to the joiner.
Waits(v, u, d) ==
  /\ d = <<>>
  /\ \A k \in DOMAIN u : u[k].type \notin Words
  /\ v.state # "Off" =>
       v.state = "Joining" /\ v.rev = 1 /\ v.active = 0 /\ v.rate = DefaultRate

\* The votes u of player i, of whom the room R counts as ready, do not overtake
\* the broadcasts b.
Votes(h, R, i, u, b) ==
  /\ Dated({"Ready"}, u)
  /\ Before({"Ready"}, u, b)
  /\ \A k \in DOMAIN u : u[k].type = "Ready" =>
       u[k].rev <= h.rev /\ (u[k].rev = h.rev => u[k].rate = h.rate)
  /\ i \in R => Since({"Ready"}, u, h.rev)

\* The copy v of player i follows the room: the stamps in d, then those in b.
Follows(h, R, i, v, u, d, b) ==
  /\ OfRoom(h, v.rev, v.rate, v.active)
  /\ v.active # 0 /\ v.active = h.active => v.roundRate = h.rate
  /\ Dated(Stamps, d) /\ Since(Stamps, d, v.rev) /\ Known(h, d)
  /\ Since(Stamps, b, v.rev) /\ Before(Stamps, d, b)
  /\ i \in R => v.rev = h.rev
  /\ \A k \in DOMAIN u : u[k].type = "Ready" => u[k].rev <= v.rev

\* The last word of player i under way is the last one he gave.
LastWord(u, k) == \A l \in DOMAIN u : l > k => u[l].type \notin Words
Speaks(u, word) ==
  \A k \in DOMAIN u : u[k].type = "Ready" /\ u[k].ready /\ LastWord(u, k) => word = u[k].rev
\* A counted vote of an idle room is on its settings, or the next word is under way.
Fresh(h, R, i, u, word) ==
  i \in R /\ h.active = 0 => word = h.rev \/ \E k \in DOMAIN u : u[k].type \in Words

\* A joiner's end: lk is his link and i his id.
Joined(h, lk, i, v, u, d, b, word) ==
  /\ lk \in {"none", "greeting"} => Waits(v, u, d)
  /\ lk = "up" => Votes(h, h.ready, i, u, b)
  /\ lk \in {"up", "dropping"} /\ i \in h.ready => Since(Stamps, b, h.rev)
  /\ lk = "up" /\ v.state # "Off" =>
       Follows(h, h.ready, i, v, u, d, b) /\ Speaks(u, word) /\ Fresh(h, h.ready, i, u, word)

\* The broadcasts b that wait for the next flush.
Broadcast(h, b) == Known(h, b) /\ Dated(Stamps, b) /\ Since(Stamps, b, 1)

\* The rounds and votes of the room.
RoundInv ==
  /\ view[Host].state = "Off" => \A c \in Joiners : link[c] = "gone"
  /\ view[Host].state # "Off" =>
       /\ HostRound(view[Host]) /\ Broadcast(view[Host], broadcasts)
       /\ \A c \in Joiners :
            Joined(view[Host], link[c], seat[c], view[c], up[c], down[c], broadcasts, vote[c])
-----------------------------------------------------------------------------
(* Sequences of frames.                                                    *)

\* A queue less its head: every frame of it is one place further down.
LEMMA TailFrames ==
  ASSUME NEW S, NEW s \in Seq(S), s # <<>>
  PROVE  /\ \A i \in DOMAIN Tail(s) : i \in Nat /\ i + 1 \in DOMAIN s /\ Tail(s)[i] = s[i + 1]
         /\ \A i \in DOMAIN s : i = 1 \/ (i - 1 \in DOMAIN Tail(s) /\ Tail(s)[i - 1] = s[i])
         /\ 1 \in DOMAIN s /\ s[1] = Head(s) /\ Head(s) \in S
         /\ \A i \in DOMAIN s : i \in Nat /\ 1 <= i /\ s[i] \in S
         /\ Tail(s) \in Seq(S)
<1>1. /\ Len(s) \in Nat \ {0} /\ DOMAIN s = 1..Len(s) /\ Tail(s) \in Seq(S)
      /\ Len(Tail(s)) = Len(s) - 1 /\ DOMAIN Tail(s) = 1..Len(s) - 1
      /\ \A i \in 1..Len(s) - 1 : Tail(s)[i] = s[i + 1]
  BY HeadTailProperties, LenProperties, EmptySeq
<1> QED BY <1>1, HeadTailProperties

\* A queue with one frame more: that one is the last.
LEMMA AppendFrames ==
  ASSUME NEW S, NEW s \in Seq(S), NEW x \in S
  PROVE  LET t == Append(s, x)
         IN /\ t \in Seq(S)
            /\ \A i \in DOMAIN t : /\ i \in Nat
                                   /\ \/ i \in DOMAIN s /\ t[i] = s[i]
                                      \/ t[i] = x /\ \A j \in DOMAIN s : j < i
            /\ \A i \in DOMAIN s : i \in Nat /\ i \in DOMAIN t /\ t[i] = s[i] /\ s[i] \in S
            /\ \E i \in DOMAIN t : t[i] = x /\ \A j \in DOMAIN t : j <= i
<1>1. /\ Len(s) \in Nat /\ DOMAIN s = 1..Len(s) /\ Append(s, x) \in Seq(S)
      /\ Len(Append(s, x)) = Len(s) + 1 /\ DOMAIN Append(s, x) = 1..Len(s) + 1
      /\ \A i \in 1..Len(s) : Append(s, x)[i] = s[i]
      /\ Append(s, x)[Len(s) + 1] = x
  BY AppendProperties, LenProperties
<1> QED BY <1>1

\* Two queues joined: the second's frames come after the first's.
LEMMA ConcatFrames ==
  ASSUME NEW S, NEW s \in Seq(S), NEW t \in Seq(S)
  PROVE  /\ s \o t \in Seq(S)
         /\ \A i \in DOMAIN (s \o t) :
              /\ i \in Nat
              /\ \/ i \in DOMAIN s /\ (s \o t)[i] = s[i]
                 \/ /\ i - Len(s) \in DOMAIN t /\ (s \o t)[i] = t[i - Len(s)]
                    /\ \A j \in DOMAIN s : j < i
<1>1. /\ Len(s) \in Nat /\ DOMAIN s = 1..Len(s) /\ Len(t) \in Nat /\ DOMAIN t = 1..Len(t)
      /\ s \o t \in Seq(S) /\ Len(s \o t) = Len(s) + Len(t)
      /\ DOMAIN (s \o t) = 1..(Len(s) + Len(t))
      /\ \A i \in 1..(Len(s) + Len(t)) :
           (s \o t)[i] = IF i <= Len(s) THEN s[i] ELSE t[i - Len(s)]
  BY ConcatProperties, LenProperties
<1> QED BY <1>1

\* The fields the invariant speaks of are numbers.
LEMMA StampRev ==
  ASSUME NEW s \in Seq(RelayType), NEW i \in DOMAIN s, s[i].type \in Stamps
  PROVE  s[i].rev \in Nat /\ s[i].nonce \in Nat /\ s[i] \in RelayType /\ i \in Nat
<1>1. s[i] \in RelayType /\ i \in Nat
  BY LenProperties
<1> QED BY <1>1, RelayFields DEF Stamps

\* A vote under way carries a revision.
LEMMA VoteRev ==
  ASSUME NEW s \in Seq(ActionType), NEW i \in DOMAIN s, s[i].type = "Ready"
  PROVE  s[i].rev \in Nat /\ s[i] \in ActionType /\ i \in Nat
<1>1. s[i] \in ActionType /\ i \in Nat
  BY LenProperties
<1> QED BY <1>1, ActionFields

\* The fields of a typed copy that rounds are about.
LEMMA ViewFields ==
  ASSUME NEW v \in ViewType
  PROVE  /\ v.rev \in Nat /\ v.active \in Nat /\ v.closed \in Nat /\ v.rate \in Rates
         /\ v.members \subseteq Ids /\ v.ready \subseteq Ids
BY DEF ViewType

-----------------------------------------------------------------------------
(* Frames taken, added and passed on.                                      *)

\* The host takes a frame from a link: the votes left on it still hold back.
LEMMA TailVotes ==
  ASSUME NEW h, NEW R, NEW i, NEW u \in Seq(ActionType), u # <<>>, NEW b, Votes(h, R, i, u, b)
  PROVE  Votes(h, R, i, Tail(u), b)
<1>1. /\ \A k \in DOMAIN Tail(u) : k \in Nat /\ k + 1 \in DOMAIN u /\ Tail(u)[k] = u[k + 1]
  BY TailFrames
<1>2. Dated({"Ready"}, Tail(u))
  <2> SUFFICES ASSUME NEW k \in DOMAIN Tail(u), NEW l \in DOMAIN Tail(u), k <= l,
                      Tail(u)[k].type \in {"Ready"}, Tail(u)[l].type \in {"Ready"}
               PROVE  Tail(u)[k].rev <= Tail(u)[l].rev
    BY DEF Dated
  <2>1. k + 1 <= l + 1
    BY <1>1
  <2> QED BY <1>1, <2>1 DEF Votes, Dated
<1>3. Before({"Ready"}, Tail(u), b)
  BY <1>1 DEF Votes, Before
<1>4. i \in R => Since({"Ready"}, Tail(u), h.rev)
  BY <1>1 DEF Votes, Since
<1> QED BY <1>1, <1>2, <1>3, <1>4 DEF Votes

\* And the player still follows the room.
LEMMA TailFollows ==
  ASSUME NEW h, NEW R, NEW i, NEW v, NEW u \in Seq(ActionType), u # <<>>, NEW d, NEW b,
         Follows(h, R, i, v, u, d, b)
  PROVE  Follows(h, R, i, v, Tail(u), d, b)
<1>1. \A k \in DOMAIN Tail(u) : k \in Nat /\ k + 1 \in DOMAIN u /\ Tail(u)[k] = u[k + 1]
  BY TailFrames
<1>2. \A k \in DOMAIN Tail(u) : Tail(u)[k].type = "Ready" => Tail(u)[k].rev <= v.rev
  BY <1>1 DEF Follows
<1> QED BY <1>2 DEF Follows

\* And his last word under way is still his last word.
LEMMA TailSpeaks ==
  ASSUME NEW u \in Seq(ActionType), u # <<>>, NEW word, Speaks(u, word)
  PROVE  Speaks(Tail(u), word)
<1>1. /\ \A k \in DOMAIN Tail(u) : k \in Nat /\ k + 1 \in DOMAIN u /\ Tail(u)[k] = u[k + 1]
      /\ \A k \in DOMAIN u : k = 1 \/ (k - 1 \in DOMAIN Tail(u) /\ Tail(u)[k - 1] = u[k])
      /\ \A k \in DOMAIN u : k \in Nat
  BY TailFrames
<1> SUFFICES ASSUME NEW k \in DOMAIN Tail(u), Tail(u)[k].type = "Ready", Tail(u)[k].ready,
                    LastWord(Tail(u), k)
             PROVE  word = Tail(u)[k].rev
  BY DEF Speaks
<1>2. LastWord(u, k + 1)
  <2> SUFFICES ASSUME NEW l \in DOMAIN u, l > k + 1 PROVE u[l].type \notin Words
    BY DEF LastWord
  <2>1. l - 1 \in DOMAIN Tail(u) /\ Tail(u)[l - 1] = u[l] /\ l - 1 > k
    BY <1>1
  <2> QED BY <2>1 DEF LastWord
<1> QED BY <1>1, <1>2 DEF Speaks

\* A frame that is no word of the player takes none away.
LEMMA TailFresh ==
  ASSUME NEW h, NEW R, NEW i, NEW u \in Seq(ActionType), u # <<>>, Head(u).type \notin Words,
         NEW word, Fresh(h, R, i, u, word)
  PROVE  Fresh(h, R, i, Tail(u), word)
<1>1. /\ \A k \in DOMAIN u : k = 1 \/ (k - 1 \in DOMAIN Tail(u) /\ Tail(u)[k - 1] = u[k])
      /\ u[1] = Head(u)
  BY TailFrames
<1> SUFFICES ASSUME i \in R, h.active = 0, word # h.rev
             PROVE  \E k \in DOMAIN Tail(u) : Tail(u)[k].type \in Words
  BY DEF Fresh
<1>2. PICK k \in DOMAIN u : u[k].type \in Words
  BY DEF Fresh
<1>3. k - 1 \in DOMAIN Tail(u) /\ Tail(u)[k - 1] = u[k]
  BY <1>1, <1>2
<1> QED BY <1>2, <1>3

\* The vote that counts: nothing that follows it in u is older, and neither are
\* the broadcasts and the player's own copy.
LEMMA CountedVote ==
  ASSUME NEW h \in ViewType, NEW R, NEW i, NEW u \in Seq(ActionType), u # <<>>,
         NEW b \in Seq(RelayType), Votes(h, R, i, u, b),
         Head(u).type = "Ready", Head(u).rev = h.rev
  PROVE  /\ \A Q : Votes(h, Q, i, Tail(u), b)
         /\ Since(Stamps, b, h.rev)
         /\ \A Q, v, d : v \in ViewType /\ Follows(h, R, i, v, u, d, b)
                         => v.rev = h.rev /\ Follows(h, Q, i, v, Tail(u), d, b)
<1>1. /\ \A k \in DOMAIN Tail(u) : k \in Nat /\ k + 1 \in DOMAIN u /\ Tail(u)[k] = u[k + 1]
      /\ 1 \in DOMAIN u /\ u[1] = Head(u)
  BY TailFrames
<1>2. h.rev \in Nat
  BY ViewFields
<1>3. Votes(h, R, i, Tail(u), b)
  BY TailVotes
<1>4. Since({"Ready"}, Tail(u), h.rev)
  <2> SUFFICES ASSUME NEW k \in DOMAIN Tail(u), Tail(u)[k].type \in {"Ready"}
               PROVE  h.rev <= Tail(u)[k].rev
    BY DEF Since
  <2>1. 1 <= k + 1 /\ k + 1 \in DOMAIN u /\ Tail(u)[k] = u[k + 1]
    BY <1>1
  <2> QED BY <1>1, <2>1 DEF Votes, Dated
<1>5. Since(Stamps, b, h.rev)
  BY <1>1 DEF Votes, Before, Since
<1>6. ASSUME NEW v \in ViewType, NEW d, NEW Q, Follows(h, R, i, v, u, d, b)
      PROVE  v.rev = h.rev /\ Follows(h, Q, i, v, Tail(u), d, b)
  <2>1. v.rev \in Nat /\ v.rev <= h.rev
    BY <1>6, ViewFields DEF Follows, OfRoom
  <2>2. h.rev <= v.rev
    BY <1>1, <1>6 DEF Follows
  <2>3. Follows(h, R, i, v, Tail(u), d, b)
    BY <1>6, TailFollows
  <2>4. v.rev = h.rev
    BY <1>2, <2>1, <2>2
  <2> QED BY <2>3, <2>4 DEF Follows
<1>7. \A Q : Votes(h, Q, i, Tail(u), b)
  BY <1>3, <1>4 DEF Votes
<1> QED BY <1>5, <1>6, <1>7

\* A player's next frame: a vote for the settings of his copy.
LEMMA SayVotes ==
  ASSUME NEW h \in ViewType, NEW R, NEW i, NEW v \in ViewType, NEW u \in Seq(ActionType),
         NEW d, NEW b, Votes(h, R, i, u, b), Follows(h, R, i, v, u, d, b),
         NEW m \in ActionType, m.type = "Ready" => m.rev = v.rev /\ m.rate = v.rate
  PROVE  Votes(h, R, i, Append(u, m), b)
<1> DEFINE t == Append(u, m)
<1>1. /\ \A k \in DOMAIN t : /\ k \in Nat
                             /\ \/ k \in DOMAIN u /\ t[k] = u[k]
                                \/ t[k] = m /\ \A l \in DOMAIN u : l < k
      /\ \A k \in DOMAIN u : k \in Nat
  BY AppendFrames
<1>2. v.rev \in Nat /\ h.rev \in Nat
  BY ViewFields
<1> HIDE DEF t
<1>3. Dated({"Ready"}, t)
  <2> SUFFICES ASSUME NEW k \in DOMAIN t, NEW l \in DOMAIN t, k <= l,
                      t[k].type \in {"Ready"}, t[l].type \in {"Ready"}
               PROVE  t[k].rev <= t[l].rev
    BY DEF Dated
  <2>1. CASE k \in DOMAIN u /\ t[k] = u[k] /\ l \in DOMAIN u /\ t[l] = u[l]
    BY <2>1 DEF Votes, Dated
  <2>2. CASE k \in DOMAIN u /\ t[k] = u[k] /\ t[l] = m
    BY <2>2 DEF Follows
  <2>3. CASE t[k] = m /\ t[l] = m
    BY <1>2, <2>3
  <2>4. CASE t[k] = m /\ (\A j \in DOMAIN u : j < k) /\ l \in DOMAIN u
    <3>1. l < k
      BY <2>4
    <3> QED BY <1>1, <3>1
  <2> QED BY <1>1, <2>1, <2>2, <2>3, <2>4
<1>4. Before({"Ready"}, t, b)
  <2> SUFFICES ASSUME NEW k \in DOMAIN t, NEW l \in DOMAIN b,
                      t[k].type \in {"Ready"}, b[l].type \in Stamps
               PROVE  t[k].rev <= b[l].rev
    BY DEF Before
  <2>1. CASE k \in DOMAIN u /\ t[k] = u[k]
    BY <2>1 DEF Votes, Before
  <2>2. CASE t[k] = m
    BY <2>2 DEF Follows, Since
  <2> QED BY <1>1, <2>1, <2>2
<1>5. \A k \in DOMAIN t : t[k].type = "Ready" =>
        t[k].rev <= h.rev /\ (t[k].rev = h.rev => t[k].rate = h.rate)
  BY <1>1 DEF Votes, Follows, OfRoom
<1>6. i \in R => Since({"Ready"}, t, h.rev)
  <2> SUFFICES ASSUME i \in R, NEW k \in DOMAIN t, t[k].type \in {"Ready"}
               PROVE  h.rev <= t[k].rev
    BY DEF Since
  <2>1. CASE k \in DOMAIN u /\ t[k] = u[k]
    BY <2>1 DEF Votes, Since
  <2>2. CASE t[k] = m
    BY <1>2, <2>2 DEF Follows
  <2> QED BY <1>1, <2>1, <2>2
<1>7. Votes(h, R, i, t, b)
  BY <1>3, <1>4, <1>5, <1>6 DEF Votes
<1> QED BY <1>7 DEF t

\* What a player's call leaves of his copy of the round.
SameRound(v, w) ==
  /\ w.id = v.id /\ w.state = v.state /\ w.members = v.members
  /\ w.rev = v.rev /\ w.rate = v.rate
  /\ w.active = v.active /\ w.closed = v.closed /\ w.roundRate = v.roundRate

\* A player who says something in the revision of his copy still follows.
LEMMA SayFollows ==
  ASSUME NEW h, NEW R, NEW i, NEW v \in ViewType, NEW w, SameRound(v, w),
         NEW u \in Seq(ActionType), NEW d, NEW b, Follows(h, R, i, v, u, d, b),
         NEW m \in ActionType, m.type = "Ready" => m.rev = v.rev
  PROVE  Follows(h, R, i, w, Append(u, m), d, b) /\ Follows(h, R, i, w, u, d, b)
<1> DEFINE t == Append(u, m)
<1>1. \A k \in DOMAIN t : \/ k \in DOMAIN u /\ t[k] = u[k]
                          \/ t[k] = m
  BY AppendFrames
<1>2. v.rev \in Nat /\ v.rev <= v.rev
  BY ViewFields
<1> HIDE DEF t
<1>3. \A k \in DOMAIN t : t[k].type = "Ready" => t[k].rev <= w.rev
  BY <1>1, <1>2 DEF Follows, SameRound
<1>4. Follows(h, R, i, w, t, d, b) /\ Follows(h, R, i, w, u, d, b)
  BY <1>3 DEF Follows, SameRound
<1> QED BY <1>4 DEF t

\* What he says last is his last word.
LEMMA SaySpeaks ==
  ASSUME NEW u \in Seq(ActionType), NEW word, Speaks(u, word), NEW m \in ActionType,
         NEW new, m.type \notin Words => new = word,
         m.type = "Ready" /\ m.ready => new = m.rev
  PROVE  Speaks(Append(u, m), new)
<1> DEFINE t == Append(u, m)
<1>1. /\ \A k \in DOMAIN t : /\ k \in Nat
                             /\ \/ k \in DOMAIN u /\ t[k] = u[k]
                                \/ t[k] = m /\ \A l \in DOMAIN u : l < k
      /\ \A k \in DOMAIN u : k \in Nat /\ k \in DOMAIN t /\ t[k] = u[k]
      /\ \E k \in DOMAIN t : t[k] = m /\ \A j \in DOMAIN t : j <= k
  BY AppendFrames
<1> HIDE DEF t
<1>2. Speaks(t, new)
  <2> SUFFICES ASSUME NEW k \in DOMAIN t, t[k].type = "Ready", t[k].ready, LastWord(t, k)
               PROVE  new = t[k].rev
    BY DEF Speaks
  <2>1. CASE t[k] = m
    BY <2>1
  <2>2. CASE k \in DOMAIN u /\ t[k] = u[k] /\ t[k] # m
    <3>1. PICK n \in DOMAIN t : t[n] = m /\ \A j \in DOMAIN t : j <= n
      BY <1>1
    <3>2. n > k
      BY <1>1, <2>2, <3>1
    <3>3. m.type \notin Words
      BY <3>1, <3>2 DEF LastWord
    <3>4. LastWord(u, k)
      BY <1>1 DEF LastWord
    <3> QED BY <2>2, <3>3, <3>4 DEF Speaks
  <2> QED BY <1>1, <2>1, <2>2
<1> QED BY <1>2 DEF t

\* A vote counted stays fresh, whatever its player says next.
LEMMA SayFresh ==
  ASSUME NEW h, NEW R, NEW i, NEW u \in Seq(ActionType), NEW word, Fresh(h, R, i, u, word),
         NEW m \in ActionType, NEW new, m.type \notin Words => new = word
  PROVE  Fresh(h, R, i, Append(u, m), new)
<1> DEFINE t == Append(u, m)
<1>1. /\ \A k \in DOMAIN u : k \in DOMAIN t /\ t[k] = u[k]
      /\ \E k \in DOMAIN t : t[k] = m
  BY AppendFrames
<1> HIDE DEF t
<1>2. Fresh(h, R, i, t, new)
  BY <1>1 DEF Fresh
<1> QED BY <1>2 DEF t

-----------------------------------------------------------------------------
(* Turns of the room: the settings stay, a round starts, or the room moves  *)
(* on to a new revision, and what it broadcasts bears the new stamp.       *)

\* The settings and the round stay.
Stays(h, w) ==
  /\ w.rev = h.rev /\ w.rate = h.rate
  /\ w.active = h.active /\ w.closed = h.closed /\ w.roundRate = h.roundRate

\* A round starts, on the settings all are ready for.
Starts(h, w) ==
  /\ h.active = 0 /\ w.active # 0 /\ AllReady(h)
  /\ w.rev = h.rev /\ w.rate = h.rate /\ w.closed = h.closed /\ w.roundRate = h.rate
  /\ w.ready = h.ready

\* The revision grows: no round, no votes, and the last round is closed.
MovesOn(h, w) ==
  /\ w.rev > h.rev /\ w.active = 0 /\ w.ready = {}
  /\ w.closed = IF h.active # 0 THEN h.active ELSE h.closed

\* What one step of the coordinator does to the room.
Turn(h, w) == Stays(h, w) \/ Starts(h, w) \/ MovesOn(h, w)

\* The stamps of s are those of the copy w.
Stamped(w, s) ==
  \A i \in DOMAIN s : s[i].type \in Stamps =>
    s[i].rev = w.rev /\ s[i].rate = w.rate /\ s[i].nonce = w.active

\* A stamp the room has given before a turn is one it has given after it.
LEMMA TurnStamp ==
  ASSUME NEW h \in ViewType, NEW w \in ViewType, Turn(h, w),
         NEW rev \in Nat, NEW rate, NEW nonce, OfRoom(h, rev, rate, nonce),
         Starts(h, w) => rev = h.rev
  PROVE  OfRoom(w, rev, rate, nonce)
<1>1. h.rev \in Nat /\ w.rev \in Nat
  BY ViewFields
<1>2. CASE Stays(h, w)
  BY <1>2 DEF Stays, OfRoom
<1>3. CASE Starts(h, w)
  BY <1>1, <1>3 DEF Starts, OfRoom
<1>4. CASE MovesOn(h, w)
  <2>1. rev <= h.rev /\ rev < w.rev
    BY <1>1, <1>4 DEF MovesOn, OfRoom
  <2>2. nonce \in {0, w.closed}
    BY <1>4 DEF MovesOn, OfRoom
  <2> QED BY <1>1, <1>4, <2>1, <2>2 DEF MovesOn, OfRoom
<1> QED BY <1>2, <1>3, <1>4 DEF Turn

\* So is the stamp of the room as it now stands.
LEMMA NewStamp ==
  ASSUME NEW w \in ViewType
  PROVE  OfRoom(w, w.rev, w.rate, w.active)
BY ViewFields DEF OfRoom

\* The revision never falls.
LEMMA TurnRev ==
  ASSUME NEW h \in ViewType, NEW w \in ViewType, Turn(h, w)
  PROVE  h.rev \in Nat /\ w.rev \in Nat /\ h.rev <= w.rev
BY ViewFields DEF Turn, Stays, Starts, MovesOn

\* The stamps under way stay known through a turn.
LEMMA TurnKnown ==
  ASSUME NEW h \in ViewType, NEW w \in ViewType, Turn(h, w), NEW s \in Seq(RelayType),
         Known(h, s), Starts(h, w) => Since(Stamps, s, h.rev)
  PROVE  Known(w, s)
<1> SUFFICES ASSUME NEW i \in DOMAIN s, s[i].type \in Stamps
             PROVE  OfRoom(w, s[i].rev, s[i].rate, s[i].nonce)
  BY DEF Known
<1>1. s[i].rev \in Nat /\ OfRoom(h, s[i].rev, s[i].rate, s[i].nonce) /\ h.rev \in Nat
  BY StampRev, ViewFields DEF Known
<1>2. Starts(h, w) => s[i].rev = h.rev
  BY <1>1 DEF Since, OfRoom
<1> QED BY <1>1, <1>2, TurnStamp

\* The queue of broadcasts after a turn.
LEMMA TurnBroadcast ==
  ASSUME NEW h \in ViewType, NEW w \in ViewType, Turn(h, w), h.rev >= 1,
         NEW b \in Seq(RelayType), Broadcast(h, b), Starts(h, w) => Since(Stamps, b, h.rev),
         NEW out \in Seq(RelayType), Stamped(w, out)
  PROVE  Broadcast(w, b \o out)
<1> DEFINE t == b \o out
<1>1. \A i \in DOMAIN t :
              /\ i \in Nat
              /\ \/ i \in DOMAIN b /\ t[i] = b[i]
                 \/ /\ i - Len(b) \in DOMAIN out /\ t[i] = out[i - Len(b)]
                    /\ \A j \in DOMAIN b : j < i
  BY ConcatFrames
<1>2. Known(w, b)
  BY TurnKnown DEF Broadcast
<1>3. h.rev \in Nat /\ w.rev \in Nat /\ h.rev <= w.rev
  BY TurnRev
<1> HIDE DEF t
<1>4. Known(w, t)
  <2> SUFFICES ASSUME NEW i \in DOMAIN t, t[i].type \in Stamps
               PROVE  OfRoom(w, t[i].rev, t[i].rate, t[i].nonce)
    BY DEF Known
  <2>1. CASE i \in DOMAIN b /\ t[i] = b[i]
    BY <1>2, <2>1 DEF Known
  <2>2. CASE i - Len(b) \in DOMAIN out /\ t[i] = out[i - Len(b)]
    BY <2>2, NewStamp DEF Stamped
  <2> QED BY <1>1, <2>1, <2>2
<1>5. \A i \in DOMAIN b : b[i].type \in Stamps => b[i].rev \in Nat /\ b[i].rev <= h.rev /\ i \in Nat
  BY StampRev DEF Broadcast, Known, OfRoom
<1>6. Dated(Stamps, t)
  <2> SUFFICES ASSUME NEW i \in DOMAIN t, NEW j \in DOMAIN t, i <= j,
                      t[i].type \in Stamps, t[j].type \in Stamps
               PROVE  t[i].rev <= t[j].rev
    BY DEF Dated
  <2>1. CASE i \in DOMAIN b /\ t[i] = b[i] /\ j \in DOMAIN b /\ t[j] = b[j]
    BY <2>1 DEF Broadcast, Dated
  <2>2. CASE i \in DOMAIN b /\ t[i] = b[i] /\ j - Len(b) \in DOMAIN out /\ t[j] = out[j - Len(b)]
    BY <1>3, <1>5, <2>2 DEF Stamped
  <2>3. CASE /\ i - Len(b) \in DOMAIN out /\ t[i] = out[i - Len(b)]
             /\ j - Len(b) \in DOMAIN out /\ t[j] = out[j - Len(b)]
    BY <1>3, <2>3 DEF Stamped
  <2>4. CASE (\A k \in DOMAIN b : k < i) /\ j \in DOMAIN b
    <3>1. j < i
      BY <2>4
    <3> QED BY <1>1, <3>1
  <2> QED BY <1>1, <2>1, <2>2, <2>3, <2>4
<1>7. Since(Stamps, t, 1)
  BY <1>1, <1>3 DEF Broadcast, Since, Stamped
<1> QED BY <1>4, <1>6, <1>7 DEF Broadcast, t

\* New stamps come after everything that bears an older one.
LEMMA TurnSince ==
  ASSUME NEW w, NEW b \in Seq(RelayType), NEW out \in Seq(RelayType), Stamped(w, out),
         NEW r, r <= w.rev, Since(Stamps, b, r)
  PROVE  Since(Stamps, b \o out, r)
<1>1. \A i \in DOMAIN (b \o out) :
        \/ i \in DOMAIN b /\ (b \o out)[i] = b[i]
        \/ i - Len(b) \in DOMAIN out /\ (b \o out)[i] = out[i - Len(b)]
  BY ConcatFrames
<1> QED BY <1>1 DEF Since, Stamped

\* Frames no later than the room's revision come before what the turn broadcasts.
LEMMA TurnBefore ==
  ASSUME NEW w, NEW b \in Seq(RelayType), NEW out \in Seq(RelayType), Stamped(w, out),
         NEW T, NEW s, \A i \in DOMAIN s : s[i].type \in T => s[i].rev <= w.rev,
         Before(T, s, b)
  PROVE  Before(T, s, b \o out)
<1>1. \A i \in DOMAIN (b \o out) :
        \/ i \in DOMAIN b /\ (b \o out)[i] = b[i]
        \/ i - Len(b) \in DOMAIN out /\ (b \o out)[i] = out[i - Len(b)]
  BY ConcatFrames
<1> QED BY <1>1 DEF Before, Stamped

\* Votes under way are no later than the turn's broadcasts.
LEMMA TurnVotes ==
  ASSUME NEW h \in ViewType, NEW w \in ViewType, Turn(h, w),
         NEW b \in Seq(RelayType), NEW out \in Seq(RelayType), Stamped(w, out),
         NEW R, NEW i, i \in w.ready => i \in R,
         NEW u \in Seq(ActionType), Votes(h, R, i, u, b)
  PROVE  Votes(w, w.ready, i, u, b \o out)
<1>1. h.rev \in Nat /\ w.rev \in Nat /\ h.rev <= w.rev
  BY TurnRev
<1>2. \A k \in DOMAIN u : u[k].type = "Ready" => u[k].rev \in Nat /\ u[k].rev <= w.rev
  BY <1>1, VoteRev DEF Votes
<1>3. Before({"Ready"}, u, b \o out)
  BY <1>2, TurnBefore DEF Votes
<1>4. \A k \in DOMAIN u : u[k].type = "Ready" => (u[k].rev = w.rev => u[k].rate = w.rate)
  BY <1>1, <1>2 DEF Votes, Turn, Stays, Starts, MovesOn
<1>5. i \in w.ready => Since({"Ready"}, u, w.rev)
  BY DEF Votes, Turn, Stays, Starts, MovesOn
<1> QED BY <1>2, <1>3, <1>4, <1>5 DEF Votes

\* A player who follows the room follows it through a turn.
LEMMA TurnFollows ==
  ASSUME NEW h \in ViewType, NEW w \in ViewType, Turn(h, w), HostRound(h),
         NEW b \in Seq(RelayType), NEW out \in Seq(RelayType), Stamped(w, out),
         NEW R, NEW i, i \in w.ready => i \in R, Starts(h, w) => i \in R,
         NEW v \in ViewType, NEW u, NEW d \in Seq(RelayType), Follows(h, R, i, v, u, d, b)
  PROVE  Follows(w, w.ready, i, v, u, d, b \o out)
<1>1. h.rev \in Nat /\ w.rev \in Nat /\ h.rev <= w.rev /\ v.rev \in Nat
  BY TurnRev, ViewFields
<1>2. Starts(h, w) => v.rev = h.rev
  BY DEF Follows
<1>3. OfRoom(w, v.rev, v.rate, v.active)
  BY <1>1, <1>2, TurnStamp DEF Follows
<1>4. v.active # 0 /\ v.active = w.active => v.roundRate = w.rate
  <2>1. CASE Stays(h, w)
    BY <2>1 DEF Follows, Stays
  <2>2. CASE Starts(h, w)
    <3>1. v.active = 0
      BY <1>2, <2>2 DEF Follows, OfRoom, Starts
    <3> QED BY <3>1
  <2>3. CASE MovesOn(h, w)
    BY <2>3 DEF MovesOn
  <2> QED BY <2>1, <2>2, <2>3 DEF Turn
<1>5. Known(w, d)
  <2>1. Starts(h, w) => Since(Stamps, d, h.rev)
    BY <1>2 DEF Follows
  <2> QED BY <2>1, TurnKnown DEF Follows
<1>6. Since(Stamps, b \o out, v.rev)
  <2>1. v.rev <= w.rev
    BY <1>3 DEF OfRoom
  <2> QED BY <2>1, TurnSince DEF Follows
<1>7. Before(Stamps, d, b \o out)
  <2>1. \A k \in DOMAIN d : d[k].type \in Stamps => d[k].rev <= w.rev
    BY <1>5 DEF Known, OfRoom
  <2> QED BY <2>1, TurnBefore DEF Follows
<1>8. i \in w.ready => v.rev = w.rev
  BY DEF Follows, Turn, Stays, Starts, MovesOn
<1> QED BY <1>3, <1>4, <1>5, <1>6, <1>7, <1>8 DEF Follows

\* A turn counts no vote that is not fresh.
LEMMA TurnFresh ==
  ASSUME NEW h, NEW w, Turn(h, w), NEW R, NEW i, i \in w.ready => i \in R,
         NEW u, NEW word, Fresh(h, R, i, u, word)
  PROVE  Fresh(w, w.ready, i, u, word)
BY DEF Fresh, Turn, Stays, Starts, MovesOn

\* The coordinator's own copy through a turn.
LEMMA TurnHost ==
  ASSUME NEW h \in ViewType, NEW w \in ViewType, Turn(h, w), HostRound(h), w.id = h.id,
         w.ready \subseteq w.members
  PROVE  HostRound(w)
<1>1. h.rev \in Nat /\ w.rev \in Nat
  BY ViewFields
<1> QED BY <1>1 DEF HostRound, Turn, Stays, Starts, MovesOn

-----------------------------------------------------------------------------
(* What the coordinator does is a turn.                                    *)

\* One player's votes w.ready after frame m of player i.
Counts(v, w, i, m) ==
  /\ w.ready \subseteq w.members
  /\ \A j \in w.ready : j \in v.ready \/ (j = i /\ m.type = "Ready" /\ CurrentSettings(v, m))
  /\ i \in w.ready /\ w.active = 0 /\ m.type \in Words
       => m.type = "Ready" /\ (CurrentSettings(v, m) => m.ready)

\* A single broadcast with the stamp of the room is stamped.
LEMMA OneFrame ==
  ASSUME NEW w, NEW f, f.type \in Stamps => f.rev = w.rev /\ f.rate = w.rate /\ f.nonce = w.active
  PROVE  Stamped(w, <<f>>)
BY DEF Stamped

\* A roster bears the stamp of the room it is made from.
LEMMA RosterStamped == \A w : Stamped(w, <<RosterMsg(w)>>)
BY OneFrame DEF RosterMsg

\* New settings move an idle room on.
LEMMA InvalidateMovesOn ==
  ASSUME NEW v \in ViewType, v.active = 0
  PROVE  MovesOn(v, InvalidateVotes(v))
<1> DEFINE r == v.rev + 1
           w == [v EXCEPT !.rev = r, !.ratePending = FALSE, !.ready = {}, !.loaded = {}]
<1>1. v.rev \in Nat /\ r > v.rev
  BY ViewFields
<1> HIDE DEF r
<1>2. w.rev = r /\ w.active = v.active /\ w.ready = {} /\ w.closed = v.closed
  BY DEF ViewType
<1>3. InvalidateVotes(v) = w
  BY DEF InvalidateVotes, r
<1> HIDE DEF w
<1> QED BY <1>1, <1>2, <1>3 DEF MovesOn

\* A launch cancelled moves the room on, to a later revision.
LEMMA CancelMovesOn ==
  ASSUME NEW v \in ViewType
  PROVE  MovesOn(v, CancelLaunch(v)) /\ CancelLaunch(v).rev > v.rev
<1> DEFINE r == v.rev + 1
           x == [v EXCEPT !.rev = r, !.ratePending = FALSE, !.ready = {}, !.loaded = {}]
           closed == IF v.active # 0 THEN v.active ELSE v.closed
           w == [x EXCEPT !.closed = closed,
                   !.active = 0, !.begun = FALSE, !.finalSent = FALSE, !.launch = NoChart,
                   !.begin = FALSE, !.dirty = FALSE, !.reset = {}, !.score = NoScores]
<1>1. v.rev \in Nat /\ r > v.rev /\ r \in Nat
  BY ViewFields
<1> HIDE DEF r, closed
<1>2. x \in ViewType /\ x.rev = r /\ x.ready = {} /\ x.closed = v.closed /\ x.active = v.active
  BY <1>1 DEF ViewType
<1> HIDE DEF x
<1>3. w.rev = r /\ w.ready = {} /\ w.closed = closed /\ w.active = 0
  BY <1>2 DEF ViewType
<1>4. CancelLaunch(v) = w
  BY <1>2 DEF CancelLaunch, InvalidateVotes, x, r, closed
<1> HIDE DEF w
<1> QED BY <1>1, <1>3, <1>4 DEF MovesOn, closed

\* So does a round cleared.
LEMMA ClearMovesOn ==
  ASSUME NEW v \in ViewType, NEW ord
  PROVE  MovesOn(v, ClearRound(v, ord, TRUE)) /\ MovesOn(v, ClearRound(v, ord, FALSE))
<1> DEFINE x == CancelLaunch(v)
<1>1. x \in ViewType /\ MovesOn(v, x)
  BY CancelType, CancelMovesOn
<1>2. \A rotate \in BOOLEAN :
        LET y == ClearRound(v, ord, rotate)
        IN y.rev = x.rev /\ y.ready = x.ready /\ y.active = x.active /\ y.closed = x.closed
  BY <1>1 DEF ClearRound, ViewType
<1>3. /\ LET y == ClearRound(v, ord, TRUE)
         IN y.rev = x.rev /\ y.ready = x.ready /\ y.active = x.active /\ y.closed = x.closed
      /\ LET y == ClearRound(v, ord, FALSE)
         IN y.rev = x.rev /\ y.ready = x.ready /\ y.active = x.active /\ y.closed = x.closed
  BY <1>2
<1> HIDE DEF x
<1> QED BY <1>1, <1>3 DEF MovesOn

\* The reply r to frame m of player i is a turn.
HandleTurn(v, i, m, r) ==
  Turn(v, r.view) /\ Stamped(r.view, r.out) /\ Counts(v, r.view, i, m)

\* Every frame the coordinator accepts is a turn, and counts at most its sender's vote.
LEMMA HandleTurns ==
  ASSUME NEW v \in ViewType, v.ready \subseteq v.members, NEW ord \in Seq(Ids), NEW i \in Ids,
         NEW m \in ActionType, ~Rejects(v, i, m)
  PROVE  HandleTurn(v, i, m, Handle(v, ord, i, m))
<1>0. m.type \in Actions /\ i \in v.members
  BY DEF Rejects
<1>a. Turn(v, v) /\ Stamped(v, <<>>)
  BY DEF Turn, Stays, Stamped
<1>1. CASE m.type = "Chat"
  <2>1. Handle(v, ord, i, m) = Reply(v, <<From(i, m)>>)
    BY <1>1 DEF Handle
  <2>2. From(i, m).type = "Chat"
    BY <1>1, ActionFields DEF From
  <2>3. Stamped(v, <<From(i, m)>>)
    BY <2>2, OneFrame DEF Stamps
  <2>4. Counts(v, v, i, m)
    BY <1>1 DEF Counts, Words
  <2> QED BY <1>a, <2>1, <2>3, <2>4 DEF HandleTurn, Reply
<1>2. CASE m.type = "Chart"
  <2> DEFINE led == [v EXCEPT !.chart = [NoCharts EXCEPT ![i] = m.chart], !.ready = {},
                       !.loaded = {}, !.reset = {}, !.score = NoScores]
             confirmed == [v EXCEPT !.chart = [@ EXCEPT ![i] = m.chart], !.ready = @ \ {i}]
  <2>1. Stays(v, led) /\ led.ready = {}
    BY DEF Stays, ViewType
  <2>2. Stays(v, confirmed) /\ confirmed.ready = v.ready \ {i} /\ confirmed.members = v.members
    BY DEF Stays, ViewType
  <2>3. \/ v.active # 0 /\ Handle(v, ord, i, m) = Reply(v, <<>>)
        \/ Handle(v, ord, i, m) \in {Publish(led), Publish(confirmed)}
    BY <1>2 DEF Handle, OnChart
  <2> HIDE DEF led, confirmed
  <2>4. Counts(v, led, i, m) /\ Counts(v, confirmed, i, m)
        /\ (v.active # 0 => Counts(v, v, i, m))
    BY <2>1, <2>2 DEF Counts
  <2> QED BY <1>a, <2>1, <2>2, <2>3, <2>4, RosterStamped DEF HandleTurn, Publish, Reply, Turn
<1>3. CASE m.type = "Ready"
  <2> DEFINE yes == [v EXCEPT !.ready = @ \cup {i}]
             no == [v EXCEPT !.ready = @ \ {i}, !.loaded = @ \ {i}]
             off == CancelLaunch(v)
  <2>1. Stays(v, yes) /\ yes.ready = v.ready \cup {i} /\ yes.members = v.members
    BY DEF Stays, ViewType
  <2>2. Stays(v, no) /\ no.ready = v.ready \ {i} /\ no.members = v.members
    BY DEF Stays, ViewType
  <2>3. MovesOn(v, off)
    BY CancelMovesOn
  <2>4. \/ ~CurrentSettings(v, m) /\ Handle(v, ord, i, m) = Publish(v)
        \/ CurrentSettings(v, m) /\ m.ready /\ Handle(v, ord, i, m) = Publish(yes)
        \/ Handle(v, ord, i, m) = Publish(no)
        \/ Handle(v, ord, i, m) = Publish(off)
        \/ v.active # 0 /\ Handle(v, ord, i, m) = Reply(v, <<>>)
    BY <1>3 DEF Handle, OnReady
  <2> HIDE DEF yes, no, off
  <2>5. (~CurrentSettings(v, m) \/ v.active # 0) => Counts(v, v, i, m)
    BY <1>3 DEF Counts
  <2>6. CurrentSettings(v, m) /\ m.ready => Counts(v, yes, i, m)
    BY <1>0, <1>3, <2>1 DEF Counts
  <2>7. Counts(v, no, i, m) /\ Counts(v, off, i, m)
    BY <2>2, <2>3 DEF Counts, MovesOn
  <2> QED BY <1>a, <2>1, <2>2, <2>3, <2>4, <2>5, <2>6, <2>7, RosterStamped
          DEF HandleTurn, Publish, Reply, Turn
<1>4. CASE m.type = "RoomRate"
  <2> DEFINE settled == [v EXCEPT !.ratePending = FALSE]
             rated == [v EXCEPT !.rate = m.rate]
             new == InvalidateVotes(rated)
  <2>1. Stays(v, settled) /\ settled.ready = v.ready /\ settled.members = v.members
    BY DEF Stays, ViewType
  <2>2. rated \in ViewType /\ rated.rev = v.rev /\ rated.active = v.active /\ rated.closed = v.closed
    BY <1>4, ActionFields DEF ViewType
  <2>3. \/ Handle(v, ord, i, m) = Publish(v)
        \/ Handle(v, ord, i, m) = Publish(settled)
        \/ v.active = 0 /\ Handle(v, ord, i, m) = Publish(new)
    BY <1>4 DEF Handle, OnRate
  <2> HIDE DEF settled, rated
  <2>4. v.active = 0 => MovesOn(v, new)
    BY <2>2, InvalidateMovesOn DEF MovesOn
  <2> HIDE DEF new
  <2>5. Counts(v, v, i, m) /\ Counts(v, settled, i, m) /\ (v.active = 0 => Counts(v, new, i, m))
    BY <1>4, <2>1, <2>4 DEF Counts, MovesOn, Words
  <2> QED BY <1>a, <2>1, <2>3, <2>4, <2>5, RosterStamped DEF HandleTurn, Publish, Reply, Turn
<1>5. CASE m.type = "Launch"
  <2> DEFINE launched == [v EXCEPT !.active = m.nonce, !.roundRate = v.rate, !.ratePending = FALSE,
                            !.loaded = {}, !.reset = {}, !.score = NoScores,
                            !.begun = FALSE, !.finalSent = FALSE, !.launch = m.chart]
  <2>0. m \in [type: {"Launch"}, player: {0}, chart: Charts, nonce: Nat \ {0}, rate: Rates, rev: Nat]
    BY <1>5, ActionFields
  <2>1. /\ launched.active = m.nonce /\ launched.rev = v.rev /\ launched.rate = v.rate
        /\ launched.closed = v.closed /\ launched.roundRate = v.rate /\ launched.ready = v.ready
        /\ launched.members = v.members
    BY DEF ViewType
  <2> HIDE DEF launched
  <2>2. \/ Handle(v, ord, i, m) = Publish(v)
        \/ /\ CurrentSettings(v, m) /\ AllReady(v) /\ m.chart = Selected(v)
           /\ Handle(v, ord, i, m) = Reply(launched, <<From(i, m), RosterMsg(launched)>>)
    BY <1>5 DEF Handle, OnLaunch, launched
  <2>3. Counts(v, v, i, m) /\ Counts(v, launched, i, m)
    BY <1>5, <2>1 DEF Counts, Words
  <2>4. CASE Handle(v, ord, i, m) = Publish(v)
    BY <1>a, <2>3, <2>4, RosterStamped DEF HandleTurn, Publish, Reply
  <2>5. CASE /\ CurrentSettings(v, m) /\ AllReady(v) /\ m.chart = Selected(v)
             /\ Handle(v, ord, i, m) = Reply(launched, <<From(i, m), RosterMsg(launched)>>)
    <3>1. v.active = 0
      BY <1>5, <2>5 DEF Rejects
    <3>2. Starts(v, launched)
      BY <2>0, <2>1, <2>5, <3>1 DEF Starts
    <3>3. From(i, m).rev = m.rev /\ From(i, m).rate = m.rate /\ From(i, m).nonce = m.nonce
      BY <2>0 DEF From
    <3>4. /\ RosterMsg(launched).rev = launched.rev /\ RosterMsg(launched).rate = launched.rate
          /\ RosterMsg(launched).nonce = launched.active
      BY DEF RosterMsg
    <3>5. Stamped(launched, <<From(i, m), RosterMsg(launched)>>)
      BY <2>1, <2>5, <3>3, <3>4 DEF Stamped, CurrentSettings
    <3> QED BY <2>3, <2>5, <3>2, <3>5 DEF HandleTurn, Reply, Turn
  <2> QED BY <2>2, <2>4, <2>5
<1>6. CASE m.type = "Loaded"
  <2> DEFINE w == [v EXCEPT !.loaded = @ \cup {i}]
  <2>1. Stays(v, w) /\ w.ready = v.ready /\ w.members = v.members
    BY DEF Stays, ViewType
  <2>2. Handle(v, ord, i, m) \in {Reply(v, <<>>), Publish(w)}
    BY <1>6 DEF Handle, OnLoaded
  <2> HIDE DEF w
  <2>3. Counts(v, v, i, m) /\ Counts(v, w, i, m)
    BY <1>6, <2>1 DEF Counts, Words
  <2> QED BY <1>a, <2>1, <2>2, <2>3, RosterStamped DEF HandleTurn, Publish, Reply, Turn
<1>7. CASE m.type = "Begin"
  <2> DEFINE b == v.begin \/ i # v.id
             w == [v EXCEPT !.begun = TRUE, !.begin = b]
  <2> HIDE DEF b
  <2>1. Stays(v, w) /\ w.ready = v.ready /\ w.members = v.members
    BY DEF Stays, ViewType
  <2>2. Handle(v, ord, i, m) = Reply(w, <<From(i, m)>>)
    BY <1>7 DEF Handle, OnBegin, b
  <2>3. From(i, m).type = "Begin"
    BY <1>7, ActionFields DEF From
  <2>4. Stamped(w, <<From(i, m)>>)
    BY <2>3, OneFrame DEF Stamps
  <2> HIDE DEF w
  <2>5. Counts(v, w, i, m)
    BY <1>7, <2>1 DEF Counts, Words
  <2> QED BY <2>1, <2>2, <2>4, <2>5 DEF HandleTurn, Reply, Turn
<1>8. CASE m.type = "Score"
  <2> DEFINE w == [v EXCEPT !.score = [@ EXCEPT ![i] = m.score]]
  <2>1. Stays(v, w) /\ w.ready = v.ready /\ w.members = v.members
    BY DEF Stays, ViewType
  <2>2. Handle(v, ord, i, m) \in {Reply(v, <<>>), Reply(w, <<From(i, m)>>)}
    BY <1>8 DEF Handle, OnScore
  <2>3. From(i, m).type = "Score"
    BY <1>8, ActionFields DEF From
  <2>4. Stamped(w, <<From(i, m)>>)
    BY <2>3, OneFrame DEF Stamps
  <2> HIDE DEF w
  <2>5. Counts(v, v, i, m) /\ Counts(v, w, i, m)
    BY <1>8, <2>1 DEF Counts, Words
  <2> QED BY <1>a, <2>1, <2>2, <2>4, <2>5 DEF HandleTurn, Reply, Turn
<1>9. CASE m.type = "RoundReset"
  <2> DEFINE left == [v EXCEPT !.reset = @ \cup {i}, !.ready = @ \ {i}, !.loaded = @ \ {i}]
             over == ClearRound(left, ord, TRUE)
  <2>1. /\ left \in ViewType /\ Stays(v, left) /\ left.ready = v.ready \ {i}
        /\ left.members = v.members
    BY DEF Stays, ViewType
  <2>2. Handle(v, ord, i, m) \in {Reply(v, <<>>), Publish(left), Publish(over)}
    BY <1>9 DEF Handle, OnReset
  <2> HIDE DEF left
  <2>3. MovesOn(left, over)
    BY <2>1, ClearMovesOn
  <2> HIDE DEF over
  <2>4. MovesOn(v, over)
    BY <2>1, <2>3 DEF Stays, MovesOn
  <2>5. Counts(v, v, i, m) /\ Counts(v, left, i, m) /\ Counts(v, over, i, m)
    BY <1>9, <2>1, <2>4 DEF Counts, Words, MovesOn
  <2> QED BY <1>a, <2>1, <2>2, <2>4, <2>5, RosterStamped DEF HandleTurn, Publish, Reply, Turn
<1> QED BY <1>0, <1>1, <1>2, <1>3, <1>4, <1>5, <1>6, <1>7, <1>8, <1>9 DEF Actions

\* Two turns in one handler, the second of which moves on, are one.
LEMMA MovesOnAgain ==
  ASSUME NEW v \in ViewType, NEW x \in ViewType, NEW y \in ViewType,
         Stays(v, x) \/ MovesOn(v, x), MovesOn(x, y)
  PROVE  MovesOn(v, y)
BY ViewFields DEF Stays, MovesOn

\* A player removed is a turn that starts no round.
LEMMA RemoveTurns ==
  ASSUME NEW v \in ViewType, v.ready \subseteq v.members,
         NEW ord \in Seq(Ids), NoRepeat(ord), NEW id \in InOrder(ord)
  PROVE  LET w == RemovePlayer(v, ord, id)
         IN Turn(v, w) /\ w.ready \subseteq v.ready \ {id} /\ ~Starts(v, w)
<1> DEFINE rest == Without(ord, id)
           gone == [v EXCEPT !.members = @ \ {id}, !.ready = @ \ {id}, !.loaded = @ \ {id},
                             !.reset = @ \ {id}, !.chart = [@ EXCEPT ![id] = NoChart],
                             !.score = [@ EXCEPT ![id] = "none"]]
           base == IF v.active = 0 THEN InvalidateVotes(gone) ELSE gone
           heir == rest[((Position(ord, id) - 1) % Len(rest)) + 1]
           led == IF v.leader # id \/ rest = <<>> THEN gone ELSE [base EXCEPT !.leader = heir]
           alone == ClearRound(led, rest, FALSE)
           over == ClearRound(led, rest, TRUE)
<1>0. v.active \in Nat
  BY ViewFields
<1>1. id \in Ids /\ rest \in Seq(Ids)
  BY WithoutOne DEF InOrder
<1>2. gone \in ViewType /\ Stays(v, gone) /\ gone.ready = v.ready \ {id}
  BY <1>1 DEF Stays, ViewType, MaybeChart, Scores
<1>3. Len(rest) >= 2 \/ Len(rest) < 2
  BY <1>1, LenProperties
<1>4. RemovePlayer(v, ord, id) =
        IF Len(rest) < 2
        THEN [alone EXCEPT !.leader = 1, !.state = "Listening"]
        ELSE IF led.active # 0 /\ AllReset(led) THEN over ELSE led
  BY DEF RemovePlayer
<1>5. rest # <<>> => heir \in Ids
  <2> SUFFICES ASSUME rest # <<>> PROVE heir \in Ids
    OBVIOUS
  <2> DEFINE n == Len(rest)
             k == Position(ord, id) - 1
  <2>1. Position(ord, id) \in 1..Len(ord)
    BY DEF Position, InOrder
  <2>2. n \in Nat \ {0} /\ DOMAIN rest = 1..n /\ k \in Nat
    BY <1>1, <2>1, LenProperties, EmptySeq
  <2>3. (k % n) + 1 \in 1..n
    <3> HIDE DEF n, k
    <3> QED BY <2>2, Remainder
  <2> QED BY <1>1, <2>2, <2>3
<1> HIDE DEF gone, rest, heir
<1>6. base \in ViewType /\ (Stays(v, base) \/ MovesOn(v, base)) /\ base.ready \subseteq v.ready \ {id}
  <2>1. CASE v.active # 0
    BY <1>2, <2>1
  <2>2. CASE v.active = 0
    <3>1. gone.active = 0
      BY <1>2, <2>2 DEF Stays
    <3>2. InvalidateVotes(gone) \in ViewType /\ MovesOn(gone, InvalidateVotes(gone))
      BY <1>2, <3>1, InvalidateType, InvalidateMovesOn
    <3>3. MovesOn(v, InvalidateVotes(gone))
      BY <1>2, <3>2, MovesOnAgain
    <3> QED BY <2>2, <3>2, <3>3 DEF MovesOn
  <2> QED BY <2>1, <2>2
<1> HIDE DEF base
<1>7. led \in ViewType /\ (Stays(v, led) \/ MovesOn(v, led)) /\ led.ready \subseteq v.ready \ {id}
  <2>1. CASE v.leader # id \/ rest = <<>>
    BY <1>2, <2>1
  <2>2. CASE ~ (v.leader # id \/ rest = <<>>)
    <3> DEFINE x == [base EXCEPT !.leader = heir]
    <3>1. heir \in 0..MaxPlayers
      BY <1>5, <2>2, IdRange
    <3>2. x \in ViewType /\ Stays(base, x) /\ x.ready = base.ready
      BY <1>6, <3>1 DEF ViewType, Stays
    <3> HIDE DEF x
    <3>3. Stays(v, x) \/ MovesOn(v, x)
      BY <1>6, <3>2 DEF Stays, MovesOn
    <3> QED BY <1>6, <2>2, <3>2, <3>3 DEF x
  <2> QED BY <2>1, <2>2
<1> HIDE DEF led
<1>8. /\ alone \in ViewType /\ MovesOn(v, alone) /\ over \in ViewType /\ MovesOn(v, over)
  <2>1. alone \in ViewType /\ over \in ViewType /\ MovesOn(led, alone) /\ MovesOn(led, over)
    BY <1>1, <1>7, OverType, ClearMovesOn
  <2> HIDE DEF alone, over
  <2> QED BY <1>7, <2>1, MovesOnAgain
<1> HIDE DEF alone, over
<1>9. MovesOn(v, [alone EXCEPT !.leader = 1, !.state = "Listening"])
  BY <1>8 DEF MovesOn, ViewType
<1> DEFINE w == RemovePlayer(v, ord, id)
<1>10. (Stays(v, w) \/ MovesOn(v, w)) /\ w.ready \subseteq v.ready \ {id}
  <2>1. MovesOn(v, w) \/ w = led
    BY <1>4, <1>8, <1>9
  <2>2. MovesOn(v, w) => w.ready \subseteq v.ready \ {id}
    BY DEF MovesOn
  <2> QED BY <1>7, <2>1, <2>2
<1>11. ~Starts(v, w)
  BY <1>0, <1>10 DEF Starts, Stays, MovesOn
<1> QED BY <1>10, <1>11 DEF Turn

-----------------------------------------------------------------------------
(* The coordinator's steps.                                                *)

\* A joiner's end through a turn, whose broadcasts join those under way.
LEMMA JoinedTurn ==
  ASSUME NEW h \in ViewType, NEW w \in ViewType, Turn(h, w), HostRound(h),
         NEW b \in Seq(RelayType), NEW out \in Seq(RelayType), Stamped(w, out),
         NEW lk, NEW i, NEW v \in ViewType, NEW u \in Seq(ActionType),
         NEW d \in Seq(RelayType), NEW word, Joined(h, lk, i, v, u, d, b, word),
         lk \in {"up", "dropping"} /\ i \in w.ready => i \in h.ready,
         lk \in {"up", "dropping"} /\ Starts(h, w) => i \in h.ready
  PROVE  Joined(w, lk, i, v, u, d, b \o out, word)
<1>1. lk = "up" => Votes(w, w.ready, i, u, b \o out)
  BY TurnVotes DEF Joined
<1>2. lk \in {"up", "dropping"} /\ i \in w.ready => Since(Stamps, b \o out, w.rev)
  <2> SUFFICES ASSUME lk \in {"up", "dropping"}, i \in w.ready
               PROVE  Since(Stamps, b \o out, w.rev)
    OBVIOUS
  <2>1. w.rev = h.rev /\ w.rev \in Nat /\ w.rev <= w.rev
    BY ViewFields DEF Turn, Stays, Starts, MovesOn
  <2>2. Since(Stamps, b, w.rev)
    BY <2>1 DEF Joined
  <2> QED BY <2>1, <2>2, TurnSince
<1>3. lk = "up" /\ v.state # "Off" => Follows(w, w.ready, i, v, u, d, b \o out)
  BY TurnFollows DEF Joined
<1>4. lk = "up" /\ v.state # "Off" => Fresh(w, w.ready, i, u, word)
  BY TurnFresh DEF Joined
<1> QED BY <1>1, <1>2, <1>3, <1>4 DEF Joined

\* The player whose frame the coordinator has just handled.
LEMMA JoinedSender ==
  ASSUME NEW h \in ViewType, NEW w \in ViewType, HostRound(h),
         NEW b \in Seq(RelayType), NEW out \in Seq(RelayType),
         NEW i, NEW v \in ViewType, NEW u \in Seq(ActionType), u # <<>>,
         NEW d \in Seq(RelayType), NEW word, Joined(h, "up", i, v, u, d, b, word),
         i \in h.members, HandleTurn(h, i, Head(u), Reply(w, out))
  PROVE  Joined(w, "up", i, v, Tail(u), d, b \o out, word)
<1> DEFINE m == Head(u)
           t == Tail(u)
<1>1. m \in ActionType /\ t \in Seq(ActionType)
  BY TailType
<1>2. Turn(h, w) /\ Stamped(w, out) /\ Counts(h, w, i, m)
  BY DEF HandleTurn, Reply
<1>3. Starts(h, w) => i \in h.ready
  BY DEF Starts, AllReady
<1>4. Votes(h, h.ready, i, u, b)
  BY DEF Joined
<1>5. CASE m.type = "Ready" /\ CurrentSettings(h, m)
  <2> DEFINE Q == h.ready \cup {i}
  <2>1. /\ \A P : Votes(h, P, i, t, b)
        /\ Since(Stamps, b, h.rev)
        /\ \A P, x, e : x \in ViewType /\ Follows(h, h.ready, i, x, u, e, b)
                        => x.rev = h.rev /\ Follows(h, P, i, x, t, e, b)
    BY <1>4, <1>5, CountedVote DEF CurrentSettings
  <2>2. Votes(w, w.ready, i, t, b \o out)
    <3>1. Votes(h, Q, i, t, b) /\ (i \in w.ready => i \in Q)
      BY <2>1
    <3> QED BY <1>1, <1>2, <3>1, TurnVotes
  <2>3. i \in w.ready => Since(Stamps, b \o out, w.rev)
    <3> SUFFICES ASSUME i \in w.ready PROVE Since(Stamps, b \o out, w.rev)
      OBVIOUS
    <3>1. w.rev = h.rev /\ w.rev \in Nat /\ w.rev <= w.rev
      BY <1>2, ViewFields DEF Turn, Stays, Starts, MovesOn
    <3> QED BY <1>2, <2>1, <3>1, TurnSince
  <2>4. ASSUME v.state # "Off"
        PROVE  /\ Follows(w, w.ready, i, v, t, d, b \o out) /\ Speaks(t, word)
               /\ Fresh(w, w.ready, i, t, word)
    <3>1. Follows(h, Q, i, v, t, d, b) /\ Speaks(u, word)
      BY <2>1, <2>4 DEF Joined
    <3>2. Follows(w, w.ready, i, v, t, d, b \o out)
      BY <1>2, <1>3, <3>1, TurnFollows
    <3>3. Speaks(t, word)
      BY <3>1, TailSpeaks
    <3>4. Fresh(w, w.ready, i, t, word)
      <4> SUFFICES ASSUME i \in w.ready, w.active = 0, word # w.rev,
                          \A k \in DOMAIN t : t[k].type \notin Words
                   PROVE  FALSE
        BY DEF Fresh
      <4>1. m.ready /\ w.rev = h.rev
        BY <1>2, <1>5 DEF Counts, Words, Turn, Stays, Starts, MovesOn
      <4>2. /\ 1 \in DOMAIN u /\ u[1] = m
            /\ \A k \in DOMAIN u : k \in Nat /\ (k = 1 \/ (k - 1 \in DOMAIN t /\ t[k - 1] = u[k]))
        BY TailFrames
      <4>3. ASSUME NEW l \in DOMAIN u, l > 1 PROVE u[l].type \notin Words
        <5>1. l - 1 \in DOMAIN t /\ t[l - 1] = u[l]
          BY <4>2, <4>3
        <5>2. t[l - 1].type \notin Words
          BY <5>1
        <5> QED BY <5>1, <5>2
      <4>4. word = m.rev
        BY <1>5, <3>1, <4>1, <4>2, <4>3 DEF Speaks, LastWord
      <4> QED BY <1>5, <4>1, <4>4 DEF CurrentSettings
    <3> QED BY <3>2, <3>3, <3>4
  <2> QED BY <2>2, <2>3, <2>4 DEF Joined
<1>6. CASE ~ (m.type = "Ready" /\ CurrentSettings(h, m))
  <2>1. i \in w.ready => i \in h.ready
    BY <1>2, <1>6 DEF Counts
  <2>2. Votes(w, w.ready, i, t, b \o out)
    BY <1>1, <1>2, <1>4, <2>1, TailVotes, TurnVotes
  <2>3. i \in w.ready => Since(Stamps, b \o out, w.rev)
    <3> SUFFICES ASSUME i \in w.ready PROVE Since(Stamps, b \o out, w.rev)
      OBVIOUS
    <3>1. w.rev = h.rev /\ w.rev \in Nat /\ w.rev <= w.rev
      BY <1>2, ViewFields DEF Turn, Stays, Starts, MovesOn
    <3>2. Since(Stamps, b, w.rev)
      BY <2>1, <3>1 DEF Joined
    <3> QED BY <1>2, <3>1, <3>2, TurnSince
  <2>4. ASSUME v.state # "Off"
        PROVE  /\ Follows(w, w.ready, i, v, t, d, b \o out) /\ Speaks(t, word)
               /\ Fresh(w, w.ready, i, t, word)
    <3>1. Follows(h, h.ready, i, v, t, d, b) /\ Speaks(t, word)
      BY <2>4, TailFollows, TailSpeaks DEF Joined
    <3>2. Follows(w, w.ready, i, v, t, d, b \o out)
      BY <1>2, <1>3, <2>1, <3>1, TurnFollows
    <3>3. Fresh(w, w.ready, i, t, word)
      <4>1. CASE m.type \notin Words
        <5>1. Fresh(h, h.ready, i, t, word)
          BY <2>4, <4>1, TailFresh DEF Joined
        <5> QED BY <1>2, <2>1, <5>1, TurnFresh
      <4>2. CASE m.type \in Words /\ ~ (i \in w.ready /\ w.active = 0)
        BY <4>2 DEF Fresh
      <4>3. CASE m.type \in Words /\ i \in w.ready /\ w.active = 0
        <5>1. m.type = "Ready" /\ ~CurrentSettings(h, m) /\ i \in h.ready
          BY <1>2, <1>6, <2>1, <4>3 DEF Counts
        <5>2. 1 \in DOMAIN u /\ u[1] = m
          BY TailFrames
        <5>3. m.rev \in Nat /\ h.rev \in Nat
          BY <5>1, <1>1, ActionFields, ViewFields
        <5>4. h.rev <= m.rev /\ m.rev <= h.rev /\ (m.rev = h.rev => m.rate = h.rate)
          BY <1>4, <5>1, <5>2 DEF Votes, Since
        <5> QED BY <5>1, <5>3, <5>4 DEF CurrentSettings
      <4> QED BY <4>1, <4>2, <4>3
    <3> QED BY <3>1, <3>2, <3>3
  <2> QED BY <2>2, <2>3, <2>4 DEF Joined
<1> QED BY <1>5, <1>6

\* A step of one player, or of his link, that the coordinator does not see.
LEMMA PlayerStep ==
  ASSUME RoundInv, NEW c \in Joiners,
         view'[Host] = view[Host], broadcasts' = broadcasts, seat' = seat,
         \A d \in Joiners \ {c} :
           /\ link'[d] = link[d] /\ view'[d] = view[d] /\ vote'[d] = vote[d]
           /\ up'[d] = up[d] /\ down'[d] = down[d],
         link[c] = "gone" => link'[c] = "gone",
         view[Host].state # "Off" =>
           Joined(view[Host], link'[c], seat[c], view'[c], up'[c], down'[c], broadcasts, vote'[c])
  PROVE  RoundInv'
<1>1. CASE view[Host].state = "Off"
  BY <1>1 DEF RoundInv
<1>2. CASE view[Host].state # "Off"
  <2>1. \A d \in Joiners :
          Joined(view[Host], link'[d], seat[d], view'[d], up'[d], down'[d], broadcasts, vote'[d])
    <3> SUFFICES ASSUME NEW d \in Joiners, d # c
                 PROVE  Joined(view[Host], link'[d], seat[d], view'[d], up'[d], down'[d], broadcasts,
                               vote'[d])
      BY <1>2
    <3>1. Joined(view[Host], link[d], seat[d], view[d], up[d], down[d], broadcasts, vote[d])
      BY <1>2 DEF RoundInv
    <3> QED BY <3>1
  <2> QED BY <1>2, <2>1 DEF RoundInv
<1> QED BY <1>1, <1>2

\* A round starts only when all players of the room have voted for its settings.
LEMMA StartsBehind ==
  ASSUME RoomInv, RoundInv, view[Host].state # "Off", AllReady(view[Host])
  PROVE  /\ \A c \in AtTable(link) : seat[c] \in view[Host].ready
         /\ Since(Stamps, broadcasts, view[Host].rev)
<1> DEFINE h == view[Host]
<1>1. /\ h.members = {1} \cup {seat[c] : c \in AtTable(link)}
  BY DEF RoomInv, SeatInv, Seating
<1>2. \A c \in AtTable(link) : seat[c] \in h.ready
  BY <1>1 DEF AllReady
<1>3. \E c : c \in AtTable(link)
  BY <1>1 DEF AllReady, Several
<1>4. PICK c : c \in AtTable(link)
  BY <1>3
<1>5. Joined(h, link[c], seat[c], view[c], up[c], down[c], broadcasts, vote[c])
  BY <1>4 DEF RoundInv, AtTable
<1>6. Since(Stamps, broadcasts, h.rev)
  BY <1>2, <1>4, <1>5 DEF Joined, AtTable
<1> QED BY <1>2, <1>6

\* A turn of the coordinator; X are the players to whom more happens.
LEMMA HostStep ==
  ASSUME RoomInv, RoundInv, view[Host].state # "Off", NEW w \in ViewType, NEW out \in Seq(RelayType),
         Turn(view[Host], w), Stamped(w, out), w.id = view[Host].id, w.ready \subseteq w.members,
         w.state # "Off", view' = [view EXCEPT ![Host] = w], broadcasts' = broadcasts \o out,
         NEW X,
         \A c \in Joiners \ X :
           /\ c \in AtTable(link) /\ seat[c] \in w.ready => seat[c] \in view[Host].ready
           /\ link'[c] = link[c] /\ seat'[c] = seat[c] /\ vote'[c] = vote[c]
           /\ up'[c] = up[c] /\ down'[c] = down[c],
         \A c \in X \cap Joiners :
           Joined(w, link'[c], seat'[c], view[c], up'[c], down'[c], broadcasts \o out, vote'[c])
  PROVE  RoundInv'
<1> DEFINE h == view[Host]
<1>0. /\ h \in ViewType /\ HostRound(h) /\ Broadcast(h, broadcasts) /\ broadcasts \in Seq(RelayType)
      /\ h.rev >= 1 /\ Host \in Procs /\ Host \notin Joiners /\ DOMAIN view = Procs
      /\ Joiners \subseteq Procs
  BY RoomAssumption DEF RoomInv, RoundInv, Netted, Procs, HostRound
<1>1. view'[Host] = w /\ \A c \in Joiners : view'[c] = view[c]
  BY <1>0
<1>2. Starts(h, w) => /\ \A c \in AtTable(link) : seat[c] \in h.ready
                      /\ Since(Stamps, broadcasts, h.rev)
  BY StartsBehind DEF Starts
<1>3. HostRound(w)
  BY <1>0, TurnHost
<1>4. Broadcast(w, broadcasts \o out)
  BY <1>0, <1>2, TurnBroadcast
<1>5. ASSUME NEW c \in Joiners \ X
      PROVE  Joined(w, link'[c], seat'[c], view[c], up'[c], down'[c], broadcasts \o out, vote'[c])
  <2>1. Joined(h, link[c], seat[c], view[c], up[c], down[c], broadcasts, vote[c])
    BY DEF RoundInv
  <2>2. view[c] \in ViewType /\ up[c] \in Seq(ActionType) /\ down[c] \in Seq(RelayType)
    BY <1>0 DEF RoomInv, Netted
  <2>3. /\ link[c] \in {"up", "dropping"} /\ seat[c] \in w.ready => seat[c] \in h.ready
        /\ link[c] \in {"up", "dropping"} /\ Starts(h, w) => seat[c] \in h.ready
    BY <1>2 DEF AtTable
  <2>4. Joined(w, link[c], seat[c], view[c], up[c], down[c], broadcasts \o out, vote[c])
    BY <1>0, <2>1, <2>2, <2>3, JoinedTurn
  <2> QED BY <2>4
<1>6. \A c \in Joiners :
        Joined(w, link'[c], seat'[c], view[c], up'[c], down'[c], broadcasts \o out, vote'[c])
  BY <1>5
<1> QED BY <1>1, <1>3, <1>4, <1>6 DEF RoundInv

-----------------------------------------------------------------------------
(* The players' calls.                                                     *)

\* A call of the host's own menu leaves the votes of the others alone.
LEMMA HostLook ==
  ASSUME RoomInv, RoundInv, view[Host].state # "Off", NEW w \in ViewType, SameRound(view[Host], w),
         w.ready \subseteq view[Host].ready \cup {view[Host].id},
         view' = [view EXCEPT ![Host] = w],
         UNCHANGED <<broadcasts, link, seat, up, down>>,
         \A c \in Joiners : vote'[c] = vote[c]
  PROVE  RoundInv'
<1> DEFINE h == view[Host]
<1>1. /\ HostRound(h) /\ h.id = 1 /\ Host \in Procs
      /\ 1 \in h.members /\ \A c \in AtTable(link) : seat[c] # 1
  BY DEF RoomInv, RoundInv, SeatInv, Seating, Procs, HostRound
<1>2. Turn(h, w) /\ w.id = h.id /\ w.state # "Off"
  <2>1. Stays(h, w) \/ (w.rev = h.rev /\ w.rate = h.rate /\ w.active = h.active
                        /\ w.closed = h.closed /\ w.roundRate = h.roundRate)
    BY DEF SameRound
  <2> QED BY <2>1 DEF SameRound, Turn, Stays
<1>3. w.ready \subseteq w.members
  BY <1>1 DEF HostRound, SameRound
<1>4. broadcasts \in Seq(RelayType) /\ broadcasts \o <<>> = broadcasts /\ <<>> \in Seq(RelayType)
  <2>1. broadcasts \in Seq(RelayType)
    BY DEF RoomInv, Netted
  <2>2. <<>> \in Seq(RelayType)
    OBVIOUS
  <2>3. broadcasts \o <<>> = broadcasts
    BY <2>1, ConcatEmptySeq
  <2> QED BY <2>1, <2>2, <2>3
<1>5. Stamped(w, <<>>)
  BY DEF Stamped
<1>6. broadcasts' = broadcasts \o <<>>
  BY <1>4
<1>7. \A c \in Joiners \ {} :
        /\ c \in AtTable(link) /\ seat[c] \in w.ready => seat[c] \in view[Host].ready
        /\ link'[c] = link[c] /\ seat'[c] = seat[c] /\ vote'[c] = vote[c]
        /\ up'[c] = up[c] /\ down'[c] = down[c]
  BY <1>1
<1>8. \A c \in {} \cap Joiners :
        Joined(w, link'[c], seat'[c], view[c], up'[c], down'[c], broadcasts \o <<>>, vote'[c])
  OBVIOUS
<1>9. view[Host].state # "Off" /\ w \in ViewType /\ view' = [view EXCEPT ![Host] = w]
  OBVIOUS
<1> QED BY <1>2, <1>3, <1>4, <1>5, <1>6, <1>7, <1>8, <1>9, HostStep

\* What the invariants say of one joiner.
LEMMA JoinerFacts ==
  ASSUME RoomInv, RoundInv, NEW c \in Joiners
  PROVE  /\ c \in Procs /\ c # Host /\ view[c] \in ViewType
         /\ up[c] \in Seq(ActionType) /\ down[c] \in Seq(RelayType)
         /\ broadcasts \in Seq(RelayType) /\ DOMAIN view = Procs
         /\ DOMAIN up = Joiners /\ DOMAIN down = Joiners /\ DOMAIN link = Joiners
         /\ DOMAIN vote = Procs /\ link[c] \in Links
         /\ view[Host].state # "Off" =>
              Joined(view[Host], link[c], seat[c], view[c], up[c], down[c], broadcasts, vote[c])
         /\ view[Host] \in ViewType
         /\ view[Host].state = "Off" => link[c] = "gone"
<1>1. c \in Procs /\ c # Host /\ Host \in Procs
  BY RoomAssumption DEF Procs
<1>2. Netted /\ Booked /\ SeatInv
  BY DEF RoomInv
<1>3. DOMAIN vote = Procs
  BY <1>2 DEF Booked
<1>4. link[c] \in Links /\ DOMAIN link = Joiners
  BY <1>2 DEF SeatInv
<1>5. /\ view[c] \in ViewType /\ view[Host] \in ViewType /\ DOMAIN view = Procs
      /\ broadcasts \in Seq(RelayType)
  BY <1>1, <1>2 DEF Netted
<1>6. /\ up[c] \in Seq(ActionType) /\ down[c] \in Seq(RelayType)
      /\ DOMAIN up = Joiners /\ DOMAIN down = Joiners
  BY <1>2 DEF Netted
<1>7. /\ view[Host].state # "Off" =>
           Joined(view[Host], link[c], seat[c], view[c], up[c], down[c], broadcasts, vote[c])
      /\ view[Host].state = "Off" => link[c] = "gone"
  BY DEF RoundInv
<1> QED BY <1>1, <1>3, <1>4, <1>5, <1>6, <1>7

\* What a joiner says next, and what it makes of his copy.
LEMMA SayJoined ==
  ASSUME NEW h \in ViewType, NEW lk, NEW i, NEW v \in ViewType, v.state # "Off",
         NEW u \in Seq(ActionType), NEW d, NEW b, NEW word, Joined(h, lk, i, v, u, d, b, word),
         NEW w, SameRound(v, w),
         NEW m \in ActionType, m.type \in Words => v.state = "Connected",
         m.type = "Ready" => m.rev = v.rev /\ m.rate = v.rate,
         NEW new, m.type \notin Words => new = word, m.type = "Ready" /\ m.ready => new = m.rev
  PROVE  Joined(h, lk, i, w, Append(u, m), d, b, new)
<1>1. CASE lk \in {"none", "greeting"}
  <2>1. /\ d = <<>> /\ v.state = "Joining" /\ v.rev = 1 /\ v.active = 0 /\ v.rate = DefaultRate
        /\ \A k \in DOMAIN u : u[k].type \notin Words
    BY <1>1 DEF Joined, Waits
  <2>2. \A k \in DOMAIN Append(u, m) : Append(u, m)[k].type \notin Words
    <3>1. m.type \notin Words
      BY <2>1
    <3>2. \A k \in DOMAIN Append(u, m) : (k \in DOMAIN u /\ Append(u, m)[k] = u[k]) \/ Append(u, m)[k] = m
      BY AppendFrames
    <3> QED BY <2>1, <3>1, <3>2
  <2>3. Waits(w, Append(u, m), d)
    BY <2>1, <2>2 DEF Waits, SameRound
  <2> QED BY <1>1, <2>3 DEF Joined
<1>2. CASE lk = "up"
  <2>1. /\ Votes(h, h.ready, i, u, b) /\ Follows(h, h.ready, i, v, u, d, b) /\ Speaks(u, word)
        /\ Fresh(h, h.ready, i, u, word) /\ (i \in h.ready => Since(Stamps, b, h.rev))
    BY <1>2 DEF Joined
  <2>2. Votes(h, h.ready, i, Append(u, m), b)
    BY <2>1, SayVotes
  <2>3. Follows(h, h.ready, i, w, Append(u, m), d, b)
    BY <2>1, SayFollows
  <2>4. Speaks(Append(u, m), new)
    BY <2>1, SaySpeaks
  <2>5. Fresh(h, h.ready, i, Append(u, m), new)
    BY <2>1, SayFresh
  <2> QED BY <1>2, <2>1, <2>2, <2>3, <2>4, <2>5 DEF Joined
<1>3. CASE lk \notin {"none", "greeting", "up"}
  BY <1>3 DEF Joined
<1> QED BY <1>1, <1>2, <1>3

\* A joiner's end is the same under a copy with the same round.
LEMMA LookJoined ==
  ASSUME NEW h \in ViewType, NEW lk, NEW i, NEW v \in ViewType, v.state # "Off",
         NEW u \in Seq(ActionType), NEW d, NEW b, NEW word, Joined(h, lk, i, v, u, d, b, word),
         NEW w, SameRound(v, w)
  PROVE  Joined(h, lk, i, w, u, d, b, word)
<1>1. lk \in {"none", "greeting"} => Waits(w, u, d)
  BY DEF Joined, Waits, SameRound
<1>2. lk = "up" => Follows(h, h.ready, i, w, u, d, b)
  BY DEF Joined, Follows, SameRound
<1> QED BY <1>1, <1>2 DEF Joined

\* A call that sends a frame.
LEMMA SayRound ==
  ASSUME RoomInv, RoundInv, NEW p \in Procs, view[p].state # "Off",
         NEW w \in ViewType, SameRound(view[p], w), w.ready \subseteq view[p].ready \cup {view[p].id},
         NEW m \in ActionType, Call(p, w, m), m.type \in Words => view[p].state = "Connected",
         m.type = "Ready" => m.rev = view[p].rev /\ m.rate = view[p].rate,
         \A q \in Procs \ {p} : vote'[q] = vote[q],
         m.type \notin Words => vote'[p] = vote[p], m.type = "Ready" /\ m.ready => vote'[p] = m.rev
  PROVE  RoundInv'
<1>1. CASE p = Host
  <2>1. UNCHANGED <<broadcasts, link, seat, up, down>> /\ view' = [view EXCEPT ![Host] = w]
    BY <1>1 DEF Call, Queue
  <2>2. \A c \in Joiners : vote'[c] = vote[c]
    BY <1>1, RoomAssumption DEF Procs
  <2> QED BY <1>1, <2>1, <2>2, HostLook
<1>2. CASE p \in Joiners
  <2>0. p # Host /\ Host \in Procs /\ Joiners \subseteq Procs
    BY <1>2, RoomAssumption DEF Procs
  <2>1. /\ view[p] \in ViewType /\ up[p] \in Seq(ActionType) /\ DOMAIN view = Procs
        /\ DOMAIN up = Joiners /\ view[Host] \in ViewType
        /\ view[Host].state # "Off" =>
             Joined(view[Host], link[p], seat[p], view[p], up[p], down[p], broadcasts, vote[p])
        /\ view[Host].state = "Off" => link[p] = "gone"
    BY <1>2, JoinerFacts
  <2>2. /\ UNCHANGED <<broadcasts, link, seat, down>> /\ view' = [view EXCEPT ![p] = w]
        /\ up' = IF link[p] \in {"greeting", "up", "dropping"}
                 THEN [up EXCEPT ![p] = Append(@, m)] ELSE up
    BY <2>0 DEF Call, Queue
  <2>3. \A d \in Joiners \ {p} :
           /\ link'[d] = link[d] /\ view'[d] = view[d] /\ vote'[d] = vote[d]
           /\ up'[d] = up[d] /\ down'[d] = down[d]
    BY <2>0, <2>1, <2>2
  <2>4. /\ view'[Host] = view[Host] /\ broadcasts' = broadcasts /\ seat' = seat
        /\ (link[p] = "gone" => link'[p] = "gone") /\ view'[p] = w /\ down'[p] = down[p]
        /\ link'[p] = link[p]
    BY <2>0, <2>1, <2>2
  <2>5. ASSUME view[Host].state # "Off"
        PROVE  Joined(view[Host], link[p], seat[p], w, up'[p], down[p], broadcasts, vote'[p])
    <3>1. CASE link[p] \in {"greeting", "up", "dropping"}
      <4>1. up'[p] = Append(up[p], m)
        BY <1>2, <2>1, <2>2, <3>1
      <4>2. Joined(view[Host], link[p], seat[p], w, Append(up[p], m), down[p], broadcasts, vote'[p])
        BY <2>1, <2>5, SayJoined
      <4> QED BY <4>1, <4>2
    <3>2. CASE link[p] \notin {"greeting", "up", "dropping"}
      <4>1. up'[p] = up[p]
        BY <2>2, <3>2
      <4>2. Joined(view[Host], link[p], seat[p], w, up[p], down[p], broadcasts, vote[p])
        BY <2>1, <2>5, LookJoined
      <4> QED BY <3>2, <4>1, <4>2 DEF Joined
    <3> QED BY <3>1, <3>2
  <2> QED BY <1>2, <2>3, <2>4, <2>5, PlayerStep
<1> QED BY <1>1, <1>2 DEF Procs

\* A call that only changes the caller's copy.
LEMMA LookRound ==
  ASSUME RoomInv, RoundInv, NEW p \in Procs, view[p].state # "Off",
         NEW w \in ViewType, SameRound(view[p], w), w.ready \subseteq view[p].ready \cup {view[p].id},
         view' = [view EXCEPT ![p] = w], UNCHANGED <<broadcasts, link, seat, up, down, vote>>
  PROVE  RoundInv'
<1>1. CASE p = Host
  <2>1. UNCHANGED <<broadcasts, link, seat, up, down>> /\ view' = [view EXCEPT ![Host] = w]
        /\ \A c \in Joiners : vote'[c] = vote[c]
    BY <1>1
  <2> QED BY <1>1, <2>1, HostLook
<1>2. CASE p \in Joiners
  <2>0. p # Host /\ Host \in Procs /\ Joiners \subseteq Procs
    BY <1>2, RoomAssumption DEF Procs
  <2>1. /\ view[p] \in ViewType /\ up[p] \in Seq(ActionType) /\ DOMAIN view = Procs
        /\ view[Host] \in ViewType
        /\ view[Host].state # "Off" =>
             Joined(view[Host], link[p], seat[p], view[p], up[p], down[p], broadcasts, vote[p])
    BY <1>2, JoinerFacts
  <2>2. \A d \in Joiners \ {p} :
           /\ link'[d] = link[d] /\ view'[d] = view[d] /\ vote'[d] = vote[d]
           /\ up'[d] = up[d] /\ down'[d] = down[d]
    BY <2>0, <2>1
  <2>3. /\ view'[Host] = view[Host] /\ broadcasts' = broadcasts /\ seat' = seat
        /\ (link[p] = "gone" => link'[p] = "gone") /\ view'[p] = w /\ down'[p] = down[p]
        /\ link'[p] = link[p] /\ up'[p] = up[p] /\ vote'[p] = vote[p]
    BY <2>0, <2>1
  <2>4. view[Host].state # "Off" =>
          Joined(view[Host], link[p], seat[p], w, up[p], down[p], broadcasts, vote[p])
    BY <2>1, LookJoined
  <2> QED BY <1>2, <2>2, <2>3, <2>4, PlayerStep
<1> QED BY <1>1, <1>2 DEF Procs

\* A step that leaves the room, the wires and the votes alone.
LEMMA SameRoundInv ==
  ASSUME RoundInv, UNCHANGED <<view, broadcasts, link, seat, up, down, vote>>
  PROVE  RoundInv'
BY DEF RoundInv

\* A copy as the caller's own calls leave it.
OwnCopy(v, w) == w \in ViewType /\ SameRound(v, w) /\ w.ready \subseteq v.ready \cup {v.id}

\* A copy is one a caller may leave.
LEMMA SameCopy == \A v \in ViewType : OwnCopy(v, v)
BY DEF OwnCopy, SameRound

\* So is the copy with another chart.
LEMMA AnnounceCopy ==
  ASSUME NEW v \in ViewType, Fit(v), NEW x \in Charts
  PROVE  OwnCopy(v, AnnounceChart(v, x))
<1> DEFINE own == [v EXCEPT !.chart = [@ EXCEPT ![v.id] = x], !.ready = @ \ {v.id}]
           lead == [own EXCEPT !.chart = [NoCharts EXCEPT ![v.id] = x], !.ready = {}]
<1>1. own \in ViewType /\ SameRound(v, own) /\ own.ready \subseteq v.ready
  BY DEF ViewType, MaybeChart, SameRound
<1>2. AnnounceChart(v, x) \in {v, own, lead}
  BY DEF AnnounceChart
<1> HIDE DEF own
<1>3. SameRound(own, lead) /\ lead.ready = {}
  BY <1>1 DEF ViewType, SameRound
<1>4. SameRound(v, lead)
  BY <1>1, <1>3 DEF SameRound
<1>5. SameRound(v, v)
  BY DEF SameRound
<1>6. AnnounceChart(v, x) \in ViewType
  BY AnnounceFits DEF Fit
<1> HIDE DEF lead
<1> QED BY <1>1, <1>2, <1>3, <1>4, <1>5, <1>6 DEF OwnCopy

\* A call that speaks neither Ready nor Chart.
LEMMA QuietCall ==
  ASSUME RoomInv, RoundInv, NEW p \in Procs, view[p].state # "Off", NEW w, OwnCopy(view[p], w),
         NEW m \in ActionType, m.type \notin Words, Call(p, w, m), vote' = vote
  PROVE  RoundInv'
<1>1. m.type # "Ready"
  BY DEF Words
<1> QED BY <1>1, SayRound DEF OwnCopy

\* A Chart frame, which takes back the caller's vote.
LEMMA ChartCall ==
  ASSUME RoomInv, RoundInv, NEW p \in Procs, view[p].state = "Connected", NEW w,
         OwnCopy(view[p], w), NEW x \in Charts, Call(p, w, ChartMsg(x)),
         vote' = [vote EXCEPT ![p] = 0]
  PROVE  RoundInv'
<1>1. ChartMsg(x) \in ActionType /\ ChartMsg(x).type = "Chart"
  BY DEF ChartMsg, ActionType
<1>2. \A q \in Procs \ {p} : vote'[q] = vote[q]
  BY DEF RoomInv, Booked
<1> QED BY <1>1, <1>2, SayRound DEF OwnCopy, Words

\* A Ready frame, which is the caller's word on his own copy's revision.
LEMMA ReadyCall ==
  ASSUME RoomInv, RoundInv, NEW p \in Procs, view[p].state = "Connected", NEW w,
         OwnCopy(view[p], w),
         \/ Call(p, w, ReadyMsg(TRUE, view[p])) /\ vote' = [vote EXCEPT ![p] = view[p].rev]
         \/ Call(p, w, ReadyMsg(FALSE, view[p])) /\ vote' = [vote EXCEPT ![p] = 0]
  PROVE  RoundInv'
<1> DEFINE v == view[p]
<1>0. v \in ViewType /\ DOMAIN vote = Procs
  BY DEF RoomInv, Netted, Booked
<1>1. \A q \in Procs \ {p} : vote'[q] = vote[q]
  BY <1>0
<1>2. /\ ReadyMsg(TRUE, v) \in ActionType /\ ReadyMsg(FALSE, v) \in ActionType
  BY <1>0, CallFrames
<1>3. CASE Call(p, w, ReadyMsg(TRUE, v)) /\ vote' = [vote EXCEPT ![p] = v.rev]
  <2> DEFINE m == ReadyMsg(TRUE, v)
  <2>1. m.type = "Ready" /\ m.rev = v.rev /\ m.rate = v.rate /\ m.type \in Words
    BY DEF ReadyMsg, Words
  <2>2. vote'[p] = m.rev
    BY <1>0, <1>3, <2>1
  <2> HIDE DEF m
  <2> QED BY <1>1, <1>2, <1>3, <2>1, <2>2, SayRound DEF OwnCopy, m
<1>4. CASE Call(p, w, ReadyMsg(FALSE, v)) /\ vote' = [vote EXCEPT ![p] = 0]
  <2> DEFINE m == ReadyMsg(FALSE, v)
  <2>1. m.type = "Ready" /\ m.rev = v.rev /\ m.rate = v.rate /\ m.type \in Words /\ m.ready = FALSE
    BY DEF ReadyMsg, Words
  <2>2. ~m.ready
    BY <2>1
  <2> HIDE DEF m
  <2> QED BY <1>1, <1>2, <1>4, <2>1, <2>2, SayRound DEF OwnCopy, m
<1> QED BY <1>3, <1>4

\* A caller's copy is typed, and seated when he is online.
LEMMA CallerFits ==
  ASSUME RoomInv, NEW p \in Procs
  PROVE  Fit(view[p]) /\ view[p] \in ViewType /\ (Online(p) => view[p].id \in Ids)
BY DEF RoomInv, Netted, Fit, Online

\* A chart chosen, a match started or given up.
LEMMA LobbyRound ==
  ASSUME RoomInv, RoundInv, NEW p \in Procs,
         StartMatch(p) \/ FinishMatch(p) \/ (\E x \in Charts : ChooseChart(p, x))
  PROVE  RoundInv'
<1> DEFINE v == view[p]
<1>0. Fit(v) /\ v \in ViewType
  BY CallerFits
<1>1. ASSUME NEW x \in Charts, ChooseChart(p, x)
      PROVE  RoundInv'
  <2>1. OwnCopy(v, AnnounceChart(v, x)) /\ v.state = "Connected"
    BY <1>0, <1>1, AnnounceCopy DEF ChooseChart, Online
  <2> QED BY <1>1, <2>1, ChartCall DEF ChooseChart
<1>2. CASE FinishMatch(p)
  <2>1. Selected(v) \in Charts /\ v.state = "Connected"
    BY <1>0, <1>2, SelectedType DEF FinishMatch, MaybeChart, Online
  <2>2. OwnCopy(v, AnnounceChart(v, Selected(v)))
    BY <1>0, <2>1, AnnounceCopy
  <2> QED BY <1>2, <2>1, <2>2, ChartCall DEF FinishMatch
<1>3. CASE StartMatch(p)
  <2> DEFINE w == [v EXCEPT !.chart = [@ EXCEPT ![v.id] = NoChart], !.ready = @ \ {v.id}]
  <2>1. OwnCopy(v, w)
    BY <1>0 DEF OwnCopy, SameRound, ViewType, MaybeChart
  <2>2. \/ Call(p, w, ReadyMsg(FALSE, v)) /\ vote' = [vote EXCEPT ![p] = 0]
        \/ UNCHANGED <<session, wires, pass>> /\ vote' = vote
    BY <1>3 DEF StartMatch
  <2>3. v.state = "Connected"
    BY <1>3 DEF StartMatch, Online
  <2> HIDE DEF w
  <2>4. CASE Call(p, w, ReadyMsg(FALSE, v)) /\ vote' = [vote EXCEPT ![p] = 0]
    BY <2>1, <2>3, <2>4, ReadyCall
  <2>5. CASE UNCHANGED <<session, wires, pass>> /\ vote' = vote
    BY <2>5, SameRoundInv DEF session, wires
  <2> QED BY <2>2, <2>4, <2>5
<1> QED BY <1>1, <1>2, <1>3

\* A vote given or taken back.
LEMMA ReadyRound ==
  ASSUME RoomInv, RoundInv, NEW p \in Procs, SetReady(p)
  PROVE  RoundInv'
<1> DEFINE v == view[p]
           yes == [v EXCEPT !.ready = @ \cup {v.id}]
           no == [v EXCEPT !.ready = @ \ {v.id}, !.loaded = @ \ {v.id}]
<1>1. v \in ViewType /\ v.id \in Ids /\ v.state = "Connected"
  BY CallerFits DEF SetReady, Online
<1>2. OwnCopy(v, yes) /\ OwnCopy(v, no)
  BY <1>1 DEF OwnCopy, SameRound, ViewType
<1>3. \/ Call(p, yes, ReadyMsg(TRUE, v)) /\ vote' = [vote EXCEPT ![p] = v.rev]
      \/ Call(p, no, ReadyMsg(FALSE, v)) /\ vote' = [vote EXCEPT ![p] = 0]
  <2>1. CASE v.id \notin v.ready
    <3>1. (v.id \notin v.ready) = TRUE
      BY <2>1
    <3> QED BY <2>1, <3>1 DEF SetReady
  <2>2. CASE v.id \in v.ready
    <3>1. (v.id \notin v.ready) = FALSE
      BY <2>2
    <3> QED BY <2>2, <3>1 DEF SetReady
  <2> QED BY <2>1, <2>2
<1> HIDE DEF yes, no
<1> QED BY <1>1, <1>2, <1>3, ReadyCall

\* A rate, a launch or a line of chat.
LEMMA RateRound ==
  ASSUME RoomInv, RoundInv, NEW p \in Procs,
         SendLaunch(p) \/ Chat(p) \/ (\E r \in Rates : SetRate(p, r))
  PROVE  RoundInv'
<1> DEFINE v == view[p]
<1>0. Fit(v) /\ v \in ViewType
  BY CallerFits
<1>1. ASSUME NEW r \in Rates, SetRate(p, r)
      PROVE  RoundInv'
  <2> DEFINE w == [v EXCEPT !.pendingRev = v.rev, !.ratePending = TRUE, !.ready = @ \ {v.id}]
             m == RateMsg(r, v)
  <2>1. OwnCopy(v, w)
    BY <1>0 DEF OwnCopy, SameRound, ViewType
  <2>2. m \in ActionType /\ m.type \notin Words
    BY <1>0, CallFrames DEF RateMsg, Words
  <2>3. Call(p, w, m) /\ vote' = vote /\ v.state # "Off"
    BY <1>1 DEF SetRate, history
  <2> HIDE DEF w, m
  <2> QED BY <2>1, <2>2, <2>3, QuietCall
<1>2. CASE SendLaunch(p)
  <2> DEFINE m == LaunchMsg(0, Selected(v), rounds + 1, v)
  <2>1. Selected(v) \in Charts
    <3>1. PICK i \in v.members : Matches(v, i)
      BY <1>2 DEF SendLaunch, CanStart, AllReady, Several
    <3> QED BY <1>0, <3>1, SelectedType DEF Matches, MaybeChart
  <2>2. rounds + 1 \in Nat \ {0}
    BY DEF RoomInv, Booked
  <2>3. m \in ActionType
    BY <1>0, <2>1, <2>2, CallFrames
  <2>4. m.type \notin Words
    BY DEF LaunchMsg, Words
  <2>5. Call(p, v, m) /\ vote' = vote /\ v.state # "Off"
    BY <1>2 DEF SendLaunch, CanStart
  <2> HIDE DEF m
  <2> QED BY <1>0, <2>3, <2>4, <2>5, SameCopy, QuietCall
<1>3. CASE Chat(p)
  <2>1. ChatMsg(0) \in ActionType
    BY <1>0, CallFrames
  <2>2. ChatMsg(0).type \notin Words
    BY DEF ChatMsg, Words
  <2>3. Call(p, v, ChatMsg(0)) /\ vote' = vote /\ v.state # "Off"
    BY <1>3 DEF Chat, Online, history
  <2> QED BY <1>0, <2>1, <2>2, <2>3, SameCopy, QuietCall
<1> QED BY <1>1, <1>2, <1>3

\* A change of the caller's own copy.
LEMMA QuietLook ==
  ASSUME RoomInv, RoundInv, NEW p \in Procs, view[p].state # "Off", NEW w, OwnCopy(view[p], w),
         view' = [view EXCEPT ![p] = w], UNCHANGED <<broadcasts, wires, history>>
  PROVE  RoundInv'
BY LookRound DEF OwnCopy, wires, history

\* The steps between a launch and the start of play.
LEMMA LoadRound ==
  ASSUME RoomInv, RoundInv, NEW p \in Procs,
         PollLaunch(p) \/ MarkLoaded(p) \/ LeadBegin(p) \/ FollowBegin(p) \/ AbortLoad(p)
  PROVE  RoundInv'
<1> DEFINE v == view[p]
<1>0. Fit(v) /\ v \in ViewType /\ (Online(p) => v.id \in Ids)
  BY CallerFits
<1>1. CASE PollLaunch(p)
  <2> DEFINE w == [v EXCEPT !.launch = NoChart]
  <2>1. OwnCopy(v, w)
    BY <1>0 DEF OwnCopy, SameRound, ViewType, MaybeChart
  <2>2. view' = [view EXCEPT ![p] = w] /\ UNCHANGED <<broadcasts, wires, history>> /\ v.state # "Off"
    BY <1>1 DEF PollLaunch, Online
  <2> HIDE DEF w
  <2> QED BY <2>1, <2>2, QuietLook
<1>2. CASE MarkLoaded(p)
  <2> DEFINE w == [v EXCEPT !.loaded = @ \cup {v.id}]
             m == LoadedMsg(v.active)
  <2>1. OwnCopy(v, w)
    BY <1>0, <1>2 DEF OwnCopy, SameRound, ViewType, MarkLoaded
  <2>2. m \in ActionType /\ m.type \notin Words
    BY <1>0, CallFrames DEF LoadedMsg, Words
  <2>3. Call(p, w, m) /\ vote' = vote /\ v.state # "Off"
    BY <1>2 DEF MarkLoaded, Online
  <2> HIDE DEF w, m
  <2> QED BY <2>1, <2>2, <2>3, QuietCall
<1>3. CASE LeadBegin(p)
  <2> DEFINE w == [v EXCEPT !.begun = TRUE]
             m == BeginMsg(0, v.active)
  <2>1. OwnCopy(v, w)
    BY <1>0 DEF OwnCopy, SameRound, ViewType
  <2>2. m \in ActionType /\ m.type \notin Words
    BY <1>0, CallFrames DEF BeginMsg, Words
  <2>3. Call(p, w, m) /\ vote' = vote /\ v.state # "Off"
    BY <1>3 DEF LeadBegin, Online, history
  <2> HIDE DEF w, m
  <2> QED BY <2>1, <2>2, <2>3, QuietCall
<1>4. CASE FollowBegin(p)
  <2> DEFINE w == [v EXCEPT !.begin = FALSE]
  <2>1. OwnCopy(v, w)
    BY <1>0 DEF OwnCopy, SameRound, ViewType
  <2>2. view' = [view EXCEPT ![p] = w] /\ UNCHANGED <<broadcasts, wires, history>> /\ v.state # "Off"
    BY <1>4 DEF FollowBegin, Online
  <2> HIDE DEF w
  <2> QED BY <2>1, <2>2, QuietLook
<1>5. CASE AbortLoad(p)
  BY <1>5, SameRoundInv DEF AbortLoad, session, wires, history
<1> QED BY <1>1, <1>2, <1>3, <1>4, <1>5

\* Scores and the end of play.
LEMMA ResultRound ==
  ASSUME RoomInv, RoundInv, NEW p \in Procs, LiveScore(p) \/ FinishGame(p) \/ LeaveResult(p)
  PROVE  RoundInv'
<1> DEFINE v == view[p]
<1>0. Fit(v) /\ v \in ViewType /\ (Online(p) => v.id \in Ids) /\ DOMAIN view = Procs
  BY CallerFits DEF RoomInv, Netted
<1>1. CASE LiveScore(p)
  <2> DEFINE w == [v EXCEPT !.score = [@ EXCEPT ![v.id] = "live"], !.dirty = TRUE]
  <2>1. OwnCopy(v, w)
    BY <1>0 DEF OwnCopy, SameRound, ViewType, Scores
  <2>2. view' = [view EXCEPT ![p] = w] /\ UNCHANGED <<broadcasts, wires, history>> /\ v.state # "Off"
    BY <1>0, <1>1 DEF LiveScore, Online
  <2> HIDE DEF w
  <2> QED BY <2>1, <2>2, QuietLook
<1>2. CASE FinishGame(p)
  <2> DEFINE w == [v EXCEPT !.score = [@ EXCEPT ![v.id] = "final"], !.dirty = FALSE,
                          !.finalSent = TRUE]
             m == ScoreMsg(0, v.active, "final")
  <2>1. OwnCopy(v, w)
    BY <1>0 DEF OwnCopy, SameRound, ViewType, Scores
  <2>2. m \in ActionType /\ m.type \notin Words
    BY <1>0, CallFrames DEF ScoreMsg, Words
  <2>3. Call(p, w, m) /\ vote' = vote /\ v.state # "Off"
    BY <1>2 DEF FinishGame, Online, history
  <2> HIDE DEF w, m
  <2> QED BY <2>1, <2>2, <2>3, QuietCall
<1>3. CASE LeaveResult(p)
  <2> DEFINE off == [v EXCEPT !.ready = @ \ {v.id}, !.loaded = @ \ {v.id}]
             left == [v EXCEPT !.reset = @ \cup {v.id}, !.ready = @ \ {v.id},
                        !.loaded = @ \ {v.id}, !.dirty = FALSE, !.launch = NoChart, !.begin = FALSE]
             m == ResetMsg(v.active)
  <2>1. OwnCopy(v, off) /\ (Online(p) => OwnCopy(v, left))
    BY <1>0 DEF OwnCopy, SameRound, ViewType, MaybeChart
  <2>2. m \in ActionType /\ m.type \notin Words
    BY <1>0, CallFrames DEF ResetMsg, Words
  <2>3. /\ \/ view' = [view EXCEPT ![p] = off] /\ UNCHANGED <<broadcasts, wires>>
           \/ UNCHANGED <<session, wires, pass>>
           \/ Online(p) /\ Call(p, left, m)
        /\ UNCHANGED history /\ v.state # "Off"
    BY <1>0, <1>3 DEF LeaveResult
  <2> HIDE DEF off, left, m
  <2>4. CASE view' = [view EXCEPT ![p] = off] /\ UNCHANGED <<broadcasts, wires>>
    BY <2>1, <2>3, <2>4, QuietLook
  <2>5. CASE UNCHANGED <<session, wires, pass>>
    BY <2>3, <2>5, SameRoundInv DEF session, wires, history
  <2>6. CASE Online(p) /\ Call(p, left, m)
    BY <2>1, <2>2, <2>3, <2>6, QuietCall DEF history
  <2> QED BY <2>3, <2>4, <2>5, <2>6
<1> QED BY <1>1, <1>2, <1>3

-----------------------------------------------------------------------------
(* The joiners' ends.                                                      *)

\* A joiner's copy after a frame: that of the stamp, or the one it had.
Takes(w, m) ==
  w.rev = m.rev /\ w.rate = m.rate /\ w.active = m.nonce /\ (m.nonce # 0 => w.roundRate = m.rate)
\* The copy keeps its round.
Keeps(v, w) ==
  w.rev = v.rev /\ w.rate = v.rate /\ w.active = v.active /\ w.roundRate = v.roundRate

\* A roster gives the joiner's copy its stamp.
LEMMA RosterTakes ==
  ASSUME NEW v \in ViewType, NEW m \in RelayType, m.type = "RoomRoster"
  PROVE  Takes(ApplyRoster(v, m), m)
<1> DEFINE pending == v.ratePending /\ m.rev <= v.pendingRev /\ m.nonce = 0 /\ m.leader = v.id
           score == [i \in Ids |-> IF i \in m.members \cap v.members THEN v.score[i] ELSE "none"]
           state == IF v.id \in m.members THEN "Connected" ELSE v.state
           closed == IF v.active # 0 THEN v.active ELSE v.closed
           taken == [v EXCEPT
              !.ratePending = pending,
              !.rate = m.rate, !.rev = m.rev, !.leader = m.leader, !.members = m.members,
              !.ready = m.ready, !.loaded = m.loaded, !.reset = m.reset, !.chart = m.chart,
              !.score = score, !.state = state, !.active = m.nonce]
           round == [taken EXCEPT !.roundRate = m.rate]
           lobby == [taken EXCEPT !.closed = closed,
                        !.launch = NoChart, !.begin = FALSE, !.begun = FALSE,
                        !.finalSent = FALSE, !.dirty = FALSE]
<1>1. ApplyRoster(v, m) = IF m.nonce # 0 THEN round ELSE lobby
  <2>1. taken.closed = v.closed
    BY DEF ViewType
  <2> QED BY <2>1 DEF ApplyRoster
<1>a. /\ m.rate \in Rates /\ m.rev \in Nat /\ m.leader \in Ids /\ m.members \in SUBSET Ids
      /\ m.ready \in SUBSET Ids /\ m.loaded \in SUBSET Ids /\ m.reset \in SUBSET Ids
      /\ m.chart \in [Ids -> MaybeChart] /\ m.nonce \in Nat
  BY RelayFields
<1>b. pending \in BOOLEAN /\ score \in [Ids -> Scores] /\ state \in States /\ closed \in Nat
  BY <1>a DEF ViewType, Scores, States
<1> HIDE DEF pending, score, state, closed
<1>c. taken \in ViewType
  BY <1>a, <1>b, IdRange DEF ViewType, States
<1>d. taken.rev = m.rev /\ taken.rate = m.rate
  BY DEF ViewType
<1>2. /\ taken.rev = m.rev /\ taken.rate = m.rate /\ taken.active = m.nonce
      /\ taken \in ViewType
  <2>1. taken.active = m.nonce
    BY DEF ViewType
  <2> HIDE DEF taken
  <2> QED BY <1>c, <1>d, <2>1
<1> HIDE DEF taken
<1>3. Takes(round, m) /\ (m.nonce = 0 => Takes(lobby, m))
  BY <1>2 DEF Takes, ViewType
<1> HIDE DEF round, lobby
<1> QED BY <1>1, <1>3

\* So does a launch, and no other frame changes the round of a copy.
LEMMA ApplyStamp ==
  ASSUME NEW v \in ViewType, NEW m \in RelayType, m.type # "Disconnect", ~Breaks(v, m)
  PROVE  IF m.type \in Stamps THEN Takes(Apply(v, m), m) ELSE Keeps(v, Apply(v, m))
<1>1. CASE m.type = "RoomRoster"
  BY <1>1, RosterTakes DEF Apply, Stamps
<1>2. CASE m.type = "Launch"
  <2> DEFINE w == [v EXCEPT !.active = m.nonce, !.roundRate = m.rate, !.ratePending = FALSE,
            !.begun = FALSE, !.finalSent = FALSE, !.begin = FALSE,
            !.loaded = {}, !.reset = {}, !.score = NoScores, !.launch = m.chart]
  <2>1. Apply(v, m) = w /\ m.type \in Stamps
    BY <1>2 DEF Apply, ApplyLaunch, Stamps
  <2>2. w.active = m.nonce /\ w.roundRate = m.rate /\ w.rev = v.rev /\ w.rate = v.rate
    BY DEF ViewType
  <2>3. m.rev = v.rev /\ m.rate = v.rate
    BY <1>2 DEF Breaks
  <2> QED BY <2>1, <2>2, <2>3 DEF Takes
<1>3. CASE m.type = "RoomWelcome"
  BY <1>3 DEF Apply, Stamps, Keeps, ViewType
<1>4. CASE m.type = "Begin"
  <2> DEFINE b == v.begin \/ m.player # v.id
             w == [v EXCEPT !.begin = b, !.begun = TRUE]
  <2>1. Apply(v, m) = w /\ m.type \notin Stamps
    BY <1>4 DEF Apply, Stamps
  <2> HIDE DEF b
  <2>2. Keeps(v, w)
    BY DEF Keeps, ViewType
  <2> QED BY <2>1, <2>2
<1>5. CASE m.type = "Score"
  <2> DEFINE w == [v EXCEPT !.score = [@ EXCEPT ![m.player] = m.score]]
  <2>1. Apply(v, m) \in {v, w} /\ m.type \notin Stamps
    BY <1>5 DEF Apply, Stamps
  <2>2. Keeps(v, w) /\ Keeps(v, v)
    BY DEF Keeps, ViewType
  <2> QED BY <2>1, <2>2
<1>6. CASE m.type = "Chat"
  BY <1>6 DEF Apply, Stamps, Keeps
<1> QED BY <1>1, <1>2, <1>3, <1>4, <1>5, <1>6, RelayFields

\* A joiner who takes the next frame still follows the room.
LEMMA ApplyFollows ==
  ASSUME NEW h \in ViewType, NEW R, NEW i, NEW v \in ViewType, NEW u \in Seq(ActionType),
         NEW d \in Seq(RelayType), d # <<>>, NEW b \in Seq(RelayType), Follows(h, R, i, v, u, d, b),
         Head(d).type # "Disconnect", ~Breaks(v, Head(d))
  PROVE  Follows(h, R, i, Apply(v, Head(d)), u, Tail(d), b)
<1> DEFINE m == Head(d)
           w == Apply(v, m)
           t == Tail(d)
<1>1. /\ \A k \in DOMAIN t : k \in Nat /\ k + 1 \in DOMAIN d /\ t[k] = d[k + 1]
      /\ 1 \in DOMAIN d /\ d[1] = m /\ m \in RelayType /\ t \in Seq(RelayType)
  BY TailFrames
<1>2. IF m.type \in Stamps THEN Takes(w, m) ELSE Keeps(v, w)
  BY <1>1, ApplyStamp
<1>3. v.rev \in Nat /\ h.rev \in Nat /\ h.active \in Nat
  BY ViewFields
<1>4. /\ m.type \in Stamps => /\ OfRoom(h, m.rev, m.rate, m.nonce) /\ m.rev \in Nat /\ v.rev <= m.rev
                              /\ Since(Stamps, t, m.rev) /\ Since(Stamps, b, m.rev)
  <2> SUFFICES ASSUME m.type \in Stamps
               PROVE  /\ OfRoom(h, m.rev, m.rate, m.nonce) /\ m.rev \in Nat /\ v.rev <= m.rev
                      /\ Since(Stamps, t, m.rev) /\ Since(Stamps, b, m.rev)
    OBVIOUS
  <2>1. m.rev \in Nat /\ OfRoom(h, m.rev, m.rate, m.nonce) /\ v.rev <= m.rev
    BY <1>1, StampRev DEF Follows, Known, Since
  <2>2. Since(Stamps, t, m.rev)
    <3> SUFFICES ASSUME NEW k \in DOMAIN t, t[k].type \in Stamps PROVE m.rev <= t[k].rev
      BY DEF Since
    <3>1. k \in Nat /\ k + 1 \in DOMAIN d /\ t[k] = d[k + 1] /\ 1 <= k + 1
      BY <1>1
    <3> QED BY <1>1, <3>1 DEF Follows, Dated
  <2>3. Since(Stamps, b, m.rev)
    BY <1>1 DEF Follows, Before, Since
  <2> QED BY <2>1, <2>2, <2>3
<1>5. /\ Dated(Stamps, t) /\ Known(h, t) /\ Before(Stamps, t, b) /\ Since(Stamps, t, v.rev)
  <2>1. Dated(Stamps, t)
    <3> SUFFICES ASSUME NEW k \in DOMAIN t, NEW l \in DOMAIN t, k <= l,
                        t[k].type \in Stamps, t[l].type \in Stamps
                 PROVE  t[k].rev <= t[l].rev
      BY DEF Dated
    <3>1. k + 1 \in DOMAIN d /\ l + 1 \in DOMAIN d /\ k + 1 <= l + 1 /\ t[k] = d[k + 1]
          /\ t[l] = d[l + 1]
      BY <1>1
    <3> QED BY <3>1 DEF Follows, Dated
  <2>2. Known(h, t)
    <3> SUFFICES ASSUME NEW k \in DOMAIN t, t[k].type \in Stamps
                 PROVE  OfRoom(h, t[k].rev, t[k].rate, t[k].nonce)
      BY DEF Known
    <3>1. k + 1 \in DOMAIN d /\ t[k] = d[k + 1]
      BY <1>1
    <3> QED BY <3>1 DEF Follows, Known
  <2>3. Before(Stamps, t, b)
    BY <1>1 DEF Follows, Before
  <2>4. Since(Stamps, t, v.rev)
    BY <1>1 DEF Follows, Since
  <2> QED BY <2>1, <2>2, <2>3, <2>4
<1> HIDE DEF m, w, t
<1>6. CASE m.type \in Stamps
  <2>1. w.rev = m.rev /\ w.rate = m.rate /\ w.active = m.nonce /\ (m.nonce # 0 => w.roundRate = m.rate)
    BY <1>2, <1>6 DEF Takes
  <2>2. OfRoom(h, w.rev, w.rate, w.active)
    BY <1>4, <1>6, <2>1
  <2>3. w.active # 0 /\ w.active = h.active => w.roundRate = h.rate
    BY <2>1, <2>2 DEF OfRoom
  <2>4. i \in R => w.rev = h.rev
    BY <1>3, <1>4, <1>6, <2>1, <2>2 DEF Follows, OfRoom
  <2>5. \A k \in DOMAIN u : u[k].type = "Ready" => u[k].rev <= w.rev
    <3> SUFFICES ASSUME NEW k \in DOMAIN u, u[k].type = "Ready" PROVE u[k].rev <= w.rev
      OBVIOUS
    <3>1. u[k].rev \in Nat /\ u[k].rev <= v.rev
      BY VoteRev DEF Follows
    <3> QED BY <1>3, <1>4, <1>6, <2>1, <3>1
  <2>6. Since(Stamps, t, w.rev) /\ Since(Stamps, b, w.rev)
    BY <1>4, <1>6, <2>1
  <2>7. Follows(h, R, i, w, u, t, b)
    BY <1>5, <2>2, <2>3, <2>4, <2>5, <2>6 DEF Follows
  <2> QED BY <2>7 DEF w, t, m
<1>7. CASE m.type \notin Stamps
  <2>1. Keeps(v, w)
    BY <1>2, <1>7
  <2>2. Follows(h, R, i, w, u, t, b)
    BY <1>5, <2>1 DEF Follows, Keeps
  <2> QED BY <2>2 DEF w, t, m
<1> QED BY <1>6, <1>7

\* A frame that is no vote changes nothing for the votes.
LEMMA OtherVotes ==
  ASSUME NEW h, NEW R, NEW i, NEW b, NEW u \in Seq(ActionType), Votes(h, R, i, u, b),
         NEW m \in ActionType, m.type # "Ready"
  PROVE  Votes(h, R, i, Append(u, m), b)
<1> DEFINE t == Append(u, m)
<1>1. \A k \in DOMAIN t : (k \in DOMAIN u /\ t[k] = u[k]) \/ t[k] = m
  BY AppendFrames
<1>2. \A k \in DOMAIN t : t[k].type = "Ready" => k \in DOMAIN u /\ t[k] = u[k]
  BY <1>1
<1> HIDE DEF t
<1>3. Votes(h, R, i, t, b)
  <2>1. Dated({"Ready"}, t)
    BY <1>2 DEF Votes, Dated
  <2>2. Before({"Ready"}, t, b)
    BY <1>2 DEF Votes, Before
  <2>3. \A k \in DOMAIN t : t[k].type = "Ready" =>
          t[k].rev <= h.rev /\ (t[k].rev = h.rev => t[k].rate = h.rate)
    BY <1>2 DEF Votes
  <2>4. i \in R => Since({"Ready"}, t, h.rev)
    BY <1>2 DEF Votes, Since
  <2> QED BY <2>1, <2>2, <2>3, <2>4 DEF Votes
<1> QED BY <1>3 DEF t

\* What reaches the coordinator of votes that were cut off.
LEMMA PrefixFrames ==
  ASSUME NEW S, NEW u \in Seq(S), NEW k \in 0..Len(u)
  PROVE  LET t == SubSeq(u, 1, k)
         IN t \in Seq(S) /\ \A j \in DOMAIN t : j \in DOMAIN u /\ t[j] = u[j]
<1> DEFINE t == SubSeq(u, 1, k)
<1>1. t \in Seq(S) /\ Len(u) \in Nat /\ DOMAIN u = 1..Len(u)
  BY PrefixType, LenProperties
<1>2. CASE k = 0
  <2>1. t = <<>>
    BY <1>2, SubSeqProperties
  <2> QED BY <1>1, <2>1
<1>3. CASE k \in 1..Len(u)
  <2>1. 1 \in 1..Len(u) + 1 /\ k \in (1 - 1)..Len(u)
    BY <1>1, <1>3
  <2>2. Len(t) = k
    BY <1>1, <1>3, <2>1, SubSeqProperties
  <2>3. DOMAIN t = 1..k
    BY <1>1, <2>2, LenProperties
  <2>4. \A j \in 1..k : t[j] = u[j]
    BY <1>1, <1>3, <2>1, SubSeqProperties
  <2> QED BY <1>1, <1>3, <2>3, <2>4
<1> QED BY <1>1, <1>2, <1>3

\* The votes of a link cut short are among those it had.
LEMMA PrefixVotes ==
  ASSUME NEW h, NEW R, NEW i, NEW b, NEW u \in Seq(ActionType), Votes(h, R, i, u, b),
         NEW k \in 0..Len(u)
  PROVE  Votes(h, R, i, SubSeq(u, 1, k), b)
<1> DEFINE t == SubSeq(u, 1, k)
<1>1. \A j \in DOMAIN t : j \in DOMAIN u /\ t[j] = u[j]
  BY PrefixFrames
<1> HIDE DEF t
<1>2. Votes(h, R, i, t, b)
  <2>1. Dated({"Ready"}, t)
    BY <1>1 DEF Votes, Dated
  <2>2. Before({"Ready"}, t, b)
    BY <1>1 DEF Votes, Before
  <2>3. \A j \in DOMAIN t : t[j].type = "Ready" =>
          t[j].rev <= h.rev /\ (t[j].rev = h.rev => t[j].rate = h.rate)
    BY <1>1 DEF Votes
  <2>4. i \in R => Since({"Ready"}, t, h.rev)
    BY <1>1 DEF Votes, Since
  <2> QED BY <2>1, <2>2, <2>3, <2>4 DEF Votes
<1> QED BY <1>2 DEF t

\* A joiner that is gone speaks no more.
LEMMA OffSays ==
  ASSUME NEW h, NEW lk, NEW i, NEW v, v.state = "Off", NEW u \in Seq(ActionType), NEW d, NEW b,
         NEW word, NEW new, Joined(h, lk, i, v, u, d, b, word),
         NEW m \in ActionType, m.type \notin Words, NEW w, w.state = "Off"
  PROVE  Joined(h, lk, i, w, Append(u, m), d, b, new)
<1>1. \A k \in DOMAIN Append(u, m) : (k \in DOMAIN u /\ Append(u, m)[k] = u[k]) \/ Append(u, m)[k] = m
  BY AppendFrames
<1>2. lk \in {"none", "greeting"} => Waits(w, Append(u, m), d)
  BY <1>1 DEF Joined, Waits
<1>3. lk = "up" => Votes(h, h.ready, i, Append(u, m), b)
  BY OtherVotes DEF Joined, Words
<1> QED BY <1>2, <1>3 DEF Joined

\* A joiner's end once the link is cut: some frames lost, then the farewell.
LEMMA SeverJoined ==
  ASSUME NEW h, NEW lk, NEW i, NEW v, NEW u \in Seq(ActionType), NEW d, NEW b,
         NEW word, NEW new, Joined(h, lk, i, v, u, d, b, word), NEW k \in 0..Len(u)
  PROVE  Joined(h, lk, i, OffView, Append(SubSeq(u, 1, k), Bye), <<>>, b, new)
<1> DEFINE t == SubSeq(u, 1, k)
<1>1. t \in Seq(ActionType) /\ \A j \in DOMAIN t : j \in DOMAIN u /\ t[j] = u[j]
  BY PrefixFrames
<1>2. OffView.state = "Off" /\ Bye \in ActionType /\ Bye.type \notin Words
  BY DEF OffView, FreshView, Bye, ActionType, Words
<1>3. lk = "up" => Votes(h, h.ready, i, t, b)
  BY PrefixVotes DEF Joined
<1> HIDE DEF t
<1>4. lk \in {"none", "greeting"} => Waits(OffView, t, <<>>)
  BY <1>1, <1>2 DEF Joined, Waits
<1>5. Joined(h, lk, i, OffView, t, <<>>, b, word)
  BY <1>2, <1>3, <1>4 DEF Joined
<1>6. Joined(h, lk, i, OffView, Append(t, Bye), <<>>, b, new)
  BY <1>1, <1>2, <1>5, OffSays
<1> QED BY <1>6 DEF t

\* A link cut.
LEMMA SeverRound ==
  ASSUME RoomInv, RoundInv, NEW c \in Joiners, Sever(c)
  PROVE  RoundInv'
<1>0. /\ c \in Procs /\ c # Host /\ up[c] \in Seq(ActionType) /\ DOMAIN view = Procs
      /\ DOMAIN up = Joiners /\ DOMAIN down = Joiners /\ DOMAIN vote = Procs
      /\ view[Host].state # "Off" =>
           Joined(view[Host], link[c], seat[c], view[c], up[c], down[c], broadcasts, vote[c])
      /\ Joiners \subseteq Procs
  BY JoinerFacts DEF Procs
<1>1. PICK k \in 0..Len(up[c]) : up' = [up EXCEPT ![c] = Append(SubSeq(@, 1, k), Bye)]
  BY DEF Sever
<1>2. /\ view' = [view EXCEPT ![c] = OffView] /\ down' = [down EXCEPT ![c] = <<>>]
      /\ vote' = [vote EXCEPT ![c] = 0] /\ UNCHANGED <<broadcasts, link, seat>>
  BY DEF Sever
<1>3. /\ view'[c] = OffView /\ down'[c] = <<>> /\ up'[c] = Append(SubSeq(up[c], 1, k), Bye)
      /\ view'[Host] = view[Host]
  BY <1>0, <1>1, <1>2 DEF Procs
<1>4. \A d \in Joiners \ {c} :
         /\ link'[d] = link[d] /\ view'[d] = view[d] /\ vote'[d] = vote[d]
         /\ up'[d] = up[d] /\ down'[d] = down[d]
  BY <1>0, <1>1, <1>2
<1>5. view[Host].state # "Off" =>
        Joined(view[Host], link'[c], seat[c], view'[c], up'[c], down'[c], broadcasts, vote'[c])
  BY <1>0, <1>2, <1>3, SeverJoined
<1> QED BY <1>2, <1>3, <1>4, <1>5, PlayerStep

\* A joiner dials.
LEMMA JoinRound ==
  ASSUME RoomInv, RoundInv, NEW c \in Joiners, Join(c)
  PROVE  RoundInv'
<1>0. /\ c \in Procs /\ c # Host /\ DOMAIN view = Procs /\ Joiners \subseteq Procs
      /\ DOMAIN up = Joiners /\ DOMAIN link = Joiners
      /\ Joined(view[Host], link[c], seat[c], view[c], up[c], down[c], broadcasts, vote[c])
  BY JoinerFacts DEF Procs, Join
<1>1. /\ link' = [link EXCEPT ![c] = "greeting"] /\ view' = [view EXCEPT ![c] = JoinerView]
      /\ up' = [up EXCEPT ![c] = <<HelloMsg>>] /\ link[c] = "none"
      /\ UNCHANGED <<broadcasts, seat, down, vote>>
  BY DEF Join, history
<1>2. /\ view'[c] = JoinerView /\ up'[c] = <<HelloMsg>> /\ link'[c] = "greeting"
      /\ view'[Host] = view[Host] /\ down'[c] = down[c]
  BY <1>0, <1>1 DEF Procs
<1>3. \A d \in Joiners \ {c} :
         /\ link'[d] = link[d] /\ view'[d] = view[d] /\ vote'[d] = vote[d]
         /\ up'[d] = up[d] /\ down'[d] = down[d]
  BY <1>0, <1>1
<1>4. down[c] = <<>>
  BY <1>0, <1>1 DEF Joined, Waits
<1>5. /\ JoinerView.state = "Joining" /\ JoinerView.rev = 1 /\ JoinerView.active = 0
      /\ JoinerView.rate = DefaultRate
  BY DEF JoinerView, FreshView
<1>6. \A k \in DOMAIN <<HelloMsg>> : <<HelloMsg>>[k].type \notin Words
  BY DEF HelloMsg, Words
<1>7. Waits(JoinerView, <<HelloMsg>>, <<>>)
  BY <1>5, <1>6 DEF Waits
<1>8. Joined(view[Host], "greeting", seat[c], JoinerView, <<HelloMsg>>, <<>>, broadcasts, vote[c])
  BY <1>7 DEF Joined
<1>9. view[Host].state # "Off" =>
        Joined(view[Host], link'[c], seat[c], view'[c], up'[c], down'[c], broadcasts, vote'[c])
  BY <1>1, <1>2, <1>4, <1>8
<1> QED BY <1>1, <1>2, <1>3, <1>9, PlayerStep

\* A score passed on by the joiner's worker.
LEMMA PumpRound ==
  ASSUME RoomInv, RoundInv, NEW c \in Joiners, PumpScore(c)
  PROVE  RoundInv'
<1> DEFINE v == view[c]
           w == [v EXCEPT !.dirty = FALSE]
           m == ScoreMsg(0, v.active, "live")
<1>0. /\ c \in Procs /\ c # Host /\ v \in ViewType /\ up[c] \in Seq(ActionType)
      /\ DOMAIN view = Procs /\ DOMAIN up = Joiners /\ Joiners \subseteq Procs
      /\ view[Host].state # "Off" =>
           Joined(view[Host], link[c], seat[c], view[c], up[c], down[c], broadcasts, vote[c])
  BY JoinerFacts DEF Procs
<1>1. OwnCopy(v, w)
  BY <1>0 DEF OwnCopy, SameRound, ViewType
<1>2. m \in ActionType
  BY <1>0, CallerFits, CallFrames
<1>3. m.type \notin Words
  BY DEF ScoreMsg, Words
<1>4. Call(c, w, m) /\ vote' = vote
  BY DEF PumpScore, history
<1>5. CASE v.state # "Off"
  <2> HIDE DEF w, m
  <2> QED BY <1>0, <1>1, <1>2, <1>3, <1>4, <1>5, QuietCall
<1>6. CASE v.state = "Off"
  <2> HIDE DEF w, m
  <2>1. /\ UNCHANGED <<broadcasts, link, seat, down, vote>> /\ view' = [view EXCEPT ![c] = w]
        /\ up' = IF link[c] \in {"greeting", "up", "dropping"}
                 THEN [up EXCEPT ![c] = Append(@, m)] ELSE up
    BY <1>0, <1>4 DEF Call, Queue
  <2>2. \A d \in Joiners \ {c} :
           /\ link'[d] = link[d] /\ view'[d] = view[d] /\ vote'[d] = vote[d]
           /\ up'[d] = up[d] /\ down'[d] = down[d]
    BY <1>0, <2>1
  <2>3. view'[Host] = view[Host] /\ view'[c] = w /\ w.state = "Off"
        /\ up'[c] \in {up[c], Append(up[c], m)}
    <3>1. w.state = "Off"
      BY <1>1, <1>6 DEF OwnCopy, SameRound
    <3>2. up'[c] \in {up[c], Append(up[c], m)}
      BY <1>0, <2>1
    <3> QED BY <1>0, <2>1, <3>1, <3>2 DEF Procs
  <2>4. ASSUME view[Host].state # "Off"
        PROVE  Joined(view[Host], link'[c], seat[c], view'[c], up'[c], down'[c], broadcasts, vote'[c])
    <3>1. Joined(view[Host], link[c], seat[c], w, Append(up[c], m), down[c], broadcasts, vote[c])
      BY <1>0, <1>2, <1>3, <1>6, <2>3, <2>4, OffSays
    <3>2. Joined(view[Host], link[c], seat[c], w, up[c], down[c], broadcasts, vote[c])
      BY <1>0, <1>6, <2>3, <2>4 DEF Joined, Waits
    <3> QED BY <2>1, <2>3, <3>1, <3>2
  <2> QED BY <2>1, <2>2, <2>3, <2>4, PlayerStep
<1> QED BY <1>5, <1>6

\* A frame of the host received.
LEMMA ReceiveRound ==
  ASSUME RoomInv, RoundInv, NEW c \in Joiners, Receive(c)
  PROVE  RoundInv'
<1>1. CASE Sever(c)
  BY <1>1, SeverRound
<1>2. CASE ~Sever(c)
  <2> DEFINE v == view[c]
             m == Head(down[c])
             w == Apply(v, m)
  <2>0. /\ c \in Procs /\ c # Host /\ v \in ViewType /\ up[c] \in Seq(ActionType)
        /\ down[c] \in Seq(RelayType) /\ view[Host] \in ViewType /\ broadcasts \in Seq(RelayType)
        /\ DOMAIN view = Procs /\ DOMAIN down = Joiners /\ Joiners \subseteq Procs
        /\ view[Host].state # "Off" =>
             Joined(view[Host], link[c], seat[c], view[c], up[c], down[c], broadcasts, vote[c])
    BY JoinerFacts DEF Procs
  <2>1. /\ v.state # "Off" /\ down[c] # <<>> /\ m.type # "Disconnect" /\ ~Breaks(v, m)
        /\ view' = [view EXCEPT ![c] = w] /\ down' = [down EXCEPT ![c] = Tail(@)]
        /\ UNCHANGED <<broadcasts, link, seat, up, vote>>
    BY <1>2 DEF Receive, history
  <2>2. view'[c] = w /\ view'[Host] = view[Host] /\ down'[c] = Tail(down[c])
    BY <2>0, <2>1 DEF Procs
  <2>3. \A d \in Joiners \ {c} :
           /\ link'[d] = link[d] /\ view'[d] = view[d] /\ vote'[d] = vote[d]
           /\ up'[d] = up[d] /\ down'[d] = down[d]
    BY <2>0, <2>1
  <2>4. ASSUME view[Host].state # "Off"
        PROVE  Joined(view[Host], link[c], seat[c], w, up[c], Tail(down[c]), broadcasts, vote[c])
    <3>1. Joined(view[Host], link[c], seat[c], v, up[c], down[c], broadcasts, vote[c])
      BY <2>0, <2>4
    <3>2. link[c] \notin {"none", "greeting"}
      BY <2>1, <3>1 DEF Joined, Waits
    <3>3. ASSUME link[c] = "up"
          PROVE  Follows(view[Host], view[Host].ready, seat[c], w, up[c], Tail(down[c]), broadcasts)
      <4>1. Follows(view[Host], view[Host].ready, seat[c], v, up[c], down[c], broadcasts)
        BY <2>1, <3>1, <3>3 DEF Joined
      <4> QED BY <2>0, <2>1, <4>1, ApplyFollows
    <3> HIDE DEF w
    <3> QED BY <2>1, <3>1, <3>2, <3>3 DEF Joined
  <2> HIDE DEF w
  <2> QED BY <2>1, <2>2, <2>3, <2>4, PlayerStep
<1> QED BY <1>1, <1>2

\* Every step of a joiner's own.
LEMMA JoinerRound ==
  ASSUME RoomInv, RoundInv, NEW c \in Joiners, Joiner(c) \/ Leave(c)
  PROVE  RoundInv'
BY JoinRound, SeverRound, ReceiveRound, PumpRound DEF Joiner, StartFails, Leave

-----------------------------------------------------------------------------
(* The worker.                                                             *)

\* What the coordinator makes of an accepted frame.
LEMMA HandleFacts ==
  ASSUME RoomInv, RoundInv, view[Host].state # "Off", NEW src \in Ids, NEW m \in ActionType,
         ~Rejects(view[Host], src, m)
  PROVE  LET h == view[Host]
             r == Handle(h, order, src, m)
         IN /\ r.view \in ViewType /\ r.out \in Seq(RelayType) /\ HandleTurn(h, src, m, r)
            /\ r.view.id = h.id /\ r.view.state # "Off" /\ r.view.ready \subseteq r.view.members
            /\ Turn(h, r.view) /\ Stamped(r.view, r.out) /\ Counts(h, r.view, src, m)
<1> DEFINE h == view[Host]
           r == Handle(h, order, src, m)
<1>0. SeatInv /\ Netted /\ HostRound(h)
  BY DEF RoomInv, RoundInv
<1>1. h \in ViewType /\ h.leader \in Ids /\ order \in Seq(Ids)
  BY <1>0, HostLeads
<1>2. ReplyTyped(h, r)
  BY <1>1, HandleTyped
<1>3. r.view.state = h.state
  BY <1>0, <1>1, HandleGoverns DEF SeatInv, Governed
<1>4. HandleTurn(h, src, m, r)
  BY <1>0, <1>1, HandleTurns DEF HostRound
<1> HIDE DEF r
<1>5. Turn(h, r.view) /\ Stamped(r.view, r.out) /\ Counts(h, r.view, src, m)
  BY <1>4 DEF HandleTurn
<1>6. r.view.ready \subseteq r.view.members
  BY <1>5 DEF Counts
<1> QED BY <1>2, <1>3, <1>4, <1>5, <1>6 DEF ReplyTyped, r

\* The worker takes one of the host's own calls.
LEMMA LocalRound ==
  ASSUME RoomInv, RoundInv, HostLocal
  PROVE  RoundInv'
<1> DEFINE h == view[Host]
           m == Head(controls)
           r == Handle(h, order, 1, m)
<1>0. /\ h.state # "Off" /\ batch > 0 /\ batch <= Len(controls) /\ controls \in Seq(ActionType)
      /\ UNCHANGED <<link, seat, up, down, vote>>
  BY DEF RoomInv, SeatInv, HostLocal, Batched, Netted, wires, history
<1>1. m \in ActionType
  <2>1. controls # <<>>
    BY <1>0 DEF RoomInv, Netted
  <2> QED BY <1>0, <2>1, TailType
<1>2. CASE Rejects(h, 1, m)
  <2>1. UNCHANGED <<view, broadcasts>>
    BY <1>2 DEF HostLocal
  <2> QED BY <1>0, <2>1, SameRoundInv
<1>3. CASE ~Rejects(h, 1, m)
  <2>1. view' = [view EXCEPT ![Host] = r.view] /\ broadcasts' = broadcasts \o r.out
    BY <1>3 DEF HostLocal
  <2>2. /\ r.view \in ViewType /\ r.out \in Seq(RelayType) /\ r.view.id = h.id
        /\ r.view.state # "Off" /\ r.view.ready \subseteq r.view.members
        /\ Turn(h, r.view) /\ Stamped(r.view, r.out) /\ Counts(h, r.view, 1, m)
    BY <1>0, <1>1, <1>3, IdRange, HandleFacts
  <2> HIDE DEF r
  <2>3. \A c \in AtTable(link) : seat[c] # 1
    BY <1>0 DEF RoomInv, SeatInv, Seating
  <2>4. \A c \in Joiners \ {} :
          /\ c \in AtTable(link) /\ seat[c] \in r.view.ready => seat[c] \in view[Host].ready
          /\ link'[c] = link[c] /\ seat'[c] = seat[c] /\ vote'[c] = vote[c]
          /\ up'[c] = up[c] /\ down'[c] = down[c]
    BY <1>0, <2>2, <2>3 DEF Counts
  <2>5. \A c \in {} \cap Joiners :
          Joined(r.view, link'[c], seat'[c], view[c], up'[c], down'[c], broadcasts \o r.out, vote'[c])
    OBVIOUS
  <2> QED BY <1>0, <2>1, <2>2, <2>4, <2>5, HostStep
<1> QED BY <1>2, <1>3

\* Every seated player gets the broadcasts of the pass after what he has got.
LEMMA FlushFollows ==
  ASSUME NEW h \in ViewType, NEW R, NEW i, NEW v, NEW u, NEW d \in Seq(RelayType),
         NEW b \in Seq(RelayType), Broadcast(h, b), Follows(h, R, i, v, u, d, b)
  PROVE  Follows(h, R, i, v, u, d \o b, <<>>)
<1> DEFINE t == d \o b
<1>1. \A k \in DOMAIN t : /\ k \in Nat
                          /\ \/ k \in DOMAIN d /\ t[k] = d[k]
                             \/ /\ k - Len(d) \in DOMAIN b /\ t[k] = b[k - Len(d)]
                                /\ \A j \in DOMAIN d : j < k
  BY ConcatFrames
<1>2. Len(d) \in Nat /\ \A k \in DOMAIN d : k \in Nat
  BY LenProperties
<1> HIDE DEF t
<1>3. Dated(Stamps, t)
  <2> SUFFICES ASSUME NEW k \in DOMAIN t, NEW l \in DOMAIN t, k <= l,
                      t[k].type \in Stamps, t[l].type \in Stamps
               PROVE  t[k].rev <= t[l].rev
    BY DEF Dated
  <2>1. CASE k \in DOMAIN d /\ t[k] = d[k] /\ l \in DOMAIN d /\ t[l] = d[l]
    BY <2>1 DEF Follows, Dated
  <2>2. CASE k \in DOMAIN d /\ t[k] = d[k] /\ l - Len(d) \in DOMAIN b /\ t[l] = b[l - Len(d)]
    BY <2>2 DEF Follows, Before
  <2>3. CASE /\ k - Len(d) \in DOMAIN b /\ t[k] = b[k - Len(d)]
             /\ l - Len(d) \in DOMAIN b /\ t[l] = b[l - Len(d)]
    <3>1. k - Len(d) <= l - Len(d)
      BY <1>1, <1>2
    <3> QED BY <2>3, <3>1 DEF Broadcast, Dated
  <2>4. CASE (\A j \in DOMAIN d : j < k) /\ l \in DOMAIN d
    <3>1. l < k
      BY <2>4
    <3> QED BY <1>1, <3>1
  <2> QED BY <1>1, <2>1, <2>2, <2>3, <2>4
<1>4. Since(Stamps, t, v.rev)
  BY <1>1 DEF Follows, Since
<1>5. Known(h, t)
  <2> SUFFICES ASSUME NEW k \in DOMAIN t, t[k].type \in Stamps
               PROVE  OfRoom(h, t[k].rev, t[k].rate, t[k].nonce)
    BY DEF Known
  <2>1. CASE k \in DOMAIN d /\ t[k] = d[k]
    BY <2>1 DEF Follows, Known
  <2>2. CASE k - Len(d) \in DOMAIN b /\ t[k] = b[k - Len(d)]
    BY <2>2 DEF Broadcast, Known
  <2> QED BY <1>1, <2>1, <2>2
<1>6. Since(Stamps, <<>>, v.rev) /\ Before(Stamps, t, <<>>)
  BY DEF Since, Before
<1>7. Follows(h, R, i, v, u, t, <<>>)
  BY <1>3, <1>4, <1>5, <1>6 DEF Follows
<1> QED BY <1>7 DEF t

\* The worker sends a broadcast to every seat: it moves from b to each d.
LEMMA FlushRound ==
  ASSUME RoomInv, RoundInv, HostFlush
  PROVE  RoundInv'
<1> DEFINE h == view[Host]
<1>0. /\ h.state # "Off" /\ broadcasts' = <<>> /\ UNCHANGED <<view, link, seat, up, vote>>
      /\ down' = [c \in Joiners |-> IF link[c] = "up" /\ view[c].state # "Off"
                                    THEN down[c] \o broadcasts ELSE down[c]]
  BY DEF RoomInv, SeatInv, HostFlush, history
<1>1. HostRound(h) /\ Broadcast(h, broadcasts)
  BY <1>0 DEF RoundInv
<1>2. Broadcast(h, <<>>)
  BY DEF Broadcast, Known, Dated, Since
<1>3. ASSUME NEW c \in Joiners
      PROVE  Joined(h, link[c], seat[c], view[c], up[c], down'[c], <<>>, vote[c])
  <2>1. /\ Joined(h, link[c], seat[c], view[c], up[c], down[c], broadcasts, vote[c])
        /\ h \in ViewType /\ down[c] \in Seq(RelayType) /\ broadcasts \in Seq(RelayType)
    BY <1>0, JoinerFacts
  <2>2. link[c] \in {"none", "greeting"} => Waits(view[c], up[c], down'[c])
    <3>1. link[c] \in {"none", "greeting"} => down'[c] = down[c]
      BY <1>0
    <3> QED BY <2>1, <3>1 DEF Joined
  <2>3. link[c] = "up" => Votes(h, h.ready, seat[c], up[c], <<>>)
    BY <2>1 DEF Joined, Votes, Before
  <2>4. Since(Stamps, <<>>, h.rev)
    BY DEF Since
  <2>5. ASSUME link[c] = "up", view[c].state # "Off"
        PROVE  Follows(h, h.ready, seat[c], view[c], up[c], down'[c], <<>>)
    <3>1. down'[c] = down[c] \o broadcasts
      BY <1>0, <2>5
    <3>2. Follows(h, h.ready, seat[c], view[c], up[c], down[c], broadcasts)
      BY <2>1, <2>5 DEF Joined
    <3> QED BY <1>1, <2>1, <3>1, <3>2, FlushFollows
  <2> QED BY <2>1, <2>2, <2>3, <2>4, <2>5 DEF Joined
<1> QED BY <1>0, <1>1, <1>2, <1>3 DEF RoundInv

\* The worker ends a pass.
LEMMA EndRound ==
  ASSUME RoomInv, RoundInv, HostEndPass
  PROVE  RoundInv'
<1> DEFINE h == view[Host]
           w == [h EXCEPT !.dirty = FALSE]
<1>0. /\ h.state # "Off" /\ h \in ViewType /\ Host \in Procs /\ DOMAIN view = Procs
      /\ UNCHANGED <<broadcasts, wires, history>>
  BY DEF RoomInv, SeatInv, Netted, HostEndPass, Procs
<1>1. view' = view \/ view' = [view EXCEPT ![Host] = w]
  BY <1>0 DEF HostEndPass
<1>2. OwnCopy(h, w)
  BY <1>0 DEF OwnCopy, SameRound, ViewType
<1> HIDE DEF w
<1>3. CASE view' = view
  BY <1>0, <1>3, SameRoundInv DEF wires, history
<1>4. CASE view' = [view EXCEPT ![Host] = w]
  BY <1>0, <1>2, <1>4, QuietLook
<1> QED BY <1>1, <1>3, <1>4

\* The host closes the room.
LEMMA CloseRound ==
  ASSUME RoomInv, HostClose
  PROVE  RoundInv'
<1>1. Host \in Procs /\ DOMAIN view = Procs
  BY DEF RoomInv, Netted, Procs
<1>2. view'[Host].state = "Off"
  BY <1>1 DEF HostClose, OffView, FreshView
<1>3. \A c \in Joiners : link'[c] = "gone"
  BY DEF HostClose
<1> QED BY <1>2, <1>3 DEF RoundInv

\* A link that the coordinator gives up, before or after the handshake.
LEMMA DropRound ==
  ASSUME RoomInv, RoundInv, NEW c \in Joiners, HostForget(c) \/ HostTimeout(c)
  PROVE  RoundInv'
<1>0. /\ DOMAIN up = Joiners /\ DOMAIN link = Joiners
      /\ view[Host].state # "Off" =>
           Joined(view[Host], link[c], seat[c], view[c], up[c], down[c], broadcasts, vote[c])
  BY JoinerFacts
<1>1. CASE HostForget(c)
  <2>1. /\ link' = [link EXCEPT ![c] = "gone"] /\ up' = [up EXCEPT ![c] = <<>>]
        /\ UNCHANGED <<view, broadcasts, seat, down, vote>>
    BY <1>1 DEF HostForget, session, history
  <2>2. \A d \in Joiners \ {c} :
           /\ link'[d] = link[d] /\ view'[d] = view[d] /\ vote'[d] = vote[d]
           /\ up'[d] = up[d] /\ down'[d] = down[d]
    BY <1>0, <2>1
  <2>3. link'[c] = "gone"
    BY <1>0, <2>1
  <2>4. Joined(view[Host], link'[c], seat[c], view'[c], up'[c], down'[c], broadcasts, vote'[c])
    BY <2>3 DEF Joined
  <2> QED BY <2>1, <2>2, <2>3, <2>4, PlayerStep
<1>2. CASE HostTimeout(c)
  <2>1. /\ link' = [link EXCEPT ![c] = "dropping"] /\ link[c] = "up"
        /\ UNCHANGED <<view, broadcasts, seat, up, down, vote>>
    BY <1>2 DEF HostTimeout, session, history
  <2>2. \A d \in Joiners \ {c} :
           /\ link'[d] = link[d] /\ view'[d] = view[d] /\ vote'[d] = vote[d]
           /\ up'[d] = up[d] /\ down'[d] = down[d]
    BY <1>0, <2>1
  <2>3. link'[c] = "dropping"
    BY <1>0, <2>1
  <2>4. view[Host].state # "Off" =>
          Joined(view[Host], link'[c], seat[c], view'[c], up'[c], down'[c], broadcasts, vote'[c])
    BY <1>0, <2>1, <2>3 DEF Joined
  <2> QED BY <2>1, <2>2, <2>3, <2>4, PlayerStep
<1> QED BY <1>1, <1>2

\* The worker takes a joiner's frame: a turn of the room.
LEMMA FrameRound ==
  ASSUME RoomInv, RoundInv, NEW c \in Joiners, HostReceive(c)
  PROVE  RoundInv'
<1> DEFINE h == view[Host]
           m == Head(up[c])
           i == seat[c]
           r == Handle(h, order, i, m)
           w == r.view
           out == r.out
<1>0. /\ h.state # "Off" /\ link[c] = "up" /\ up[c] # <<>> /\ up' = [up EXCEPT ![c] = Tail(@)]
      /\ UNCHANGED <<seat, down, vote>>
  BY DEF RoomInv, SeatInv, HostReceive
<1>1. /\ h \in ViewType /\ view[c] \in ViewType /\ up[c] \in Seq(ActionType)
      /\ down[c] \in Seq(RelayType) /\ broadcasts \in Seq(RelayType)
      /\ DOMAIN up = Joiners /\ DOMAIN link = Joiners
      /\ Joined(h, "up", i, view[c], up[c], down[c], broadcasts, vote[c])
  BY <1>0, JoinerFacts
<1>2. up'[c] = Tail(up[c]) /\ \A d \in Joiners \ {c} : up'[d] = up[d]
  BY <1>0, <1>1
<1>3. CASE m.type = "Disconnect" \/ Rejects(h, i, m)
  <2>1. link' = [link EXCEPT ![c] = "dropping"] /\ UNCHANGED <<view, broadcasts>>
    BY <1>3 DEF HostReceive
  <2>2. \A d \in Joiners \ {c} :
           /\ link'[d] = link[d] /\ view'[d] = view[d] /\ vote'[d] = vote[d]
           /\ up'[d] = up[d] /\ down'[d] = down[d]
    BY <1>0, <1>1, <1>2, <2>1
  <2>3. link'[c] = "dropping"
    BY <1>1, <2>1
  <2>4. Joined(view[Host], link'[c], seat[c], view'[c], up'[c], down'[c], broadcasts, vote'[c])
    BY <1>1, <2>3 DEF Joined
  <2> QED BY <1>0, <2>1, <2>2, <2>3, <2>4, PlayerStep
<1>4. CASE ~ (m.type = "Disconnect" \/ Rejects(h, i, m))
  <2>1. /\ view' = [view EXCEPT ![Host] = w] /\ broadcasts' = broadcasts \o out
        /\ UNCHANGED link
    BY <1>4 DEF HostReceive
  <2>2. i \in Ids /\ m \in ActionType /\ i \in h.members
    <3>1. c \in AtTable(link)
      BY <1>0 DEF AtTable
    <3>2. i \in Ids /\ i \in h.members
      BY <1>0, <3>1, HostLeads DEF RoomInv, SeatInv, Seating
    <3> QED BY <1>0, <1>1, <3>2, TailType
  <2>3. /\ w \in ViewType /\ out \in Seq(RelayType) /\ HandleTurn(h, i, m, r) /\ w.id = h.id
        /\ w.state # "Off" /\ w.ready \subseteq w.members
        /\ Turn(h, w) /\ Stamped(w, out) /\ Counts(h, w, i, m)
    BY <1>0, <1>4, <2>2, HandleFacts
  <2>4. HandleTurn(h, i, m, Reply(w, out))
    BY <2>3 DEF HandleTurn, Reply
  <2> HIDE DEF r, w, out
  <2>5. \A d \in AtTable(link) \ {c} : seat[d] # i
    BY <1>0 DEF RoomInv, SeatInv, Seating, AtTable
  <2>6. \A d \in Joiners \ {c} :
          /\ d \in AtTable(link) /\ seat[d] \in w.ready => seat[d] \in view[Host].ready
          /\ link'[d] = link[d] /\ seat'[d] = seat[d] /\ vote'[d] = vote[d]
          /\ up'[d] = up[d] /\ down'[d] = down[d]
    <3>1. \A d \in AtTable(link) \ {c} : seat[d] \in w.ready => seat[d] \in h.ready
      BY <2>3, <2>5 DEF Counts
    <3> QED BY <1>0, <1>2, <2>1, <3>1
  <2>7. Joined(w, "up", i, view[c], Tail(up[c]), down[c], broadcasts \o out, vote[c])
    <3>1. HostRound(h)
      BY <1>0 DEF RoundInv
    <3>2. HandleTurn(h, i, Head(up[c]), Reply(w, out))
      BY <2>4
    <3> QED BY <1>0, <1>1, <2>2, <2>3, <3>1, <3>2, JoinedSender
  <2>8. \A d \in {c} \cap Joiners :
          Joined(w, link'[d], seat'[d], view[d], up'[d], down'[d], broadcasts \o out, vote'[d])
    BY <1>0, <1>2, <2>1, <2>7
  <2> QED BY <1>0, <2>1, <2>3, <2>6, <2>8, HostStep
<1> QED BY <1>3, <1>4

\* The worker removes a player: a turn of the room.
LEMMA RemovalRound ==
  ASSUME RoomInv, RoundInv, NEW c \in Joiners, HostRemove(c)
  PROVE  RoundInv'
<1> DEFINE v == view[Host]
           w == RemovePlayer(v, order, seat[c])
           out == <<RosterMsg(w)>>
<1>0. v.state # "Off" /\ c \in AtTable(link) /\ SeatInv /\ Netted /\ HostRound(v)
  BY DEF RoomInv, RoundInv, SeatInv, HostRemove, AtTable
<1>1. /\ v \in ViewType /\ order \in Seq(Ids) /\ NoRepeat(order) /\ seat[c] \in InOrder(order)
      /\ seat[c] # 1 /\ Seating(v, order, link, seat) /\ Shaped(v)
  BY <1>0, HostLeads DEF SeatInv, Seating
<1>2. w \in ViewType /\ w.id = v.id
  BY <1>1, RemoveTyped
<1>3. w.leader \in w.members /\ w.state \in {v.state, "Listening"} /\ w.members = v.members \ {seat[c]}
  BY <1>1, RemoveLeaves DEF Seating
<1>4. Turn(v, w) /\ w.ready \subseteq v.ready \ {seat[c]}
  BY <1>0, <1>1, RemoveTurns DEF HostRound
<1>5. w.ready \subseteq w.members /\ w.state # "Off"
  BY <1>0, <1>3, <1>4 DEF HostRound
<1>6. out \in Seq(RelayType) /\ Stamped(w, out)
  <2>1. w.leader \in Ids
    BY <1>2, <1>3, ViewFields
  <2>2. RosterMsg(w) \in RelayType
    BY <1>2, <2>1, RosterType
  <2> QED BY <2>2, RosterStamped
<1>7. /\ view' = [view EXCEPT ![Host] = w] /\ broadcasts' = Append(broadcasts, RosterMsg(w))
      /\ link' = [link EXCEPT ![c] = "gone"] /\ up' = [up EXCEPT ![c] = <<>>]
      /\ down' \in {down, [down EXCEPT ![c] = Append(@, Bye)]} /\ UNCHANGED <<seat, vote>>
  BY DEF HostRemove, history
<1> HIDE DEF w
<1>8. broadcasts' = broadcasts \o out
  BY <1>0, <1>6, <1>7 DEF Netted
<1>9. DOMAIN up = Joiners /\ DOMAIN link = Joiners /\ DOMAIN down = Joiners
  BY JoinerFacts
<1>10. \A d \in Joiners \ {c} :
          /\ d \in AtTable(link) /\ seat[d] \in w.ready => seat[d] \in view[Host].ready
          /\ link'[d] = link[d] /\ seat'[d] = seat[d] /\ vote'[d] = vote[d]
          /\ up'[d] = up[d] /\ down'[d] = down[d]
  BY <1>4, <1>7, <1>9
<1>11. \A d \in {c} \cap Joiners :
          Joined(w, link'[d], seat'[d], view[d], up'[d], down'[d], broadcasts \o out, vote'[d])
  <2>1. link'[c] = "gone"
    BY <1>7, <1>9
  <2> QED BY <2>1 DEF Joined
<1> QED BY <1>0, <1>2, <1>4, <1>5, <1>6, <1>7, <1>8, <1>10, <1>11, HostStep

\* The worker seats a joiner, whose first frames bear the room's stamp.
LEMMA GreetRound ==
  ASSUME RoomInv, RoundInv, NEW c \in Joiners, HostGreet(c)
  PROVE  RoundInv'
<1> DEFINE h == view[Host]
           f == FreeId
           w == [h EXCEPT !.members = @ \cup {f}, !.state = "Connected"]
           out == <<RosterMsg(w)>>
<1>0. /\ h.state # "Off" /\ link[c] = "greeting" /\ up[c] # <<>>
      /\ up' = [up EXCEPT ![c] = Tail(@)] /\ vote' = vote /\ SeatInv /\ Netted
      /\ HostRound(h) /\ Broadcast(h, broadcasts)
  BY DEF RoomInv, RoundInv, SeatInv, HostGreet, history
<1>1. /\ h \in ViewType /\ view[c] \in ViewType /\ up[c] \in Seq(ActionType)
      /\ broadcasts \in Seq(RelayType) /\ DOMAIN up = Joiners /\ DOMAIN link = Joiners
      /\ DOMAIN down = Joiners
      /\ Joined(h, "greeting", seat[c], view[c], up[c], down[c], broadcasts, vote[c])
  BY <1>0, JoinerFacts
<1>2. up'[c] = Tail(up[c]) /\ \A d \in Joiners \ {c} : up'[d] = up[d]
  BY <1>0, <1>1
<1>3. CASE h.active # 0 \/ Len(order) >= MaxPlayers
  <2>1. /\ link' = [link EXCEPT ![c] = "gone"] /\ down' = [down EXCEPT ![c] = <<Bye>>]
        /\ UNCHANGED <<view, seat, broadcasts>>
    BY <1>3 DEF HostGreet
  <2>2. \A d \in Joiners \ {c} :
           /\ link'[d] = link[d] /\ view'[d] = view[d] /\ vote'[d] = vote[d]
           /\ up'[d] = up[d] /\ down'[d] = down[d]
    BY <1>0, <1>1, <1>2, <2>1
  <2>3. link'[c] = "gone"
    BY <1>1, <2>1
  <2>4. Joined(view[Host], link'[c], seat[c], view'[c], up'[c], down'[c], broadcasts, vote'[c])
    BY <2>3 DEF Joined
  <2> QED BY <2>1, <2>2, <2>3, <2>4, PlayerStep
<1>4. CASE ~ (h.active # 0 \/ Len(order) >= MaxPlayers)
  <2>1. /\ link' = [link EXCEPT ![c] = "up"] /\ seat' = [seat EXCEPT ![c] = f]
        /\ view' = [view EXCEPT ![Host] = w] /\ down' = [down EXCEPT ![c] = <<WelcomeMsg(f, h)>>]
        /\ broadcasts' = Append(broadcasts, RosterMsg(w))
    BY <1>4 DEF HostGreet
  <2>2. h.leader \in Ids /\ order \in Seq(Ids) /\ InOrder(order) = h.members
    BY <1>0, HostLeads
  <2>3. f \in Ids /\ f \notin h.members
    <3>1. Len(order) < MaxPlayers
      BY <1>4, <2>2, RoomAssumption, LenProperties
    <3>2. 1 \in InOrder(order)
      BY <1>0, <2>2 DEF SeatInv, Seating
    <3> QED BY <2>2, <3>1, <3>2, FreeIdIsFree
  <2> HIDE DEF f
  <2>4. /\ w \in ViewType /\ w.leader = h.leader /\ w.id = h.id /\ w.state = "Connected"
        /\ Stays(h, w) /\ w.ready = h.ready /\ h.members \subseteq w.members
    BY <1>1, <2>3 DEF ViewType, Stays
  <2> HIDE DEF w
  <2>5. Turn(h, w) /\ w.ready \subseteq w.members /\ f \notin w.ready
    BY <1>0, <2>3, <2>4 DEF Turn, HostRound
  <2>6. out \in Seq(RelayType) /\ Stamped(w, out)
    <3>1. RosterMsg(w) \in RelayType
      BY <2>2, <2>4, RosterType
    <3> QED BY <3>1, RosterStamped
  <2>7. broadcasts' = broadcasts \o out
    BY <1>1, <2>1, <2>6
  <2>8. DOMAIN seat = Joiners
    BY <1>0 DEF SeatInv
  <2>9. \A d \in Joiners \ {c} :
          /\ d \in AtTable(link) /\ seat[d] \in w.ready => seat[d] \in view[Host].ready
          /\ link'[d] = link[d] /\ seat'[d] = seat[d] /\ vote'[d] = vote[d]
          /\ up'[d] = up[d] /\ down'[d] = down[d]
    BY <1>0, <1>1, <1>2, <2>1, <2>4, <2>8
  <2>10. Broadcast(w, broadcasts \o out)
    BY <1>0, <1>1, <2>4, <2>5, <2>6, TurnBroadcast DEF Stays, HostRound, Starts, AllReady
  <2>11. Joined(w, "up", f, view[c], Tail(up[c]), <<WelcomeMsg(f, h)>>, broadcasts \o out, vote[c])
    <3> DEFINE u == Tail(up[c])
               d == <<WelcomeMsg(f, h)>>
               b == broadcasts \o out
    <3>1. \A k \in DOMAIN u : u[k].type # "Ready"
      <4>1. \A k \in DOMAIN u : k + 1 \in DOMAIN up[c] /\ u[k] = up[c][k + 1]
        BY <1>0, <1>1, TailFrames
      <4>2. \A k \in DOMAIN up[c] : up[c][k].type # "Ready"
        BY <1>1 DEF Joined, Waits, Words
      <4> QED BY <4>1, <4>2
    <3>2. \A k \in DOMAIN d : d[k].type \notin Stamps
      BY DEF WelcomeMsg, Stamps
    <3> HIDE DEF u, d, b
    <3>3. Votes(w, w.ready, f, u, b)
      BY <2>5, <3>1 DEF Votes, Dated, Before
    <3>4. ASSUME view[c].state # "Off"
          PROVE  Follows(w, w.ready, f, view[c], u, d, b) /\ Speaks(u, vote[c])
                 /\ Fresh(w, w.ready, f, u, vote[c])
      <4>1. view[c].rev = 1 /\ view[c].active = 0 /\ view[c].rate = DefaultRate
        BY <1>1, <3>4 DEF Joined, Waits
      <4>2. w.rev = h.rev /\ w.rate = h.rate /\ w.active = 0 /\ h.rev \in Nat
        BY <1>1, <1>4, <2>4, ViewFields DEF Stays
      <4>3. OfRoom(w, view[c].rev, view[c].rate, view[c].active)
        BY <1>0, <4>1, <4>2 DEF OfRoom, HostRound
      <4>4. Dated(Stamps, d) /\ Since(Stamps, d, 1) /\ Known(w, d) /\ Before(Stamps, d, b)
        BY <3>2 DEF Dated, Since, Known, Before
      <4>5. Since(Stamps, b, 1)
        BY <2>10 DEF Broadcast, b
      <4>6. Follows(w, w.ready, f, view[c], u, d, b)
        BY <2>5, <3>1, <4>1, <4>3, <4>4, <4>5 DEF Follows
      <4>7. Speaks(u, vote[c]) /\ Fresh(w, w.ready, f, u, vote[c])
        BY <2>5, <3>1 DEF Speaks, Fresh
      <4> QED BY <4>6, <4>7
    <3>5. Joined(w, "up", f, view[c], u, d, b, vote[c])
      BY <2>5, <3>3, <3>4 DEF Joined
    <3> QED BY <3>5 DEF u, d, b
  <2>12. \A d \in {c} \cap Joiners :
          Joined(w, link'[d], seat'[d], view[d], up'[d], down'[d], broadcasts \o out, vote'[d])
    BY <1>0, <1>1, <1>2, <2>1, <2>8, <2>11
  <2> QED BY <1>0, <2>1, <2>4, <2>5, <2>6, <2>7, <2>9, <2>12, HostStep
<1> QED BY <1>3, <1>4

-----------------------------------------------------------------------------
(* The rounds of every behaviour.                                          *)

\* No round before anybody hosts.
LEMMA InitRound == Init => RoundInv
<1> SUFFICES ASSUME Init PROVE RoundInv
  OBVIOUS
<1>1. view[Host] = HostView /\ broadcasts = <<>>
  BY DEF Init, Procs
<1>2. /\ HostView.state = "Listening" /\ HostView.id = 1 /\ HostView.ready = {}
      /\ HostView.rev = 1 /\ HostView.rate = DefaultRate /\ HostView.active = 0
  BY DEF HostView, FreshView
<1>3. HostRound(HostView)
  BY <1>2 DEF HostRound
<1>4. Broadcast(HostView, <<>>)
  BY DEF Broadcast, Known, Dated, Since
<1>5. ASSUME NEW c \in Joiners
      PROVE  Joined(HostView, link[c], seat[c], view[c], up[c], down[c], <<>>, vote[c])
  <2>1. link[c] = "none" /\ up[c] = <<>> /\ down[c] = <<>> /\ view[c] = OffView
    BY RoomAssumption DEF Init, Procs
  <2>2. OffView.state = "Off"
    BY DEF OffView, FreshView
  <2>3. Waits(view[c], up[c], down[c])
    BY <2>1, <2>2 DEF Waits
  <2> QED BY <2>1, <2>3 DEF Joined
<1> QED BY <1>1, <1>2, <1>3, <1>4, <1>5 DEF RoundInv

\* Every step keeps the rounds, one case per action.
LEMMA StepRound == RoomInv /\ RoundInv /\ [Next]_vars => RoundInv'
<1> SUFFICES ASSUME RoomInv, RoundInv, [Next]_vars PROVE RoundInv'
  OBVIOUS
<1>1. CASE \E p \in Procs : Lobby(p) \/ Game(p) \/ SetReady(p) \/ LiveScore(p) \/ Chat(p)
                             \/ (\E x \in Charts : ChooseChart(p, x))
                             \/ (\E r \in Rates : SetRate(p, r))
  BY <1>1, LobbyRound, ReadyRound, RateRound, LoadRound, ResultRound DEF Lobby, Game
<1>2. CASE \E c \in Joiners : Joiner(c) \/ Leave(c)
  BY <1>2, JoinerRound
<1>3. CASE HostLocal \/ HostFlush \/ HostEndPass
  BY <1>3, LocalRound, FlushRound, EndRound
<1>4. CASE \E c \in Joiners : HostGreet(c) \/ HostForget(c) \/ HostReceive(c) \/ HostTimeout(c)
                               \/ HostRemove(c)
  BY <1>4, GreetRound, DropRound, FrameRound, RemovalRound
<1>5. CASE HostClose
  BY <1>5, CloseRound
<1>6. CASE UNCHANGED vars
  BY <1>6, SameRoundInv DEF vars
<1> QED BY <1>1, <1>2, <1>3, <1>4, <1>5, <1>6 DEF Next, Course, Extra, Worker

\* Both invariants hold in every state.
LEMMA RoundAlways == Spec => [](RoomInv /\ RoundInv)
<1>1. Init => RoomInv /\ RoundInv
  BY InitRoom, InitRound
<1>2. RoomInv /\ RoundInv /\ [Next]_vars => (RoomInv /\ RoundInv)'
  BY StepRoom, StepRound
<1> QED BY <1>1, <1>2, PTL DEF Spec

\* The copy of a player at the table follows the room.
LEMMA SeatedFollows ==
  ASSUME RoomInv, RoundInv, NEW c \in Joiners, Seated(c)
  PROVE  /\ view[Host].state # "Off" /\ HostRound(view[Host])
         /\ Follows(view[Host], view[Host].ready, seat[c], view[c], up[c], down[c], broadcasts)
         /\ Fresh(view[Host], view[Host].ready, seat[c], up[c], vote[c])
<1>1. view[c].state # "Off" /\ link[c] = "up"
  BY RoomAssumption DEF Seated
<1>2. view[Host].state # "Off"
  BY <1>1 DEF RoundInv
<1> QED BY <1>1, <1>2 DEF RoundInv, Joined

\* However late the rosters and launches of a joiner are (apply_client_roster_locked),
\* the round of its copy is the one that runs or the one closed last: one
\* last_closed_round_nonce is enough for every Loaded, Score and RoundReset.
THEOREM RoundsKnown == Spec => []RoundKnown
<1>1. RoomInv /\ RoundInv => RoundKnown
  <2> SUFFICES ASSUME RoomInv, RoundInv, NEW c \in Joiners, Seated(c), view[c].active # 0
               PROVE  view[c].active \in {view[Host].active, view[Host].closed}
    BY DEF RoundKnown
  <2> QED BY SeatedFollows DEF Follows, OfRoom
<1> QED BY <1>1, RoundAlways, PTL

\* The rate of a room never changes under a round: whoever loads or plays the
\* coordinator's round took its rate from a launch or a roster of that very
\* revision (cancel_launch_locked and set_rate raise rate_revision).
THEOREM OneRate == Spec => []SameRate
<1>1. RoomInv /\ RoundInv => SameRate
  <2> SUFFICES ASSUME RoomInv, RoundInv, NEW p \in Procs, Seated(p), view[p].active # 0,
                      view[p].active = view[Host].active
               PROVE  view[p].roundRate = view[Host].roundRate
    BY DEF SameRate
  <2>1. CASE p = Host
    BY <2>1
  <2>2. CASE p \in Joiners
    BY <2>2, SeatedFollows DEF Follows, HostRound
  <2> QED BY <2>1, <2>2 DEF Procs
<1> QED BY <1>1, RoundAlways, PTL

\* A Ready that the coordinator counts is the player's last word on the current
\* settings, or the frame that takes it back is under way, in whatever order
\* votes, charts, rates and rounds cross.
THEOREM VotesCurrent == Spec => []VotesFresh
<1>1. RoomInv /\ RoundInv => VotesFresh
  <2> SUFFICES ASSUME RoomInv, RoundInv, NEW c \in Joiners, Seated(c),
                      seat[c] \in view[Host].ready, view[Host].active = 0
               PROVE  \/ vote[c] = view[Host].rev
                      \/ \E k \in DOMAIN up[c] : up[c][k].type \in {"Ready", "Chart", "Disconnect"}
    BY DEF VotesFresh
  <2> QED BY SeatedFollows DEF Fresh, Words
<1> QED BY <1>1, RoundAlways, PTL
=============================================================================

