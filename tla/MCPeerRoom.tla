----------------------------- MODULE MCPeerRoom -----------------------------
(* Instances of PeerRoom for TLC.  Init starts with a host alone; the other *)
(* initial states are ones the room reaches by itself, so that a run can    *)
(* spend its states on what happens after them.                             *)
EXTENDS PeerRoom, TLC

\* The joiner that came first, and the seats of those who are in the room.
First == CHOOSE c \in Joiners : TRUE

Seating(guests) ==
  CHOOSE s \in [Joiners -> 0..(Cardinality(guests) + 1)] :
    /\ \A c \in Joiners : s[c] > 1 <=> c \in guests
    /\ \A c \in Joiners : s[c] # 1
    /\ \A c, d \in guests : s[c] = s[d] => c = d

\* The room of the members all as player id knows it: with nobody but the host,
\* and with everybody ready on the leader's chart, before the first round and
\* before the second, when the lead has gone to the joiner that came first.
Ready(v) ==
  [v EXCEPT !.ready = v.members,
     !.chart = [i \in Ids |-> IF i \in v.members THEN CHOOSE x \in Charts : TRUE ELSE NoChart]]
EmptyView(id, all) == HostView
FirstView(id, all) ==
  Ready([FreshView(id, "Connected") EXCEPT !.members = all, !.leader = 1])
PlayedView(id, all) ==
  Ready([FreshView(id, "Connected") EXCEPT !.members = all, !.leader = 2, !.rev = 2, !.closed = 1])

\* A room with these guests and nothing under way; some joiners may still come,
\* the others have left it.  So much of the bounds is used up.
Seats(guests, comers, RoomView(_, _), launches, extras) ==
  LET all == 1..(Cardinality(guests) + 1)
      id(p) == IF p = Host THEN 1 ELSE Seating(guests)[p]
      room(p) == IF p \in guests \cup {Host} THEN RoomView(id(p), all) ELSE OffView
  IN
  /\ view = [p \in Procs |-> room(p)]
  /\ ui = [p \in Procs |-> [at |-> "lobby", path |-> Selected(room(p)),
                            target |-> IF p = Host THEN NoChart ELSE Selected(room(p))]]
  /\ order = [k \in all |-> k]
  /\ link = [c \in Joiners |-> IF c \in guests THEN "up" ELSE IF c \in comers THEN "none" ELSE "gone"]
  /\ seat = Seating(guests)
  /\ controls = <<>> /\ batch = 0 /\ broadcasts = <<>> /\ phase = "drain"
  /\ up = [c \in Joiners |-> <<>>]
  /\ down = [c \in Joiners |-> <<>>]
  /\ rounds = launches /\ spent = extras
  /\ faults = {}
  /\ loadedFor = [p \in Procs |-> room(p).closed]
  /\ vote = [p \in Procs |-> IF room(p).ready # {} THEN room(p).rev ELSE 0]

Everybody(launches, extras) == Seats(Joiners, {}, PlayedView, launches, extras)

\* A room of two: it fills up, with one event or with one round to come; it is
\* ready for its second round; or it is full and somebody else comes.
InitPair ==
  \/ \E n \in 1..2 : Seats({}, {First}, EmptyView, n, 2 - n)
  \/ Seats({First}, {}, PlayedView, 1, 0)
  \/ Seats({First}, Joiners, PlayedView, 2, 0)

\* A room of three: everybody is ready for the second round, with one event to
\* come; or two are, with none, and the third comes; or two are ready for the
\* first, with two rounds and two events.
InitTrio ==
  \/ Everybody(1, 1)
  \/ Seats({First}, Joiners, PlayedView, 1, 2)
  \/ Seats({First}, {}, FirstView, 0, 0)

SpecPair == InitPair /\ [][Next]_vars /\ Fairness
SpecTrio == InitTrio /\ [][Next]_vars
SpecReady == Everybody(1, 0) /\ [][Next]_vars
=============================================================================
