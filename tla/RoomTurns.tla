----------------------------- MODULE RoomTurns -----------------------------
(* What a room promises its players (docs/multiplayer.md): one of those who *)
(* are there leads, a round is loaded, then played, then over, and every    *)
(* round that was played hands the lead to the next player in the order of  *)
(* joining.  It knows neither frames nor votes nor copies of the room.      *)
EXTENDS Integers, Sequences

CONSTANT Players   \* the ids that the room gives out; 1 is the one that hosts

VARIABLES queue,   \* who is there, in the order of joining
          leader,  \* who leads, 0 once the room is closed
          stage    \* "lobby", "loading", "playing" or "closed"

turns == <<queue, leader, stage>>

Present == {queue[k] : k \in DOMAIN queue}

\* The others, in the same order.
Rest(p) == LET at == CHOOSE k \in DOMAIN queue : queue[k] = p
           IN SubSeq(queue, 1, at - 1) \o SubSeq(queue, at + 1, Len(queue))

\* Who comes after p, the first one again after the last.
After(q, p) == LET k == CHOOSE k \in DOMAIN q : q[k] = p
               IN IF k = Len(q) THEN q[1] ELSE q[k + 1]

\* A room between two rounds.
Init ==
  /\ queue \in Seq(Players) /\ queue # <<>> /\ queue[1] = 1
  /\ \A i, j \in DOMAIN queue : queue[i] = queue[j] => i = j
  /\ leader \in Present
  /\ stage = "lobby"

Join(p) ==
  /\ stage = "lobby" /\ p \in Players \ Present
  /\ queue' = Append(queue, p)
  /\ UNCHANGED <<leader, stage>>

Launch ==
  /\ stage = "lobby" /\ Len(queue) > 1
  /\ stage' = "loading"
  /\ UNCHANGED <<queue, leader>>

\* A launch is taken back before it begins: the same player leads.
CallOff ==
  /\ stage = "loading" /\ stage' = "lobby"
  /\ UNCHANGED <<queue, leader>>

Begin ==
  /\ stage = "loading" /\ stage' = "playing"
  /\ UNCHANGED <<queue, leader>>

EndRound ==
  /\ stage = "playing" /\ stage' = "lobby"
  /\ leader' = After(queue, leader)
  /\ UNCHANGED queue

\* Whoever leaves, the others go on, and a player left alone leads an empty
\* lobby.  If it is the leader, the one who came after leads from now on and is
\* not skipped.  The one who leaves may be the last that the end of the round
\* waits for; if it did not lead, the lead passes on as after any round.
Depart(p) ==
  /\ stage # "closed" /\ p \in Present \ {1}
  /\ queue' = Rest(p)
  /\ IF Len(Rest(p)) = 1
     THEN leader' = 1 /\ stage' = "lobby"
     ELSE \/ /\ stage' = stage
             /\ leader' = IF p = leader THEN After(queue, p) ELSE leader
          \/ /\ stage = "playing" /\ stage' = "lobby"
             /\ leader' = IF p = leader THEN After(queue, p) ELSE After(Rest(p), leader)

Close ==
  /\ stage # "closed" /\ stage' = "closed"
  /\ leader' = 0
  /\ UNCHANGED queue

Next ==
  \/ \E p \in Players : Join(p) \/ Depart(p)
  \/ Launch \/ CallOff \/ Begin \/ EndRound \/ Close

Spec == Init /\ [][Next]_turns
=============================================================================
