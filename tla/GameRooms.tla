------------------------------ MODULE GameRooms ------------------------------
(***************************************************************************)
(* What the lobby server promises about games: a player is in one game at  *)
(* most, a game is there as long as its host is in it, and it is over for  *)
(* everyone in it in the step in which its host hosts anew, joins another  *)
(* or goes.  Testserver.tla keeps this in two maps, each of which can have *)
(* more to say.                                                            *)
(***************************************************************************)
CONSTANT Player

VARIABLE
  room   \* the host of the game each player in a game is in

Init == room = <<>>

\* Those who stay where they are when p leaves its game.
Staying(p) == {q \in DOMAIN room : q # p /\ room[q] # p}

With(players, p, host) ==
  [q \in players \cup {p} |-> IF q = p THEN host ELSE room[q]]

Leave(p) == room' = [q \in Staying(p) |-> room[q]]

Host(p) == room' = With(Staying(p), p, p)

\* Only a game whose host is in it, and goes on, can be joined.
Join(p, host) ==
  /\ host \in Staying(p)
  /\ room[host] = host
  /\ room' = With(Staying(p), p, host)

Next ==
  \E p \in Player : Leave(p) \/ Host(p) \/ \E host \in Staying(p) : Join(p, host)

Spec == Init /\ [][Next]_room
=============================================================================
