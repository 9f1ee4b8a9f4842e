--------------------------- MODULE LifeEncounter ---------------------------
(***************************************************************************)
(* What the quest, gather and town encounters share (LifeEncounter.cpp):   *)
(* the waypoint the seat is shaped toward, the band drawn on a difficulty  *)
(* ladder, a death and an outcome that are paid once.  An encounter's      *)
(* state e has these fields and its own; the seat is on a line of places.  *)
(***************************************************************************)
EXTENDS DifficultyLadder

CONSTANTS EpisodeDecisions, Far

Places == 0 .. Far
NoWay == [kind |-> "none", to |-> 0]
Apart(a, b) == IF a > b THEN a - b ELSE b - a

\* BeforeLevel: the band is drawn, and the episode starts over in it.
NewLife(row, pick) ==
    [now |-> 0, over |-> FALSE, row |-> row, pick |-> pick, recorded |-> FALSE, at |-> 0, alive |-> TRUE,
     died |-> FALSE, deathPaid |-> FALSE, outcomePaid |-> FALSE, won |-> FALSE,
     way |-> NoWay, last |-> -1, wasted |-> 0, wastedPaid |-> 0]

\* An encounter's state: the shared fields, and its own.
With(shared, own) ==
    [field \in DOMAIN shared \cup DOMAIN own |-> IF field \in DOMAIN shared THEN shared[field] ELSE own[field]]

NothingEarned ==
    [death |-> 0, outcome |-> 0, recorded |-> 0, wasted |-> 0, progress |-> 0, toward |-> NoWay]

\* SetWaypoint and ClearWaypoint: another kind of waypoint starts the
\* potential over.
SetWaypoint(e, kind, to) ==
    [e EXCEPT !.last = IF e.way.kind = kind THEN @ ELSE -1, !.way = [kind |-> kind, to |-> to]]
ClearWaypoint(e) == [e EXCEPT !.way = NoWay, !.last = -1]

TimeIsUp(e) == e.now >= EpisodeDecisions

\* Shaped on the distance to the waypoint, when the last decision had one.
Shaped(e) == e.alive /\ e.way # NoWay
Progress(e) == IF Shaped(e) /\ e.last >= 0 THEN e.last - Apart(e.at, e.way.to) ELSE 0

Over(e, finished) == finished \/ e.died \/ TimeIsUp(e)

\* Reward before the encounter's own terms, and after them.
Shared(e) ==
    [e EXCEPT !.died = @ \/ ~e.alive, !.deathPaid = @ \/ ~e.alive, !.wastedPaid = e.wasted,
              !.last = IF Shaped(e) THEN Apart(e.at, e.way.to) ELSE @]

Outcome(e, finished) ==
    IF ~Over(e, finished) \/ e.outcomePaid THEN e
    ELSE [e EXCEPT !.outcomePaid = TRUE, !.won = finished, !.recorded = TRUE,
                   !.row = IF ~e.recorded /\ e.pick.counts THEN Record(@, e.pick.tier, finished) ELSE @]

\* What those pay, with s the encounter's state after Shared and its own terms.
EarnShared(e, s, p, finished) ==
    LET bit(b) == IF b THEN 1 ELSE 0
    IN  [p EXCEPT !.death = @ + bit((e.died \/ ~e.alive) /\ ~e.deathPaid),
                  !.wasted = @ + e.wasted - e.wastedPaid,
                  !.progress = Progress(e), !.toward = e.way,
                  !.outcome = @ + bit(Over(s, finished) /\ ~s.outcomePaid),
                  !.recorded = @ + bit(Over(s, finished) /\ ~s.outcomePaid /\ ~s.recorded)]

IsTerminal(e, finished) == Over(e, finished)

\* What the world makes of the seat: it walks a place, or is killed.
Walks(e, to) == [e EXCEPT !.now = @ + 1, !.at = to]
SeatMoves(e) ==
    {Walks(e, to) : to \in {x \in Places : Apart(x, e.at) <= 1}} \cup {[e EXCEPT !.now = @ + 1, !.alive = FALSE]}

\* An episode that is over was recorded and settled once, and its death and
\* its wasted presses were paid once.
LifeSettled(e, p, finished) ==
    e.over => /\ p.outcome = 1 /\ p.recorded = 1 /\ e.won = finished
              /\ p.death = (IF e.died THEN 1 ELSE 0) /\ p.wasted = e.wasted
=============================================================================
