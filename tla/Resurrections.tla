--------------------------- MODULE Resurrections ---------------------------
(***************************************************************************)
(* Resurrection offers (StageScenario::AcceptResurrections): a bot has no  *)
(* client to answer one, so the stage polls for them every decision, and   *)
(* pays the seat that made it when its ally stands.                        *)
(***************************************************************************)
EXTENDS Integers, FiniteSets

CONSTANTS Slots,        \* the seats and the owner's slot
          Seats,        \* those that play an agent, and may be paid
          Retry,        \* RESURRECT_RETRY_MS, in decisions
          MaxDeaths, EpisodeDecisions, Episodes, \* bounds
          NoSeat, Stranger \* somebody who is no seat, and is never paid

VARIABLE env

vars == <<env>>

Larger(a, b) == IF a > b THEN a ELSE b
Alive == {s \in Slots : env.alive[s]}

Init == env = [clock |-> 0, episode |-> 1,
               alive |-> [s \in Slots |-> TRUE],
               request |-> [s \in Slots |-> NoSeat],     \* the core's resurrect request data
               by |-> [s \in Slots |-> NoSeat], ms |-> [s \in Slots |-> 0],
               \* Over all episodes.
               revives |-> [s \in Seats |-> 0],
               deaths |-> [s \in Slots |-> 0], offers |-> [s \in Seats |-> 0]]

-----------------------------------------------------------------------------
(* The world between two decisions.                                         *)

Die(s) == /\ env.alive[s] /\ env.deaths[s] < MaxDeaths
          /\ env' = [env EXCEPT !.alive[s] = FALSE, !.deaths[s] = @ + 1]

\* A resurrection spell on a corpse that has no request yet.
Offer(s, by) ==
    /\ ~env.alive[s] /\ env.request[s] = NoSeat /\ by # s
    /\ by = Stranger \/ by \in Alive
    /\ env' = [env EXCEPT !.request[s] = by,
                          !.offers = [seat \in Seats |-> IF seat = by THEN @[seat] + 1 ELSE @[seat]]]

\* ResurectUsingRequestData lands, at once or when a delayed teleport is done, or
\* the player stands up some other way: a soulstone, the recovery between pulls.
Stand(s) == /\ ~env.alive[s]
            /\ env' = [env EXCEPT !.alive[s] = TRUE]

World == \E s \in Slots : Die(s) \/ Stand(s) \/ \E by \in (Slots \intersect Seats) \union {Stranger} : Offer(s, by)

-----------------------------------------------------------------------------

\* AcceptResurrections for a player that stands: pay the seat that offered it.
Landed(s) == env.alive[s] /\ env.ms[s] > 0
PaidTo(seat) == Cardinality({s \in Slots : Landed(s) /\ env.by[s] = seat})

\* ... and for one that is dead: take the offer made, and not one on its way.
Accepted(s) == /\ ~env.alive[s] /\ env.request[s] # NoSeat
               /\ env.ms[s] > 0 => env.clock >= env.ms[s] + Retry

Decide ==
    /\ env.clock < EpisodeDecisions
    /\ env' = [env EXCEPT !.clock = @ + 1,
                          !.revives = [seat \in Seats |-> @[seat] + PaidTo(seat)],
                          !.request = [s \in Slots |-> IF Landed(s) THEN NoSeat ELSE @[s]],
                          !.by = [s \in Slots |-> IF Accepted(s) THEN env.request[s] ELSE @[s]],
                          !.ms = [s \in Slots |-> IF Landed(s) THEN 0 ELSE IF Accepted(s) THEN Larger(1, env.clock) ELSE @[s]]]

\* Rebuild: a seat's character is kept, and made to stand, or is a new one
\* nobody offered anything.
NewEpisode ==
    /\ env.clock = EpisodeDecisions /\ env.episode < Episodes
    /\ \E kept \in SUBSET Slots :
       env' = [env EXCEPT !.clock = 0, !.episode = @ + 1,
                          !.alive = [s \in Slots |-> TRUE],
                          !.request = [s \in Slots |-> IF s \in kept THEN env.request[s] ELSE NoSeat],
                          !.by = [s \in Slots |-> NoSeat], !.ms = [s \in Slots |-> 0]]

Next == World \/ Decide \/ NewEpisode
Spec == Init /\ [][Next]_vars

-----------------------------------------------------------------------------

\* AcceptResurrections: "Pay the seat that offered it, once": a seat is never
\* credited with more allies than it made offers, whatever deaths, delays and
\* other ways up come between.  The comment at Stages.cpp:815 says that one offer
\* pays at "every later death of that ally": it is older than the request being
\* cleared here.
RevivesWereOffered == \A s \in Seats : env.revives[s] <= env.offers[s]

\* What the theorem takes its constants to be: nobody is not a seat that is paid.
ReviveConstants == IsFiniteSet(Slots) /\ NoSeat \notin Seats

=============================================================================
