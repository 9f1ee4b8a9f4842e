-------------------------- MODULE TravelEncounter --------------------------
(***************************************************************************)
(* A trip to an objective (TravelEncounter.cpp): the place that is drawn   *)
(* for it, the way that is planned and planned again, the shaping on what  *)
(* is left of it, and arriving, once or leg after leg of a chain.  The     *)
(* ground is a line of places; Ground says of each what the map would.     *)
(* A step is one decision.  Time counts decisions.                         *)
(***************************************************************************)
EXTENDS RoutePlanner, CombatTally

CONSTANTS Kind, Chain, Ground, Nearest, Furthest, Share, Refresh, Stray, Corner

VARIABLES env, paid

vars == <<env, paid>>

-----------------------------------------------------------------------------
(* The objective.                                                           *)

\* FindPlace: places within reach of where the seat stands that the map does
\* not refuse, of the kind that is asked for, and near enough to be walked to
\* in its share of the time that is left.
Affordable(now) == (EpisodeDecisions - now) \div Share

OfKind(kind, g) ==
    CASE kind = "water" -> ~g.wet /\ g.routed /\ g.crosses /\ g.dry > g.walk
      [] kind = "air" -> ~g.wet /\ ~g.routed
      [] kind = "ledge" -> ~g.wet /\ g.routed /\ g.edge
      [] kind = "dive" -> g.wet
      [] OTHER -> ~g.wet /\ g.routed

FindPlace(kind, at, now, least, most) ==
    {x \in Places : /\ Apart(x, at) \in least .. most
                    /\ OfKind(kind, Ground[x])
                    /\ (IF kind = "dive" THEN Apart(x, at) ELSE Ground[x].walk) <= Affordable(now)}

\* Build: what the arena asks for, else an ordinary trip, else no episode.
Objectives ==
    LET asked == FindPlace(Kind, 0, 0, Nearest, Furthest)
    IN  IF asked # {} THEN {[place |-> x, kind |-> Kind] : x \in asked}
        ELSE {[place |-> x, kind |-> "plain"] : x \in FindPlace("plain", 0, 0, Nearest, Furthest)}

Build(soul) ==
    {With(NewTally(soul),
     [at |-> 0, goal |-> o.place, kind |-> o.kind, way |-> NoRoute, wayAt |-> 0, last |-> -1, legs |-> 0,
      broken |-> FALSE, arrived |-> FALSE, arriveAt |-> 0]) : o \in Objectives}

NothingPaid == [arrive |-> 0, death |-> 0, base |-> 0, progress |-> 0]

-----------------------------------------------------------------------------
(* The way there.                                                           *)

\* RefreshWay: a way is planned when there is none, the seat strayed from it,
\* it is old, or it ends elsewhere.
Stale(e) ==
    LET way == Advance(e.way, e.at, Corner)
    IN  \/ ~e.way.valid
        \/ Apart(e.at, way.corners[way.next]) > Stray
        \/ e.now >= e.wayAt + Refresh
        \/ e.way.to # e.goal

Flying == Kind = "air"
Replans(e) == e.alive /\ ~Flying /\ Stale(e)

RefreshWay(e) ==
    IF ~e.alive \/ Flying THEN {e}
    ELSE IF Stale(e) THEN {[e EXCEPT !.way = way, !.wayAt = e.now] : way \in Plan(e.at, e.goal)}
    ELSE {[e EXCEPT !.way = Advance(@, e.at, Corner)]}

\* WayDistance: along the way, and over the gap where it stops short.
WayDistance(e) ==
    IF ~e.way.valid THEN Apart(e.at, e.goal)
    ELSE RemainingFrom(e.way, e.at) + (IF e.way.complete THEN 0 ELSE Apart(Last(e.way.corners), e.goal))

-----------------------------------------------------------------------------
(* Reward, with r the state after RefreshWay.                               *)

\* A mutant of Shaped: a way planned again pays the change.
ShapedAlways(e, r) == e.last >= 0 /\ ~e.arrived

Shaped(e, r) == e.last >= 0 /\ ~e.arrived /\ ~Replans(e)
Progress(e, r) == IF Shaped(e, r) THEN e.last - WayDistance(r) ELSE 0

AtObjective(e) == e.alive /\ e.at = e.goal /\ ~e.arrived /\ ~e.broken

\* NextLeg: another place of the arena's kind from where the seat stands, in
\* the time left; none breaks the chain.
NextLeg(e) ==
    LET places == FindPlace(Kind, e.at, e.now, Nearest, Furthest)
    IN  IF places = {} THEN {[e EXCEPT !.broken = TRUE]}
        ELSE {[e EXCEPT !.goal = x, !.last = -1] : x \in places}

Arrives(e) ==
    IF ~AtObjective(e) THEN {e}
    ELSE IF Chain THEN NextLeg([e EXCEPT !.legs = @ + 1, !.arriveAt = IF e.legs = 0 THEN e.now ELSE @])
    ELSE {[e EXCEPT !.arrived = TRUE, !.arriveAt = e.now]}

Clock(e) == [e EXCEPT !.timedOut = @ \/ (~e.arrived /\ TimeIsUp(e))]

Reward(r) == {Clock(CountDeath(a)) : a \in Arrives([r EXCEPT !.last = WayDistance(r)])}

\* Progress is added up over one potential: one way, or one straight line,
\* to one objective.
SamePotential(e, r, after) ==
    e.last >= 0 /\ e.goal = after.goal /\ e.way.corners = r.way.corners /\ e.way.valid = r.way.valid
    /\ ~Replans(e)

Pay(e, r, after, p) ==
    [arrive |-> p.arrive + Bit(AtObjective(r)), death |-> p.death + after.deaths - e.deaths,
     base |-> IF SamePotential(e, r, after) THEN p.base ELSE after.last,
     progress |-> Progress(e, r) + (IF SamePotential(e, r, after) THEN p.progress ELSE 0)]

IsTerminal(e) == e.arrived \/ DeadForGood(e) \/ TimeIsUp(e)

-----------------------------------------------------------------------------

\* What the world did since the last decision: the seat walked a place, fell
\* or stood up.
World(e) == {[l EXCEPT !.at = x] : l \in Lives(e), x \in {y \in Places : Apart(y, e.at) <= Bit(e.alive)}}

Decide ==
    /\ ~env.over
    /\ \E e \in World(env) : \E r \in RefreshWay(e) : \E after \in Reward(r) :
          /\ paid' = Pay(e, r, after, paid)
          /\ env' = [after EXCEPT !.over = IsTerminal(after)]

NextEpisode == env.over /\ (\E soul \in BOOLEAN : env' \in Build(soul)) /\ paid' = NothingPaid

Init == (\E soul \in BOOLEAN : env \in Build(soul)) /\ paid = NothingPaid

Next == Decide \/ NextEpisode

Spec == Init /\ [][Next]_vars

-----------------------------------------------------------------------------

\* "What is closed pays, what is given back costs, so wandering cannot be
\* farmed": what the shaping paid on one potential is what the seat is nearer
\* by, and a way planned again or another leg pays nothing for the change.
WanderingPaysNothing ==
    /\ env.last >= 0 => paid.progress = paid.base - env.last
    /\ env.way.valid => NeverJumps(env.way)

\* A trip is paid for arriving once, or once a leg; whoever did not arrive
\* timed out or died; the objective was one the clock allowed for.
TripSettled ==
    env.over =>
        /\ paid.death = env.deaths
        /\ paid.arrive = (IF Chain THEN env.legs ELSE Bit(env.arrived))
        /\ ~env.arrived => env.timedOut \/ env.died
        /\ Chain /\ env.broken => env.legs > 0
        /\ ~Chain => Ground[env.goal].walk * Share <= EpisodeDecisions
=============================================================================
