--------------------------- MODULE GroundHazards ---------------------------
(***************************************************************************)
(* The drill with nothing in it but fire (HazardEncounter.cpp in           *)
(* src/src/Scenario/Curriculum/Encounters), and what a seat is told of     *)
(* fire anywhere (TrackHazards of StageScenario.cpp, FindNearestHazard of  *)
(* Layout/EncoderSupport.cpp): a search once a while, and the fire it      *)
(* found measured again between two.  Places are yards of a line; a seat   *)
(* looks along it or back, and its body turns the way it runs.             *)
(***************************************************************************)
EXTENDS Integers, FiniteSets, FiniteSetsExt

CONSTANTS Length, Radius, Burns,    \* the line, a patch, and how long it burns
          PlaceEvery, Search,       \* PLACE_EVERY_MS and HAZARD_SEARCH_MS
          EpisodeDecisions, Episodes

VARIABLE env

vars == <<env>>

NoHazard == [present |-> FALSE, at |-> 0, distance |-> 0, ahead |-> TRUE]
\* HazardEncounter::Clear: the fire goes with its emitter.
Clear(e) == {}

\* ResetEpisode, BeforeRebuild and Build: the seat where it is, the first patch
\* one interval in.
NewEpisode(e, episode) ==
    [episode |-> episode, now |-> 0, over |-> FALSE, x |-> 0, facing |-> 1, body |-> 1, alive |-> TRUE,
     patches |-> Clear(e), nextAt |-> PlaceEvery, searchAt |-> 0, near |-> NoHazard, placed |-> 0]
Init == env = NewEpisode([patches |-> {}], 1)

-----------------------------------------------------------------------------

\* HazardEncounter::Update: under the seat, where it is standing now.
Update(e) ==
    IF e.now < e.nextAt THEN e
    ELSE [e EXCEPT !.nextAt = e.now + PlaceEvery,
                   !.patches = IF e.alive THEN @ \cup {[at |-> e.x, until |-> e.now + Burns]} ELSE @,
                   !.placed = IF e.alive THEN @ + 1 ELSE @]

Gap(a, b) == IF a > b THEN a - b ELSE b - a
Ahead(from, at, way) == (at - from) * way >= 0

\* FindNearestHazard: by its edge; its bearing is off the body.
FindNearestHazard(e) ==
    IF e.patches = {} THEN NoHazard
    ELSE LET p == CHOOSE p \in e.patches : \A q \in e.patches : Gap(e.x, p.at) <= Gap(e.x, q.at)
         IN  [present |-> TRUE, at |-> p.at, distance |-> Gap(e.x, p.at), ahead |-> Ahead(e.x, p.at, e.body)]
StandingInHazards(e) == {p \in e.patches : Gap(e.x, p.at) <= Radius}

\* TrackHazards, of a seat that lives: a search when one is due, else the fire it
\* knows of measured again, off the way it looks.
Due(e) == e.now >= e.searchAt + Search \/ e.searchAt = 0
TrackHazards(e) ==
    IF ~e.alive THEN e
    ELSE IF Due(e) THEN [e EXCEPT !.searchAt = e.now, !.near = FindNearestHazard(e)]
    ELSE IF ~e.near.present THEN e
    ELSE [e EXCEPT !.near = [@ EXCEPT !.distance = Gap(e.x, e.near.at), !.ahead = Ahead(e.x, e.near.at, e.facing)]]

-----------------------------------------------------------------------------

\* The world for a decision: the seat walks or turns, fires burn out, and one
\* that stands in them may die.
World(e) ==
    LET burning == {p \in e.patches : p.until > e.now + 1} IN
    {[e EXCEPT !.now = @ + 1, !.patches = burning, !.x = x, !.facing = way, !.body = IF x = e.x THEN way ELSE x - e.x, !.alive = alive] :
        x \in {x \in 0 .. Length : e.alive /\ Gap(x, e.x) <= 1} \cup {e.x}, way \in {-1, 1},
        alive \in {e.alive} \cup (IF StandingInHazards(e) # {} THEN {FALSE} ELSE {})}

\* IsTerminal: every seat that exists is down, or the clock.
Decide ==
    /\ ~env.over
    /\ \E e \in World(Update(env)) :
          env' = [TrackHazards(e) EXCEPT !.over = ~e.alive \/ e.now >= EpisodeDecisions]
Reset == env.over /\ env.episode < Episodes /\ env' = NewEpisode(env, env.episode + 1)
Next == Decide \/ Reset
Spec == Init /\ [][Next]_vars

-----------------------------------------------------------------------------

\* HazardEncounter::Clear and Build: "nothing burns into the next episode and no
\* seat starts one standing in the last one's fire", nor in this one's before an
\* interval is over; as many burn as were placed since.
FireIsOfThisEpisode ==
    /\ env.now <= PlaceEvery => env.patches = {}
    /\ Cardinality(env.patches) <= env.placed /\ env.placed <= env.now \div PlaceEvery
    /\ \A p \in env.patches : p.until <= env.now + Burns

\* TrackHazards: fire a seat is told of burns, or burned at its last search; a
\* fire that is nearer was lit since, or it came nearer; and the distance is that
\* from where it stands.
HazardIsFresh ==
    env.alive /\ env.near.present =>
        /\ env.near.distance = Gap(env.x, env.near.at)
        /\ env.now < env.searchAt + Search
        /\ env.now = env.searchAt => \E p \in env.patches : p.at = env.near.at
                                     /\ \A q \in env.patches : Gap(env.x, q.at) >= env.near.distance

=============================================================================
