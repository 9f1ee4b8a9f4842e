---------------------------- MODULE GroundProbe ----------------------------
(***************************************************************************)
(* What a seat senses of the ground along one ray (MarchBearing, NavRay    *)
(* and RefreshProbe of Blocks/MoveBlock.cpp in src/src/Scenario/           *)
(* Curriculum): a march of heights and liquids at a few ranges, and rays   *)
(* along the navmesh that cross ground, water and burning liquid.          *)
(***************************************************************************)
EXTENDS Integers, FiniteSetsExt

CONSTANTS Yards, Ranges,    \* MARCH_MAX and MARCH_RANGES
          MaxStep, Slope,   \* MAX_STEP, and yards of gap that allow one more
          Room              \* CLEARANCE_RANGE

VARIABLE env

vars == <<env>>

\* What lies at a yard of the ray.  A wall is a face on a level floor; the mesh
\* ends at a wall and where the ground does.
Kinds == {"floor", "hill", "wall", "void", "water", "lava"}
Height(kind) == IF kind = "hill" THEN 3 ELSE 0
Ends == {"wall", "void"}

-----------------------------------------------------------------------------
(* MarchBearing.                                                            *)

Before(range) == Max({0} \union {r \in Ranges : r < range})
At(ray, range) == IF range = 0 THEN "floor" ELSE ray[range]
Allowance(range) == MaxStep + (range - Before(range)) \div Slope
Rise(ray, range) == LET step == Height(At(ray, range)) - Height(At(ray, Before(range))) IN IF step < 0 THEN -step ELSE step
Stops(ray, range) == \/ At(ray, range) \in {"lava", "void"}
                     \/ At(ray, range) # "water" /\ Rise(ray, range) > Allowance(range)
\* The ranges it got to: it ends at the first that stops it.
Marched(ray) == {r \in Ranges : \A before \in {s \in Ranges : s <= r} : ~Stops(ray, before)}
MarchReach(ray) == Max({0} \union Marched(ray))
Beyond(ray) == {r \in Ranges : r > MarchReach(ray)}
MarchBurns(ray) == Beyond(ray) # {} /\ At(ray, Min(Beyond(ray))) = "lava"
MarchWater(ray) == \E r \in Marched(ray) : At(ray, r) = "water"

\* NavRay: the yards to the first edge the filter does not cross, or no answer.
NoAnswer == -1
NavRay(ray, mesh, refused) ==
    IF ~mesh THEN NoAnswer ELSE Min({Yards} \union {y - 1 : y \in {y \in 1 .. Yards : ray[y] \in Ends \union refused}})

-----------------------------------------------------------------------------
(* RefreshProbe.                                                            *)

Smaller(a, b) == IF a < b THEN a ELSE b
Reach(ray, mesh) == IF mesh THEN Smaller(MarchReach(ray), NavRay(ray, mesh, {"lava"})) ELSE MarchReach(ray)
Shore(ray, mesh) ==
    IF mesh THEN Smaller(NavRay(ray, mesh, {"lava", "water"}), Reach(ray, mesh))
    ELSE IF MarchWater(ray) THEN 0 ELSE Reach(ray, mesh)
\* How near it burns: none, or the yards left of the march.
Burns(ray, mesh) ==
    IF mesh THEN IF NavRay(ray, mesh, {}) > NavRay(ray, mesh, {"lava"}) THEN Yards - NavRay(ray, mesh, {"lava"}) ELSE 0
    ELSE IF MarchBurns(ray) THEN Yards ELSE 0

\* findDistanceToWall subtracts and normalises whatever it found: nothing, when
\* the wall is underfoot, is no direction, and with no wall it is the way to the
\* world's origin.
Normal(wall) == IF wall = 0 THEN "nan" ELSE IF wall > Room THEN "origin" ELSE "out"
Clearance(wall) == [room |-> Smaller(wall, Room), way |-> IF wall < Room /\ Normal(wall) # "nan" THEN Normal(wall) ELSE "none"]

NoProbe == [reach |-> 0, shore |-> 0, burns |-> 0, clearance |-> [room |-> Room, way |-> "none"]]
Init == \E ray \in [1 .. Yards -> Kinds] : \E mesh \in BOOLEAN : \E wall \in 0 .. Room + 1 :
        env = [ray |-> ray, mesh |-> mesh, wall |-> wall, valid |-> FALSE, probe |-> NoProbe]

RefreshProbe ==
    /\ ~env.valid
    /\ env' = [env EXCEPT !.valid = TRUE,
                          !.probe = [reach |-> Reach(env.ray, env.mesh), shore |-> Shore(env.ray, env.mesh),
                                     burns |-> Burns(env.ray, env.mesh),
                                     clearance |-> IF env.mesh THEN Clearance(env.wall) ELSE NoProbe.clearance]]

Next == RefreshProbe
Spec == Init /\ [][Next]_vars

-----------------------------------------------------------------------------

\* RefreshProbe: with a mesh, a seat can walk or swim as far as it is told, over
\* no wall, edge or burning, though they lie between two cells of the march; it
\* is dry as far as the shore; and it burns just where the first thing in its way
\* does.
ProbeIsHonest ==
    env.valid /\ env.mesh =>
        /\ \A y \in 1 .. env.probe.reach : env.ray[y] \in {"floor", "hill", "water"}
        /\ env.probe.shore <= env.probe.reach
        /\ \A y \in 1 .. env.probe.shore : env.ray[y] # "water"
        /\ env.probe.burns > 0 <=> \E y \in 1 .. Yards : env.ray[y] = "lava" /\ \A b \in 1 .. y - 1 : env.ray[b] \notin Ends

\* RefreshProbe: "it is only a direction when a wall was found at all", and one
\* that can be written down.
ClearanceHasAWall == env.valid => env.probe.clearance.way \in {"none", "out"}
=============================================================================
