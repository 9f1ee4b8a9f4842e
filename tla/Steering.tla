------------------------------ MODULE Steering ------------------------------
(***************************************************************************)
(* How a seat moves (Blocks/MoveBlock.cpp in                               *)
(* src/src/Scenario/Curriculum, under Layout/SeatEncoder.cpp): keys that   *)
(* are held for a while, a heading of its own that bearings are measured   *)
(* off, and jumps, which own the feet until they land.  Angles are in      *)
(* TURN_STEPs, time in decisions; the policy presses what its mask allows. *)
(***************************************************************************)
EXTENDS Integers

CONSTANTS Bearings, PerBearing,   \* the bearings of a circle, and the turns between two
          WalkFor, TurnFor,       \* CurriculumTuning::OptionTuning
          Arc, Fall,              \* a jump's flight, and a drop's fall
          Places, RefreshYards, RefreshTurn, RefreshAfter, \* where it may stand; when a probe is marched again
          Landing(_, _),          \* what a jump from a place along a heading comes down on: none, flat or drop
          Decisions, NoBearing    \* NoBearing is 0xFF

VARIABLE env

vars == <<env>>

Circle == Bearings * PerBearing
Headings == 0 .. Circle - 1
Distance(a, b) == IF a > b THEN a - b ELSE b - a
Turned(a, b) == IF Distance(a, b) * 2 > Circle THEN Circle - Distance(a, b) ELSE Distance(a, b)

Presses == {<<"none", 0>>, <<"cast", 0>>, <<"halt", 0>>, <<"jump", 0>>}
           \union {<<"bearing", b>> : b \in 0 .. Bearings - 1}
           \union {<<"face", m>> : m \in {1, 2, 3}} \* FACE_TARGET, FACE_HEADING, FACE_HOLD
           \union {<<"turn", d>> : d \in {-1, 1}}
FaceTarget == 1
FaceHeading == 2
IsMovement(press) == press[1] \in {"bearing", "halt", "turn", "jump"}
IsAiming(press) == press[1] = "turn"

NoProbe == [valid |-> FALSE, place |-> 0, facing |-> 0, at |-> 0, can |-> FALSE, lands |-> "none"]

\* SeatState::ResetEpisode, and the heading Rebuild starts a seat with.
Init == \E facing \in Headings :
        env = [pc |-> "observe", clock |-> 0, free |-> TRUE, alive |-> TRUE, facing |-> facing, target |-> 0, mode |-> 0,
               held |-> NoBearing, walk |-> 0, turning |-> 0, turn |-> 0, \* the clocks the two keys come up at
               place |-> 0, spline |-> "none", left |-> 0, until |-> 0, pending |-> FALSE, probe |-> NoProbe,
               mask |-> {}, press |-> <<"none", 0>>, heading |-> 0, misjudged |-> FALSE]

Walking(e) == e.walk > e.clock /\ e.held # NoBearing
Able(e) == e.alive /\ e.free
Falling(e) == e.spline = "fall" \/ e.pending

-----------------------------------------------------------------------------
(* MoveBlock::Observe: the probe, and the mask.                             *)

Stale(e) == \/ ~e.probe.valid \/ Distance(e.place, e.probe.place) >= RefreshYards
            \/ Turned(e.facing, e.probe.facing) >= RefreshTurn \/ e.clock - e.probe.at >= RefreshAfter
Probed(e) == IF ~Stale(e) THEN e
             ELSE [e EXCEPT !.probe = [valid |-> TRUE, place |-> e.place, facing |-> e.facing, at |-> e.clock,
                                       can |-> ~Falling(e) /\ Landing(e.place, e.facing) # "none",
                                       lands |-> Landing(e.place, e.facing)]]

CanMove(e) == Able(e) /\ e.clock >= e.until /\ ~Falling(e)
Allowed(e) ==
    {<<"none", 0>>, <<"cast", 0>>}
    \union (IF CanMove(e) THEN {<<"bearing", b>> : b \in 0 .. Bearings - 1} \ (IF Walking(e) THEN {<<"bearing", e.held>>} ELSE {})
            ELSE {})
    \union (IF CanMove(e) /\ e.held # NoBearing THEN {<<"halt", 0>>} ELSE {})
    \union (IF CanMove(e) /\ e.probe.can THEN {<<"jump", 0>>} ELSE {})
    \union (IF e.alive THEN {<<"face", m>> : m \in {1, 2, 3} \ {e.mode}} ELSE {})
    \union {<<"turn", d>> : d \in {d \in {-1, 1} : e.alive /\ e.mode # FaceTarget /\ e.turning # d}}

Observe == /\ env.pc = "observe" /\ env.clock < Decisions
           /\ LET e == Probed(env) IN env' = [e EXCEPT !.pc = "apply", !.mask = Allowed(e)]

-----------------------------------------------------------------------------
(* SeatEncoder::Apply: what runs out, what the press ends, what every block *)
(* does every decision, and the press.                                      *)

Expired(e) == [e EXCEPT !.walk = IF e.clock >= @ THEN 0 ELSE @, !.turn = IF e.clock >= @ THEN 0 ELSE @]
Ended(e, press) == IF IsMovement(press) /\ ~IsAiming(press) THEN [e EXCEPT !.walk = 0] ELSE e

HeadingOf(facing, bearing) == (facing - bearing * PerBearing) % Circle

\* UpdateFacing: the way it looks is kept but where a mode says otherwise.
UpdateFacing(e) ==
    IF e.mode = FaceTarget THEN [e EXCEPT !.facing = e.target]
    ELSE IF e.mode = FaceHeading /\ e.held # NoBearing THEN [e EXCEPT !.facing = HeadingOf(@, e.held), !.held = 0]
    ELSE e

\* Steer: carried on the step it walks, or turned on the spot.
Steer(e) ==
    LET f == UpdateFacing(e) IN
    IF ~Walking(f) THEN [f EXCEPT !.held = NoBearing]
    ELSE IF ~Able(f) THEN f
    ELSE [f EXCEPT !.spline = "walk", !.left = 1, !.heading = HeadingOf(f.facing, f.held)]

StepTurn(e) == IF Able(e) THEN [e EXCEPT !.facing = (@ + e.turning) % Circle] ELSE e

\* MoveBlock::BeforeApply: a drop's arc that ran out becomes the fall.
Dropped(e) == IF e.pending /\ e.spline = "none" THEN [e EXCEPT !.pending = FALSE, !.spline = "fall", !.left = Fall] ELSE e
BeforeApply(e) ==
    LET d == Dropped(e)
        k == IF d.turn > d.clock THEN d ELSE [d EXCEPT !.turning = 0]
    IN Steer(StepTurn(k))

\* MoveBlock::Apply.
\* Mutant of Fresh: the last march, wherever it was.
FreshValid(e) == e.probe.valid
Fresh(e) == e.probe.valid /\ e.place = e.probe.place /\ e.facing = e.probe.facing
Aim(e) == IF Fresh(e) /\ e.probe.can THEN e.probe.lands ELSE Landing(e.place, e.facing)
Jump(e) ==
    IF Falling(e) THEN e
    ELSE LET misjudged == e.misjudged \/ Aim(e) # Landing(e.place, e.facing) IN
         IF Aim(e) = "none" THEN [e EXCEPT !.misjudged = misjudged]
         ELSE [e EXCEPT !.held = NoBearing, !.walk = 0, !.spline = "jump", !.left = Arc, !.pending = Aim(e) = "drop",
                        !.until = e.clock + Arc + (IF Aim(e) = "drop" THEN Fall ELSE 0), !.misjudged = misjudged]
Pressed(e, press) ==
    CASE press[1] = "bearing" -> Steer([e EXCEPT !.held = press[2], !.walk = e.clock + WalkFor])
      [] press[1] = "halt" -> [e EXCEPT !.held = NoBearing, !.walk = 0, !.spline = "none", !.left = 0]
      [] press[1] = "face" -> Steer([e EXCEPT !.mode = press[2],
                                              !.turning = IF press[2] = FaceTarget THEN 0 ELSE @,
                                              !.turn = IF press[2] = FaceTarget THEN 0 ELSE @])
      [] press[1] = "turn" -> Steer(StepTurn([e EXCEPT !.turning = press[2], !.turn = e.clock + TurnFor]))
      [] press[1] = "jump" -> Jump(e)
      [] OTHER -> e

\* A dead seat is not steered at all, not even its clocks.
Apply(press) ==
    /\ env.pc = "apply" /\ press \in env.mask
    /\ env' = [IF ~env.alive THEN env ELSE Pressed(BeforeApply(Ended(Expired(env), press)), press)
               EXCEPT !.pc = "world", !.press = press, !.mask = {}]

-----------------------------------------------------------------------------
(* The world for a decision: steps, arcs and falls; roots, deaths, and an   *)
(* enemy that walks about.                                                  *)

World ==
    /\ env.pc = "world"
    /\ \E place \in (IF env.spline = "none" THEN {env.place} ELSE Places) : \E target \in {0, 1} :
       \E left \in {env.left, env.left - 1} : \* a slow fall
       \E free, alive \in BOOLEAN :
          /\ left = env.left => env.spline = "fall" /\ env.left = 1
          /\ (free # env.free \/ alive # env.alive \/ target # env.target) => env.spline \in {"none", "walk"}
          /\ env' = [env EXCEPT !.pc = "observe", !.clock = @ + 1, !.place = place, !.target = target,
                                !.free = free, !.alive = alive, !.left = IF env.spline = "none" THEN 0 ELSE left,
                                !.spline = IF left <= 0 THEN "none" ELSE @]

Next == Observe \/ World \/ \E press \in Presses : Apply(press)
Spec == Init /\ [][Next]_vars

-----------------------------------------------------------------------------

\* UpdateFacing: a walk goes straight on: the way it leads changes only by the
\* turn held, by an enemy it faces, or by a bearing pressed, whatever is cast,
\* however often the mode it looks by changes; facing the way it walks does not
\* turn it.
WalksStraight ==
    env.pc = "apply" /\ Walking(env) /\ env'.held # NoBearing /\ Able(env)
        /\ env'.press[1] # "bearing" /\ env'.mode # FaceTarget /\ env.mode # FaceTarget =>
    Turned(env'.heading, HeadingOf(env.facing, env.held))
        = (IF env'.press[1] = "turn" /\ env.turning # 0 /\ env.turn > env.clock THEN 0 ELSE Distance(0, env'.turning))

\* SeatView::IsPositioning: "Nothing but the feet may end it": a walk with time
\* left outlives a decision unless it moved its feet another way.
OnlyFeetEndAWalk ==
    env.pc = "apply" /\ Walking(env) /\ env'.held = NoBearing => env'.press[1] \in {"halt", "jump"}

\* MoveBlock::Observe: "A jump owns the feet until it lands": no step is walked
\* from the middle of an arc or of a fall.
JumpOwnsTheFeet == env.spline \in {"jump", "fall"} => env'.spline # "walk"

\* MoveBlock::Apply: a jump comes down where a jump from here comes down, though
\* the mask was set by a march made somewhere else.
JumpsAreAimedHere == ~env.misjudged

=============================================================================
