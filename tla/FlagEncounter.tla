--------------------------- MODULE FlagEncounter ---------------------------
(***************************************************************************)
(* Capture the flag between two sides of seats (FlagEncounter.cpp): by the *)
(* encounter's own rules one against one, or read back from a scripted     *)
(* battleground (Matched).  The ground is a line from base 0 to base Far;  *)
(* touching a place is standing on it.  A step is one decision of the env: *)
(* what the world did since the last one, then Reward, IsTerminal (and the *)
(* reset it leads to), then Update.  Time counts decisions.                *)
(***************************************************************************)
EXTENDS Integers, Sequences, SequencesExt

CONSTANTS PerSide, Matched, CapturesToWin, Respawn, DroppedReturn, EpisodeDecisions, Far

VARIABLES env, paid

vars == <<env, paid>>
Seats == 0 .. 2 * PerSide - 1
SeatOrder == [i \in 1 .. 2 * PerSide |-> i - 1]
Sides == {0, 1}
Places == 0 .. Far
NoSeat == -1
Events == {"captures", "pickups", "returns", "kills"}
None == [e \in Events |-> 0]

SideOf(seat) == seat \div PerSide
Base(side) == side * Far

-----------------------------------------------------------------------------
(* The script of a battleground, as far as the encounter reads it: where    *)
(* each side's flag is, who has it, the score.                              *)

Script == [flag: [Sides -> {"AtBase", "Carried", "Dropped"}], keeper: [Sides -> Seats \cup {NoSeat}],
           place: [Sides -> Places], score: [Sides -> 0 .. CapturesToWin]]
NewScript ==
    [flag |-> [s \in Sides |-> "AtBase"], keeper |-> [s \in Sides |-> NoSeat],
     place |-> [s \in Sides |-> Base(s)], score |-> [s \in Sides |-> 0]]

\* A carrier who is dead has lost the flag where it fell.
ScriptDrops(script, at, alive) ==
    LET lost == {s \in Sides : script.flag[s] = "Carried" /\ ~alive[script.keeper[s]]}
    IN  [script EXCEPT !.flag = [s \in Sides |-> IF s \in lost THEN "Dropped" ELSE @[s]],
                       !.place = [s \in Sides |-> IF s \in lost THEN at[script.keeper[s]] ELSE @[s]],
                       !.keeper = [s \in Sides |-> IF s \in lost THEN NoSeat ELSE @[s]]]

\* What the script may do on its own: a flag taken, returned or captured.
ScriptPlays(script, at, alive) ==
    LET there(seat, s) == alive[seat] /\ at[seat] = script.place[s]
        home(s) == [script EXCEPT !.flag[s] = "AtBase", !.place[s] = Base(s), !.keeper[s] = NoSeat]
    IN  {script}
        \cup {[script EXCEPT !.flag[x[1]] = "Carried", !.keeper[x[1]] = x[2]] :
                 x \in {y \in Sides \X Seats : SideOf(y[2]) # y[1] /\ script.flag[y[1]] # "Carried" /\ there(y[2], y[1])}}
        \cup {home(s) : s \in {x \in Sides : script.flag[x] = "Dropped"}}
        \cup {[home(s) EXCEPT !.score[1 - s] = @ + 1] :
                 s \in {x \in Sides : /\ script.flag[x] = "Carried" /\ script.flag[1 - x] = "AtBase"
                                      /\ at[script.keeper[x]] = Base(1 - x)}}

-----------------------------------------------------------------------------
(* The encounter's state.                                                   *)

NewSide == [state |-> "AtBase", by |-> NoSeat, dropped |-> 0, since |-> 0, total |-> None, step |-> None]
NewSeat == [dead |-> FALSE, respawn |-> 0, stepDeaths |-> 0, goal |-> "None", last |-> -1]

\* Build: every seat at its own base, the flags at theirs, the match's script
\* started.
Build ==
    [now |-> 0, at |-> [x \in Seats |-> Base(SideOf(x))], alive |-> [x \in Seats |-> TRUE],
     script |-> NewScript, sides |-> [s \in Sides |-> NewSide], seats |-> [x \in Seats |-> NewSeat],
     deaths |-> 0]

NothingPaid ==
    [events |-> [x \in Seats |-> None], deaths |-> 0, progress |-> [x \in Seats |-> 0],
     toward |-> [x \in Seats |-> <<"base", 0>>]]

\* Count an event for a side, for this decision and for the episode.
Counts(sides, side, event) ==
    [sides EXCEPT ![side].total[event] = @ + 1, ![side].step[event] = @ + 1]

ClearSteps(sides) == [s \in Sides |-> [sides[s] EXCEPT !.step = None]]

-----------------------------------------------------------------------------
(* Update.                                                                  *)

Carrying(e, seat) ==
    LET enemy == e.sides[1 - SideOf(seat)] IN enemy.state = "Carried" /\ enemy.by = seat

\* A mutant of Falls: the flag stays with the dead.
FallsHolding(e, seat) ==
    [e EXCEPT !.seats[seat].dead = TRUE, !.seats[seat].respawn = e.now + Respawn,
              !.seats[seat].stepDeaths = @ + 1, !.deaths = @ + 1]

\* The first decision a seat is seen dead: it waits, and what it carried lies
\* where it fell.
Falls(e, seat) ==
    LET theirs == 1 - SideOf(seat)
        fallen == [e EXCEPT !.seats[seat].dead = TRUE, !.seats[seat].respawn = e.now + Respawn,
                            !.seats[seat].stepDeaths = @ + 1, !.deaths = @ + 1]
    IN  IF ~Carrying(e, seat) THEN fallen
        ELSE [fallen EXCEPT !.sides = Counts([@ EXCEPT ![theirs].state = "Dropped", ![theirs].by = NoSeat,
                                                       ![theirs].dropped = e.at[seat], ![theirs].since = e.now],
                                             theirs, "kills")]

\* A graveyard wave: alive at its own base.
StandsUp(e, seat) ==
    [e EXCEPT !.alive[seat] = TRUE, !.at[seat] = Base(SideOf(seat)),
              !.seats[seat].dead = FALSE, !.seats[seat].last = -1]

ReturnsOwn(e, seat) ==
    LET own == SideOf(seat)
    IN  IF e.sides[own].state = "Dropped" /\ e.at[seat] = e.sides[own].dropped
        THEN [e EXCEPT !.sides = Counts([@ EXCEPT ![own].state = "AtBase"], own, "returns")]
        ELSE e

TakesTheirs(e, seat) ==
    LET own == SideOf(seat)
        theirs == e.sides[1 - own]
    IN  IF \/ theirs.state = "AtBase" /\ e.at[seat] = Base(1 - own)
           \/ theirs.state = "Dropped" /\ e.at[seat] = theirs.dropped
        THEN [e EXCEPT !.sides = Counts([@ EXCEPT ![1 - own].state = "Carried", ![1 - own].by = seat], own, "pickups")]
        ELSE e

\* carrying is what the seat did at the start of its turn.
Captures(e, seat, carrying) ==
    LET own == SideOf(seat)
    IN  IF carrying /\ e.sides[own].state = "AtBase" /\ e.at[seat] = Base(own)
        THEN [e EXCEPT !.sides = Counts([@ EXCEPT ![1 - own].state = "AtBase", ![1 - own].by = NoSeat], own, "captures")]
        ELSE e

UpdateSeat(e, seat) ==
    IF e.alive[seat] THEN Captures(TakesTheirs(ReturnsOwn(e, seat), seat), seat, Carrying(e, seat))
    ELSE IF ~e.seats[seat].dead THEN Falls(e, seat)
    ELSE IF e.now >= e.seats[seat].respawn THEN StandsUp(e, seat)
    ELSE e

GoHome(e) ==
    [e EXCEPT !.sides = [s \in Sides |->
        IF @[s].state = "Dropped" /\ e.now >= @[s].since + DroppedReturn
        THEN [@[s] EXCEPT !.state = "AtBase", !.by = NoSeat] ELSE @[s]]]

OwnRules(e) ==
    GoHome(FoldLeft(UpdateSeat, [e EXCEPT !.sides = ClearSteps(@)], SeatOrder))

\* ReadMatch: the score and the flags of the script as the sides' state, and
\* their changes as events of this decision; the episode's totals take the
\* captures alone.
ReadMatch(e) ==
    LET was(s) == e.sides[s].state
        is(s) == e.script.flag[s]
        bit(b) == IF b THEN 1 ELSE 0
        step(s) == [captures |-> e.script.score[s] - e.sides[s].total.captures,
                    pickups  |-> bit(was(1 - s) # "Carried" /\ is(1 - s) = "Carried"),
                    kills    |-> bit(was(1 - s) = "Carried" /\ is(1 - s) = "Dropped"),
                    returns  |-> bit(was(s) = "Dropped" /\ is(s) = "AtBase")]
    IN  [e EXCEPT !.sides = [s \in Sides |->
            [@[s] EXCEPT !.state = is(s), !.by = e.script.keeper[s], !.dropped = e.script.place[s], !.step = step(s),
                         !.total.captures = e.script.score[s]]]]

Update(e) == IF Matched THEN ReadMatch(e) ELSE OwnRules(e)

-----------------------------------------------------------------------------
(* Reward.                                                                  *)

\* What a seat heads for, and why: a base, a place a flag lies on, a seat.
CurrentGoal(e, seat) ==
    LET mine == SideOf(seat)
        own == e.sides[mine]
        enemy == e.sides[1 - mine]
        living(x) == x # NoSeat /\ e.alive[x]
    IN  IF enemy.state = "Carried"
        THEN [goal |-> "CaptureHome",
              to |-> IF enemy.by # seat /\ living(enemy.by) THEN <<"seat", enemy.by>> ELSE <<"base", mine>>]
        ELSE IF own.state = "Dropped" THEN [goal |-> "ReturnOwn", to |-> <<"place", own.dropped>>]
        ELSE IF enemy.state = "Dropped" THEN [goal |-> "PickUpEnemy", to |-> <<"place", enemy.dropped>>]
        ELSE IF own.state = "Carried" /\ living(own.by) THEN [goal |-> "ChaseCarrier", to |-> <<"seat", own.by>>]
        ELSE [goal |-> "TakeEnemy", to |-> <<"base", 1 - mine>>]

Where(e, to) == CASE to[1] = "base" -> Base(to[2]) [] to[1] = "seat" -> e.at[to[2]] [] OTHER -> to[2]

Distance(e, seat) ==
    LET there == Where(e, CurrentGoal(e, seat).to)
    IN  IF there > e.at[seat] THEN there - e.at[seat] ELSE e.at[seat] - there

\* A new goal, or a death, starts the shaping over.
Fresh(e, seat) == ~e.alive[seat] \/ CurrentGoal(e, seat).goal # e.seats[seat].goal

Progress(e, seat) ==
    IF Fresh(e, seat) \/ e.seats[seat].last < 0 THEN 0 ELSE e.seats[seat].last - Distance(e, seat)

\* Every seat of a side is paid the side's events, and its own death.
Reward(e, p) ==
    [events |-> [x \in Seats |-> [ev \in Events |-> p.events[x][ev] + e.sides[SideOf(x)].step[ev]]],
     deaths |-> FoldLeft(LAMBDA n, x: n + e.seats[x].stepDeaths, p.deaths, SeatOrder),
     progress |-> [x \in Seats |-> Progress(e, x)],
     toward |-> [x \in Seats |-> CurrentGoal(e, x).to]]

Rewarded(e) ==
    [e EXCEPT !.seats = [x \in Seats |->
        [@[x] EXCEPT !.stepDeaths = 0, !.goal = CurrentGoal(e, x).goal,
                     !.last = IF e.alive[x] THEN Distance(e, x) ELSE -1]]]

IsTerminal(e) == \E s \in Sides : (IF Matched THEN e.script.score[s] ELSE e.sides[s].total.captures) >= CapturesToWin

-----------------------------------------------------------------------------

\* What the world made of the env since the last decision: the seats walked,
\* some died, the script played.
World(e, at, alive, script) ==
    [e EXCEPT !.now = @ + 1, !.at = at, !.alive = alive, !.script = script]

Walks(e) ==
    {at \in [Seats -> Places] :
        \A x \in Seats : IF e.alive[x] THEN at[x] - e.at[x] \in -1 .. 1 ELSE at[x] = e.at[x]}

\* One seat dies or, at a battleground's graveyard, stands up.
Lives(e) ==
    {[e.alive EXCEPT ![x] = FALSE] : x \in Seats} \cup {e.alive}
    \cup (IF Matched THEN {[e.alive EXCEPT ![x] = TRUE] : x \in Seats} ELSE {})

\* A decision that goes on, and one that ends the episode: the next one is
\* built and updated in the same decision.
Decide(e) ==
    /\ paid' = Reward(e, paid)
    /\ ~IsTerminal(e) /\ e.now < EpisodeDecisions
    /\ env' = Update(Rewarded(e))

NextEpisode(e) ==
    /\ IsTerminal(e) \/ e.now >= EpisodeDecisions
    /\ env' = Update(Build)
    /\ paid' = NothingPaid

Init == env = Build /\ paid = NothingPaid

Next ==
    \E at \in Walks(env), alive \in Lives(env) :
        \E script \in IF Matched THEN ScriptPlays(ScriptDrops(env.script, at, alive), at, alive) ELSE {env.script} :
            LET e == World(env, at, alive, script) IN Decide(e) \/ NextEpisode(e)

Spec == Init /\ [][Next]_vars

-----------------------------------------------------------------------------

TypeOK ==
    /\ env.now \in 0 .. EpisodeDecisions
    /\ env.at \in [Seats -> Places] /\ env.alive \in [Seats -> BOOLEAN] /\ env.script \in Script
    /\ \A s \in Sides : /\ env.sides[s].state \in {"AtBase", "Carried", "Dropped"}
                        /\ env.sides[s].by \in Seats \cup {NoSeat}
                        /\ env.sides[s].total.captures \in 0 .. CapturesToWin
    /\ \A x \in Seats : env.seats[x].last \in -1 .. Far

\* Every pickup is a capture, a carrier stopped, or a flag being carried now;
\* a carried flag has a living carrier of the other side.
FlagsAccounted ==
    \A s \in Sides :
        LET total == env.sides[s].total
            theirs == env.sides[1 - s]
        IN  /\ total.pickups = total.captures + theirs.total.kills + (IF theirs.state = "Carried" THEN 1 ELSE 0)
            /\ theirs.state = "Carried" <=> theirs.by \in {x \in Seats : SideOf(x) = s /\ env.alive[x]}

\* What a side did in the episode was paid to every one of its seats exactly
\* once, but for what this decision has just done.
EventsPaidOnce ==
    /\ \A x \in Seats, ev \in Events :
          paid.events[x][ev] = env.sides[SideOf(x)].total[ev] - env.sides[SideOf(x)].step[ev]
    /\ env.deaths = paid.deaths + FoldLeft(LAMBDA n, x: n + env.seats[x].stepDeaths, 0, SeatOrder)

\* A match is won by one side: the flags cannot be captured both at once, nor
\* can a side go on scoring in a match the other has won.
OneWinner == \A s \in Sides : env.sides[s].total.captures >= CapturesToWin => env.sides[1 - s].total.captures < CapturesToWin

\* "A flag changing hands pays nothing": shaping pays a seat only for the same
\* thing to walk to as at the decision before.
ChangingHandsPaysNothing ==
    \A x \in Seats : paid'.toward[x] # paid.toward[x] => paid'.progress[x] = 0
=============================================================================
