------------------------- MODULE InstanceEncounter -------------------------
(***************************************************************************)
(* A boss of a real instance against a raid (InstanceEncounter.cpp and     *)
(* InstanceBosses.cpp in src/src/Scenario/Curriculum/Encounters): the rung *)
(* of a ladder, a boss that dies, evades or outlives its raid, and what    *)
(* every seat is paid for it.  A step is one decision: what the world did, *)
(* Reward, IsTerminal, then Update, which reads the boss for the next.     *)
(***************************************************************************)
EXTENDS DifficultyLadder

CONSTANTS Seats, First,     \* the seats, and seat 0, which records
          Full,             \* a boss's health, in shares that are told apart
          EpisodeDecisions

VARIABLES env, paid

vars == <<env, paid>>

Fresh == [there |-> TRUE, health |-> Full, fights |-> FALSE]

\* BeforeLevel and Build: the rung first, then its boss as a raid should find
\* it, whatever a fight before left of it, and the raid in front of it.
Build(row, pick) ==
    [row |-> row, pick |-> pick, now |-> 0, over |-> FALSE, boss |-> Fresh, left |-> Full, engaged |-> FALSE, engageAt |-> 0,
     dead |-> FALSE, wiped |-> FALSE, evaded |-> FALSE, recorded |-> FALSE, done |-> {},
     alive |-> Seats, counted |-> {}, killed |-> {}]
NothingPaid == [kill |-> [s \in Seats |-> 0], death |-> [s \in Seats |-> 0], outcome |-> [s \in Seats |-> 0],
                progress |-> [s \in Seats |-> 0], timeout |-> [s \in Seats |-> 0], won |-> FALSE, low |-> Full]

TimeIsUp(e) == e.now >= EpisodeDecisions
Lost(e) == e.wiped \/ e.evaded

-----------------------------------------------------------------------------

\* SeatReward and CombatReward::OneOnOne.
Slain(e) == e.boss.there /\ e.boss.health = 0
Fought(e) ==
    IF ~e.boss.there THEN [e EXCEPT !.counted = @ \ e.alive]
    ELSE [e EXCEPT !.killed = IF Slain(e) THEN Seats ELSE @, !.counted = Seats \ e.alive]
FoughtPay(e, p) ==
    [p EXCEPT !.kill = [s \in Seats |-> @[s] + (IF Slain(e) /\ s \notin e.killed THEN 1 ELSE 0)],
              !.death = [s \in Seats |-> @[s] + (IF e.boss.there /\ s \notin e.alive \cup e.counted THEN 1 ELSE 0)]]

\* The outcome, once a seat, and the ladder by the first of them.
Over(e) == e.dead \/ e.wiped \/ e.evaded \/ TimeIsUp(e)
\* Mutant of Settles: whoever stands is paid, as often as it is over.
SettlesStanding(e) == IF Over(e) THEN e.alive ELSE {}
Settles(e) == IF Over(e) THEN Seats \ e.done ELSE {}
Settled(e) ==
    [e EXCEPT !.done = @ \cup Settles(e),
              !.recorded = @ \/ First \in Settles(e),
              !.row = IF First \in Settles(e) /\ ~e.recorded /\ e.pick.counts THEN Record(@, e.pick.tier, e.dead) ELSE @]
SettledPay(e, p) ==
    [p EXCEPT !.outcome = [s \in Seats |-> @[s] + (IF s \in Settles(e) THEN 1 ELSE 0)],
              !.won = IF First \in Settles(e) /\ ~e.recorded THEN e.dead ELSE @,
              !.progress = [s \in Seats |-> @[s] + (IF s \in Settles(e) /\ ~e.dead /\ Lost(e) THEN Full - e.left ELSE 0)],
              !.timeout = [s \in Seats |-> @[s] + (IF s \in Settles(e) /\ ~e.dead /\ ~Lost(e) THEN 1 ELSE 0)]]

Reward(e) == Settled(Fought(e))
Pay(e, p) == SettledPay(Fought(e), FoughtPay(e, p))
IsTerminal(e) == Over(e)

-----------------------------------------------------------------------------

\* Update: nothing is read of a boss that is not there.
Evades(e) == e.engaged /\ ~e.dead /\ ~e.boss.fights /\ e.boss.health = Full /\ e.now > e.engageAt + 1
Read(e) == [e EXCEPT !.left = e.boss.health, !.dead = @ \/ e.boss.health = 0, !.engaged = @ \/ e.boss.fights,
                     !.engageAt = IF ~e.engaged /\ e.boss.fights THEN e.now ELSE @]
Update(e) ==
    IF ~e.boss.there THEN e
    ELSE LET r == Read(e) IN [r EXCEPT !.evaded = @ \/ Evades(r), !.wiped = @ \/ (r.alive = {} /\ ~r.dead)]

\* The world for a decision: a boss that fights is hurt and kills, and one that
\* fights nobody goes home and is whole again; the corpse of a boss, and one a
\* script takes away, are gone; a spell stands a seat up.
Bosses(b) ==
    IF ~b.there \/ b.health = 0 THEN {b, [b EXCEPT !.there = FALSE]}
    ELSE {[b EXCEPT !.fights = TRUE, !.health = h] : h \in {b.health, b.health - 1}}
         \cup {Fresh, [b EXCEPT !.there = FALSE]}
Later(e, b, a) == [e EXCEPT !.now = @ + 1, !.boss = IF b.health = 0 THEN [b EXCEPT !.fights = FALSE] ELSE b, !.alive = a]
World(e) == {Later(e, b, a) : b \in Bosses(e.boss), a \in SUBSET Seats}

\* paid also keeps what the fight took off the boss before it went home.
Kept(e, p) == [p EXCEPT !.low = IF e.boss.there /\ e.boss.health < @ THEN e.boss.health ELSE @]
Decide ==
    /\ ~env.over
    /\ \E e \in World(env) :
          /\ paid' = Kept(e, Pay(e, paid))
          /\ env' = IF IsTerminal(Reward(e)) THEN [Reward(e) EXCEPT !.over = TRUE] ELSE Update(Reward(e))

NextEpisode ==
    /\ env.over
    /\ \E pick \in TrainingPicks(env.row) : env' = Build(env.row, pick)
    /\ paid' = NothingPaid

Init == /\ paid = NothingPaid
        /\ \E pick \in TrainingPicks(NewRow) : env = Build(NewRow, pick)
Next == Decide \/ NextEpisode
Spec == Init /\ [][Next]_vars

-----------------------------------------------------------------------------

\* InstanceEncounter::Reward: a fight that is over settled every seat's outcome
\* once, and paid for the progress of a fight lost or for the clock, never both,
\* and neither if the boss was seen dead; the ladder has it once, as won just
\* when the boss was seen dead.  CombatReward::OneOnOne: a boss seen dead has
\* paid its kill once to every seat, down or not, where the comment at
\* InstanceEncounter.cpp:535 says "to every seat alive when it dies".
InstanceSettled ==
    env.over =>
        /\ \A s \in Seats : paid.outcome[s] = 1 /\ paid.kill[s] <= 1 /\ (env.dead => paid.kill[s] = 1)
        /\ \A s \in Seats : paid.progress[s] > 0 => ~env.dead /\ paid.timeout[s] = 0
        /\ env.dead => \A s \in Seats : paid.timeout[s] = 0
        /\ env.recorded /\ (paid.won <=> env.dead)

=============================================================================
