------------------------- MODULE CreatureEncounter -------------------------
(***************************************************************************)
(* A duel with a creature (CreatureEncounter.cpp, CombatReward::OneOnOne): *)
(* the seat may have a resurrection of its own, the creature may find no   *)
(* path to it.  A step is one decision: what the world did, Reward, then   *)
(* IsTerminal, then the seat's action.  An episode that is over is reset   *)
(* in the same decision; the two are apart here so that the finished       *)
(* episode can be read.                                                    *)
(***************************************************************************)
EXTENDS DifficultyLadder, CombatTally

CONSTANT UnreachableTeleport

VARIABLES env, paid

vars == <<env, paid>>

NothingPaid == [kill |-> 0, death |-> 0, timeout |-> 0, recorded |-> 0, won |-> FALSE]

\* Build: a rung drawn on the ladder, and an opponent for it.
Build(row, pick, soul) ==
    With(NewTally(soul),
    [row |-> row, pick |-> pick, recorded |-> FALSE, foe |-> TRUE, path |-> TRUE, streak |-> 0])

\* A creature with no path to its victim is put beside it.
Unreachable(e) ==
    IF ~(e.alive /\ e.foe) THEN e
    ELSE IF e.path THEN [e EXCEPT !.streak = 0]
    ELSE IF e.streak + 1 < UnreachableTeleport THEN [e EXCEPT !.streak = @ + 1]
    ELSE [e EXCEPT !.streak = 0, !.path = TRUE]

\* The one-on-one's outcomes: a kill once, every death of the seat.
Kill(e) == ~e.killed /\ ~e.foe
OneOnOne(e) == [CountDeath(e) EXCEPT !.killed = @ \/ ~e.foe]

\* The outcome, once: a kill without a death wins.
Outcome(e) == ~e.recorded /\ (e.killed \/ e.died \/ TimeIsUp(e))
Won(e) == e.killed /\ ~e.died

RecordOutcome(e) ==
    IF ~Outcome(e) THEN e
    ELSE [e EXCEPT !.recorded = TRUE,
                   !.row = IF e.pick.counts THEN Record(@, e.pick.tier, Won(e)) ELSE @]

Timeout(e) == ~e.killed /\ ~e.died /\ ~e.timedOut /\ TimeIsUp(e)

Reward(e) ==
    LET fought == Unreachable(OneOnOne(e))
    IN  [RecordOutcome(fought) EXCEPT !.timedOut = @ \/ Timeout(fought)]

Pay(e, p) ==
    LET fought == OneOnOne(e)
    IN  [kill |-> p.kill + Bit(Kill(e)), death |-> p.death + fought.deaths - e.deaths,
         timeout |-> p.timeout + Bit(Timeout(fought)),
         recorded |-> p.recorded + Bit(Outcome(fought)), won |-> IF Outcome(fought) THEN Won(fought) ELSE p.won]

IsTerminal(e) == e.killed \/ DeadForGood(e) \/ TimeIsUp(e)

-----------------------------------------------------------------------------

\* What the world did since the last decision.
Watched(l, stays, path) == [l EXCEPT !.foe = @ /\ stays, !.path = path]
World(e) == {Watched(l, stays, path) : l \in Lives(e), stays \in BOOLEAN, path \in BOOLEAN}

Decide ==
    /\ ~env.over
    /\ \E e \in World(env) :
          LET r == Reward(e)
          IN  /\ paid' = Pay(e, paid)
              /\ IF IsTerminal(r) THEN env' = [r EXCEPT !.over = TRUE] ELSE env' = r

NextEpisode ==
    /\ env.over
    /\ \E pick \in TrainingPicks(env.row), soul \in BOOLEAN : env' = Build(env.row, pick, soul)
    /\ paid' = NothingPaid

Init ==
    /\ paid = NothingPaid
    /\ \E pick \in TrainingPicks(NewRow), soul \in BOOLEAN : env = Build(NewRow, pick, soul)

Next == Decide \/ NextEpisode

Spec == Init /\ [][Next]_vars

-----------------------------------------------------------------------------

\* A duel that is over was recorded exactly once, as a win if and only if its
\* creature died and the seat did not; it paid a kill or the clock, not both,
\* unless the seat died for good, and it paid every death of the seat.
DuelSettled ==
    env.over =>
        /\ paid.recorded = 1 /\ (paid.won <=> paid.kill = 1 /\ paid.death = 0)
        /\ paid.kill + paid.timeout <= 1 /\ (paid.kill + paid.timeout = 0 => paid.death > 0)
        /\ paid.death = env.deaths /\ (paid.timeout = 1 => paid.death = 0)
=============================================================================
