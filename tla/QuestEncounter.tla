--------------------------- MODULE QuestEncounter ---------------------------
(***************************************************************************)
(* A quest (QuestEncounter.cpp): accepted at its giver, its objectives     *)
(* done where they are, turned in at its ender.  The game keeps the        *)
(* quest's status; the encounter reads it once a decision (Update) and     *)
(* hears of a press after that (Account).                                  *)
(***************************************************************************)
EXTENDS LifeEncounter

CONSTANTS Giver, Objective, Ender, Needed, Seen

VARIABLES env, paid

vars == <<env, paid>>

NothingPaid ==
    With(NothingEarned, [accepted |-> 0, credit |-> 0, turnIn |-> 0, timeout |-> 0])

\* Build: the seat in front of the giver, a quest it can take; creature is
\* where a living creature of the objective stands, if any.
Build(row, pick) ==
    SetWaypoint(With(NewLife(row, pick),
        [status |-> "none", done |-> 0, creature |-> Objective,
         accepted |-> FALSE, complete |-> FALSE, turnedIn |-> FALSE,
         acceptPaid |-> FALSE, progress |-> 0, progressPaid |-> 0]), "giver", Giver)

\* Update: what the game says of the quest, then where it wants the seat next.
Reads(e) ==
    [e EXCEPT !.accepted = @ \/ e.status # "none", !.complete = e.status \in {"complete", "rewarded"},
              !.turnedIn = @ \/ e.status = "rewarded", !.progress = e.done]

Update(e) ==
    LET r == Reads(e)
    IN  IF ~r.accepted THEN SetWaypoint(r, "giver", Giver)
        ELSE IF ~r.complete
        THEN SetWaypoint(r, "objective", IF Apart(r.at, r.creature) <= Seen THEN r.creature ELSE Objective)
        ELSE IF ~r.turnedIn THEN SetWaypoint(r, "ender", Ender)
        ELSE ClearWaypoint(r)

\* A press of the seat, by what it does in the game, and Account.
Accepts(e) == [e EXCEPT !.status = "active", !.accepted = TRUE]
TurnsIn(e) == [e EXCEPT !.status = "rewarded", !.turnedIn = TRUE]
Wastes(e) == [e EXCEPT !.wasted = @ + 1]

Presses(e) ==
    {e} \cup (IF e.alive /\ e.status = "none" /\ e.at = Giver THEN {Accepts(e)} ELSE {})
        \cup (IF e.alive /\ e.status = "complete" /\ e.at = Ender THEN {TurnsIn(e)} ELSE {})
        \cup (IF e.alive /\ e.wasted = 0 THEN {Wastes(e)} ELSE {})

\* RewardMore.
Finished(e) == e.turnedIn

RewardMore(e) == [e EXCEPT !.acceptPaid = @ \/ e.accepted, !.progressPaid = e.progress]

Reward(e) == LET s == RewardMore(Shared(e)) IN Outcome(s, Finished(s))

Pay(e, p) ==
    LET s == RewardMore(Shared(e))
        bit(b) == IF b THEN 1 ELSE 0
        shared == EarnShared(e, s, p, Finished(s))
    IN  [shared EXCEPT !.accepted = @ + bit(e.accepted /\ ~e.acceptPaid),
                       !.credit = @ + e.progress - e.progressPaid,
                       !.turnIn = @ + bit(e.turnedIn /\ ~e.outcomePaid),
                       !.timeout = @ + bit(~e.turnedIn /\ TimeIsUp(e) /\ ~e.outcomePaid)]

\* The objective creature wanders and dies; a kill credits the quest.
Kills(e) == [e EXCEPT !.done = @ + 1, !.status = IF e.done + 1 = Needed THEN "complete" ELSE @]

Worlds(e) ==
    {[m EXCEPT !.creature = c] : m \in SeatMoves(e), c \in {e.creature, Objective, Far}}
    \cup {Kills(m) : m \in {w \in SeatMoves(e) : e.status = "active" /\ w.alive /\ Apart(w.at, e.creature) <= 1}}

Decide ==
    /\ ~env.over
    /\ \E e \in Worlds(env) :
          LET r == Reward(e)
          IN  /\ paid' = Pay(e, paid)
              /\ IF IsTerminal(r, Finished(r)) THEN env' = [r EXCEPT !.over = TRUE] ELSE env' \in Presses(Update(r))

NextEpisode ==
    /\ env.over
    /\ \E pick \in TrainingPicks(env.row) : env' \in Presses(Update(Build(env.row, pick)))
    /\ paid' = NothingPaid

Init ==
    /\ \E pick \in TrainingPicks(NewRow) : env = Build(NewRow, pick)
    /\ paid = NothingPaid

Next == Decide \/ NextEpisode

Spec == Init /\ [][Next]_vars

\* When a quest episode is over, what the seat did was paid once: the accept,
\* every objective, and the turn-in if it came, else the clock if it ran out;
\* and the game agrees that the quest was turned in.
QuestSettled ==
    env.over =>
        /\ LifeSettled(env, paid, env.status = "rewarded")
        /\ paid.accepted = (IF env.status = "none" THEN 0 ELSE 1)
        /\ paid.turnIn = (IF env.won THEN 1 ELSE 0)
        /\ paid.timeout = (IF TimeIsUp(env) /\ ~env.won THEN 1 ELSE 0)
        /\ paid.credit \in env.done - 1 .. env.done

\* Nothing is earned for what was not done.
NothingUnearned ==
    /\ paid.credit <= env.done /\ paid.accepted <= 1 /\ paid.turnIn <= paid.accepted
    /\ (paid.turnIn = 1 => paid.credit = Needed)
=============================================================================
