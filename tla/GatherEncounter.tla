-------------------------- MODULE GatherEncounter --------------------------
(***************************************************************************)
(* A field of nodes (GatherEncounter.cpp): a node is opened and looted     *)
(* where it grows, and opening one may teach the profession.               *)
(***************************************************************************)
EXTENDS LifeEncounter, FiniteSets

CONSTANT Nodes

VARIABLES env, paid

vars == <<env, paid>>

NothingPaid == With(NothingEarned, [nodes |-> 0, skill |-> 0])

\* Build: the nodes of the table around the ground.
Build(row, pick) ==
    With(NewLife(row, pick),
    [spawned |-> Nodes, open |-> FALSE, taught |-> 0,
     gathered |-> 0, nodesPaid |-> 0, skillUps |-> 0, skillUpsPaid |-> 0])

\* Update: the skill learned so far, and the nearest node as the waypoint.
Nearest(e, n) == \A o \in e.spawned : Apart(e.at, n) <= Apart(e.at, o)

Update(e) ==
    LET r == [e EXCEPT !.skillUps = e.taught]
    IN  IF ~e.alive THEN e
        ELSE IF e.spawned = {} THEN ClearWaypoint(r)
        ELSE SetWaypoint(r, "node", CHOOSE n \in e.spawned : Nearest(e, n))

\* A press: open the node, or loot what is open, which takes it from the field.
Opens(e) == {[e EXCEPT !.open = TRUE, !.taught = @ + t] : t \in {0, 1}}
Loots(e) == [e EXCEPT !.open = FALSE, !.spawned = @ \ {e.at}, !.gathered = @ + 1]

Presses(e) ==
    {e} \cup (IF e.alive /\ e.at \in e.spawned /\ ~e.open THEN Opens(e) ELSE {})
        \cup (IF e.alive /\ e.at \in e.spawned /\ e.open THEN {Loots(e)} ELSE {})

Finished(e) == e.gathered >= Cardinality(Nodes)

RewardMore(e) == [e EXCEPT !.nodesPaid = e.gathered, !.skillUpsPaid = e.skillUps]

Reward(e) == LET s == RewardMore(Shared(e)) IN Outcome(s, Finished(s))

Pay(e, p) ==
    LET s == RewardMore(Shared(e))
        shared == EarnShared(e, s, p, Finished(s))
    IN  [shared EXCEPT !.nodes = @ + e.gathered - e.nodesPaid, !.skill = @ + e.skillUps - e.skillUpsPaid]

\* An open node closes when the seat walks off.
Decide ==
    /\ ~env.over
    /\ \E m \in SeatMoves(env) :
          LET e == [m EXCEPT !.open = @ /\ m.at = env.at]
              r == Reward(e)
          IN  /\ paid' = Pay(e, paid)
              /\ IF IsTerminal(r, Finished(r)) THEN env' = [r EXCEPT !.over = TRUE] ELSE env' \in Presses(Update(r))

NextEpisode ==
    /\ env.over
    /\ \E pick \in TrainingPicks(env.row) : env' \in Presses(Update(Build(env.row, pick)))
    /\ paid' = NothingPaid

Init ==
    /\ \E pick \in TrainingPicks(NewRow) : env = Build(NewRow, pick)
    /\ paid = NothingPaid

Next == Decide \/ NextEpisode

Spec == Init /\ [][Next]_vars

\* When a field's episode is over every node gathered was paid, and the whole
\* field gathered is a win and nothing less is.
GatherSettled ==
    env.over => /\ LifeSettled(env, paid, env.spawned = {})
                /\ paid.nodes = Cardinality(Nodes) - Cardinality(env.spawned)
                /\ paid.skill <= env.taught

=============================================================================
