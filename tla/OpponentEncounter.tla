------------------------- MODULE OpponentEncounter -------------------------
(***************************************************************************)
(* Seats that fight each other, one a side or several, or an enemy player  *)
(* a script plays (OpponentEncounter.cpp in src/src/Scenario/Curriculum/   *)
(* Encounters): whom a seat is scored against, the interrupts it landed,   *)
(* and when a side is out.  A step is one decision: what the world did,    *)
(* Reward, IsTerminal, then one seat's action.                             *)
(***************************************************************************)
EXTENDS Integers, Sequences, SequencesExt

CONSTANTS Units,        \* the seats in order, the enemy player after them
          SideOf,       \* the side of each
          Scripted,     \* whether the second side is one enemy player that is no seat
          MaxDeaths, EpisodeDecisions, None

VARIABLE env

vars == <<env>>

All == ToSet(Units)
Seats == IF Scripted THEN {u \in All : SideOf[u] = 0} ELSE All

\* EnemySeats: the seats of the other side, in its own order.
EnemySeats == [s \in All |-> SelectSeq(Units, LAMBDA u : SideOf[u] # SideOf[s])]

\* Find: the enemy it has selected while it stands, else the first that stands,
\* else the first; an enemy player that left the world is none.
\* Mutant of Find: the enemy it has selected.
FindChosen(e, s) == EnemySeats[s][e.slot[s]]
Find(e, s) ==
    LET enemies == EnemySeats[s]
        chosen == enemies[e.slot[s]]
        standing == {i \in DOMAIN enemies : enemies[i] \in e.alive}
    IN  IF Scripted THEN IF e.there THEN enemies[1] ELSE None
        ELSE IF chosen \in e.alive THEN chosen
        ELSE IF standing # {} THEN enemies[Min(standing)] ELSE enemies[1]

\* Build: nobody has chosen yet, and no interrupt is pending.
Build == [now |-> 0, over |-> FALSE, alive |-> All, there |-> TRUE, counted |-> {}, died |-> {}, killed |-> {}, stood |-> 0,
          slot |-> [s \in Seats |-> 1], pending |-> [s \in Seats |-> None], interrupts |-> [s \in Seats |-> 0],
          cuts |-> {}]

-----------------------------------------------------------------------------

\* CombatReward::OneOnOne, for every seat that has an opponent.
Scored(e) == {s \in Seats : Find(e, s) # None}
OneOnOne(e) ==
    [e EXCEPT !.killed = @ \cup {s \in Scored(e) : Find(e, s) \notin e.alive},
              !.died = @ \cup {s \in Scored(e) : s \notin e.alive /\ s \notin e.counted},
              !.counted = {s \in Seats \ e.alive : s \in @ \/ s \in Scored(e)}]

\* TrackInterrupt: the cast it was aimed at was cut short since; it is then no
\* longer pending, whether it was or not.
Landed(e) == {s \in Scored(e) : e.pending[s] # None /\ e.pending[s] \in e.cuts}
TrackInterrupt(e) ==
    [e EXCEPT !.interrupts = [s \in Seats |-> IF s \in Landed(e) THEN @[s] + 1 ELSE @[s]],
              !.cuts = {},
              !.pending = [s \in Seats |-> IF s \in Scored(e) THEN None ELSE @[s]]]

Reward(e) == TrackInterrupt(OneOnOne(e))

\* IsTerminal: a seat that stood up again has died all the same.
SideOut(e, side) == \A s \in Seats : SideOf[s] = side => s \in e.died
IsTerminal(e) == IF Scripted THEN Units[1] \in e.died \cup e.killed ELSE \E side \in {0, 1} : SideOut(e, side)

-----------------------------------------------------------------------------

\* The world: seats fall, one is stood up by a spell, casts are cut short by
\* whoever, an enemy player may leave the world and come back.
World(e) ==
    {[e EXCEPT !.now = @ + 1, !.alive = alive, !.stood = IF alive \subseteq e.alive THEN @ ELSE @ + 1, !.there = there, !.cuts = cuts] :
        alive \in SUBSET All, there \in (IF Scripted THEN BOOLEAN ELSE {TRUE}), cuts \in {{}} \cup {{e.pending[s]} : s \in Seats}}

\* Target selection, or an interrupt cast at whom the seat fights (OnSeatAction).
Acts(e) ==
    {e} \cup {[e EXCEPT !.slot[s] = i] : s \in Seats \cap e.alive, i \in 1 .. Len(EnemySeats[Units[1]])}
        \cup {[e EXCEPT !.pending[s] = Find(e, s)] : s \in {s \in Seats \cap e.alive : Find(e, s) # None}}

Init == env = Build
Decide ==
    /\ ~env.over /\ env.now < EpisodeDecisions
    /\ \E r \in {Reward(e) : e \in {e \in World(env) : e.stood <= MaxDeaths}} :
          IF IsTerminal(r) THEN env' = [r EXCEPT !.over = TRUE] ELSE env' \in Acts(r)
NextEpisode == (env.over \/ env.now = EpisodeDecisions) /\ env' = Build
Next == Decide \/ NextEpisode
Spec == Init /\ [][Next]_vars

-----------------------------------------------------------------------------

\* OpponentEncounter::Find, Reward and IsTerminal: a kill is paid to all of a
\* side or to none of it, whomever each had selected, and it ends the match.
KillEndsMatch ==
    /\ env.killed # {} => env.over
    /\ Scripted \/ \A s, t \in Seats : SideOf[s] = SideOf[t] => (s \in env.killed <=> t \in env.killed)

=============================================================================
