---------------------------- MODULE LadderFights ----------------------------
(***************************************************************************)
(* One row of a difficulty ladder and the envs that fight on it: a fight   *)
(* draws its rung when it begins and is recorded when it ends, in whatever *)
(* order the envs' fights end.  History keeps the counted fights of the    *)
(* open window, each with the rung it was drawn at and the visit to that   *)
(* rung it was drawn in.                                                   *)
(***************************************************************************)
EXTENDS DifficultyLadder, Sequences, FiniteSets

CONSTANTS Fighters, Pairs, NoFight, MaxVisits

VARIABLE env

vars == <<env>>

Fight == [tier: Tiers, counts: BOOLEAN, visit: Nat]

Init ==
    env = [row |-> NewRow, fight |-> [f \in Fighters |-> NoFight], window |-> <<>>, visit |-> 0, seed |-> 0]

\* An episode of the row's class and build begins: a training one, or seed
\* env.seed of an evaluation.
Begin(f) ==
    /\ env.fight[f] = NoFight
    /\ \E pick \in TrainingPicks(env.row) :
          env' = [env EXCEPT !.fight[f] = [tier |-> pick.tier, counts |-> pick.counts, visit |-> env.visit]]

BeginSeeded(f) ==
    /\ env.fight[f] = NoFight /\ env.seed < Pairs * (MaxTier + 1)
    /\ env' = [env EXCEPT !.fight[f] = [tier |-> SeedTier(env.seed, Pairs), counts |-> FALSE, visit |-> env.visit],
                          !.seed = @ + 1]

\* The fight ends: its encounter records it if it counts.
End(f, won) ==
    /\ env.fight[f] # NoFight
    /\ LET fight == env.fight[f]
           row == IF fight.counts THEN Record(env.row, fight.tier, won) ELSE env.row
           counted == fight.counts /\ fight.tier = env.row.tier
           moved == row.tier # env.row.tier
       IN  /\ moved => env.visit < MaxVisits
           /\ env' = [env EXCEPT !.row = row, !.fight[f] = NoFight,
                                 !.visit = IF moved THEN @ + 1 ELSE @,
                                 !.window = IF ~counted THEN @
                                            ELSE IF row.fights = 0 THEN <<>>
                                            ELSE Append(@, [tier |-> fight.tier, won |-> won, visit |-> fight.visit])]

\* The envs are reset under it: the fight is never recorded.
Abandon(f) == env.fight[f] # NoFight /\ env' = [env EXCEPT !.fight[f] = NoFight]

Next == \E f \in Fighters : Begin(f) \/ BeginSeeded(f) \/ (\E won \in BOOLEAN : End(f, won)) \/ Abandon(f)

Spec == Init /\ [][Next]_vars

-----------------------------------------------------------------------------

LadderTypeOK ==
    /\ env.row \in Row /\ env.row.wins <= env.row.fights
    /\ env.fight \in [Fighters -> Fight \cup {NoFight}]

\* A row's window holds only fights at the rung the row is on, and all of
\* them, so no fight drawn at another rung moves it.
WindowIsOfThisRung ==
    /\ Len(env.window) = env.row.fights
    /\ Cardinality({i \in DOMAIN env.window : env.window[i].won}) = env.row.wins
    /\ \A i \in DOMAIN env.window : env.window[i].tier = env.row.tier

\* An evaluation's seeds take every pair to every rung, and to none twice.
\* Seed i plays pair i % Pairs.
SeedsCoverRungs ==
    \A pair \in 0 .. Pairs - 1, tier \in Tiers :
        Cardinality({i \in 0 .. Pairs * (MaxTier + 1) - 1 : i % Pairs = pair /\ SeedTier(i, Pairs) = tier}) = 1
=============================================================================
