-------------------------- MODULE DifficultyLadder --------------------------
(***************************************************************************)
(* A class and build's row of a DifficultyLadder (DifficultyLadder.cpp):   *)
(* the rung it is on, the fights counted there and the wins among them.    *)
(* RaiseAbove and LowerBelow are wins of a full window.                    *)
(***************************************************************************)
EXTENDS Integers

CONSTANTS MaxTier, Window, RaiseAbove, LowerBelow

LadderConstants ==
    /\ MaxTier \in Nat /\ Window \in Nat \ {0}
    /\ LowerBelow \in 0 .. Window /\ RaiseAbove \in LowerBelow .. Window

Tiers == 0 .. MaxTier
Row == [tier: Tiers, fights: 0 .. Window - 1, wins: 0 .. Window - 1]
NewRow == [tier |-> 0, fights |-> 0, wins |-> 0]

\* Draw of a training episode: the row's own rung, one reviewed or one above.
TrainingPicks(row) ==
    {[tier |-> row.tier, counts |-> TRUE]}
    \cup {[tier |-> t, counts |-> FALSE] : t \in 0 .. row.tier - 1}
    \cup {[tier |-> t, counts |-> FALSE] : t \in {row.tier + 1} \cap Tiers}

\* Draw of an evaluation episode: the seeds go round the pairs, and the pairs
\* round the rungs.
SeedTier(seed, pairs) == (seed \div pairs) % (MaxTier + 1)

\* Where a full window leaves a row.
Moved(tier, wins) ==
    IF wins >= RaiseAbove /\ tier < MaxTier THEN tier + 1
    ELSE IF wins < LowerBelow /\ tier > 0 THEN tier - 1
    ELSE tier

\* A mutant of Record: a fight of another rung counts.
RecordAny(row, fightTier, won) ==
    LET wins == row.wins + (IF won THEN 1 ELSE 0)
    IN  IF row.fights + 1 < Window THEN [row EXCEPT !.fights = @ + 1, !.wins = wins]
        ELSE [tier |-> Moved(row.tier, wins), fights |-> 0, wins |-> 0]

Record(row, fightTier, won) ==
    LET wins == row.wins + (IF won THEN 1 ELSE 0)
    IN  IF row.tier # fightTier THEN row
        ELSE IF row.fights + 1 < Window THEN [row EXCEPT !.fights = @ + 1, !.wins = wins]
        ELSE [tier |-> Moved(row.tier, wins), fights |-> 0, wins |-> 0]
=============================================================================
