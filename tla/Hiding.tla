------------------------------- MODULE Hiding -------------------------------
(***************************************************************************)
(* Getting out of a hunter's sight, and stalking it (TrackHiding and       *)
(* TrackStalking of OpponentEncounter.cpp in src/src/Scenario/Curriculum/  *)
(* Encounters): what is counted, and what of it is paid.  Time counts      *)
(* decisions; distances are what StalkYards tells apart.                   *)
(***************************************************************************)
EXTENDS Integers, Sequences

CONSTANTS BreakCooldown, Stalk, StalkMax, EpisodeDecisions

\* As the tuning has them.
Rewards == BreakCooldown \in Nat /\ Stalk \in Nat /\ StalkMax \in Nat

VARIABLE env

vars == <<env>>

\* CombatTally's part, and what was paid: the decisions of the breaks paid.
Init == env = [now |-> 0, hunted |-> TRUE, seen |-> FALSE, stealthed |-> FALSE,
               wasSeen |-> FALSE, unseen |-> 0, streak |-> 0, longest |-> 0, wasStealthed |-> FALSE,
               breaks |-> 0, sightBreaks |-> 0, breakPaid |-> 0, breaksPaid |-> <<>>, lost |-> 0,
               wasStalking |-> FALSE, stalked |-> 0, stalkStreak |-> 0, longestStalk |-> 0, approaches |-> 0, stalkPaid |-> 0]

Larger(a, b) == IF a > b THEN a ELSE b
Smaller(a, b) == IF a < b THEN a ELSE b

Room(e) == Smaller(Stalk, Larger(0, StalkMax - e.stalkPaid))
TrackStalking(e, near) ==
    IF e.seen \/ ~e.stealthed \/ ~near THEN [e EXCEPT !.stalkStreak = 0, !.wasStalking = FALSE]
    ELSE [e EXCEPT !.wasStalking = TRUE, !.approaches = IF e.wasStalking THEN @ ELSE @ + 1, !.stalked = @ + 1,
                   !.stalkStreak = @ + 1, !.longestStalk = Larger(@, e.stalkStreak + 1), !.stalkPaid = @ + Room(e)]

\* Nobody left to hide from: the hunter is dead or gone, or the seat is.
Unhunted(e) == [e EXCEPT !.wasSeen = FALSE, !.streak = 0]

Watched(e) ==
    IF e.seen THEN [e EXCEPT !.streak = 0, !.wasStealthed = e.stealthed]
    ELSE [e EXCEPT !.unseen = @ + 1, !.streak = @ + 1, !.longest = Larger(@, e.streak + 1), !.wasStealthed = e.stealthed]

\* Seen the decision before, and not now: contact is broken.  It is paid again
\* when BreakCooldown is over; 0 is no break paid yet.
Paid(e) == IF e.breakPaid # 0 /\ e.now < e.breakPaid + BreakCooldown THEN e
           ELSE [e EXCEPT !.breakPaid = Larger(1, e.now), !.breaksPaid = Append(@, e.now)]
Broken(e) == Paid([e EXCEPT !.wasSeen = FALSE, !.breaks = @ + 1, !.sightBreaks = IF e.stealthed THEN @ ELSE @ + 1])

TrackHiding(e, near) ==
    IF ~e.hunted THEN Unhunted(e)
    ELSE LET t == TrackStalking(Watched(e), near) IN
         IF e.seen \/ ~e.wasSeen THEN [t EXCEPT !.wasSeen = e.seen] ELSE Broken(t)

\* A decision: who hunts whom, and what is seen.  lost counts the times that
\* somebody who was looking saw the seat at one decision and not at the next.
Decide ==
    /\ env.now < EpisodeDecisions
    /\ \E hunted, seen, stealthed, near \in BOOLEAN :
       LET lost == env.hunted /\ env.seen /\ env.now > 0 /\ hunted /\ ~seen IN
       \E e \in {[env EXCEPT !.now = @ + 1, !.hunted = hunted, !.seen = seen, !.stealthed = stealthed,
                             !.lost = IF lost THEN @ + 1 ELSE @]} :
          env' = TrackHiding(e, near)
Next == Decide
Spec == Init /\ [][Next]_vars

-----------------------------------------------------------------------------

\* TrackHiding: "a cooldown stops it being farmed": a break of contact is a hunter
\* that lost the seat while both stood, never one that died; two that are paid
\* are a cooldown apart, and time unseen pays nothing by itself.
BreaksAreEarned ==
    /\ env.breaks = env.lost /\ env.sightBreaks <= env.breaks
    /\ \A i \in 1 .. Len(env.breaksPaid) - 1 : env.breaksPaid[i + 1] >= env.breaksPaid[i] + BreakCooldown
    /\ (env.breaks > 0) = (env.breaksPaid # <<>>)
    /\ env.longest <= env.unseen

\* TrackStalking: "StalkMax caps the episode's total regardless", and it is
\* earned: nothing without an approach, and no more than the time it lasted.
StalkingIsCapped ==
    /\ env.stalkPaid <= StalkMax /\ env.stalkPaid <= Stalk * env.stalked
    /\ env.approaches <= env.stalked /\ env.longestStalk <= env.stalked
    /\ env.stalked * Stalk <= StalkMax => env.stalkPaid = env.stalked * Stalk
=============================================================================
