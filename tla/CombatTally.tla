---------------------------- MODULE CombatTally ----------------------------
(***************************************************************************)
(* What every fight keeps of a seat (StageState.h, CombatTally): whether   *)
(* its episode was won, lost to the clock or to a death, and the deaths    *)
(* already paid for.  An encounter's state e has these fields and its own. *)
(* Time counts decisions; Grace is how long a seat that has a resurrection *)
(* of its own is waited for.                                               *)
(***************************************************************************)
EXTENDS Integers

CONSTANTS EpisodeDecisions, Grace

Bit(b) == IF b THEN 1 ELSE 0

NewTally(soul) ==
    [now |-> 0, over |-> FALSE, alive |-> TRUE, soul |-> soul, counted |-> FALSE, died |-> FALSE,
     deaths |-> 0, deathAt |-> 0, killed |-> FALSE, timedOut |-> FALSE]

\* An encounter's state: the shared fields, and its own.
With(shared, own) ==
    [field \in DOMAIN shared \cup DOMAIN own |-> IF field \in DOMAIN shared THEN shared[field] ELSE own[field]]

TimeIsUp(e) == e.now >= EpisodeDecisions

\* A seat seen alive can die again; each death is counted when first seen.
CountDeath(e) ==
    IF e.alive THEN [e EXCEPT !.counted = FALSE]
    ELSE IF e.counted THEN e
    ELSE [e EXCEPT !.counted = TRUE, !.died = TRUE, !.deaths = @ + 1, !.deathAt = e.now]

\* A seat down with no resurrection of its own left to wait for.
DeadForGood(e) == e.died /\ ~e.alive /\ (e.soul => e.now >= e.deathAt + Grace)

\* A decision later: the seat fell, or stood up by its own resurrection.
Lives(e) ==
    {[e EXCEPT !.now = @ + 1], [e EXCEPT !.now = @ + 1, !.alive = FALSE]}
    \cup (IF ~e.alive /\ e.soul THEN {[e EXCEPT !.now = @ + 1, !.alive = TRUE, !.soul = FALSE]} ELSE {})
=============================================================================
