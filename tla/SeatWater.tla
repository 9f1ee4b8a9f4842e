----------------------------- MODULE SeatWater -----------------------------
(***************************************************************************)
(* A seat's breath, kept by the stage the way the core keeps a player's    *)
(* (StageScenario::ApplySeatAction), and what its dives add up to.         *)
(* One action is one decision: what the world did, then the bookkeeping.   *)
(***************************************************************************)
EXTENDS Integers

CONSTANTS Breath,           \* BreathMs, in decisions
          EpisodeDecisions, Episodes

VARIABLE env

vars == <<env>>

Recovery == 10              \* decisions of breath a decision above water gives back
Smaller(a, b) == IF a < b THEN a ELSE b
Larger(a, b) == IF a > b THEN a ELSE b

NoWater == [since |-> 0, spent |-> 0, breaths |-> 0, submerged |-> 0, drowned |-> FALSE]
Init == env = [clock |-> 0, episode |-> 1, alive |-> TRUE, water |-> NoWater,
               \* The world's own account of this episode.
               under |-> FALSE, dives |-> 0, ups |-> 0, below |-> 0, hurt |-> FALSE, last |-> 0]

\* The clock its head went under, or 0 while it is up.
Submerged(water, breathes) ==
    [water EXCEPT !.submerged = @ + 1, !.since = IF @ = 0 THEN Larger(1, env.clock) ELSE @,
                  !.spent = IF breathes THEN 0 ELSE @ + 1]
Surfaced(water) ==
    [water EXCEPT !.breaths = IF water.since > 0 THEN @ + 1 ELSE @, !.since = 0,
                  !.spent = @ - Smaller(@, Recovery)]

\* A death under water with a breath spent, or of the water's own damage.
Dead(water, hurt) ==
    IF water.since > 0 /\ ~water.drowned /\ (hurt \/ water.spent >= Breath)
    THEN [water EXCEPT !.drowned = TRUE, !.since = 0] ELSE water

\* A breath lasts, and then the water hurts; a water-breathing aura stops both.
Swim(under, breathes) ==
    /\ env.alive /\ env.clock < EpisodeDecisions /\ (breathes => under)
    /\ env' = [env EXCEPT !.clock = @ + 1, !.under = under,
                          !.water = IF under THEN Submerged(@, breathes) ELSE Surfaced(@),
                          !.dives = IF under /\ ~env.under THEN @ + 1 ELSE @,
                          !.ups = IF ~under /\ env.under THEN @ + 1 ELSE @,
                          !.below = IF under THEN @ + 1 ELSE @,
                          !.last = IF ~under \/ breathes THEN 0 ELSE @ + 1]

\* Killed, by the water or by something else; it may stand up again, dry.
Die == /\ env.alive /\ env.clock < EpisodeDecisions
       /\ \E hurt \in {FALSE} \union {env.under /\ env.last >= Breath} :
          env' = [env EXCEPT !.clock = @ + 1, !.alive = FALSE, !.water = Dead(@, hurt), !.hurt = hurt]
Lie == /\ ~env.alive /\ env.clock < EpisodeDecisions
       /\ env' = [env EXCEPT !.clock = @ + 1, !.water = Dead(@, FALSE)]
StandUp == /\ ~env.alive /\ env.clock < EpisodeDecisions
           /\ env' = [env EXCEPT !.alive = TRUE, !.last = 0]

\* SeatState::ResetEpisode.
NewEpisode == /\ env.clock = EpisodeDecisions /\ env.episode < Episodes
              /\ env' = [env EXCEPT !.clock = 0, !.episode = @ + 1, !.alive = TRUE, !.water = NoWater, !.under = FALSE,
                                    !.dives = 0, !.ups = 0, !.below = 0, !.hurt = FALSE, !.last = 0]

Next == \/ \E under, breathes \in BOOLEAN : Swim(under, breathes)
        \/ Die \/ Lie \/ StandUp \/ NewEpisode
Spec == Init /\ [][Next]_vars

-----------------------------------------------------------------------------

\* ApplySeatAction: "bobbing up for a decision buys a fraction of one rather
\* than a whole one": the breath spent is never less than what the last
\* decisions without air took, and never more than all those below.
BreathIsSpent == env.alive => /\ env.water.spent >= env.last /\ env.water.spent <= env.below
                              /\ env.water.submerged = env.below

\* ApplySeatAction: every dive the seat came up from is one breath, from the
\* first decision of an episode on, and a dive it died in is not, unless it
\* stood up again without having drowned.
BreathsAreDives ==
    /\ env.water.breaths <= env.dives
    /\ env.alive /\ ~env.water.drowned => env.water.breaths = env.dives - (IF env.water.since > 0 THEN 1 ELSE 0)
    /\ env.water.drowned => env.hurt \/ env.below >= Breath
=============================================================================
