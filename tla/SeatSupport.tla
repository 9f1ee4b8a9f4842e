---------------------------- MODULE SeatSupport ----------------------------
(***************************************************************************)
(* What a seat's shields soaked and what it could have interrupted, both   *)
(* read off the world once a decision (StageScenario::TrackSupport and     *)
(* TrackInterruptibleCast).                                                *)
(***************************************************************************)
EXTENDS Integers, FiniteSets

CONSTANTS Friends,          \* the seat, the owner and the other seats
          Full, Lasts,      \* a shield's amount, and how long it stands, in decisions
          Slack,            \* the decision and ABSORB_EXPIRY_SLACK_MS, in decisions
          Casters, NoCaster,
          MaxShields, MaxCasts, EpisodeDecisions \* bounds

VARIABLE env

vars == <<env>>

NoShield == [amount |-> 0, left |-> 0]  \* no shield

Init == env = [clock |-> 0,
               alive |-> [f \in Friends |-> TRUE], present |-> [f \in Friends |-> TRUE],
               shield |-> [f \in Friends |-> NoShield], absorbs |-> [f \in Friends |-> NoShield],
               shields |-> 0, credit |-> [f \in Friends |-> 0], lost |-> [f \in Friends |-> 0],
               target |-> CHOOSE c \in Casters : TRUE, casting |-> [c \in Casters |-> FALSE],
               last |-> NoCaster, seen |-> 0, casts |-> 0, turns |-> 0, decided |-> TRUE]

-----------------------------------------------------------------------------
(* The world between two decisions.                                         *)

Shield(f) == /\ env.alive[f] /\ env.shields < MaxShields
             /\ env' = [env EXCEPT !.shields = @ + 1, !.shield[f] = [amount |-> Full, left |-> Lasts]]
Hit(shield, n) == IF n = shield.amount THEN NoShield ELSE [shield EXCEPT !.amount = @ - n]
Soak(f, n) == /\ n \in 1 .. env.shield[f].amount
              /\ env' = [env EXCEPT !.lost[f] = @ + n, !.shield[f] = Hit(@, n)]
\* Taken off early: dispelled, or with the life of its friend.
TakeOff(f, dies) ==
    /\ env.alive[f]
    /\ env' = [env EXCEPT !.shield[f] = NoShield, !.lost[f] = @ + env.shield[f].amount, !.alive[f] = ~dies]
StandUp(f) == ~env.alive[f] /\ env' = [env EXCEPT !.alive[f] = TRUE]
Leave(f) == env' = [env EXCEPT !.present[f] = FALSE, !.shield[f] = NoShield, !.alive[f] = FALSE]

Cast(c) == /\ ~env.casting[c] /\ env.casts < MaxCasts
           /\ env' = [env EXCEPT !.casting[c] = TRUE, !.casts = @ + 1]
EndCast(c) == env.casting[c] /\ env' = [env EXCEPT !.casting[c] = FALSE]
Retarget(c) == /\ c # env.target /\ env.turns < MaxCasts
               /\ env' = [env EXCEPT !.target = c, !.turns = @ + 1]

\* The decision's time passes at once: the rest happens before or after it.
Older(shield) == IF shield.left <= 1 THEN NoShield ELSE [shield EXCEPT !.left = @ - 1]
Pass == /\ ~env.decided /\ env.clock < EpisodeDecisions
        /\ env' = [env EXCEPT !.decided = TRUE, !.clock = @ + 1, !.shield = [f \in Friends |-> Older(@[f])]]

World == \/ \E f \in Friends : /\ env.present[f]
                               /\ \/ Shield(f) \/ StandUp(f)
                                  \/ \E n \in 1 .. Full : Soak(f, n)
                                  \/ \E dies \in BOOLEAN : TakeOff(f, dies)
         \/ \E c \in Casters : Cast(c) \/ EndCast(c) \/ Retarget(c)
         \/ \E f \in Friends : env.present[f] /\ Leave(f)

-----------------------------------------------------------------------------

\* TrackSupport: a shield that lost amount soaked it; one gone early soaked the
\* rest; one with more time left than before is another.
Soaked(before, after, alive) ==
    IF after # NoShield THEN IF after.amount < before.amount /\ after.left <= before.left THEN before.amount - after.amount ELSE 0
    ELSE IF before.left > Slack /\ alive THEN before.amount ELSE 0

\* TrackInterruptibleCast: an enemy cast is counted when it is first seen; it is
\* known by its caster and its spell, of which a caster has one here.
SeenCast(e) ==
    IF ~e.casting[e.target] THEN [e EXCEPT !.last = NoCaster]
    ELSE IF e.last = e.target THEN e
    ELSE [e EXCEPT !.last = e.target, !.seen = @ + 1]

Track ==
    /\ env.decided
    /\ env' = SeenCast([env EXCEPT
                  !.decided = FALSE, !.absorbs = env.shield,
                  !.credit = [f \in Friends |->
                      IF env.present[f] /\ env.absorbs[f] # NoShield
                      THEN @[f] + Soaked(env.absorbs[f], env.shield[f], env.alive[f]) ELSE @[f]]])

Next == World \/ Pass \/ Track
Spec == Init /\ [][Next]_vars

-----------------------------------------------------------------------------

\* TrackSupport: a friend's shields are credited for no more than they lost
\* before their time was up, whatever is cast again, dies or stands up between
\* two decisions; nothing is credited twice, and nothing for running out.
CreditWasLost == \A f \in Friends : env.credit[f] <= env.lost[f]

\* TrackInterruptibleCast: "the same cast seen again is not another cast": what
\* is counted is no more than was cast, and once more for every turn to another
\* enemy.
CastsSeen == env.seen <= env.casts + env.turns

\* What the theorems take the constants to be: a decision is a time a shield may
\* have run out in, and there is a target.
SupportConstants == Full \in Nat /\ Lasts \in Nat /\ Slack \in Nat \ {0} /\ Casters # {}
=============================================================================
