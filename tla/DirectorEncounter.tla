------------------------- MODULE DirectorEncounter -------------------------
(***************************************************************************)
(* The director of one side of a team fight (DirectorEncounter, and the    *)
(* directors' rows of StageScenario::Reward): what its side has seen, the  *)
(* standing order it edits, and who is paid for following it.              *)
(***************************************************************************)
EXTENDS Integers, FiniteSets, FiniteSetsExt

CONSTANTS Mine, Theirs,     \* the seats of the side and of the other
          ThinkEvery,       \* decisions between two looks of the scripted director
          Focus, PlaceMatch, PlaceCooldown, \* CurriculumTuning::OrderTuning
          MaxDeaths, EpisodeDecisions, None

VARIABLE env

vars == <<env>>

Anchors == {"team", "focus", "seen", "base"}
Rallies == {"none", "focus", "point", "base"}
NewOrder == [posture |-> "attack", rally |-> "none", anchor |-> "team", place |-> FALSE, focus |-> None, duty |-> None,
             was |-> {}, paid |-> [s \in Mine |-> 0]]

Init == \E learned \in BOOLEAN :
        env = [pc |-> "reward", clock |-> 0, learned |-> learned, order |-> NewOrder,
               known |-> [t \in Theirs |-> "unseen"],     \* EnemyMemory: unseen, alive or dead
               alive |-> Mine \union Theirs, deaths |-> 0,
               on |-> [s \in Mine |-> CHOOSE t \in Theirs : TRUE], at |-> {}, \* whom a seat fights; who stands at the place
               kept |-> 0, outside |-> Mine, last |-> [s \in Mine |-> -PlaceCooldown], again |-> FALSE]

-----------------------------------------------------------------------------
(* The world between two decisions.                                         *)

Die(u) == /\ env.pc = "reward" /\ u \in env.alive /\ env.deaths < MaxDeaths
          /\ env' = [env EXCEPT !.alive = @ \ {u}, !.deaths = @ + 1]
Turn(s, t) == /\ env.pc = "reward" /\ s \in env.alive /\ t # env.on[s]
              /\ env' = [env EXCEPT !.on[s] = t]
Walk(s) == /\ env.pc = "reward" /\ s \in env.alive
           /\ env' = [env EXCEPT !.at = IF s \in @ THEN @ \ {s} ELSE @ \union {s}]
World == \/ \E u \in env.alive : Die(u)
         \/ \E s \in Mine : Walk(s) \/ \E t \in Theirs : Turn(s, t)

-----------------------------------------------------------------------------
(* BeforeRewards, Reward and RewardPlace.                                   *)

Followable(s) == s \in env.alive /\ env.order.focus \in env.alive
Inside(s) == env.order.place /\ env.order.rally = "point" /\ s \in env.at
Arrived(s) == Followable(s) /\ Inside(s) /\ s \notin env.order.was
PlacePaid(s) == Arrived(s) /\ ~(env.order.paid[s] > 0 /\ env.clock < env.order.paid[s] + PlaceCooldown)
OnFocus(s) == Followable(s) /\ env.on[s] = env.order.focus

Shaped(s) == (IF PlacePaid(s) THEN PlaceMatch ELSE 0) + (IF OnFocus(s) THEN Focus ELSE 0)
\* ShapingPaid: what the focus pays takes the place of what arriving did.
ShapingPaid(s) == IF OnFocus(s) THEN Focus ELSE IF PlacePaid(s) THEN PlaceMatch ELSE 0

\* The director is paid what its side is, less the shaping: here what is left
\* of the shaping, the fight's own pay aside.
Larger(a, b) == IF a > b THEN a ELSE b
Reward ==
    /\ env.pc = "reward" /\ env.clock < EpisodeDecisions
    /\ LET paid == {s \in Mine : PlacePaid(s)} IN
       env' = [env EXCEPT
          !.pc = "update",
          !.kept = MapThenSumSet(LAMBDA s : Shaped(s) - ShapingPaid(s), Mine),
          !.order.was = {s \in Mine : IF Followable(s) THEN Inside(s) ELSE s \in env.order.was},
          !.order.paid = [s \in Mine |-> IF s \in paid THEN Larger(1, env.clock) ELSE @[s]],
          !.last = [s \in Mine |-> IF s \in paid THEN env.clock ELSE @[s]],
          !.again = @ \/ \E s \in paid : s \notin env.outside \/ env.clock < env.last[s] + PlaceCooldown,
          !.outside = (@ \ paid) \union {s \in Mine : ~Inside(s)}]

-----------------------------------------------------------------------------
(* Update: what the side sees, the place, what can no longer be done, and   *)
(* the scripted director's word.                                            *)

Observed(seen) == [t \in Theirs |-> IF t \in seen THEN IF t \in env.alive THEN "alive" ELSE "dead" ELSE env.known[t]]

Standing == Mine \intersect env.alive
Resolves(known) ==
    /\ env.order.rally = "point" /\ Standing # {}
    /\ CASE env.order.anchor = "team" -> TRUE
         [] env.order.anchor = "focus" -> env.order.focus # None /\ known[env.order.focus] # "unseen"
         [] env.order.anchor = "seen" -> \E t \in Theirs : known[t] # "unseen"
         [] OTHER -> FALSE

\* A learned director is told only what its side knows.
Worth(known, t) == IF env.learned THEN known[t] = "alive" ELSE t \in env.alive
Forget(order, known) ==
    [order EXCEPT !.focus = IF @ # None /\ Worth(known, @) THEN @ ELSE None,
                  !.duty = IF @ \in env.alive THEN @ ELSE None]

\* The enemy with the least left, whichever that is.
Command(order, focus, hurt, duty) ==
    [order EXCEPT !.focus = focus, !.duty = duty, !.place = FALSE, !.posture = IF hurt THEN "recover" ELSE "attack",
                  !.rally = IF hurt THEN "base" ELSE IF focus # None THEN "focus" ELSE "none"]
Commands(order) ==
    IF env.learned \/ env.clock % ThinkEvery # 0 \/ Standing = {} THEN {order}
    ELSE {Command(order, focus, hurt, duty) :
              focus \in IF Theirs \intersect env.alive = {} THEN {None} ELSE Theirs \intersect env.alive,
              hurt \in BOOLEAN, duty \in Standing}

Update ==
    /\ env.pc = "update"
    /\ \E seen \in (IF Standing = {} THEN {{}} ELSE SUBSET Theirs) : \* corpses too
       \E snapped \in BOOLEAN :
       LET known == Observed(seen)
           placed == [env.order EXCEPT !.place = snapped /\ Resolves(known)]
       IN \E order \in Commands(Forget(placed, known)) :
          env' = [env EXCEPT !.known = known, !.order = order, !.clock = @ + 1, !.pc = "call"]

\* Call: one field of the order, on an enemy believed alive and a seat that is.
Called(order) ==
    {[order EXCEPT !.posture = p] : p \in {"attack", "recover"}}
    \union {[order EXCEPT !.rally = r] : r \in Rallies}
    \union {[order EXCEPT !.anchor = a] : a \in Anchors}
    \union {[order EXCEPT !.focus = t] : t \in {t \in Theirs : env.known[t] = "alive"}}
    \union {[order EXCEPT !.duty = s] : s \in Standing}
Call == /\ env.pc = "call"
        /\ \E order \in {env.order} \union (IF env.learned THEN Called(env.order) ELSE {}) :
           env' = [env EXCEPT !.pc = "reward", !.order = order]

Next == World \/ Reward \/ Update \/ Call
Spec == Init /\ [][Next]_vars

-----------------------------------------------------------------------------

\* DirectorEncounter::RewardPlace: "Paid for arriving where the side was sent,
\* once, on the crossing": a seat paid again has been somewhere else since, and
\* the cooldown is over, however the place moves, comes and goes.
ArrivalsAreCrossings == ~env.again

\* DirectorEncounter::Forget: an order that stands names an enemy worth it, for a
\* learned director as far as its side knows, and a seat that can do it.
OrdersCanBeFollowed ==
    env.pc = "call" =>
        /\ env.order.focus # None => Worth(env.known, env.order.focus)
        /\ env.order.duty # None => env.order.duty \in env.alive

\* DirectorEncounter::Forget: "a call that quietly cleared itself the instant the
\* target died would be ground truth arriving through the back door".
DeathsAreSeen ==
    env.learned /\ env.order.focus # None /\ env'.order.focus = None => env'.known[env.order.focus] = "dead"

\* StageScenario::Reward: the director is not paid for its orders being
\* followed: of the focus's nudge it keeps nothing.
FocusTakenOut == env.kept \in {0} \union {PlaceMatch * n : n \in 1 .. Cardinality(Mine)}

=============================================================================
