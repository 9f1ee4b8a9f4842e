----------------------------- MODULE SeatSenses -----------------------------
(***************************************************************************)
(* What a seat remembers of where it and its target were, sampled less     *)
(* often than it decides: its trail (ObserveTrail of Blocks/MoveBlock.cpp  *)
(* in src/src/Scenario/Curriculum), its speed and whether it closes on its *)
(* target (TrackMotion of StageScenario.cpp), and where it last saw a      *)
(* target that hid (TrackTarget).  Places are yards of a line, time counts *)
(* decisions; Path is what it really did.                                  *)
(***************************************************************************)
EXTENDS Integers, Sequences, SequencesExt, FiniteSetsExt

CONSTANTS Places, Targets, Seen,   \* where it may be, whom it may fight, and whether it may see them
          Samples, Interval, Mark, \* TRAIL_SAMPLES, MovementTrail::INTERVAL_MS, MARK_MS
          EpisodeDecisions, None   \* None is a negative number: no mark, nobody

VARIABLE env

vars == <<env>>

NoTrail == [x |-> [i \in 0 .. Samples - 1 |-> 0], count |-> 0, next |-> 0, last |-> 0, started |-> FALSE]
NoMotion == [hasLast |-> FALSE, lastX |-> 0, travelled |-> 0, mark |-> None, markTravelled |-> 0, markRange |-> -1,
             moved |-> 0, closed |-> 0, over |-> 0]
NoSight == [who |-> None, at |-> 0, where |-> 0]
\* SeatState::ResetEpisode.
Init == env = [now |-> -1, trail |-> NoTrail, motion |-> NoMotion, sight |-> NoSight, path |-> <<>>]

Gap(a, b) == IF a > b THEN a - b ELSE b - a

-----------------------------------------------------------------------------

\* ObserveTrail: a sample when one is due, in a ring; Shown is its row.
ObserveTrail(trail, now, x) ==
    IF trail.started /\ now - trail.last < Interval THEN trail
    ELSE [trail EXCEPT !.x[trail.next] = x, !.next = (@ + 1) % Samples, !.count = IF @ < Samples THEN @ + 1 ELSE @,
                       !.last = now, !.started = TRUE]
Shown(trail) == [i \in 1 .. trail.count |-> trail.x[(trail.next + Samples - trail.count + i - 1) % Samples]]

\* TrackMotion: what it covered since its mark, and how much of its target's
\* distance that closed, about once a second.
Down(motion) == [motion EXCEPT !.hasLast = FALSE, !.moved = 0, !.closed = 0]
Walked(motion, x) ==
    [motion EXCEPT !.travelled = IF motion.hasLast THEN @ + Gap(x, motion.lastX) ELSE @, !.lastX = x, !.hasLast = TRUE]
Marked(motion, now, range) == [motion EXCEPT !.mark = now, !.markTravelled = motion.travelled, !.markRange = range]
Rated(motion, now, range) ==
    [motion EXCEPT !.moved = motion.travelled - motion.markTravelled, !.over = now - motion.mark,
                   !.closed = IF motion.markRange >= 0 /\ range >= 0 THEN motion.markRange - range ELSE 0]
TrackMotion(motion, now, seat, range) ==
    IF ~seat.alive THEN Down(motion)
    ELSE LET w == Walked(motion, seat.x) IN
         IF w.mark = None THEN Marked(w, now, range)
         ELSE IF now - w.mark < Mark THEN w
         ELSE Marked(Rated(w, now, range), now, range)

\* TrackTarget, and ViewSeat of a target that hid.
TrackTarget(sight, now, seat) ==
    IF seat.target = None \/ ~seat.alive \/ ~seat.sees THEN sight ELSE [who |-> seat.target, at |-> now, where |-> seat.targetX]
Remembered(e) == LET seat == Last(e.path) IN seat.alive /\ seat.target # None /\ ~seat.sees /\ e.sight.who = seat.target

\* Observe, once a decision.
Observe ==
    /\ env.now < EpisodeDecisions
    /\ \E x, targetX \in Places : \E alive \in BOOLEAN : \E target \in Targets \cup {None} : \E sees \in Seen :
          LET seat == [x |-> x, alive |-> alive, target |-> target, sees |-> sees, targetX |-> targetX]
              now == env.now + 1
          IN  /\ target = None => targetX = Min(Places) /\ ~sees
              /\ env' = [now |-> now, path |-> Append(env.path, seat),
                         trail |-> ObserveTrail(env.trail, now, x),
                         motion |-> TrackMotion(env.motion, now, seat, IF target = None THEN -1 ELSE Gap(x, targetX)),
                         sight |-> TrackTarget(env.sight, now, seat)]
Next == Observe
Spec == Init /\ [][Next]_vars

-----------------------------------------------------------------------------

At(t) == env.path[t + 1]

\* ObserveTrail: "each sample ... oldest first with the newest in the last pair":
\* the last places it stood on an Interval, in the order it stood there.
TrailIsThePath ==
    LET newest == (env.now \div Interval) * Interval
        shown == Shown(env.trail)
    IN  env.now >= 0 => \A i \in 1 .. Len(shown) : shown[i] = At(newest - Interval * (Len(shown) - i)).x

\* TrackMotion: what it is told it covered is what it walked since the mark,
\* never a way it was carried while it was down, and over no less than a second.
Steps(from, to) ==
    MapThenSumSet(LAMBDA t : IF At(t).alive /\ At(t - 1).alive THEN Gap(At(t).x, At(t - 1).x) ELSE 0, from + 1 .. to)
MotionIsWalked ==
    env.motion.moved > 0 =>
        /\ env.motion.over >= Mark
        /\ env.motion.moved = Steps(env.motion.mark - env.motion.over, env.motion.mark)

\* ViewSeat: a target that hid is remembered where it was last seen, and never
\* where another stood.
SightIsOfTheTarget ==
    env.now >= 0 /\ Remembered(env) =>
        LET times == {t \in 0 .. env.now : At(t).alive /\ At(t).sees /\ At(t).target = At(env.now).target}
        IN  times # {} /\ env.sight = [who |-> At(env.now).target, at |-> Max(times), where |-> At(Max(times)).targetX]

=============================================================================
