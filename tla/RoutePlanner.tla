---------------------------- MODULE RoutePlanner ----------------------------
(***************************************************************************)
(* A planned way to an objective (RoutePlanner.cpp): corners on a line of  *)
(* places, which a way may run along in both directions, and what is left  *)
(* of it from wherever the seat stands.  The navigation mesh is external:  *)
(* it answers with no way, a way that arrives or one that stops short.     *)
(***************************************************************************)
EXTENDS Integers, Sequences, FiniteSets, FiniteSetsExt, SequencesExt

CONSTANT Far

Places == 0 .. Far
Apart(a, b) == IF a > b THEN a - b ELSE b - a

NoRoute == [valid |-> FALSE, corners |-> <<0>>, next |-> 1, complete |-> FALSE, to |-> 0]

\* Plan: from where the seat is, one turn at most in the model.  It is cleared
\* whatever the mesh answers.
Plan(from, to) ==
    LET turns == {<<from, turn, end>> : turn \in Places \ {from}, end \in Places}
        legs == {c \in turns : c[3] # c[2]} \cup {<<from, to>>}
    IN  {NoRoute}
        \cup {[valid |-> TRUE, corners |-> c, next |-> 2, complete |-> Last(c) = to, to |-> to] :
                 c \in {l \in legs : Last(l) = to \/ Apart(Last(l), to) = 1}}

\* The length from corner i to the end.
Remaining(route, i) ==
    FoldLeft(LAMBDA n, j: n + Apart(route.corners[j], route.corners[j + 1]), 0,
             [k \in 1 .. Len(route.corners) - i |-> i + k - 1])

\* RemainingFrom: the way left from the seat's closest point on it, over every
\* leg, and not from the corner it is walking to.
Projected(at, a, b) ==
    LET low == IF a < b THEN a ELSE b
        high == IF a < b THEN b ELSE a
    IN  IF at < low THEN low ELSE IF at > high THEN high ELSE at

RemainingFrom(route, at) ==
    Min({LET p == Projected(at, route.corners[i], route.corners[i + 1])
         IN  Apart(at, p) + Apart(p, route.corners[i + 1]) + Remaining(route, i + 1) :
            i \in 1 .. Len(route.corners) - 1})

\* Advance: past every corner reached.
Advance(route, at, within) ==
    [route EXCEPT !.next =
        Max({i \in route.next .. Len(route.corners) :
                \A j \in route.next .. i - 1 : Apart(at, route.corners[j]) <= within})]

\* What is left of a way changes by no more than what was walked: the only way
\* to make it fall is to get closer to its end.
NeverJumps(route) ==
    \A at \in Places \ {Far} : Apart(RemainingFrom(route, at), RemainingFrom(route, at + 1)) <= 1
=============================================================================
