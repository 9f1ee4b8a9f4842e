--------------------------- MODULE TownEncounter ---------------------------
(***************************************************************************)
(* A town (TownEncounter.cpp): junk to sell, gear to repair, food to stock *)
(* and upgrades to put on.  Update reads the bags once a decision, a press *)
(* is accounted after it.  Junk and Upgrades are how much the seat arrives *)
(* with; the vendor and the repairer are places.                           *)
(***************************************************************************)
EXTENDS LifeEncounter

CONSTANTS Junk, Upgrades, Vendor, Repairer

VARIABLES env, paid

vars == <<env, paid>>

NothingPaid == With(NothingEarned, [sold |-> 0, repaired |-> 0, stocked |-> 0, equipped |-> 0, done |-> 0])

Build(row, pick) ==
    With(NewLife(row, pick),
    [junk |-> Junk, damaged |-> TRUE, food |-> FALSE, bag |-> Upgrades,
     copperSold |-> 0, soldPaid |-> 0, soldOut |-> FALSE, repaired |-> FALSE, repairPaid |-> FALSE,
     stocked |-> FALSE, stockPaid |-> FALSE, equipped |-> 0, equippedPaid |-> 0])

\* Update: what is still to do, and the nearest trader while there is.
Update(e) ==
    LET r == [e EXCEPT !.soldOut = e.junk = 0, !.repaired = ~e.damaged, !.stocked = e.food]
        near == IF Apart(e.at, Vendor) <= Apart(e.at, Repairer) THEN Vendor ELSE Repairer
    IN  IF ~e.alive THEN e
        ELSE IF r.soldOut /\ r.repaired /\ r.stocked THEN ClearWaypoint(r)
        ELSE SetWaypoint(r, "trader", near)

\* A press, and Account.
Sells(e) == [e EXCEPT !.copperSold = @ + e.junk, !.junk = 0]
Repairs(e) == [e EXCEPT !.damaged = FALSE]
Buys(e) == [e EXCEPT !.food = TRUE]
Equips(e) == [e EXCEPT !.bag = @ - 1, !.equipped = @ + 1]

Presses(e) ==
    {e} \cup (IF e.alive /\ e.at \in {Vendor, Repairer} /\ e.junk > 0 THEN {Sells(e)} ELSE {})
        \cup (IF e.alive /\ e.at = Repairer /\ e.damaged THEN {Repairs(e)} ELSE {})
        \cup (IF e.alive /\ e.at = Vendor /\ ~e.food THEN {Buys(e)} ELSE {})
        \cup (IF e.alive /\ e.bag > 0 THEN {Equips(e)} ELSE {})

\* A mutant of Finished: the upgrades are forgotten.
FinishedTrading(e) == e.soldOut /\ e.repaired /\ e.stocked

Finished(e) == e.soldOut /\ e.repaired /\ e.stocked /\ e.equipped >= Upgrades

RewardMore(e) ==
    [e EXCEPT !.soldPaid = e.copperSold, !.repairPaid = @ \/ e.repaired, !.stockPaid = @ \/ e.stocked,
              !.equippedPaid = e.equipped]

Reward(e) == LET s == RewardMore(Shared(e)) IN Outcome(s, Finished(s))

Pay(e, p) ==
    LET s == RewardMore(Shared(e))
        bit(b) == IF b THEN 1 ELSE 0
        shared == EarnShared(e, s, p, Finished(s))
    IN  [shared EXCEPT !.sold = @ + e.copperSold - e.soldPaid, !.repaired = @ + bit(e.repaired /\ ~e.repairPaid),
                       !.stocked = @ + bit(e.stocked /\ ~e.stockPaid), !.equipped = @ + e.equipped - e.equippedPaid,
                       !.done = @ + bit(~e.outcomePaid /\ Finished(e))]

\* A seat may eat what it bought.
Worlds(e) == SeatMoves(e) \cup {[m EXCEPT !.food = FALSE] : m \in SeatMoves(e)}

Decide ==
    /\ ~env.over
    /\ \E e \in Worlds(env) :
          LET r == Reward(e)
          IN  /\ paid' = Pay(e, paid)
              /\ IF IsTerminal(r, Finished(r)) THEN env' = [r EXCEPT !.over = TRUE] ELSE env' \in Presses(Update(r))

NextEpisode ==
    /\ env.over
    /\ \E pick \in TrainingPicks(env.row) : env' \in Presses(Update(Build(env.row, pick)))
    /\ paid' = NothingPaid

Init ==
    /\ \E pick \in TrainingPicks(NewRow) : env = Build(NewRow, pick)
    /\ paid = NothingPaid

Next == Decide \/ NextEpisode

Spec == Init /\ [][Next]_vars

\* A town that counts as won was done in full and paid in full, each part of
\* it once however often the seat undid it; one that does not is not paid for
\* being done.
TownSettled ==
    env.over =>
        /\ LifeSettled(env, paid, paid.done = 1)
        /\ paid.sold = Junk - env.junk /\ paid.equipped = Upgrades - env.bag
        /\ paid.repaired <= 1 /\ paid.stocked <= 1
        /\ env.won => paid.sold = Junk /\ paid.repaired = 1 /\ paid.stocked = 1 /\ paid.equipped = Upgrades
=============================================================================
