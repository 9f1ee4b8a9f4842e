--------------------------- MODULE EncounterProofs ---------------------------
(***************************************************************************)
(* Proofs about the encounters: every arena but the match, the trip and    *)
(* the dives keeps an invariant of its own, for any values its constants   *)
(* may have, and what MCEncounters says of its episodes follows.  Between  *)
(* decisions an invariant says what was paid so far of what happened so    *)
(* far; of an episode that is over it is what the property says.           *)
(***************************************************************************)
EXTENDS MCEncounters, SequenceTheorems, FiniteSetTheorems, TLAPS

-----------------------------------------------------------------------------
(* A duel: CreatureEncounter.                                               *)

DuelFields ==
    {"now", "over", "alive", "soul", "counted", "died", "deaths", "deathAt", "killed", "timedOut",
     "row", "pick", "recorded", "foe", "path", "streak"}

\* A duel that goes on: nothing but deaths was paid, and a death was recorded.
DuelOpen(e, p) ==
    /\ DOMAIN e = DuelFields
    /\ ~e.over /\ ~e.killed /\ ~e.timedOut /\ (e.recorded <=> e.died)
    /\ e.deaths \in Nat /\ (e.died <=> e.deaths > 0)
    /\ p.kill = 0 /\ p.timeout = 0 /\ p.death = e.deaths /\ p.recorded = (IF e.recorded THEN 1 ELSE 0) /\ ~p.won

\* What DuelSettled says of one that is over.
DuelClosed(e, p) ==
    /\ p.recorded = 1 /\ (p.won <=> p.kill = 1 /\ p.death = 0)
    /\ p.kill + p.timeout <= 1 /\ (p.kill + p.timeout = 0 => p.death > 0)
    /\ p.death = e.deaths /\ (p.timeout = 1 => p.death = 0)

LEMMA DuelBuilt == \A row, pick : \A soul \in BOOLEAN : DuelOpen(Creature!Build(row, pick, soul), Creature!NothingPaid)
<1> SUFFICES ASSUME NEW row, NEW pick, NEW soul \in BOOLEAN PROVE DuelOpen(Creature!Build(row, pick, soul), Creature!NothingPaid)
  OBVIOUS
<1>1. PICK t : t = Creature!NewTally(soul)
  OBVIOUS
<1>2. PICK o : o = [row |-> row, pick |-> pick, recorded |-> FALSE, foe |-> TRUE, path |-> TRUE, streak |-> 0]
  OBVIOUS
<1>3. PICK e : e = Creature!With(t, o)
  OBVIOUS
<1>4. /\ DOMAIN t = {"now", "over", "alive", "soul", "counted", "died", "deaths", "deathAt", "killed", "timedOut"}
      /\ t.over = FALSE /\ t.alive = TRUE /\ t.counted = FALSE /\ t.died = FALSE /\ t.deaths = 0 /\ t.killed = FALSE /\ t.timedOut = FALSE
  BY <1>1 DEF Creature!NewTally
<1>5. DOMAIN o = {"row", "pick", "recorded", "foe", "path", "streak"} /\ o.recorded = FALSE /\ o.foe = TRUE
  BY <1>2
<1>6. DOMAIN e = DuelFields
  BY <1>3, <1>4, <1>5 DEF DuelFields, Creature!With
<1>7. /\ e.over = FALSE /\ e.alive = TRUE /\ e.counted = FALSE /\ e.died = FALSE /\ e.deaths = 0 /\ e.killed = FALSE /\ e.timedOut = FALSE
      /\ e.recorded = FALSE /\ e.foe = TRUE
  BY <1>3, <1>4, <1>5 DEF Creature!With
<1>9. /\ Creature!NothingPaid.kill = 0 /\ Creature!NothingPaid.timeout = 0 /\ Creature!NothingPaid.death = 0
      /\ Creature!NothingPaid.recorded = 0 /\ ~Creature!NothingPaid.won
  BY DEF Creature!NothingPaid
<1>8. DuelOpen(e, Creature!NothingPaid)
  BY <1>6, <1>7, <1>9 DEF DuelOpen
<1> QED
  BY <1>1, <1>2, <1>3, <1>8 DEF Creature!Build

LEMMA DuelWorld == ASSUME NEW e, NEW p, DuelOpen(e, p), NEW w \in Creature!World(e) PROVE DuelOpen(w, p)
<1>1. PICK l \in Creature!Lives(e) : \E stays, path \in BOOLEAN : w = Creature!Watched(l, stays, path)
  BY DEF Creature!World
<1>2. DuelOpen(l, p)
  BY DEF Creature!Lives, DuelOpen, DuelFields
<1> QED
  BY <1>1, <1>2 DEF DuelOpen, DuelFields, Creature!Watched

LEMMA DuelRewarded ==
    ASSUME NEW e, NEW p, DuelOpen(e, p), NEW r, r = Creature!Reward(e), NEW q, q = Creature!Pay(e, p)
    PROVE  /\ DOMAIN r = DuelFields
           /\ IF Creature!IsTerminal(r) THEN DuelClosed([r EXCEPT !.over = TRUE], q) ELSE DuelOpen(r, q)
<1>1. PICK c : c = Creature!CountDeath(e)
  OBVIOUS
<1>2. PICK f : f = Creature!OneOnOne(e)
  OBVIOUS
<1>3. PICK g : g = Creature!Unreachable(f)
  OBVIOUS
<1>4. PICK h : h = Creature!RecordOutcome(g)
  OBVIOUS
<1>5. /\ DOMAIN c = DuelFields /\ ~c.over /\ ~c.killed /\ ~c.timedOut /\ c.now = e.now
      /\ (c.recorded <=> e.died) /\ c.deaths \in Nat /\ (c.died <=> c.deaths > 0) /\ (e.died => c.died)
  BY <1>1 DEF DuelOpen, DuelFields, Creature!CountDeath
<1>6. f = [c EXCEPT !.killed = c.killed \/ ~e.foe]
  BY <1>1, <1>2 DEF Creature!OneOnOne
<1>7. /\ DOMAIN f = DuelFields /\ ~f.over /\ (f.killed <=> ~e.foe) /\ ~f.timedOut /\ f.now = e.now
      /\ (f.recorded <=> e.died) /\ f.deaths \in Nat /\ (f.died <=> f.deaths > 0) /\ (e.died => f.died)
  BY <1>5, <1>6 DEF DuelFields
<1>8. /\ DOMAIN g = DuelFields /\ ~g.over /\ (g.killed <=> ~e.foe) /\ ~g.timedOut /\ g.now = e.now
      /\ (g.recorded <=> e.died) /\ g.deaths = f.deaths /\ (g.died <=> f.died)
  BY <1>3, <1>7 DEF DuelFields, Creature!Unreachable
<1>9. PICK outcome \in BOOLEAN : outcome <=> ~e.died /\ (~e.foe \/ f.died \/ Creature!TimeIsUp(e))
  OBVIOUS
<1>10. Creature!Outcome(g) = outcome /\ Creature!Outcome(f) = outcome
  BY <1>7, <1>8, <1>9 DEF Creature!Outcome, Creature!TimeIsUp
<1>11. /\ DOMAIN h = DuelFields /\ ~h.over /\ (h.killed <=> ~e.foe) /\ ~h.timedOut /\ h.now = e.now
       /\ (h.recorded <=> e.died \/ outcome) /\ h.deaths = f.deaths /\ (h.died <=> f.died)
  BY <1>4, <1>8, <1>10 DEF DuelFields, Creature!RecordOutcome
<1>12. PICK late \in BOOLEAN : late <=> e.foe /\ ~f.died /\ Creature!TimeIsUp(e)
  OBVIOUS
<1>13. Creature!Timeout(g) = late /\ Creature!Timeout(f) = late
  BY <1>7, <1>8, <1>12 DEF Creature!Timeout, Creature!TimeIsUp
<1>14. r = [h EXCEPT !.timedOut = h.timedOut \/ late]
  BY <1>2, <1>3, <1>4, <1>13 DEF Creature!Reward
<1>15. /\ DOMAIN r = DuelFields /\ ~r.over /\ (r.killed <=> ~e.foe) /\ (r.timedOut <=> late) /\ r.now = e.now
       /\ (r.recorded <=> e.died \/ outcome) /\ r.deaths = f.deaths /\ (r.died <=> f.died)
  BY <1>11, <1>14 DEF DuelFields
<1>16. /\ q.kill = (IF e.foe THEN 0 ELSE 1) /\ q.death = f.deaths /\ q.timeout = (IF late THEN 1 ELSE 0)
       /\ q.recorded = (IF e.died \/ outcome THEN 1 ELSE 0)
       /\ (q.won <=> outcome /\ ~e.foe /\ ~f.died)
  <2>1. q = [kill |-> p.kill + Creature!Bit(Creature!Kill(e)), death |-> p.death + f.deaths - e.deaths,
             timeout |-> p.timeout + Creature!Bit(late), recorded |-> p.recorded + Creature!Bit(outcome),
             won |-> IF outcome THEN Creature!Won(f) ELSE p.won]
    BY <1>2, <1>10, <1>13 DEF Creature!Pay
  <2>2. Creature!Kill(e) <=> ~e.foe
    BY DEF DuelOpen, Creature!Kill
  <2>3. p.kill = 0 /\ p.death = e.deaths /\ p.timeout = 0 /\ (p.recorded = IF e.died THEN 1 ELSE 0) /\ ~p.won /\ e.deaths \in Nat
    BY DEF DuelOpen
  <2>4. Creature!Won(f) <=> ~e.foe /\ ~f.died
    BY <1>7 DEF Creature!Won
  <2>5. q.kill = p.kill + Creature!Bit(Creature!Kill(e)) /\ q.death = p.death + f.deaths - e.deaths
        /\ q.timeout = p.timeout + Creature!Bit(late) /\ q.recorded = p.recorded + Creature!Bit(outcome)
    BY <2>1
  <2>6. q.won = IF outcome THEN Creature!Won(f) ELSE p.won
    BY <2>1
  <2>7. q.won <=> outcome /\ ~e.foe /\ ~f.died
    BY <2>3, <2>4, <2>6
  <2> QED
    BY <1>7, <1>9, <2>2, <2>3, <2>5, <2>7 DEF Creature!Bit
<1>17. CASE Creature!IsTerminal(r)
  <2>1. ~e.foe \/ f.died \/ Creature!TimeIsUp(e)
    BY <1>15, <1>17 DEF Creature!IsTerminal, Creature!DeadForGood, Creature!TimeIsUp
  <2>2. [r EXCEPT !.over = TRUE].deaths = f.deaths
    BY <1>15 DEF DuelFields
  <2>3. e.died \/ outcome
    BY <1>9, <2>1
  <2>4. e.died => f.died
    BY <1>7
  <2>5. q.won <=> q.kill = 1 /\ q.death = 0
    BY <1>7, <1>9, <1>16, <2>3, <2>4
  <2>6. DuelClosed([r EXCEPT !.over = TRUE], q)
    BY <1>7, <1>9, <1>12, <1>16, <2>1, <2>2, <2>3, <2>5 DEF DuelClosed
  <2> QED
    BY <1>15, <1>17, <2>6
<1>18. CASE ~Creature!IsTerminal(r)
  <2>1. e.foe /\ ~Creature!TimeIsUp(e)
    BY <1>15, <1>18 DEF Creature!IsTerminal, Creature!TimeIsUp
  <2>2. ~late /\ (outcome <=> ~e.died /\ f.died)
    BY <1>7, <1>9, <1>12, <2>1, <1>15, <1>18 DEF Creature!IsTerminal
  <2>3. ~r.killed /\ ~r.timedOut /\ (r.recorded <=> r.died)
    BY <1>7, <1>15, <2>1, <2>2
  <2>4. r.deaths \in Nat /\ (r.died <=> r.deaths > 0)
    BY <1>7, <1>15
  <2>5. q.kill = 0 /\ q.timeout = 0 /\ q.death = r.deaths /\ q.recorded = (IF r.recorded THEN 1 ELSE 0) /\ ~q.won
    BY <1>15, <1>16, <2>1, <2>2
  <2>6. DuelOpen(r, q)
    BY <1>15, <2>3, <2>4, <2>5 DEF DuelOpen
  <2> QED
    BY <1>15, <1>18, <2>6
<1> QED
  BY <1>17, <1>18

\* The invariant of the arena, and that its steps keep it.
DuelInv == (~env.over => DuelOpen(env, paid)) /\ (env.over => DuelClosed(env, paid))

LEMMA DuelStarts == Creature!Init => DuelInv
BY DuelBuilt DEF Creature!Init, DuelInv, DuelOpen

LEMMA DuelKeeps == DuelInv /\ Creature!Next => DuelInv'
<1>1. ASSUME DuelInv, Creature!Decide PROVE DuelInv'
  <2>1. PICK w \in Creature!World(env) :
           /\ paid' = Creature!Pay(w, paid)
           /\ env' = IF Creature!IsTerminal(Creature!Reward(w)) THEN [Creature!Reward(w) EXCEPT !.over = TRUE] ELSE Creature!Reward(w)
    BY <1>1 DEF Creature!Decide
  <2>2. DuelOpen(w, paid)
    BY <1>1, <2>1, DuelWorld DEF DuelInv, Creature!Decide
  <2>3. PICK r : r = Creature!Reward(w)
    OBVIOUS
  <2>4. /\ DOMAIN r = DuelFields
        /\ IF Creature!IsTerminal(r) THEN DuelClosed([r EXCEPT !.over = TRUE], paid') ELSE DuelOpen(r, paid')
    BY <2>1, <2>2, <2>3, DuelRewarded
  <2>5. CASE Creature!IsTerminal(r)
    BY <2>1, <2>3, <2>4, <2>5 DEF DuelInv, DuelFields
  <2>6. CASE ~Creature!IsTerminal(r)
    BY <2>1, <2>3, <2>4, <2>6 DEF DuelInv, DuelOpen
  <2> QED
    BY <2>5, <2>6
<1>2. ASSUME Creature!NextEpisode PROVE DuelInv'
  BY <1>2, DuelBuilt DEF Creature!NextEpisode, DuelInv, DuelOpen
<1> QED
  BY <1>1, <1>2 DEF Creature!Next

LEMMA DuelHolds == DuelInv => Creature!DuelSettled
BY DEF DuelInv, DuelClosed, Creature!DuelSettled

-----------------------------------------------------------------------------
(* A quest: QuestEncounter and what it has of LifeEncounter.                *)

QuestFields ==
    {"now", "over", "row", "pick", "recorded", "at", "alive", "died", "deathPaid", "outcomePaid", "won", "way", "last",
     "wasted", "wastedPaid", "status", "done", "creature", "accepted", "complete", "turnedIn", "acceptPaid", "progress",
     "progressPaid"}
QuestPay == {"death", "outcome", "recorded", "wasted", "progress", "toward", "accepted", "credit", "turnIn", "timeout"}

\* A quest that goes on, as the world may have moved it since it was last read.
QuestMoved(e, p) ==
    /\ DOMAIN e = QuestFields /\ DOMAIN p = QuestPay
    /\ ~e.over /\ ~e.died /\ ~e.deathPaid /\ ~e.outcomePaid /\ ~e.recorded
    /\ p.death = 0 /\ p.outcome = 0 /\ p.recorded = 0 /\ p.turnIn = 0 /\ p.timeout = 0
    /\ p.wasted = e.wastedPaid /\ p.credit = e.progressPaid /\ p.accepted = (IF e.acceptPaid THEN 1 ELSE 0)
    /\ e.wasted \in Nat /\ e.wastedPaid \in Nat /\ e.done \in Nat /\ e.progress \in Nat /\ e.progressPaid \in Nat
    /\ e.progressPaid <= e.progress /\ e.progress <= e.done /\ e.done <= e.progress + 1
    /\ (e.accepted <=> e.status # "none") /\ e.turnedIn = (e.status = "rewarded") /\ (e.acceptPaid => e.accepted)
    /\ e.status \in {"complete", "rewarded"} => e.done = Setup.quest.Needed
    /\ e.status = "rewarded" => e.progress = e.done

\* ... and as the encounter read it.
QuestOpen(e, p) == QuestMoved(e, p) /\ e.progress = e.done

\* What QuestSettled and NothingUnearned say of one that is over.
QuestClosed(e, p) ==
    /\ p.outcome = 1 /\ p.recorded = 1 /\ e.won = (e.status = "rewarded")
    /\ p.death = (IF e.died THEN 1 ELSE 0) /\ p.wasted = e.wasted
    /\ p.accepted = (IF e.status = "none" THEN 0 ELSE 1)
    /\ p.turnIn = (IF e.won THEN 1 ELSE 0)
    /\ p.timeout = (IF Quest!TimeIsUp(e) /\ ~e.won THEN 1 ELSE 0)
    /\ p.credit \in e.done - 1 .. e.done
    /\ p.accepted <= 1 /\ p.turnIn <= p.accepted /\ (p.turnIn = 1 => p.credit = Setup.quest.Needed)

LEMMA QuestWaypoint ==
    ASSUME NEW e, NEW p, NEW kind, NEW to
    PROVE  /\ QuestMoved(e, p) => QuestMoved(Quest!SetWaypoint(e, kind, to), p) /\ QuestMoved(Quest!ClearWaypoint(e), p)
           /\ QuestOpen(e, p) => QuestOpen(Quest!SetWaypoint(e, kind, to), p) /\ QuestOpen(Quest!ClearWaypoint(e), p)
BY DEF QuestOpen, QuestMoved, QuestFields, Quest!SetWaypoint, Quest!ClearWaypoint

LEMMA QuestBuilt == \A row, pick : QuestOpen(Quest!Build(row, pick), Quest!NothingPaid)
<1> SUFFICES ASSUME NEW row, NEW pick PROVE QuestOpen(Quest!Build(row, pick), Quest!NothingPaid)
  OBVIOUS
<1>1. PICK t : t = Quest!NewLife(row, pick)
  OBVIOUS
<1>2. PICK o : o = [status |-> "none", done |-> 0, creature |-> Setup.quest.Objective,
         accepted |-> FALSE, complete |-> FALSE, turnedIn |-> FALSE,
         acceptPaid |-> FALSE, progress |-> 0, progressPaid |-> 0]
  OBVIOUS
<1>3. PICK e : e = Quest!With(t, o)
  OBVIOUS
<1>4. /\ DOMAIN t = {"now", "over", "row", "pick", "recorded", "at", "alive", "died", "deathPaid", "outcomePaid", "won",
                     "way", "last", "wasted", "wastedPaid"}
      /\ t.over = FALSE /\ t.recorded = FALSE /\ t.died = FALSE /\ t.deathPaid = FALSE /\ t.outcomePaid = FALSE
      /\ t.wasted = 0 /\ t.wastedPaid = 0
  BY <1>1 DEF Quest!NewLife
<1>5. /\ DOMAIN o = {"status", "done", "creature", "accepted", "complete", "turnedIn", "acceptPaid", "progress", "progressPaid"}
      /\ o.status = "none" /\ o.done = 0 /\ o.accepted = FALSE /\ o.turnedIn = FALSE /\ o.acceptPaid = FALSE /\ o.progress = 0
      /\ o.progressPaid = 0
  BY <1>2
<1>6. DOMAIN e = QuestFields
  BY <1>3, <1>4, <1>5 DEF QuestFields, Quest!With
<1>7. /\ e.over = FALSE /\ e.recorded = FALSE /\ e.died = FALSE /\ e.deathPaid = FALSE /\ e.outcomePaid = FALSE
      /\ e.wasted = 0 /\ e.wastedPaid = 0
  BY <1>3, <1>4, <1>5 DEF Quest!With
<1>8. /\ e.status = "none" /\ e.done = 0 /\ e.accepted = FALSE /\ e.turnedIn = FALSE /\ e.acceptPaid = FALSE /\ e.progress = 0
      /\ e.progressPaid = 0
  BY <1>3, <1>4, <1>5 DEF Quest!With
<1>9. PICK p : p = Quest!NothingPaid
  OBVIOUS
<1>10. /\ DOMAIN p = QuestPay
       /\ p.death = 0 /\ p.outcome = 0 /\ p.recorded = 0 /\ p.turnIn = 0 /\ p.timeout = 0 /\ p.wasted = 0 /\ p.credit = 0
       /\ p.accepted = 0
  BY <1>9 DEF Quest!NothingPaid, Quest!NothingEarned, Quest!With, QuestPay
<1>B. e.turnedIn = (e.status = "rewarded") /\ (e.accepted <=> e.status # "none")
  BY <1>8
<1>11. QuestOpen(e, p)
  BY <1>6, <1>7, <1>8, <1>B, <1>10 DEF QuestOpen, QuestMoved
<1> QED
  BY <1>1, <1>2, <1>3, <1>9, <1>11, QuestWaypoint DEF Quest!Build

LEMMA QuestWorld == ASSUME NEW e, NEW p, QuestOpen(e, p), NEW w \in Quest!Worlds(e) PROVE QuestMoved(w, p)
<1>1. ASSUME NEW m \in Quest!SeatMoves(e) PROVE QuestOpen(m, p) /\ m.status = e.status /\ m.done = e.done
  <2>1. (\E to : m = Quest!Walks(e, to)) \/ m = [e EXCEPT !.now = e.now + 1, !.alive = FALSE]
    BY <1>1 DEF Quest!SeatMoves
  <2>2. CASE m = [e EXCEPT !.now = e.now + 1, !.alive = FALSE]
    BY <2>2 DEF QuestOpen, QuestMoved, QuestFields
  <2>3. ASSUME NEW to, m = Quest!Walks(e, to) PROVE QuestOpen(m, p) /\ m.status = e.status /\ m.done = e.done
    BY <2>3 DEF Quest!Walks, QuestOpen, QuestMoved, QuestFields
  <2> QED
    BY <2>1, <2>2, <2>3
<1>2. CASE \E m \in Quest!SeatMoves(e) : \E c \in {e.creature, Setup.quest.Objective, Setup.quest.Far} : w = [m EXCEPT !.creature = c]
  BY <1>1, <1>2 DEF QuestOpen, QuestMoved, QuestFields
<1>3. CASE \E m \in Quest!SeatMoves(e) : e.status = "active" /\ w = Quest!Kills(m)
  <2>1. PICK m \in Quest!SeatMoves(e) : e.status = "active" /\ w = Quest!Kills(m)
    BY <1>3
  <2>2. QuestOpen(m, p) /\ m.status = "active"
    BY <1>1, <2>1
  <2> QED
    BY <2>1, <2>2 DEF Quest!Kills, QuestOpen, QuestMoved, QuestFields
<1> QED
  BY <1>2, <1>3 DEF Quest!Worlds

LEMMA QuestUpdated ==
    ASSUME NEW e, NEW p, QuestMoved(e, p), NEW u \in Quest!Presses(Quest!Update(e))
    PROVE  QuestOpen(u, p)
<1>1. PICK r : r = Quest!Reads(e)
  OBVIOUS
<1>2. QuestOpen(r, p)
  <2>1. r = [e EXCEPT !.accepted = e.accepted \/ e.status # "none", !.complete = e.status \in {"complete", "rewarded"},
                      !.turnedIn = e.turnedIn \/ e.status = "rewarded", !.progress = e.done]
    BY <1>1 DEF Quest!Reads
  <2>2. /\ DOMAIN r = QuestFields /\ r.progress = e.done /\ r.done = e.done /\ r.progressPaid = e.progressPaid
        /\ r.status = e.status /\ r.over = e.over /\ r.died = e.died /\ r.deathPaid = e.deathPaid
        /\ r.outcomePaid = e.outcomePaid /\ r.recorded = e.recorded /\ r.wasted = e.wasted /\ r.wastedPaid = e.wastedPaid
        /\ r.acceptPaid = e.acceptPaid
    BY <2>1 DEF QuestMoved, QuestFields
  <2>3. r.accepted = (e.accepted \/ e.status # "none") /\ r.turnedIn = (e.turnedIn \/ e.status = "rewarded")
    BY <2>1 DEF QuestMoved, QuestFields
  <2>4. r.turnedIn = (r.status = "rewarded") /\ (r.accepted <=> r.status # "none")
    BY <2>2, <2>3 DEF QuestMoved
  <2>5. r.acceptPaid => r.accepted
    BY <2>2, <2>3 DEF QuestMoved
  <2> QED
    BY <2>2, <2>4, <2>5 DEF QuestOpen, QuestMoved
<1>3. PICK v : v = Quest!Update(e)
  OBVIOUS
<1>4. QuestOpen(v, p)
  BY <1>1, <1>2, <1>3, QuestWaypoint DEF Quest!Update
<1>5. \/ u = v
      \/ v.status = "none" /\ u = Quest!Accepts(v)
      \/ v.status = "complete" /\ u = Quest!TurnsIn(v)
      \/ u = Quest!Wastes(v)
  BY <1>3 DEF Quest!Presses
<1>6. CASE v.status = "none" /\ u = Quest!Accepts(v)
  BY <1>4, <1>6 DEF QuestOpen, QuestMoved, QuestFields, Quest!Accepts
<1>7. CASE v.status = "complete" /\ u = Quest!TurnsIn(v)
  BY <1>4, <1>7 DEF QuestOpen, QuestMoved, QuestFields, Quest!TurnsIn
<1>8. CASE u = Quest!Wastes(v)
  BY <1>4, <1>8 DEF QuestOpen, QuestMoved, QuestFields, Quest!Wastes
<1> QED
  BY <1>4, <1>5, <1>6, <1>7, <1>8

LEMMA QuestRewarded ==
    ASSUME NEW e, NEW p, QuestMoved(e, p), NEW r, r = Quest!Reward(e), NEW q, q = Quest!Pay(e, p)
    PROVE  /\ DOMAIN r = QuestFields
           /\ IF Quest!IsTerminal(r, Quest!Finished(r)) THEN QuestClosed([r EXCEPT !.over = TRUE], q) ELSE QuestMoved(r, q)
<1>1. PICK c : c = Quest!Shared(e)
  OBVIOUS
<1>2. PICK s : s = Quest!RewardMore(c)
  OBVIOUS
<1>3. /\ DOMAIN c = QuestFields /\ c.over = e.over /\ c.outcomePaid = e.outcomePaid /\ c.recorded = e.recorded
      /\ c.status = e.status /\ c.done = e.done /\ c.progress = e.progress /\ c.accepted = e.accepted
      /\ c.turnedIn = e.turnedIn /\ c.acceptPaid = e.acceptPaid /\ c.wasted = e.wasted /\ c.wastedPaid = e.wasted
      /\ c.now = e.now /\ (c.died <=> ~e.alive) /\ (c.deathPaid <=> ~e.alive)
  BY <1>1 DEF Quest!Shared, QuestMoved, QuestFields
<1>4. s = [c EXCEPT !.acceptPaid = c.acceptPaid \/ c.accepted, !.progressPaid = c.progress]
  BY <1>2 DEF Quest!RewardMore
<1>5. /\ DOMAIN s = QuestFields /\ s.over = e.over /\ s.outcomePaid = e.outcomePaid /\ s.recorded = e.recorded
      /\ s.status = e.status /\ s.done = e.done /\ s.progress = e.progress /\ s.accepted = e.accepted
      /\ s.turnedIn = e.turnedIn /\ s.wasted = e.wasted /\ s.wastedPaid = e.wasted
      /\ s.now = e.now /\ (s.died <=> ~e.alive) /\ (s.deathPaid <=> ~e.alive)
      /\ (s.acceptPaid <=> e.acceptPaid \/ e.accepted) /\ s.progressPaid = e.progress
  BY <1>3, <1>4 DEF QuestFields
<1>6. PICK ends \in BOOLEAN : ends <=> e.turnedIn \/ ~e.alive \/ Quest!TimeIsUp(e)
  OBVIOUS
<1>7. Quest!Over(s, Quest!Finished(s)) = ends
  BY <1>5, <1>6 DEF Quest!Over, Quest!Finished, Quest!TimeIsUp
<1>8. r = IF ~ends THEN s
          ELSE [s EXCEPT !.outcomePaid = TRUE, !.won = s.turnedIn, !.recorded = TRUE,
                         !.row = IF ~s.recorded /\ s.pick.counts THEN Quest!Record(s.row, s.pick.tier, s.turnedIn) ELSE s.row]
  BY <1>1, <1>2, <1>5, <1>7 DEF Quest!Reward, Quest!Outcome, Quest!Finished, QuestMoved
<1>9. /\ DOMAIN r = QuestFields /\ r.over = e.over
      /\ r.status = e.status /\ r.done = e.done /\ r.progress = e.progress /\ r.accepted = e.accepted
      /\ r.turnedIn = e.turnedIn /\ r.wasted = e.wasted /\ r.wastedPaid = e.wasted
      /\ r.now = e.now /\ (r.died <=> ~e.alive) /\ (r.deathPaid <=> ~e.alive)
      /\ (r.acceptPaid <=> e.acceptPaid \/ e.accepted) /\ r.progressPaid = e.progress
      /\ (ends => r.won = e.turnedIn) /\ (~ends => r.outcomePaid = e.outcomePaid /\ r.recorded = e.recorded)
  <2>1. CASE ends
    BY <1>5, <1>8, <2>1 DEF QuestFields
  <2>2. CASE ~ends
    BY <1>5, <1>8, <2>2
  <2> QED
    BY <2>1, <2>2
<1>10. Quest!IsTerminal(r, Quest!Finished(r)) = ends
  BY <1>6, <1>9 DEF Quest!IsTerminal, Quest!Over, Quest!Finished, Quest!TimeIsUp
<1>11. /\ q.death = (IF e.alive THEN 0 ELSE 1) /\ q.wasted = e.wasted /\ q.outcome = (IF ends THEN 1 ELSE 0)
       /\ q.recorded = (IF ends THEN 1 ELSE 0)
       /\ q.accepted = (IF e.acceptPaid \/ e.accepted THEN 1 ELSE 0) /\ q.credit = e.progress
       /\ q.turnIn = (IF e.turnedIn THEN 1 ELSE 0)
       /\ q.timeout = (IF ~e.turnedIn /\ Quest!TimeIsUp(e) THEN 1 ELSE 0) /\ DOMAIN q = QuestPay
  <2>1. PICK h : h = Quest!EarnShared(e, s, p, Quest!Finished(s))
    OBVIOUS
  <2>2. PICK d \in {0, 1} : d = IF (e.died \/ ~e.alive) /\ ~e.deathPaid THEN 1 ELSE 0
    OBVIOUS
  <2>3. PICK o \in {0, 1} : o = IF ends THEN 1 ELSE 0
    OBVIOUS
  <2>4. d = (IF e.alive THEN 0 ELSE 1) /\ ~s.outcomePaid /\ ~s.recorded /\ DOMAIN p = QuestPay
    BY <1>5, <2>2 DEF QuestMoved
  <2>5. h = [p EXCEPT !.death = p.death + d, !.wasted = p.wasted + e.wasted - e.wastedPaid,
                      !.progress = Quest!Progress(e), !.toward = e.way,
                      !.outcome = p.outcome + o, !.recorded = p.recorded + o]
    BY <1>7, <2>1, <2>2, <2>3, <2>4 DEF Quest!EarnShared
  <2>6. /\ DOMAIN h = QuestPay /\ h.death = p.death + d /\ h.wasted = p.wasted + e.wasted - e.wastedPaid
        /\ h.outcome = p.outcome + o /\ h.recorded = p.recorded + o
        /\ h.accepted = p.accepted /\ h.credit = p.credit /\ h.turnIn = p.turnIn /\ h.timeout = p.timeout
    BY <2>4, <2>5 DEF QuestPay
  <2>7. PICK a \in {0, 1} : a = IF e.accepted /\ ~e.acceptPaid THEN 1 ELSE 0
    OBVIOUS
  <2>8. PICK t \in {0, 1} : t = IF e.turnedIn /\ ~e.outcomePaid THEN 1 ELSE 0
    OBVIOUS
  <2>9. PICK l \in {0, 1} : l = IF ~e.turnedIn /\ Quest!TimeIsUp(e) /\ ~e.outcomePaid THEN 1 ELSE 0
    OBVIOUS
  <2>10. q = [h EXCEPT !.accepted = h.accepted + a, !.credit = h.credit + e.progress - e.progressPaid,
                       !.turnIn = h.turnIn + t, !.timeout = h.timeout + l]
    BY <1>1, <1>2, <2>1, <2>7, <2>8, <2>9 DEF Quest!Pay
  <2>11. /\ DOMAIN q = QuestPay /\ q.death = p.death + d /\ q.wasted = p.wasted + e.wasted - e.wastedPaid
         /\ q.outcome = p.outcome + o /\ q.recorded = p.recorded + o
         /\ q.accepted = p.accepted + a /\ q.credit = p.credit + e.progress - e.progressPaid
         /\ q.turnIn = p.turnIn + t /\ q.timeout = p.timeout + l
    BY <2>6, <2>10 DEF QuestPay
  <2>12. /\ p.death = 0 /\ p.outcome = 0 /\ p.recorded = 0 /\ p.turnIn = 0 /\ p.timeout = 0
         /\ p.wasted = e.wastedPaid /\ p.credit = e.progressPaid /\ p.accepted = (IF e.acceptPaid THEN 1 ELSE 0)
         /\ e.wasted \in Nat /\ e.wastedPaid \in Nat /\ e.progress \in Nat /\ e.progressPaid \in Nat /\ ~e.outcomePaid
    BY DEF QuestMoved
  <2> QED
    BY <2>3, <2>4, <2>7, <2>8, <2>9, <2>11, <2>12
<1>12. CASE ends
  <2>1. PICK x : x = [r EXCEPT !.over = TRUE]
    OBVIOUS
  <2>2. /\ x.won = e.turnedIn /\ x.status = e.status /\ (x.died <=> ~e.alive) /\ x.wasted = e.wasted /\ x.now = e.now
        /\ x.done = e.done
    BY <1>9, <1>12, <2>1 DEF QuestFields
  <2>3. x.won = (x.status = "rewarded")
    BY <2>2 DEF QuestMoved
  <2>4. /\ e.progress \in Nat /\ e.done \in Nat /\ e.progress <= e.done /\ e.done <= e.progress + 1
        /\ (e.turnedIn => e.accepted /\ e.progress = Setup.quest.Needed)
    BY DEF QuestMoved
  <2>5. q.credit \in x.done - 1 .. x.done /\ (q.turnIn = 1 => q.credit = Setup.quest.Needed) /\ q.accepted <= 1 /\ q.turnIn <= q.accepted
    BY <1>11, <2>2, <2>4
  <2>6. q.accepted = (IF x.status = "none" THEN 0 ELSE 1)
    BY <1>11, <2>2 DEF QuestMoved
  <2>7. Quest!TimeIsUp(x) = Quest!TimeIsUp(e)
    BY <2>2 DEF Quest!TimeIsUp
  <2>8. QuestClosed(x, q)
    BY <1>11, <1>12, <2>2, <2>3, <2>5, <2>6, <2>7 DEF QuestClosed
  <2> QED
    BY <1>9, <1>10, <1>12, <2>1, <2>8
<1>13. CASE ~ends
  <2>1. e.alive /\ ~e.turnedIn /\ ~Quest!TimeIsUp(e)
    BY <1>6, <1>13
  <2>2. QuestMoved(r, q)
    BY <1>9, <1>11, <1>13, <2>1 DEF QuestMoved
  <2> QED
    BY <1>9, <1>10, <1>13, <2>2
<1> QED
  BY <1>12, <1>13

\* The invariant of the arena, and that its steps keep it.
QuestInv == (~env.over => QuestOpen(env, paid)) /\ (env.over => QuestClosed(env, paid))

LEMMA QuestStarts == Quest!Init => QuestInv
BY QuestBuilt DEF Quest!Init, QuestInv, QuestOpen, QuestMoved

LEMMA QuestKeeps == QuestInv /\ Quest!Next => QuestInv'
<1>1. ASSUME QuestInv, Quest!Decide PROVE QuestInv'
  <2>1. PICK w \in Quest!Worlds(env) :
           /\ paid' = Quest!Pay(w, paid)
           /\ IF Quest!IsTerminal(Quest!Reward(w), Quest!Finished(Quest!Reward(w))) THEN env' = [Quest!Reward(w) EXCEPT !.over = TRUE]
              ELSE env' \in Quest!Presses(Quest!Update(Quest!Reward(w)))
    BY <1>1 DEF Quest!Decide
  <2>2. QuestMoved(w, paid)
    BY <1>1, <2>1, QuestWorld DEF QuestInv, Quest!Decide
  <2>3. PICK r : r = Quest!Reward(w)
    OBVIOUS
  <2>4. /\ DOMAIN r = QuestFields
        /\ IF Quest!IsTerminal(r, Quest!Finished(r)) THEN QuestClosed([r EXCEPT !.over = TRUE], paid') ELSE QuestMoved(r, paid')
    BY <2>1, <2>2, <2>3, QuestRewarded
  <2>5. CASE Quest!IsTerminal(r, Quest!Finished(r))
    BY <2>1, <2>3, <2>4, <2>5 DEF QuestInv, QuestFields
  <2>6. CASE ~Quest!IsTerminal(r, Quest!Finished(r))
    <3>1. QuestOpen(env', paid')
      BY <2>1, <2>3, <2>4, <2>6, QuestUpdated
    <3> QED
      BY <3>1 DEF QuestInv, QuestOpen, QuestMoved
  <2> QED
    BY <2>5, <2>6
<1>2. ASSUME Quest!NextEpisode PROVE QuestInv'
  <2>1. PICK e : QuestMoved(e, paid') /\ env' \in Quest!Presses(Quest!Update(e))
    BY <1>2, QuestBuilt DEF Quest!NextEpisode, QuestOpen
  <2>2. QuestOpen(env', paid')
    BY <2>1, QuestUpdated
  <2> QED
    BY <2>2 DEF QuestInv, QuestOpen, QuestMoved
<1> QED
  BY <1>1, <1>2 DEF Quest!Next

LEMMA QuestHolds == QuestInv => Quest!QuestSettled /\ Quest!NothingUnearned
<1>1. ASSUME QuestInv, env.over PROVE Quest!QuestSettled /\ Quest!NothingUnearned
  <2>1. QuestClosed(env, paid)
    BY <1>1 DEF QuestInv
  <2> QED
    BY <2>1 DEF QuestClosed, Quest!QuestSettled, Quest!LifeSettled, Quest!NothingUnearned
<1>2. ASSUME QuestInv, ~env.over PROVE Quest!QuestSettled /\ Quest!NothingUnearned
  BY <1>2 DEF QuestInv, QuestOpen, QuestMoved, Quest!QuestSettled, Quest!LifeSettled, Quest!NothingUnearned
<1> QED
  BY <1>1, <1>2

-----------------------------------------------------------------------------
(* A field of nodes: GatherEncounter and what it has of LifeEncounter.      *)

FieldFields ==
    {"now", "over", "row", "pick", "recorded", "at", "alive", "died", "deathPaid", "outcomePaid", "won", "way", "last",
     "wasted", "wastedPaid", "spawned", "open", "taught", "gathered", "nodesPaid", "skillUps", "skillUpsPaid"}
FieldPay == {"death", "outcome", "recorded", "wasted", "progress", "toward", "nodes", "skill"}

LEMMA SameCardinality == \A S : Gather!Cardinality(S) = Cardinality(S)
BY DEF Cardinality, Gather!Cardinality, IsFiniteSet, Gather!IsFiniteSet

\* What is left of the field and what was taken from it, which is what was learned there.
FieldKept(e) ==
    /\ e.spawned \subseteq Setup.gather.Nodes
    /\ e.gathered = Cardinality(Setup.gather.Nodes) - Cardinality(e.spawned)
    /\ e.taught \in Nat /\ e.skillUps \in Nat /\ e.skillUps <= e.taught

\* A field that goes on.
FieldOpen(e, p) ==
    /\ DOMAIN e = FieldFields /\ DOMAIN p = FieldPay
    /\ ~e.over /\ ~e.died /\ ~e.deathPaid /\ ~e.outcomePaid /\ ~e.recorded
    /\ p.death = 0 /\ p.outcome = 0 /\ p.recorded = 0
    /\ p.wasted = e.wastedPaid /\ p.nodes = e.nodesPaid /\ p.skill = e.skillUpsPaid
    /\ e.wasted \in Nat /\ e.wastedPaid \in Nat /\ e.nodesPaid \in Int /\ e.skillUpsPaid \in Int
    /\ FieldKept(e)

\* What GatherSettled says of one that is over.
FieldClosed(e, p) ==
    /\ p.outcome = 1 /\ p.recorded = 1 /\ e.won = (e.spawned = {})
    /\ p.death = (IF e.died THEN 1 ELSE 0) /\ p.wasted = e.wasted
    /\ p.nodes = Cardinality(Setup.gather.Nodes) - Cardinality(e.spawned)
    /\ p.skill <= e.taught

LEMMA FieldBuilt == \A row, pick : FieldOpen(Gather!Build(row, pick), Gather!NothingPaid)
<1> SUFFICES ASSUME NEW row, NEW pick PROVE FieldOpen(Gather!Build(row, pick), Gather!NothingPaid)
  OBVIOUS
<1>1. PICK t : t = Gather!NewLife(row, pick)
  OBVIOUS
<1>2. PICK o : o = [spawned |-> Setup.gather.Nodes, open |-> FALSE, taught |-> 0,
         gathered |-> 0, nodesPaid |-> 0, skillUps |-> 0, skillUpsPaid |-> 0]
  OBVIOUS
<1>3. PICK e : e = Gather!With(t, o)
  OBVIOUS
<1>4. /\ DOMAIN t = {"now", "over", "row", "pick", "recorded", "at", "alive", "died", "deathPaid", "outcomePaid", "won",
                     "way", "last", "wasted", "wastedPaid"}
      /\ t.over = FALSE /\ t.recorded = FALSE /\ t.died = FALSE /\ t.deathPaid = FALSE /\ t.outcomePaid = FALSE
      /\ t.wasted = 0 /\ t.wastedPaid = 0
  BY <1>1 DEF Gather!NewLife
<1>5. /\ DOMAIN o = {"spawned", "open", "taught", "gathered", "nodesPaid", "skillUps", "skillUpsPaid"}
      /\ o.spawned = Setup.gather.Nodes /\ o.taught = 0 /\ o.gathered = 0 /\ o.nodesPaid = 0 /\ o.skillUps = 0 /\ o.skillUpsPaid = 0
  BY <1>2
<1>6. DOMAIN e = FieldFields
  BY <1>3, <1>4, <1>5 DEF FieldFields, Gather!With
<1>7. /\ e.over = FALSE /\ e.recorded = FALSE /\ e.died = FALSE /\ e.deathPaid = FALSE /\ e.outcomePaid = FALSE
      /\ e.wasted = 0 /\ e.wastedPaid = 0
  BY <1>3, <1>4, <1>5 DEF Gather!With
<1>8. e.spawned = Setup.gather.Nodes /\ e.taught = 0 /\ e.gathered = 0 /\ e.nodesPaid = 0 /\ e.skillUps = 0 /\ e.skillUpsPaid = 0
  BY <1>3, <1>4, <1>5 DEF Gather!With
<1>9. PICK p : p = Gather!NothingPaid
  OBVIOUS
<1>10. /\ DOMAIN p = FieldPay /\ p.death = 0 /\ p.outcome = 0 /\ p.recorded = 0 /\ p.wasted = 0 /\ p.nodes = 0 /\ p.skill = 0
  BY <1>9 DEF Gather!NothingPaid, Gather!NothingEarned, Gather!With, FieldPay
<1>11. Cardinality(Setup.gather.Nodes) \in Nat
  BY SetupAssumption, FS_CardinalityType
<1>12. FieldKept(e)
  BY <1>8, <1>11 DEF FieldKept
<1>13. FieldOpen(e, p)
  BY <1>6, <1>7, <1>8, <1>10, <1>12 DEF FieldOpen
<1> QED
  BY <1>1, <1>2, <1>3, <1>9, <1>13 DEF Gather!Build

LEMMA FieldMoved ==
    ASSUME NEW e, NEW p, FieldOpen(e, p), NEW m \in Gather!SeatMoves(e)
    PROVE  FieldOpen([m EXCEPT !.open = m.open /\ m.at = e.at], p)
<1>1. (\E to : m = Gather!Walks(e, to)) \/ m = [e EXCEPT !.now = e.now + 1, !.alive = FALSE]
  BY DEF Gather!SeatMoves
<1>2. FieldOpen(m, p)
  <2>1. CASE m = [e EXCEPT !.now = e.now + 1, !.alive = FALSE]
    BY <2>1 DEF FieldOpen, FieldFields, FieldKept
  <2>2. ASSUME NEW to, m = Gather!Walks(e, to) PROVE FieldOpen(m, p)
    BY <2>2 DEF Gather!Walks, FieldOpen, FieldFields, FieldKept
  <2> QED
    BY <1>1, <2>1, <2>2
<1> QED
  BY <1>2 DEF FieldOpen, FieldFields, FieldKept

LEMMA FieldUpdated ==
    ASSUME NEW e, NEW p, FieldOpen(e, p), NEW u \in Gather!Presses(Gather!Update(e))
    PROVE  FieldOpen(u, p)
<1>1. PICK r : r = [e EXCEPT !.skillUps = e.taught]
  OBVIOUS
<1>2. FieldOpen(r, p)
  BY <1>1 DEF FieldOpen, FieldFields, FieldKept
<1>3. PICK v : v = Gather!Update(e)
  OBVIOUS
<1>4. ASSUME NEW to PROVE FieldOpen(Gather!SetWaypoint(r, "node", to), p) /\ FieldOpen(Gather!ClearWaypoint(r), p)
  BY <1>2 DEF FieldOpen, FieldFields, FieldKept, Gather!SetWaypoint, Gather!ClearWaypoint
<1>5. FieldOpen(v, p)
  BY <1>1, <1>2, <1>3, <1>4 DEF Gather!Update
<1>6. \/ u = v
      \/ u \in Gather!Opens(v)
      \/ v.at \in v.spawned /\ u = Gather!Loots(v)
  BY <1>3 DEF Gather!Presses
<1>7. CASE u \in Gather!Opens(v)
  <2>1. PICK t \in {0, 1} : u = [v EXCEPT !.open = TRUE, !.taught = v.taught + t]
    BY <1>7 DEF Gather!Opens
  <2> QED
    BY <1>5, <2>1 DEF FieldOpen, FieldFields, FieldKept
<1>8. CASE v.at \in v.spawned /\ u = Gather!Loots(v)
  <2>1. PICK left : left = v.spawned \ {v.at}
    OBVIOUS
  <2>2. IsFiniteSet(v.spawned)
    BY <1>5, SetupAssumption, FS_Subset DEF FieldOpen, FieldKept
  <2>3. Cardinality(left) = Cardinality(v.spawned) - 1 /\ Cardinality(v.spawned) \in Nat
    BY <1>8, <2>1, <2>2, FS_RemoveElement, FS_CardinalityType
  <2>4. u = [v EXCEPT !.open = FALSE, !.spawned = left, !.gathered = v.gathered + 1]
    BY <1>8, <2>1 DEF Gather!Loots
  <2>5. Cardinality(Setup.gather.Nodes) \in Nat
    BY SetupAssumption, FS_CardinalityType
  <2>6. /\ DOMAIN u = FieldFields /\ u.spawned = left /\ u.gathered = v.gathered + 1 /\ u.taught = v.taught /\ u.skillUps = v.skillUps
        /\ u.over = v.over /\ u.died = v.died /\ u.deathPaid = v.deathPaid /\ u.outcomePaid = v.outcomePaid
        /\ u.recorded = v.recorded /\ u.wasted = v.wasted /\ u.wastedPaid = v.wastedPaid /\ u.nodesPaid = v.nodesPaid
        /\ u.skillUpsPaid = v.skillUpsPaid
    BY <1>5, <2>4 DEF FieldOpen, FieldFields
  <2>7. FieldKept(u)
    BY <1>5, <2>1, <2>3, <2>5, <2>6 DEF FieldOpen, FieldKept
  <2> QED
    BY <1>5, <2>6, <2>7 DEF FieldOpen
<1> QED
  BY <1>5, <1>6, <1>7, <1>8

LEMMA FieldRewarded ==
    ASSUME NEW e, NEW p, FieldOpen(e, p), NEW r, r = Gather!Reward(e), NEW q, q = Gather!Pay(e, p)
    PROVE  /\ DOMAIN r = FieldFields
           /\ IF Gather!IsTerminal(r, Gather!Finished(r)) THEN FieldClosed([r EXCEPT !.over = TRUE], q) ELSE FieldOpen(r, q)
<1>1. PICK c : c = Gather!Shared(e)
  OBVIOUS
<1>2. PICK s : s = Gather!RewardMore(c)
  OBVIOUS
<1>3. /\ DOMAIN c = FieldFields /\ c.over = e.over /\ c.outcomePaid = e.outcomePaid /\ c.recorded = e.recorded
      /\ c.spawned = e.spawned /\ c.taught = e.taught /\ c.gathered = e.gathered /\ c.skillUps = e.skillUps
      /\ c.wasted = e.wasted /\ c.wastedPaid = e.wasted
      /\ c.now = e.now /\ (c.died <=> ~e.alive) /\ (c.deathPaid <=> ~e.alive)
  BY <1>1 DEF Gather!Shared, FieldOpen, FieldFields
<1>4. s = [c EXCEPT !.nodesPaid = c.gathered, !.skillUpsPaid = c.skillUps]
  BY <1>2 DEF Gather!RewardMore
<1>5. /\ DOMAIN s = FieldFields /\ s.over = e.over /\ s.outcomePaid = e.outcomePaid /\ s.recorded = e.recorded
      /\ s.spawned = e.spawned /\ s.taught = e.taught /\ s.gathered = e.gathered /\ s.skillUps = e.skillUps
      /\ s.wasted = e.wasted /\ s.wastedPaid = e.wasted
      /\ s.now = e.now /\ (s.died <=> ~e.alive) /\ (s.deathPaid <=> ~e.alive)
      /\ s.nodesPaid = e.gathered /\ s.skillUpsPaid = e.skillUps
  BY <1>3, <1>4 DEF FieldFields
<1>6. PICK won \in BOOLEAN : won <=> e.spawned = {}
  OBVIOUS
<1>W. Gather!Finished(e) = won
  <2>1. IsFiniteSet(e.spawned)
    BY SetupAssumption, FS_Subset DEF FieldOpen, FieldKept
  <2>2. Cardinality(e.spawned) \in Nat /\ Cardinality(Setup.gather.Nodes) \in Nat /\ (Cardinality(e.spawned) = 0 <=> e.spawned = {})
    BY <2>1, SetupAssumption, FS_CardinalityType, FS_EmptySet
  <2>3. (e.gathered >= Cardinality(Setup.gather.Nodes)) <=> e.spawned = {}
    BY <2>2 DEF FieldOpen, FieldKept
  <2> QED
    BY <1>6, <2>3, SameCardinality DEF Gather!Finished
<1>V. Gather!Finished(s) = won
  BY <1>5, <1>W DEF Gather!Finished
<1>E. PICK ends \in BOOLEAN : ends <=> won \/ ~e.alive \/ Gather!TimeIsUp(e)
  OBVIOUS
<1>7. Gather!Over(s, Gather!Finished(s)) = ends
  BY <1>5, <1>E, <1>V DEF Gather!Over, Gather!TimeIsUp
<1>8. r = IF ~ends THEN s
          ELSE [s EXCEPT !.outcomePaid = TRUE, !.won = won, !.recorded = TRUE,
                         !.row = IF ~s.recorded /\ s.pick.counts THEN Gather!Record(s.row, s.pick.tier, won) ELSE s.row]
  BY <1>1, <1>2, <1>5, <1>7, <1>V DEF Gather!Reward, Gather!Outcome, FieldOpen
<1>9. /\ DOMAIN r = FieldFields /\ r.over = e.over
      /\ r.spawned = e.spawned /\ r.taught = e.taught /\ r.gathered = e.gathered /\ r.skillUps = e.skillUps
      /\ r.wasted = e.wasted /\ r.wastedPaid = e.wasted
      /\ r.now = e.now /\ (r.died <=> ~e.alive) /\ (r.deathPaid <=> ~e.alive)
      /\ r.nodesPaid = e.gathered /\ r.skillUpsPaid = e.skillUps
      /\ (ends => r.won = won) /\ (~ends => r.outcomePaid = e.outcomePaid /\ r.recorded = e.recorded)
  <2>1. CASE ends
    BY <1>5, <1>8, <2>1 DEF FieldFields
  <2>2. CASE ~ends
    BY <1>5, <1>8, <2>2
  <2> QED
    BY <2>1, <2>2
<1>10. Gather!IsTerminal(r, Gather!Finished(r)) = ends
  <2>1. Gather!Finished(r) = won
    BY <1>9, <1>W DEF Gather!Finished
  <2> QED
    BY <2>1, <1>E, <1>9 DEF Gather!IsTerminal, Gather!Over, Gather!TimeIsUp
<1>11. /\ q.death = (IF e.alive THEN 0 ELSE 1) /\ q.wasted = e.wasted /\ q.outcome = (IF ends THEN 1 ELSE 0)
       /\ q.recorded = (IF ends THEN 1 ELSE 0)
       /\ q.nodes = e.gathered /\ q.skill = e.skillUps /\ DOMAIN q = FieldPay
  <2>1. PICK h : h = Gather!EarnShared(e, s, p, Gather!Finished(s))
    OBVIOUS
  <2>2. PICK d \in {0, 1} : d = IF (e.died \/ ~e.alive) /\ ~e.deathPaid THEN 1 ELSE 0
    OBVIOUS
  <2>3. PICK o \in {0, 1} : o = IF ends THEN 1 ELSE 0
    OBVIOUS
  <2>4. d = (IF e.alive THEN 0 ELSE 1) /\ ~s.outcomePaid /\ ~s.recorded /\ DOMAIN p = FieldPay
    BY <1>5, <2>2 DEF FieldOpen
  <2>5. h = [p EXCEPT !.death = p.death + d, !.wasted = p.wasted + e.wasted - e.wastedPaid,
                      !.progress = Gather!Progress(e), !.toward = e.way,
                      !.outcome = p.outcome + o, !.recorded = p.recorded + o]
    BY <1>7, <2>1, <2>2, <2>3, <2>4 DEF Gather!EarnShared
  <2>6. /\ DOMAIN h = FieldPay /\ h.death = p.death + d /\ h.wasted = p.wasted + e.wasted - e.wastedPaid
        /\ h.outcome = p.outcome + o /\ h.recorded = p.recorded + o
        /\ h.nodes = p.nodes /\ h.skill = p.skill
    BY <2>4, <2>5 DEF FieldPay
  <2>7. q = [h EXCEPT !.nodes = h.nodes + e.gathered - e.nodesPaid, !.skill = h.skill + e.skillUps - e.skillUpsPaid]
    BY <1>1, <1>2, <2>1 DEF Gather!Pay
  <2>8. /\ DOMAIN q = FieldPay /\ q.death = p.death + d /\ q.wasted = p.wasted + e.wasted - e.wastedPaid
        /\ q.outcome = p.outcome + o /\ q.recorded = p.recorded + o
        /\ q.nodes = p.nodes + e.gathered - e.nodesPaid /\ q.skill = p.skill + e.skillUps - e.skillUpsPaid
    BY <2>6, <2>7 DEF FieldPay
  <2>9. Cardinality(e.spawned) \in Nat /\ Cardinality(Setup.gather.Nodes) \in Nat
    BY SetupAssumption, FS_Subset, FS_CardinalityType DEF FieldOpen, FieldKept
  <2>10. /\ p.death = 0 /\ p.outcome = 0 /\ p.recorded = 0
         /\ p.wasted = e.wastedPaid /\ p.nodes = e.nodesPaid /\ p.skill = e.skillUpsPaid
         /\ e.wasted \in Nat /\ e.wastedPaid \in Nat /\ e.gathered \in Int /\ e.skillUps \in Nat /\ e.nodesPaid \in Int
         /\ e.skillUpsPaid \in Int
    BY <2>9 DEF FieldOpen, FieldKept
  <2> QED
    BY <2>3, <2>4, <2>8, <2>10
<1>12. CASE ends
  <2>1. PICK x : x = [r EXCEPT !.over = TRUE]
    OBVIOUS
  <2>2. /\ x.won = won /\ x.spawned = e.spawned /\ (x.died <=> ~e.alive) /\ x.wasted = e.wasted /\ x.taught = e.taught
    BY <1>9, <1>12, <2>1 DEF FieldFields
  <2>3. x.won = (x.spawned = {})
    BY <1>6, <2>2
  <2>4. e.skillUps <= e.taught /\ e.gathered = Cardinality(Setup.gather.Nodes) - Cardinality(e.spawned)
    BY DEF FieldOpen, FieldKept
  <2>5. FieldClosed(x, q)
    BY <1>11, <1>12, <2>2, <2>3, <2>4 DEF FieldClosed
  <2> QED
    BY <1>9, <1>10, <1>12, <2>1, <2>5
<1>13. CASE ~ends
  <2>1. e.alive
    BY <1>E, <1>13
  <2>2. Cardinality(e.spawned) \in Nat /\ Cardinality(Setup.gather.Nodes) \in Nat
    BY SetupAssumption, FS_Subset, FS_CardinalityType DEF FieldOpen, FieldKept
  <2>3. FieldKept(r) /\ e.gathered \in Int /\ e.skillUps \in Nat
    BY <1>9, <2>2 DEF FieldOpen, FieldKept
  <2>4. FieldOpen(r, q)
    BY <1>9, <1>11, <1>13, <2>1, <2>3 DEF FieldOpen
  <2> QED
    BY <1>9, <1>10, <1>13, <2>4
<1> QED
  BY <1>12, <1>13

\* The invariant of the arena, and that its steps keep it.
FieldInv == (~env.over => FieldOpen(env, paid)) /\ (env.over => FieldClosed(env, paid))

LEMMA FieldStarts == Gather!Init => FieldInv
BY FieldBuilt DEF Gather!Init, FieldInv, FieldOpen

LEMMA FieldKeeps == FieldInv /\ Gather!Next => FieldInv'
<1>1. ASSUME FieldInv, Gather!Decide PROVE FieldInv'
  <2>1. PICK m \in Gather!SeatMoves(env) :
           LET e == [m EXCEPT !.open = m.open /\ m.at = env.at]
               r == Gather!Reward(e)
           IN  /\ paid' = Gather!Pay(e, paid)
               /\ IF Gather!IsTerminal(r, Gather!Finished(r)) THEN env' = [r EXCEPT !.over = TRUE]
                  ELSE env' \in Gather!Presses(Gather!Update(r))
    BY <1>1 DEF Gather!Decide
  <2>2. PICK e : e = [m EXCEPT !.open = m.open /\ m.at = env.at]
    OBVIOUS
  <2>3. FieldOpen(e, paid)
    BY <1>1, <2>1, <2>2, FieldMoved DEF FieldInv, Gather!Decide
  <2>4. PICK r : r = Gather!Reward(e)
    OBVIOUS
  <2>5. /\ DOMAIN r = FieldFields
        /\ IF Gather!IsTerminal(r, Gather!Finished(r)) THEN FieldClosed([r EXCEPT !.over = TRUE], paid') ELSE FieldOpen(r, paid')
    BY <2>1, <2>2, <2>3, <2>4, FieldRewarded
  <2>6. CASE Gather!IsTerminal(r, Gather!Finished(r))
    BY <2>1, <2>2, <2>4, <2>5, <2>6 DEF FieldInv, FieldFields
  <2>7. CASE ~Gather!IsTerminal(r, Gather!Finished(r))
    <3>1. FieldOpen(env', paid')
      BY <2>1, <2>2, <2>4, <2>5, <2>7, FieldUpdated
    <3> QED
      BY <3>1 DEF FieldInv, FieldOpen
  <2> QED
    BY <2>6, <2>7
<1>2. ASSUME Gather!NextEpisode PROVE FieldInv'
  <2>1. PICK e : FieldOpen(e, paid') /\ env' \in Gather!Presses(Gather!Update(e))
    BY <1>2, FieldBuilt DEF Gather!NextEpisode
  <2>2. FieldOpen(env', paid')
    BY <2>1, FieldUpdated
  <2> QED
    BY <2>2 DEF FieldInv, FieldOpen
<1> QED
  BY <1>1, <1>2 DEF Gather!Next

LEMMA FieldHolds == FieldInv => Gather!GatherSettled
BY SameCardinality DEF FieldInv, FieldClosed, Gather!GatherSettled, Gather!LifeSettled

-----------------------------------------------------------------------------
(* A town: TownEncounter and what it has of LifeEncounter.                  *)

TownFields ==
    {"now", "over", "row", "pick", "recorded", "at", "alive", "died", "deathPaid", "outcomePaid", "won", "way", "last",
     "wasted", "wastedPaid", "junk", "damaged", "food", "bag", "copperSold", "soldPaid", "soldOut", "repaired", "repairPaid",
     "stocked", "stockPaid", "equipped", "equippedPaid"}
TownPay ==
    {"death", "outcome", "recorded", "wasted", "progress", "toward", "sold", "repaired", "stocked", "equipped", "done"}

\* What the seat sold and put on is what its bags lack.
TownKept(e) ==
    /\ e.junk \in Nat /\ e.bag \in Nat
    /\ e.copperSold = Setup.town.Junk - e.junk /\ e.equipped = Setup.town.Upgrades - e.bag
    /\ e.soldOut => e.junk = 0

\* What was paid so far of what the seat did.
TownPaid(e, p) ==
    /\ p.death = 0 /\ p.outcome = 0 /\ p.recorded = 0 /\ p.done = 0
    /\ p.wasted = e.wastedPaid /\ p.sold = e.soldPaid /\ p.equipped = e.equippedPaid
    /\ p.repaired = (IF e.repairPaid THEN 1 ELSE 0) /\ p.stocked = (IF e.stockPaid THEN 1 ELSE 0)
    /\ e.wasted \in Nat /\ e.wastedPaid \in Nat /\ e.soldPaid \in Int /\ e.equippedPaid \in Int

\* A town that goes on.
TownOpen(e, p) ==
    /\ DOMAIN e = TownFields /\ DOMAIN p = TownPay
    /\ ~e.over /\ ~e.died /\ ~e.deathPaid /\ ~e.outcomePaid /\ ~e.recorded
    /\ TownKept(e) /\ TownPaid(e, p)

\* What TownSettled says of one that is over.
TownClosed(e, p) ==
    /\ p.outcome = 1 /\ p.recorded = 1 /\ e.won = (p.done = 1)
    /\ p.death = (IF e.died THEN 1 ELSE 0) /\ p.wasted = e.wasted
    /\ p.sold = Setup.town.Junk - e.junk /\ p.equipped = Setup.town.Upgrades - e.bag
    /\ p.repaired <= 1 /\ p.stocked <= 1
    /\ e.won => p.sold = Setup.town.Junk /\ p.repaired = 1 /\ p.stocked = 1 /\ p.equipped = Setup.town.Upgrades

LEMMA TownBuilt == \A row, pick : TownOpen(Town!Build(row, pick), Town!NothingPaid)
<1> SUFFICES ASSUME NEW row, NEW pick PROVE TownOpen(Town!Build(row, pick), Town!NothingPaid)
  OBVIOUS
<1>1. PICK t : t = Town!NewLife(row, pick)
  OBVIOUS
<1>2. PICK o : o = [junk |-> Setup.town.Junk, damaged |-> TRUE, food |-> FALSE, bag |-> Setup.town.Upgrades,
         copperSold |-> 0, soldPaid |-> 0, soldOut |-> FALSE, repaired |-> FALSE, repairPaid |-> FALSE,
         stocked |-> FALSE, stockPaid |-> FALSE, equipped |-> 0, equippedPaid |-> 0]
  OBVIOUS
<1>3. PICK e : e = Town!With(t, o)
  OBVIOUS
<1>4. /\ DOMAIN t = {"now", "over", "row", "pick", "recorded", "at", "alive", "died", "deathPaid", "outcomePaid", "won",
                     "way", "last", "wasted", "wastedPaid"}
      /\ t.over = FALSE /\ t.recorded = FALSE /\ t.died = FALSE /\ t.deathPaid = FALSE /\ t.outcomePaid = FALSE
      /\ t.wasted = 0 /\ t.wastedPaid = 0
  BY <1>1 DEF Town!NewLife
<1>5. /\ DOMAIN o = {"junk", "damaged", "food", "bag", "copperSold", "soldPaid", "soldOut", "repaired", "repairPaid",
                     "stocked", "stockPaid", "equipped", "equippedPaid"}
      /\ o.junk = Setup.town.Junk /\ o.bag = Setup.town.Upgrades /\ o.copperSold = 0 /\ o.equipped = 0 /\ o.soldPaid = 0
      /\ o.equippedPaid = 0 /\ o.soldOut = FALSE /\ o.repairPaid = FALSE /\ o.stockPaid = FALSE
  BY <1>2
<1>6. DOMAIN e = TownFields
  BY <1>3, <1>4, <1>5 DEF TownFields, Town!With
<1>7. /\ e.over = FALSE /\ e.recorded = FALSE /\ e.died = FALSE /\ e.deathPaid = FALSE /\ e.outcomePaid = FALSE
      /\ e.wasted = 0 /\ e.wastedPaid = 0
  BY <1>3, <1>4, <1>5 DEF Town!With
<1>8. /\ e.junk = Setup.town.Junk /\ e.bag = Setup.town.Upgrades /\ e.copperSold = 0 /\ e.equipped = 0 /\ e.soldPaid = 0
      /\ e.equippedPaid = 0 /\ e.soldOut = FALSE /\ e.repairPaid = FALSE /\ e.stockPaid = FALSE
  BY <1>3, <1>4, <1>5 DEF Town!With
<1>9. PICK p : p = Town!NothingPaid
  OBVIOUS
<1>10. /\ DOMAIN p = TownPay /\ p.death = 0 /\ p.outcome = 0 /\ p.recorded = 0 /\ p.wasted = 0
       /\ p.sold = 0 /\ p.repaired = 0 /\ p.stocked = 0 /\ p.equipped = 0 /\ p.done = 0
  BY <1>9 DEF Town!NothingPaid, Town!NothingEarned, Town!With, TownPay
<1>11. TownKept(e)
  BY <1>8, SetupAssumption DEF TownKept
<1>12. TownPaid(e, p)
  BY <1>7, <1>8, <1>10 DEF TownPaid
<1>13. TownOpen(e, p)
  BY <1>6, <1>7, <1>10, <1>11, <1>12 DEF TownOpen
<1> QED
  BY <1>1, <1>2, <1>3, <1>9, <1>13 DEF Town!Build

LEMMA TownWorld == ASSUME NEW e, NEW p, TownOpen(e, p), NEW w \in Town!Worlds(e) PROVE TownOpen(w, p)
<1>1. ASSUME NEW m \in Town!SeatMoves(e) PROVE TownOpen(m, p)
  <2>1. (\E to : m = Town!Walks(e, to)) \/ m = [e EXCEPT !.now = e.now + 1, !.alive = FALSE]
    BY <1>1 DEF Town!SeatMoves
  <2>2. CASE m = [e EXCEPT !.now = e.now + 1, !.alive = FALSE]
    BY <2>2 DEF TownOpen, TownKept, TownPaid, TownFields
  <2>3. ASSUME NEW to, m = Town!Walks(e, to) PROVE TownOpen(m, p)
    BY <2>3 DEF Town!Walks, TownOpen, TownKept, TownPaid, TownFields
  <2> QED
    BY <2>1, <2>2, <2>3
<1>2. CASE w \in Town!SeatMoves(e)
  BY <1>1, <1>2
<1>3. CASE \E m \in Town!SeatMoves(e) : w = [m EXCEPT !.food = FALSE]
  BY <1>1, <1>3 DEF TownOpen, TownKept, TownPaid, TownFields
<1> QED
  BY <1>2, <1>3 DEF Town!Worlds

LEMMA TownUpdated ==
    ASSUME NEW e, NEW p, TownOpen(e, p), NEW u \in Town!Presses(Town!Update(e))
    PROVE  TownOpen(u, p)
<1>1. PICK r : r = [e EXCEPT !.soldOut = e.junk = 0, !.repaired = ~e.damaged, !.stocked = e.food]
  OBVIOUS
<1>2. TownOpen(r, p)
  BY <1>1 DEF TownOpen, TownKept, TownPaid, TownFields
<1>3. PICK v : v = Town!Update(e)
  OBVIOUS
<1>4. ASSUME NEW to PROVE TownOpen(Town!SetWaypoint(r, "trader", to), p) /\ TownOpen(Town!ClearWaypoint(r), p)
  BY <1>2 DEF TownOpen, TownKept, TownPaid, TownFields, Town!SetWaypoint, Town!ClearWaypoint
<1>5. TownOpen(v, p)
  BY <1>1, <1>2, <1>3, <1>4 DEF Town!Update
<1>6. \/ u = v
      \/ v.junk > 0 /\ u = Town!Sells(v)
      \/ u = Town!Repairs(v)
      \/ u = Town!Buys(v)
      \/ v.bag > 0 /\ u = Town!Equips(v)
  BY <1>3 DEF Town!Presses
<1>7. CASE u = Town!Sells(v)
  BY <1>5, <1>7, SetupAssumption DEF TownOpen, TownKept, TownPaid, TownFields, Town!Sells
<1>8. CASE u = Town!Repairs(v)
  BY <1>5, <1>8 DEF TownOpen, TownKept, TownPaid, TownFields, Town!Repairs
<1>9. CASE u = Town!Buys(v)
  BY <1>5, <1>9 DEF TownOpen, TownKept, TownPaid, TownFields, Town!Buys
<1>10. CASE v.bag > 0 /\ u = Town!Equips(v)
  BY <1>5, <1>10, SetupAssumption DEF TownOpen, TownKept, TownPaid, TownFields, Town!Equips
<1> QED
  BY <1>5, <1>6, <1>7, <1>8, <1>9, <1>10

LEMMA TownRewarded ==
    ASSUME NEW e, NEW p, TownOpen(e, p), NEW r, r = Town!Reward(e), NEW q, q = Town!Pay(e, p)
    PROVE  /\ DOMAIN r = TownFields
           /\ IF Town!IsTerminal(r, Town!Finished(r)) THEN TownClosed([r EXCEPT !.over = TRUE], q) ELSE TownOpen(r, q)
<1>1. PICK c : c = Town!Shared(e)
  OBVIOUS
<1>2. PICK s : s = Town!RewardMore(c)
  OBVIOUS
<1>3. /\ DOMAIN c = TownFields /\ c.over = e.over /\ c.outcomePaid = e.outcomePaid /\ c.recorded = e.recorded
      /\ c.junk = e.junk /\ c.bag = e.bag /\ c.copperSold = e.copperSold /\ c.equipped = e.equipped
      /\ c.soldOut = e.soldOut /\ c.repaired = e.repaired /\ c.stocked = e.stocked
      /\ c.repairPaid = e.repairPaid /\ c.stockPaid = e.stockPaid
      /\ c.wasted = e.wasted /\ c.wastedPaid = e.wasted
      /\ c.now = e.now /\ (c.died <=> ~e.alive) /\ (c.deathPaid <=> ~e.alive)
  BY <1>1 DEF Town!Shared, TownOpen, TownFields
<1>4. s = [c EXCEPT !.soldPaid = c.copperSold, !.repairPaid = c.repairPaid \/ c.repaired,
                    !.stockPaid = c.stockPaid \/ c.stocked, !.equippedPaid = c.equipped]
  BY <1>2 DEF Town!RewardMore
<1>5. /\ DOMAIN s = TownFields /\ s.over = e.over /\ s.outcomePaid = e.outcomePaid /\ s.recorded = e.recorded
      /\ s.junk = e.junk /\ s.bag = e.bag /\ s.copperSold = e.copperSold /\ s.equipped = e.equipped
      /\ s.soldOut = e.soldOut /\ s.repaired = e.repaired /\ s.stocked = e.stocked
      /\ (s.repairPaid <=> e.repairPaid \/ e.repaired) /\ (s.stockPaid <=> e.stockPaid \/ e.stocked)
      /\ s.soldPaid = e.copperSold /\ s.equippedPaid = e.equipped
      /\ s.wasted = e.wasted /\ s.wastedPaid = e.wasted
      /\ s.now = e.now /\ (s.died <=> ~e.alive) /\ (s.deathPaid <=> ~e.alive)
  BY <1>3, <1>4 DEF TownFields
<1>6. PICK won \in BOOLEAN : won = Town!Finished(e)
  BY DEF Town!Finished
<1>V. Town!Finished(s) = won
  BY <1>5, <1>6 DEF Town!Finished
<1>E. PICK ends \in BOOLEAN : ends <=> won \/ ~e.alive \/ Town!TimeIsUp(e)
  OBVIOUS
<1>7. Town!Over(s, Town!Finished(s)) = ends
  BY <1>5, <1>E, <1>V DEF Town!Over, Town!TimeIsUp
<1>8. r = IF ~ends THEN s
          ELSE [s EXCEPT !.outcomePaid = TRUE, !.won = won, !.recorded = TRUE,
                         !.row = IF ~s.recorded /\ s.pick.counts THEN Town!Record(s.row, s.pick.tier, won) ELSE s.row]
  BY <1>1, <1>2, <1>5, <1>7, <1>V DEF Town!Reward, Town!Outcome, TownOpen
<1>9. /\ DOMAIN r = TownFields /\ r.over = e.over
      /\ r.junk = e.junk /\ r.bag = e.bag /\ r.copperSold = e.copperSold /\ r.equipped = e.equipped
      /\ r.soldOut = e.soldOut /\ r.repaired = e.repaired /\ r.stocked = e.stocked
      /\ (r.repairPaid <=> e.repairPaid \/ e.repaired) /\ (r.stockPaid <=> e.stockPaid \/ e.stocked)
      /\ r.soldPaid = e.copperSold /\ r.equippedPaid = e.equipped
      /\ r.wasted = e.wasted /\ r.wastedPaid = e.wasted
      /\ r.now = e.now /\ (r.died <=> ~e.alive) /\ (r.deathPaid <=> ~e.alive)
      /\ (ends => r.won = won) /\ (~ends => r.outcomePaid = e.outcomePaid /\ r.recorded = e.recorded)
  <2>1. CASE ends
    BY <1>5, <1>8, <2>1 DEF TownFields
  <2>2. CASE ~ends
    BY <1>5, <1>8, <2>2
  <2> QED
    BY <2>1, <2>2
<1>10. Town!IsTerminal(r, Town!Finished(r)) = ends
  <2>1. Town!Finished(r) = won
    BY <1>9, <1>6 DEF Town!Finished
  <2> QED
    BY <2>1, <1>E, <1>9 DEF Town!IsTerminal, Town!Over, Town!TimeIsUp
<1>11. /\ q.death = (IF e.alive THEN 0 ELSE 1) /\ q.wasted = e.wasted /\ q.outcome = (IF ends THEN 1 ELSE 0)
       /\ q.recorded = (IF ends THEN 1 ELSE 0)
       /\ q.sold = e.copperSold /\ q.equipped = e.equipped /\ q.done = (IF won THEN 1 ELSE 0)
       /\ q.repaired = (IF e.repairPaid \/ e.repaired THEN 1 ELSE 0)
       /\ q.stocked = (IF e.stockPaid \/ e.stocked THEN 1 ELSE 0) /\ DOMAIN q = TownPay
  <2>1. PICK h : h = Town!EarnShared(e, s, p, Town!Finished(s))
    OBVIOUS
  <2>2. PICK d \in {0, 1} : d = IF (e.died \/ ~e.alive) /\ ~e.deathPaid THEN 1 ELSE 0
    OBVIOUS
  <2>3. PICK o \in {0, 1} : o = IF ends THEN 1 ELSE 0
    OBVIOUS
  <2>4. d = (IF e.alive THEN 0 ELSE 1) /\ ~s.outcomePaid /\ ~s.recorded /\ DOMAIN p = TownPay
    BY <1>5, <2>2 DEF TownOpen
  <2>5. h = [p EXCEPT !.death = p.death + d, !.wasted = p.wasted + e.wasted - e.wastedPaid,
                      !.progress = Town!Progress(e), !.toward = e.way,
                      !.outcome = p.outcome + o, !.recorded = p.recorded + o]
    BY <1>7, <2>1, <2>2, <2>3, <2>4 DEF Town!EarnShared
  <2>6. /\ DOMAIN h = TownPay /\ h.death = p.death + d /\ h.wasted = p.wasted + e.wasted - e.wastedPaid
        /\ h.outcome = p.outcome + o /\ h.recorded = p.recorded + o
        /\ h.sold = p.sold /\ h.repaired = p.repaired /\ h.stocked = p.stocked /\ h.equipped = p.equipped /\ h.done = p.done
    BY <2>4, <2>5 DEF TownPay
  <2>7. PICK a \in {0, 1} : a = IF e.repaired /\ ~e.repairPaid THEN 1 ELSE 0
    OBVIOUS
  <2>8. PICK b \in {0, 1} : b = IF e.stocked /\ ~e.stockPaid THEN 1 ELSE 0
    OBVIOUS
  <2>9. PICK l \in {0, 1} : l = IF ~e.outcomePaid /\ Town!Finished(e) THEN 1 ELSE 0
    OBVIOUS
  <2>10. q = [h EXCEPT !.sold = h.sold + e.copperSold - e.soldPaid, !.repaired = h.repaired + a,
                       !.stocked = h.stocked + b, !.equipped = h.equipped + e.equipped - e.equippedPaid,
                       !.done = h.done + l]
    BY <1>1, <1>2, <2>1, <2>7, <2>8, <2>9 DEF Town!Pay
  <2>11. /\ DOMAIN q = TownPay /\ q.death = p.death + d /\ q.wasted = p.wasted + e.wasted - e.wastedPaid
         /\ q.outcome = p.outcome + o /\ q.recorded = p.recorded + o
         /\ q.sold = p.sold + e.copperSold - e.soldPaid /\ q.repaired = p.repaired + a /\ q.stocked = p.stocked + b
         /\ q.equipped = p.equipped + e.equipped - e.equippedPaid /\ q.done = p.done + l
    BY <2>6, <2>10 DEF TownPay
  <2>12. /\ p.death = 0 /\ p.outcome = 0 /\ p.recorded = 0 /\ p.done = 0
         /\ p.wasted = e.wastedPaid /\ p.sold = e.soldPaid /\ p.equipped = e.equippedPaid
         /\ p.repaired = (IF e.repairPaid THEN 1 ELSE 0) /\ p.stocked = (IF e.stockPaid THEN 1 ELSE 0)
         /\ e.wasted \in Nat /\ e.wastedPaid \in Nat /\ e.soldPaid \in Int /\ e.equippedPaid \in Int
         /\ e.copperSold \in Int /\ e.equipped \in Int /\ ~e.outcomePaid
    BY SetupAssumption DEF TownOpen, TownPaid, TownKept
  <2>13. l = (IF won THEN 1 ELSE 0)
    BY <1>6, <2>9, <2>12
  <2> QED
    BY <2>3, <2>4, <2>7, <2>8, <2>11, <2>12, <2>13
<1>12. CASE ends
  <2>1. PICK x : x = [r EXCEPT !.over = TRUE]
    OBVIOUS
  <2>2. /\ x.won = won /\ x.junk = e.junk /\ x.bag = e.bag /\ (x.died <=> ~e.alive) /\ x.wasted = e.wasted
    BY <1>9, <1>12, <2>1 DEF TownFields
  <2>3. x.won = (q.done = 1)
    BY <1>11, <2>2
  <2>4. q.sold = Setup.town.Junk - x.junk /\ q.equipped = Setup.town.Upgrades - x.bag
    BY <1>11, <2>2 DEF TownOpen, TownKept
  <2>5. won => e.soldOut /\ e.repaired /\ e.stocked /\ e.equipped >= Setup.town.Upgrades
    BY <1>6 DEF Town!Finished
  <2>6. won => e.junk = 0 /\ e.bag = 0
    BY <2>5, SetupAssumption DEF TownOpen, TownKept
  <2>7. x.won => q.sold = Setup.town.Junk /\ q.repaired = 1 /\ q.stocked = 1 /\ q.equipped = Setup.town.Upgrades
    BY <1>11, <2>2, <2>4, <2>5, <2>6, SetupAssumption
  <2>8. TownClosed(x, q)
    BY <1>11, <1>12, <2>2, <2>3, <2>4, <2>7 DEF TownClosed
  <2> QED
    BY <1>9, <1>10, <1>12, <2>1, <2>8
<1>13. CASE ~ends
  <2>1. e.alive /\ ~won
    BY <1>E, <1>13
  <2>2. TownKept(r)
    BY <1>9 DEF TownOpen, TownKept
  <2>3. TownPaid(r, q)
    BY <1>9, <1>11, <1>13, <2>1, SetupAssumption DEF TownOpen, TownKept, TownPaid
  <2>4. TownOpen(r, q)
    BY <1>9, <1>11, <1>13, <2>1, <2>2, <2>3 DEF TownOpen
  <2> QED
    BY <1>9, <1>10, <1>13, <2>4
<1> QED
  BY <1>12, <1>13

\* The invariant of the arena, and that its steps keep it.
TownInv == (~env.over => TownOpen(env, paid)) /\ (env.over => TownClosed(env, paid))

LEMMA TownStarts == Town!Init => TownInv
BY TownBuilt DEF Town!Init, TownInv, TownOpen

LEMMA TownKeeps == TownInv /\ Town!Next => TownInv'
<1>1. ASSUME TownInv, Town!Decide PROVE TownInv'
  <2>1. PICK w \in Town!Worlds(env) :
           LET r == Town!Reward(w)
           IN  /\ paid' = Town!Pay(w, paid)
               /\ IF Town!IsTerminal(r, Town!Finished(r)) THEN env' = [r EXCEPT !.over = TRUE]
                  ELSE env' \in Town!Presses(Town!Update(r))
    BY <1>1 DEF Town!Decide
  <2>2. TownOpen(w, paid)
    BY <1>1, <2>1, TownWorld DEF TownInv, Town!Decide
  <2>3. PICK r : r = Town!Reward(w)
    OBVIOUS
  <2>4. /\ DOMAIN r = TownFields
        /\ IF Town!IsTerminal(r, Town!Finished(r)) THEN TownClosed([r EXCEPT !.over = TRUE], paid') ELSE TownOpen(r, paid')
    BY <2>1, <2>2, <2>3, TownRewarded
  <2>5. CASE Town!IsTerminal(r, Town!Finished(r))
    BY <2>1, <2>3, <2>4, <2>5 DEF TownInv, TownFields
  <2>6. CASE ~Town!IsTerminal(r, Town!Finished(r))
    <3>1. TownOpen(env', paid')
      BY <2>1, <2>3, <2>4, <2>6, TownUpdated
    <3> QED
      BY <3>1 DEF TownInv, TownOpen
  <2> QED
    BY <2>5, <2>6
<1>2. ASSUME Town!NextEpisode PROVE TownInv'
  <2>1. PICK e : TownOpen(e, paid') /\ env' \in Town!Presses(Town!Update(e))
    BY <1>2, TownBuilt DEF Town!NextEpisode
  <2>2. TownOpen(env', paid')
    BY <2>1, TownUpdated
  <2> QED
    BY <2>2 DEF TownInv, TownOpen
<1> QED
  BY <1>1, <1>2 DEF Town!Next

LEMMA TownHolds == TownInv => Town!TownSettled
BY DEF TownInv, TownClosed, Town!TownSettled, Town!LifeSettled

-----------------------------------------------------------------------------
(* A boss: InstanceEncounter.                                               *)

RaidFields ==
    {"row", "pick", "now", "over", "boss", "left", "engaged", "engageAt", "dead", "wiped", "evaded", "recorded", "done",
     "alive", "counted", "killed"}
RaidPay == {"kill", "death", "outcome", "progress", "timeout", "won", "low"}

\* What was paid to the raid's seats while the fight goes on: the kill, as far as they saw it.
RaidPaid(e, p) ==
    /\ \A s \in Setup.boss.Seats : p.kill[s] = IF s \in e.killed THEN 1 ELSE 0
    /\ \A s \in Setup.boss.Seats : p.outcome[s] = 0 /\ p.progress[s] = 0 /\ p.timeout[s] = 0

\* A fight that goes on, before and after its boss was read.
RaidOpen(e, p) ==
    /\ DOMAIN e = RaidFields /\ DOMAIN p = RaidPay
    /\ ~e.over /\ ~e.recorded /\ ~p.won /\ e.done = {}
    /\ e.dead => e.killed = Setup.boss.Seats
    /\ RaidPaid(e, p)

\* What InstanceSettled says of one that is over.
RaidClosed(e, p) ==
    /\ \A s \in Setup.boss.Seats : p.outcome[s] = 1 /\ p.kill[s] <= 1 /\ (e.dead => p.kill[s] = 1)
    /\ \A s \in Setup.boss.Seats : p.progress[s] > 0 => ~e.dead /\ p.timeout[s] = 0
    /\ e.dead => \A s \in Setup.boss.Seats : p.timeout[s] = 0
    /\ e.recorded /\ (p.won <=> e.dead)

LEMMA RaidBuilt == \A row, pick : RaidOpen(Boss!Build(row, pick), Boss!NothingPaid)
BY DEF Boss!Build, Boss!NothingPaid, RaidOpen, RaidPaid, RaidFields, RaidPay

LEMMA RaidWorld == ASSUME NEW e, NEW p, RaidOpen(e, p), NEW w \in Boss!World(e) PROVE RaidOpen(w, p)
<1>1. PICK b, a : w = Boss!Later(e, b, a)
  BY DEF Boss!World
<1>2. PICK c : w = [e EXCEPT !.now = e.now + 1, !.boss = c, !.alive = a]
  BY <1>1 DEF Boss!Later
<1> QED
  BY <1>2 DEF RaidOpen, RaidPaid, RaidFields

LEMMA RaidFought ==
    ASSUME NEW e, NEW p, RaidOpen(e, p), NEW f, f = Boss!Fought(e), NEW q, q = Boss!FoughtPay(e, p)
    PROVE  /\ RaidOpen(f, q) /\ f.boss = e.boss
           /\ Boss!Slain(e) => f.killed = Setup.boss.Seats
<1>1. PICK k : k = [s \in Setup.boss.Seats |-> p.kill[s] + (IF Boss!Slain(e) /\ s \notin e.killed THEN 1 ELSE 0)]
  OBVIOUS
<1>2. PICK d : q = [p EXCEPT !.kill = k, !.death = d]
  BY <1>1 DEF Boss!FoughtPay
<1>3. /\ DOMAIN q = RaidPay /\ q.kill = k /\ q.outcome = p.outcome /\ q.progress = p.progress /\ q.timeout = p.timeout
      /\ q.won = p.won
  BY <1>2 DEF RaidOpen, RaidPay
<1>4. PICK c : f = [e EXCEPT !.killed = IF Boss!Slain(e) THEN Setup.boss.Seats ELSE e.killed, !.counted = c]
  <2>1. CASE e.boss.there
    BY <2>1 DEF Boss!Fought
  <2>2. CASE ~e.boss.there
    <3>1. ~Boss!Slain(e)
      BY <2>2 DEF Boss!Slain
    <3>2. f = [e EXCEPT !.counted = e.counted \ e.alive]
      BY <2>2 DEF Boss!Fought
    <3> QED
      BY <3>1, <3>2 DEF RaidOpen, RaidFields
  <2> QED
    BY <2>1, <2>2
<1>5. /\ DOMAIN f = RaidFields /\ f.over = e.over /\ f.recorded = e.recorded /\ f.done = e.done /\ f.dead = e.dead /\ f.boss = e.boss
      /\ f.killed = IF Boss!Slain(e) THEN Setup.boss.Seats ELSE e.killed
  BY <1>4 DEF RaidOpen, RaidFields
<1>6. \A s \in Setup.boss.Seats : q.kill[s] = IF s \in f.killed THEN 1 ELSE 0
  <2> SUFFICES ASSUME NEW s \in Setup.boss.Seats PROVE q.kill[s] = IF s \in f.killed THEN 1 ELSE 0
    OBVIOUS
  <2>1. q.kill[s] = p.kill[s] + (IF Boss!Slain(e) /\ s \notin e.killed THEN 1 ELSE 0)
    BY <1>1, <1>3
  <2>2. p.kill[s] = IF s \in e.killed THEN 1 ELSE 0
    BY DEF RaidOpen, RaidPaid
  <2>3. CASE Boss!Slain(e)
    BY <1>5, <2>1, <2>2, <2>3
  <2>4. CASE ~Boss!Slain(e)
    BY <1>5, <2>1, <2>2, <2>4
  <2> QED
    BY <2>3, <2>4
<1>7. RaidPaid(f, q)
  BY <1>3, <1>6 DEF RaidOpen, RaidPaid
<1> QED
  BY <1>3, <1>5, <1>7 DEF RaidOpen

LEMMA RaidSettled ==
    ASSUME NEW e, NEW p, RaidOpen(e, p), NEW r, r = Boss!Settled(e), NEW q, q = Boss!SettledPay(e, p)
    PROVE  /\ DOMAIN r = RaidFields /\ DOMAIN q = RaidPay /\ r.boss = e.boss /\ r.killed = e.killed
           /\ IF Boss!IsTerminal(r) THEN RaidClosed([r EXCEPT !.over = TRUE], q) ELSE RaidOpen(r, q)
<1>1. PICK row : r = [e EXCEPT !.done = e.done \cup Boss!Settles(e), !.recorded = e.recorded \/ Setup.boss.First \in Boss!Settles(e),
                               !.row = row]
  BY DEF Boss!Settled
<1>2. /\ DOMAIN r = RaidFields /\ r.done = Boss!Settles(e) /\ (r.recorded <=> Setup.boss.First \in Boss!Settles(e))
      /\ r.over = e.over /\ r.dead = e.dead /\ r.wiped = e.wiped /\ r.evaded = e.evaded /\ r.now = e.now /\ r.killed = e.killed
      /\ r.boss = e.boss
  BY <1>1 DEF RaidOpen, RaidFields
<1>3. Boss!Settles(e) = IF Boss!Over(e) THEN Setup.boss.Seats ELSE {}
  BY DEF Boss!Settles, RaidOpen
<1>4. Boss!IsTerminal(r) <=> Boss!Over(e)
  BY <1>2 DEF Boss!IsTerminal, Boss!Over, Boss!TimeIsUp
<1>5. PICK o : o = [s \in Setup.boss.Seats |-> p.outcome[s] + (IF s \in Boss!Settles(e) THEN 1 ELSE 0)]
  OBVIOUS
<1>6. PICK g : g = [s \in Setup.boss.Seats |-> p.progress[s] + (IF s \in Boss!Settles(e) /\ ~e.dead /\ Boss!Lost(e) THEN Setup.boss.Full - e.left ELSE 0)]
  OBVIOUS
<1>7. PICK t : t = [s \in Setup.boss.Seats |-> p.timeout[s] + (IF s \in Boss!Settles(e) /\ ~e.dead /\ ~Boss!Lost(e) THEN 1 ELSE 0)]
  OBVIOUS
<1>8. q = [p EXCEPT !.outcome = o,
                    !.won = IF Setup.boss.First \in Boss!Settles(e) /\ ~e.recorded THEN e.dead ELSE p.won,
                    !.progress = g, !.timeout = t]
  BY <1>5, <1>6, <1>7 DEF Boss!SettledPay
<1>9. /\ DOMAIN q = RaidPay /\ q.kill = p.kill /\ q.outcome = o /\ q.progress = g /\ q.timeout = t
      /\ q.won = IF Setup.boss.First \in Boss!Settles(e) /\ ~e.recorded THEN e.dead ELSE p.won
  BY <1>8 DEF RaidOpen, RaidPay
<1>10. CASE Boss!Over(e)
  <2>1. PICK x : x = [r EXCEPT !.over = TRUE]
    OBVIOUS
  <2>2. x.dead = e.dead /\ (x.recorded <=> r.recorded)
    BY <1>2, <2>1 DEF RaidFields
  <2>3. x.recorded /\ (q.won <=> x.dead)
    BY <1>2, <1>3, <1>9, <1>10, <2>2, SetupAssumption DEF RaidOpen
  <2>4. \A s \in Setup.boss.Seats : q.outcome[s] = 1 /\ q.kill[s] <= 1 /\ (x.dead => q.kill[s] = 1)
    <3> SUFFICES ASSUME NEW s \in Setup.boss.Seats PROVE q.outcome[s] = 1 /\ q.kill[s] <= 1 /\ (x.dead => q.kill[s] = 1)
      OBVIOUS
    <3>1. q.outcome[s] = 1
      BY <1>3, <1>5, <1>9, <1>10 DEF RaidOpen, RaidPaid
    <3>2. q.kill[s] = IF s \in e.killed THEN 1 ELSE 0
      BY <1>9 DEF RaidOpen, RaidPaid
    <3>3. x.dead => s \in e.killed
      BY <2>2 DEF RaidOpen
    <3> QED
      BY <3>1, <3>2, <3>3
  <2>5. \A s \in Setup.boss.Seats : (e.dead \/ ~Boss!Lost(e) => q.progress[s] = 0) /\ (e.dead \/ Boss!Lost(e) => q.timeout[s] = 0)
    BY <1>6, <1>7, <1>9 DEF RaidOpen, RaidPaid
  <2>6. \A s \in Setup.boss.Seats : q.progress[s] > 0 => ~x.dead /\ q.timeout[s] = 0
    BY <2>2, <2>5
  <2>7. x.dead => \A s \in Setup.boss.Seats : q.timeout[s] = 0
    BY <2>2, <2>5
  <2>8. RaidClosed(x, q)
    BY <2>3, <2>4, <2>6, <2>7 DEF RaidClosed
  <2> QED
    BY <1>2, <1>4, <1>9, <1>10, <2>1, <2>8
<1>11. CASE ~Boss!Over(e)
  <2>1. \A s \in Setup.boss.Seats : q.outcome[s] = 0 /\ q.progress[s] = 0 /\ q.timeout[s] = 0
    BY <1>3, <1>5, <1>6, <1>7, <1>9, <1>11 DEF RaidOpen, RaidPaid
  <2>2. r.done = {} /\ ~r.recorded /\ ~q.won
    BY <1>2, <1>3, <1>9, <1>11 DEF RaidOpen
  <2>3. RaidPaid(r, q)
    BY <1>2, <1>9, <2>1 DEF RaidOpen, RaidPaid
  <2>4. RaidOpen(r, q)
    BY <1>2, <1>9, <2>2, <2>3 DEF RaidOpen
  <2> QED
    BY <1>2, <1>4, <1>9, <1>11, <2>4
<1> QED
  BY <1>10, <1>11

\* The boss is read after the seats saw it dead.
LEMMA RaidUpdated ==
    ASSUME NEW e, NEW p, RaidOpen(e, p), Boss!Slain(e) => e.killed = Setup.boss.Seats
    PROVE  RaidOpen(Boss!Update(e), p)
<1>1. CASE ~e.boss.there
  BY <1>1 DEF Boss!Update
<1>2. CASE e.boss.there
  <2>1. PICK r : r = Boss!Read(e)
    OBVIOUS
  <2>2. PICK u : u = [r EXCEPT !.evaded = r.evaded \/ Boss!Evades(r), !.wiped = r.wiped \/ (r.alive = {} /\ ~r.dead)]
    OBVIOUS
  <2>3. PICK a : r = [e EXCEPT !.left = e.boss.health, !.dead = e.dead \/ e.boss.health = 0, !.engaged = e.engaged \/ e.boss.fights,
                               !.engageAt = a]
    BY <2>1 DEF Boss!Read
  <2>4. /\ DOMAIN r = RaidFields /\ r.over = e.over /\ r.recorded = e.recorded /\ r.done = e.done /\ r.killed = e.killed
        /\ (r.dead => e.dead \/ e.boss.health = 0)
    BY <2>3 DEF RaidOpen, RaidFields
  <2>5. /\ DOMAIN u = RaidFields /\ u.over = e.over /\ u.recorded = e.recorded /\ u.done = e.done /\ u.killed = e.killed
        /\ (u.dead => e.dead \/ e.boss.health = 0)
    BY <2>2, <2>4 DEF RaidFields
  <2>6. u.dead => u.killed = Setup.boss.Seats
    BY <1>2, <2>5 DEF RaidOpen, Boss!Slain
  <2>7. RaidOpen(u, p)
    BY <2>5, <2>6 DEF RaidOpen, RaidPaid
  <2> QED
    BY <1>2, <2>1, <2>2, <2>7 DEF Boss!Update
<1> QED
  BY <1>1, <1>2

\* The invariant of the arena, and that its steps keep it.
RaidInv == (~env.over => RaidOpen(env, paid)) /\ (env.over => RaidClosed(env, paid))

LEMMA RaidStarts == Boss!Init => RaidInv
BY RaidBuilt DEF Boss!Init, RaidInv, RaidOpen

LEMMA RaidKept ==
    ASSUME NEW e, NEW w, NEW p, DOMAIN p = RaidPay
    PROVE  /\ RaidOpen(e, p) => RaidOpen(e, Boss!Kept(w, p))
           /\ RaidClosed(e, p) => RaidClosed(e, Boss!Kept(w, p))
BY DEF Boss!Kept, RaidOpen, RaidPaid, RaidClosed, RaidPay

LEMMA RaidKeeps == RaidInv /\ Boss!Next => RaidInv'
<1>1. ASSUME RaidInv, Boss!Decide PROVE RaidInv'
  <2>1. PICK w \in Boss!World(env) :
           /\ paid' = Boss!Kept(w, Boss!Pay(w, paid))
           /\ env' = IF Boss!IsTerminal(Boss!Reward(w)) THEN [Boss!Reward(w) EXCEPT !.over = TRUE] ELSE Boss!Update(Boss!Reward(w))
    BY <1>1 DEF Boss!Decide
  <2>2. RaidOpen(w, paid)
    BY <1>1, <2>1, RaidWorld DEF RaidInv, Boss!Decide
  <2>3. PICK f : f = Boss!Fought(w)
    OBVIOUS
  <2>4. PICK p : p = Boss!FoughtPay(w, paid)
    OBVIOUS
  <2>5. RaidOpen(f, p) /\ f.boss = w.boss /\ (Boss!Slain(w) => f.killed = Setup.boss.Seats)
    BY <2>2, <2>3, <2>4, RaidFought
  <2>6. PICK r : r = Boss!Settled(f)
    OBVIOUS
  <2>7. PICK q : q = Boss!SettledPay(f, p)
    OBVIOUS
  <2>8. /\ DOMAIN r = RaidFields /\ DOMAIN q = RaidPay /\ r.boss = f.boss /\ r.killed = f.killed
        /\ IF Boss!IsTerminal(r) THEN RaidClosed([r EXCEPT !.over = TRUE], q) ELSE RaidOpen(r, q)
    BY <2>5, <2>6, <2>7, RaidSettled
  <2>9. Boss!Reward(w) = r /\ Boss!Pay(w, paid) = q
    BY <2>3, <2>4, <2>6, <2>7 DEF Boss!Reward, Boss!Pay
  <2>10. CASE Boss!IsTerminal(r)
    <3>1. RaidClosed(env', paid')
      BY <2>1, <2>8, <2>9, <2>10, RaidKept
    <3>2. env'.over
      BY <2>1, <2>8, <2>9, <2>10 DEF RaidFields
    <3> QED
      BY <3>1, <3>2 DEF RaidInv
  <2>11. CASE ~Boss!IsTerminal(r)
    <3>1. Boss!Slain(r) => r.killed = Setup.boss.Seats
      BY <2>5, <2>8 DEF Boss!Slain
    <3>2. RaidOpen(env', q)
      BY <2>1, <2>8, <2>9, <2>11, <3>1, RaidUpdated
    <3>3. RaidOpen(env', paid')
      BY <2>1, <2>8, <2>9, <3>2, RaidKept
    <3> QED
      BY <3>3 DEF RaidInv, RaidOpen
  <2> QED
    BY <2>10, <2>11
<1>2. ASSUME Boss!NextEpisode PROVE RaidInv'
  BY <1>2, RaidBuilt DEF Boss!NextEpisode, RaidInv, RaidOpen
<1> QED
  BY <1>1, <1>2 DEF Boss!Next

LEMMA RaidHolds == RaidInv => Boss!InstanceSettled
BY DEF RaidInv, RaidClosed, Boss!InstanceSettled

-----------------------------------------------------------------------------
(* A row of the ladder and the fights on it: LadderFights.                  *)

LEMMA SameCount == \A S : Ladder!Cardinality(S) = Cardinality(S)
BY DEF Cardinality, Ladder!Cardinality, IsFiniteSet, Ladder!IsFiniteSet

\* Dividing by a positive number.
LEMMA Division ==
    ASSUME NEW n \in Nat \ {0}, NEW i \in Nat
    PROVE  /\ i \div n \in Nat /\ i % n \in 0 .. n - 1 /\ i = n * (i \div n) + (i % n)
OBVIOUS

LEMMA DivisionIsUnique ==
    ASSUME NEW n \in Nat \ {0}, NEW d \in Nat, NEW m \in 0 .. n - 1
    PROVE  (n * d + m) \div n = d /\ (n * d + m) % n = m
OBVIOUS

\* Seed i of an evaluation plays pair i % Pairs at rung i \div Pairs: one seed for each.
LEMMA LadderSeeds == Ladder!SeedsCoverRungs
<1> DEFINE P == Setup.ladder.Pairs
           T == Setup.ladder.MaxTier
<1>1. P \in Nat \ {0} /\ T \in Nat
  BY SetupAssumption DEF Ladder!LadderConstants
<1> SUFFICES ASSUME NEW pair \in 0 .. P - 1, NEW tier \in 0 .. T
             PROVE  Cardinality({i \in 0 .. P * (T + 1) - 1 : i % P = pair /\ Ladder!SeedTier(i, P) = tier}) = 1
  BY SameCount DEF Ladder!SeedsCoverRungs, Ladder!Tiers
<1> HIDE DEF P, T
<1>2. ASSUME NEW i \in 0 .. P * (T + 1) - 1 PROVE i \in Nat /\ i \div P \in 0 .. T /\ Ladder!SeedTier(i, P) = i \div P
  <2>1. i \in Nat /\ P * (T + 1) \in Nat /\ i < P * (T + 1)
    BY <1>1, <1>2
  <2>2. PICK d \in Nat : d = i \div P
    BY <1>1, <2>1, Division
  <2>3. PICK m \in 0 .. P - 1 : i = P * d + m
    BY <1>1, <2>1, <2>2, Division
  <2>4. ASSUME d > T PROVE FALSE
    <3>1. P * d >= P * (T + 1)
      BY <1>1, <2>4
    <3> QED
      BY <1>1, <2>1, <2>3, <3>1
  <2>5. d \in 0 .. T
    BY <1>1, <2>4
  <2>6. d % (T + 1) = d
    BY <1>1, <2>5
  <2> QED
    BY <2>1, <2>2, <2>5, <2>6 DEF Ladder!SeedTier, P, T
<1>3. PICK s \in Nat : s = P * tier + pair
  BY <1>1
<1>4. s \in 0 .. P * (T + 1) - 1
  <2>1. P * tier <= P * T
    BY <1>1
  <2>2. P * (T + 1) = P * T + P /\ P * T \in Nat /\ P * tier \in Nat
    BY <1>1
  <2> QED
    BY <1>1, <1>3, <2>1, <2>2
<1>5. s % P = pair /\ s \div P = tier
  BY <1>1, <1>3, DivisionIsUnique
<1>6. ASSUME NEW i \in 0 .. P * (T + 1) - 1, i % P = pair, i \div P = tier PROVE i = s
  BY <1>1, <1>2, <1>3, <1>6, Division
<1>7. {i \in 0 .. P * (T + 1) - 1 : i % P = pair /\ Ladder!SeedTier(i, P) = tier} = {s}
  BY <1>2, <1>4, <1>5, <1>6
<1> QED
  BY <1>7, FS_Singleton

\* The fights won among those of a window.
Won(window) == {i \in DOMAIN window : window[i].won}

\* A fight that ends adds itself to the window.
LEMMA WonGrows ==
    ASSUME NEW S, NEW window \in Seq(S), NEW x
    PROVE  /\ Len(Append(window, x)) = Len(window) + 1
           /\ Cardinality(Won(Append(window, x))) = Cardinality(Won(window)) + (IF x.won THEN 1 ELSE 0)
           /\ \A i \in DOMAIN Append(window, x) : (i \in DOMAIN window /\ Append(window, x)[i] = window[i]) \/ Append(window, x)[i] = x
<1>1. PICK n \in Nat : n = Len(window) /\ DOMAIN window = 1 .. n
  OBVIOUS
<1>2. PICK v : v = Append(window, x)
  OBVIOUS
<1>3. Len(v) = n + 1 /\ DOMAIN v = 1 .. n + 1 /\ v[n + 1] = x /\ \A i \in 1 .. n : v[i] = window[i]
  BY <1>1, <1>2
<1>4. IsFiniteSet(Won(window)) /\ n + 1 \notin Won(window)
  <2>1. Won(window) \subseteq 1 .. n
    BY <1>1 DEF Won
  <2>2. IsFiniteSet(1 .. n)
    BY <1>1, FS_Interval
  <2>3. IsFiniteSet(Won(window))
    BY <2>1, <2>2, FS_Subset
  <2> QED
    BY <1>1, <2>1, <2>3
<1>5. CASE x.won
  <2>1. Won(v) = Won(window) \cup {n + 1}
    BY <1>1, <1>3, <1>5 DEF Won
  <2>2. Cardinality(Won(v)) = Cardinality(Won(window)) + 1
    BY <1>4, <2>1, FS_AddElement
  <2> QED
    BY <1>1, <1>2, <1>3, <1>5, <2>2
<1>6. CASE ~x.won
  <2>1. Won(v) = Won(window)
    BY <1>1, <1>3, <1>6 DEF Won
  <2> QED
    BY <1>1, <1>2, <1>3, <1>4, <1>6, <2>1, FS_CardinalityType
<1> QED
  BY <1>5, <1>6

LadderFields == {"row", "fight", "window", "visit", "seed"}

\* A row's window holds all the counted fights at its rung and no other.
LadderInv ==
    /\ DOMAIN env = LadderFields
    /\ env.row \in Ladder!Row /\ env.row.wins <= env.row.fights
    /\ env.fight \in [Setup.ladder.Fighters -> Ladder!Fight \cup {NoFight}]
    /\ env.visit \in Nat /\ env.seed \in Nat
    /\ env.window \in Seq([tier: Ladder!Tiers, won: BOOLEAN, visit: Nat])
    /\ Len(env.window) = env.row.fights /\ Cardinality(Won(env.window)) = env.row.wins
    /\ \A i \in DOMAIN env.window : env.window[i].tier = env.row.tier

LEMMA LadderStarts == Ladder!Init => LadderInv
<1> SUFFICES ASSUME Ladder!Init PROVE LadderInv
  OBVIOUS
<1>1. /\ DOMAIN env = LadderFields /\ env.row = [tier |-> 0, fights |-> 0, wins |-> 0]
      /\ env.fight = [f \in Setup.ladder.Fighters |-> NoFight]
      /\ env.visit = 0 /\ env.seed = 0 /\ env.window = << >>
  BY DEF Ladder!Init, LadderFields, Ladder!NewRow
<1>2. env.row \in Ladder!Row /\ env.row.wins <= env.row.fights
  BY <1>1, SetupAssumption DEF Ladder!Row, Ladder!Tiers, Ladder!LadderConstants
<1>3. Won(env.window) = {}
  BY <1>1 DEF Won
<1>4. Len(env.window) = env.row.fights /\ Cardinality(Won(env.window)) = env.row.wins
  <2>1. env.row.fights = 0 /\ env.row.wins = 0
    BY <1>1
  <2>2. Len(env.window) = 0
    BY <1>1
  <2>3. Cardinality(Won(env.window)) = 0
    BY <1>3, FS_EmptySet
  <2> QED
    BY <2>1, <2>2, <2>3
<1>5. env.window \in Seq([tier: Ladder!Tiers, won: BOOLEAN, visit: Nat]) /\ DOMAIN env.window = {}
  BY <1>1
<1>6. env.fight \in [Setup.ladder.Fighters -> Ladder!Fight \cup {NoFight}]
  BY <1>1
<1> QED
  BY <1>1, <1>2, <1>4, <1>5, <1>6 DEF LadderInv

\* A fight that counts is of the row's rung, and moves the row on a full window only.
LEMMA Recorded ==
    ASSUME NEW row \in Ladder!Row, row.wins <= row.fights, NEW t, NEW won \in BOOLEAN, NEW new, new = Ladder!Record(row, t, won)
    PROVE  /\ new \in Ladder!Row /\ new.wins <= new.fights
           /\ t # row.tier => new = row
           /\ t = row.tier => \/ new.fights = 0 /\ new.wins = 0
                              \/ /\ new.fights = row.fights + 1 /\ new.tier = row.tier
                                 /\ new.wins = row.wins + (IF won THEN 1 ELSE 0)
<1>1. PICK w \in Nat : w = row.wins + (IF won THEN 1 ELSE 0) /\ w <= row.fights + 1
  BY DEF Ladder!Row
<1>2. /\ row.tier \in Ladder!Tiers /\ row.fights \in Nat /\ DOMAIN row = {"tier", "fights", "wins"}
      /\ row = [tier |-> row.tier, fights |-> row.fights, wins |-> row.wins]
  BY DEF Ladder!Row
<1>3. CASE row.tier # t
  BY <1>3 DEF Ladder!Record
<1>4. CASE row.tier = t /\ row.fights + 1 < Setup.ladder.Window
  <2>1. new = [tier |-> row.tier, fights |-> row.fights + 1, wins |-> w]
    BY <1>1, <1>2, <1>4 DEF Ladder!Record
  <2> QED
    BY <1>1, <1>2, <1>4, <2>1, SetupAssumption DEF Ladder!Row, Ladder!LadderConstants
<1>5. CASE row.tier = t /\ ~(row.fights + 1 < Setup.ladder.Window)
  <2>1. new = [tier |-> Ladder!Moved(row.tier, w), fights |-> 0, wins |-> 0]
    BY <1>1, <1>5 DEF Ladder!Record
  <2>2. Ladder!Moved(row.tier, w) \in Ladder!Tiers
    BY <1>1, <1>2, SetupAssumption DEF Ladder!Moved, Ladder!Tiers, Ladder!LadderConstants
  <2> QED
    BY <2>1, <2>2, <1>5, SetupAssumption DEF Ladder!Row, Ladder!LadderConstants
<1> QED
  BY <1>3, <1>4, <1>5

LEMMA LadderKeeps == LadderInv /\ Ladder!Next => LadderInv'
<1> SUFFICES ASSUME LadderInv, NEW f \in Setup.ladder.Fighters,
                    Ladder!Begin(f) \/ Ladder!BeginSeeded(f) \/ (\E won \in BOOLEAN : Ladder!End(f, won)) \/ Ladder!Abandon(f)
             PROVE  LadderInv'
  BY DEF Ladder!Next
<1>1. CASE Ladder!Begin(f)
  <2>1. PICK pick \in Ladder!TrainingPicks(env.row) :
           env' = [env EXCEPT !.fight[f] = [tier |-> pick.tier, counts |-> pick.counts, visit |-> env.visit]]
    BY <1>1 DEF Ladder!Begin
  <2>2. pick.tier \in Ladder!Tiers /\ pick.counts \in BOOLEAN
    <3>1. env.row.tier \in 0 .. Setup.ladder.MaxTier /\ Setup.ladder.MaxTier \in Nat
      BY SetupAssumption DEF LadderInv, Ladder!Row, Ladder!Tiers, Ladder!LadderConstants
    <3>2. CASE pick = [tier |-> env.row.tier, counts |-> TRUE]
      BY <3>1, <3>2 DEF Ladder!Tiers
    <3>3. CASE \E t \in 0 .. env.row.tier - 1 : pick = [tier |-> t, counts |-> FALSE]
      BY <3>1, <3>3 DEF Ladder!Tiers
    <3>4. CASE \E t \in {env.row.tier + 1} \cap Ladder!Tiers : pick = [tier |-> t, counts |-> FALSE]
      BY <3>4
    <3> QED
      BY <3>2, <3>3, <3>4 DEF Ladder!TrainingPicks
  <2>3. [tier |-> pick.tier, counts |-> pick.counts, visit |-> env.visit] \in Ladder!Fight
    BY <2>2 DEF Ladder!Fight, LadderInv
  <2> QED
    BY <2>1, <2>3 DEF LadderInv, LadderFields
<1>2. CASE Ladder!BeginSeeded(f)
  <2>1. PICK t : t = Ladder!SeedTier(env.seed, Setup.ladder.Pairs)
    OBVIOUS
  <2>2. t \in Ladder!Tiers
    <3>1. Setup.ladder.Pairs \in Nat \ {0} /\ Setup.ladder.MaxTier + 1 \in Nat \ {0} /\ Setup.ladder.MaxTier \in Nat /\ env.seed \in Nat
      BY SetupAssumption DEF LadderInv, Ladder!LadderConstants
    <3>2. env.seed \div Setup.ladder.Pairs \in Nat
      BY <3>1, Division
    <3>3. t = (env.seed \div Setup.ladder.Pairs) % (Setup.ladder.MaxTier + 1)
      BY <2>1 DEF Ladder!SeedTier
    <3>4. t \in 0 .. (Setup.ladder.MaxTier + 1) - 1
      BY <3>1, <3>2, <3>3, Division
    <3> QED
      BY <3>1, <3>4 DEF Ladder!Tiers
  <2>3. [tier |-> t, counts |-> FALSE, visit |-> env.visit] \in Ladder!Fight
    BY <2>2 DEF Ladder!Fight, LadderInv
  <2>4. env' = [env EXCEPT !.fight[f] = [tier |-> t, counts |-> FALSE, visit |-> env.visit], !.seed = env.seed + 1]
    BY <1>2, <2>1 DEF Ladder!BeginSeeded
  <2> QED
    BY <2>3, <2>4 DEF LadderInv, LadderFields
<1>3. ASSUME NEW won \in BOOLEAN, Ladder!End(f, won) PROVE LadderInv'
  <2>1. PICK g : g = env.fight[f]
    OBVIOUS
  <2>2. g.tier \in Ladder!Tiers /\ g.counts \in BOOLEAN /\ g.visit \in Nat
    BY <1>3, <2>1 DEF Ladder!End, LadderInv, Ladder!Fight
  <2>3. PICK row : row = IF g.counts THEN Ladder!Record(env.row, g.tier, won) ELSE env.row
    OBVIOUS
  <2>4. PICK counted \in BOOLEAN : counted <=> g.counts /\ g.tier = env.row.tier
    OBVIOUS
  <2>5. PICK v \in {0, 1} : v = IF row.tier # env.row.tier THEN 1 ELSE 0
    OBVIOUS
  <2>6. PICK x : x = [tier |-> g.tier, won |-> won, visit |-> g.visit]
    OBVIOUS
  <2>7. PICK window : window = IF ~counted THEN env.window ELSE IF row.fights = 0 THEN << >> ELSE Append(env.window, x)
    OBVIOUS
  <2>8. env' = [env EXCEPT !.row = row, !.fight[f] = NoFight, !.visit = IF row.tier # env.row.tier THEN env.visit + 1 ELSE env.visit,
                           !.window = window]
    BY <1>3, <2>1, <2>3, <2>4, <2>6, <2>7 DEF Ladder!End
  <2>9. /\ DOMAIN env' = LadderFields /\ env'.row = row /\ env'.window = window /\ env'.visit \in Nat /\ env'.seed \in Nat
        /\ env'.fight \in [Setup.ladder.Fighters -> Ladder!Fight \cup {NoFight}]
    BY <2>8 DEF LadderInv, LadderFields
  <2>10. env.row \in Ladder!Row /\ env.row.wins <= env.row.fights
    BY DEF LadderInv
  <2>11. /\ row \in Ladder!Row /\ row.wins <= row.fights
         /\ ~counted => row = env.row
         /\ counted => \/ row.fights = 0 /\ row.wins = 0
                       \/ /\ row.fights = env.row.fights + 1 /\ row.tier = env.row.tier
                          /\ row.wins = env.row.wins + (IF won THEN 1 ELSE 0)
    <3>1. CASE g.counts
      BY <2>3, <2>4, <2>10, <3>1, Recorded
    <3>2. CASE ~g.counts
      BY <2>3, <2>4, <2>10, <3>2
    <3> QED
      BY <3>1, <3>2
  <2>12. CASE ~counted
    BY <2>7, <2>9, <2>10, <2>11, <2>12 DEF LadderInv
  <2>13. CASE counted /\ row.fights = 0
    <3>1. window = << >> /\ row.wins = 0
      BY <2>7, <2>10, <2>11, <2>13 DEF Ladder!Row
    <3>2. Won(window) = {}
      BY <3>1 DEF Won
    <3>3. Len(window) = row.fights /\ Cardinality(Won(window)) = row.wins
      BY <2>13, <3>1, <3>2, FS_EmptySet
    <3>4. window \in Seq([tier: Ladder!Tiers, won: BOOLEAN, visit: Nat]) /\ DOMAIN window = {}
      BY <3>1
    <3> QED
      BY <2>9, <2>11, <3>3, <3>4 DEF LadderInv
  <2>14. CASE counted /\ row.fights # 0
    <3>1. window = Append(env.window, x) /\ x \in [tier: Ladder!Tiers, won: BOOLEAN, visit: Nat]
      BY <2>2, <2>6, <2>7, <2>14
    <3>2. window \in Seq([tier: Ladder!Tiers, won: BOOLEAN, visit: Nat])
      BY <3>1 DEF LadderInv
    <3>3. row.fights = env.row.fights + 1 /\ row.tier = env.row.tier /\ row.wins = env.row.wins + (IF won THEN 1 ELSE 0)
      BY <2>11, <2>14
    <3>4. /\ Len(window) = Len(env.window) + 1
          /\ Cardinality(Won(window)) = Cardinality(Won(env.window)) + (IF x.won THEN 1 ELSE 0)
          /\ \A i \in DOMAIN window : (i \in DOMAIN env.window /\ window[i] = env.window[i]) \/ window[i] = x
      BY <3>1, WonGrows DEF LadderInv
    <3>5. x.tier = row.tier /\ x.won = won
      BY <2>4, <2>6, <2>14, <3>3
    <3>6. Len(window) = row.fights /\ Cardinality(Won(window)) = row.wins
      BY <3>3, <3>4, <3>5 DEF LadderInv
    <3>7. \A i \in DOMAIN window : window[i].tier = row.tier
      BY <3>3, <3>4, <3>5 DEF LadderInv
    <3> QED
      BY <2>9, <2>11, <3>2, <3>6, <3>7 DEF LadderInv
  <2> QED
    BY <2>12, <2>13, <2>14
<1>4. CASE Ladder!Abandon(f)
  BY <1>4 DEF Ladder!Abandon, LadderInv, LadderFields
<1> QED
  BY <1>1, <1>2, <1>3, <1>4

LEMMA LadderHolds == LadderInv => Ladder!LadderTypeOK /\ Ladder!WindowIsOfThisRung /\ Ladder!SeedsCoverRungs
BY LadderSeeds, SameCount DEF LadderInv, Won, Ladder!LadderTypeOK, Ladder!WindowIsOfThisRung

-----------------------------------------------------------------------------
(* Every arena keeps its own invariant, and none touches another's.         *)

IInv ==
    /\ arena = "ladder" => LadderInv
    /\ arena = "creature" => DuelInv
    /\ arena = "quest" => QuestInv
    /\ arena = "gather" => FieldInv
    /\ arena = "town" => TownInv
    /\ arena = "boss" => RaidInv
    /\ arena = "pack" => Pack!PullsInv
    /\ arena = "gauntlet" => Gauntlet!PullsInv
    /\ arena = "sequence" => Sequence!PullsInv
    /\ arena = "owned" => Owned!PullsInv
    /\ arena = "ambush" => Ambush!AmbushInv
    /\ arena = "ambushed" => Ambushed!AmbushInv

\* Whatever arena an env draws, its first episode begins well.
LEMMA Starts == Init => IInv
<1> SUFFICES ASSUME Init PROVE IInv
  OBVIOUS
<1>1. arena = "ladder" => LadderInv
  BY LadderStarts DEF Init
<1>2. arena = "creature" => DuelInv
  BY DuelStarts DEF Init
<1>3. arena = "quest" => QuestInv
  BY QuestStarts DEF Init
<1>4. arena = "gather" => FieldInv
  BY FieldStarts DEF Init
<1>5. arena = "town" => TownInv
  BY TownStarts DEF Init
<1>6. arena = "boss" => RaidInv
  BY RaidStarts DEF Init
<1>7. arena = "pack" => Pack!PullsInv
  BY Pack!PullsStart DEF Init
<1>8. arena = "gauntlet" => Gauntlet!PullsInv
  BY Gauntlet!PullsStart DEF Init
<1>9. arena = "sequence" => Sequence!PullsInv
  BY Sequence!PullsStart DEF Init
<1>10. arena = "owned" => Owned!PullsInv
  BY Owned!PullsStart DEF Init
<1>11. arena = "ambush" => Ambush!AmbushInv
  BY SetupAssumption, Ambush!AmbushStarts DEF Init
<1>12. arena = "ambushed" => Ambushed!AmbushInv
  BY SetupAssumption, Ambushed!AmbushStarts DEF Init
<1> QED
  BY <1>1, <1>2, <1>3, <1>4, <1>5, <1>6, <1>7, <1>8, <1>9, <1>10, <1>11, <1>12 DEF IInv

\* A step is one of the arena's own encounter; a gauntlet beside an owner finds
\* the party standing.
LEMMA Keeps == IInv /\ [Next]_vars => IInv' /\ (arena = "owned" => [Owned!PullFindsAll]_vars)
<1>1. ASSUME IInv, UNCHANGED vars PROVE IInv' /\ (arena = "owned" => [Owned!PullFindsAll]_vars)
  <2>1. arena' = arena /\ env' = env /\ paid' = paid
    BY <1>1 DEF vars
  <2>2. (arena = "ladder" => LadderInv)'
    BY <1>1, <2>1 DEF IInv, LadderInv
  <2>3. /\ (arena = "creature" => DuelInv)'
        /\ (arena = "quest" => QuestInv)'
        /\ (arena = "gather" => FieldInv)'
        /\ (arena = "town" => TownInv)'
        /\ (arena = "boss" => RaidInv)'
    BY <1>1, <2>1 DEF IInv, DuelInv, QuestInv, FieldInv, TownInv, RaidInv
  <2>4. /\ (arena = "pack" => Pack!PullsInv)'
        /\ (arena = "gauntlet" => Gauntlet!PullsInv)'
        /\ (arena = "sequence" => Sequence!PullsInv)'
        /\ (arena = "owned" => Owned!PullsInv)'
    BY <1>1, <2>1 DEF IInv, Pack!PullsInv, Gauntlet!PullsInv, Sequence!PullsInv, Owned!PullsInv
  <2>5. /\ (arena = "ambush" => Ambush!AmbushInv)'
        /\ (arena = "ambushed" => Ambushed!AmbushInv)'
    BY <1>1, <2>1 DEF IInv, Ambush!AmbushInv, Ambushed!AmbushInv
  <2> QED
    BY <1>1, <2>2, <2>3, <2>4, <2>5 DEF IInv
<1>2. ASSUME IInv, Next PROVE IInv' /\ (arena = "owned" => [Owned!PullFindsAll]_vars)
  <2>1. arena' = arena
    BY <1>2 DEF Next
  <2>2. (arena = "ladder" => LadderInv)'
    BY <1>2, <2>1, LadderKeeps DEF IInv, Next
  <2>3. (arena = "creature" => DuelInv)'
    BY <1>2, <2>1, DuelKeeps DEF IInv, Next
  <2>4. (arena = "quest" => QuestInv)'
    BY <1>2, <2>1, QuestKeeps DEF IInv, Next
  <2>5. (arena = "gather" => FieldInv)'
    BY <1>2, <2>1, FieldKeeps DEF IInv, Next
  <2>6. (arena = "town" => TownInv)'
    BY <1>2, <2>1, TownKeeps DEF IInv, Next
  <2>7. (arena = "boss" => RaidInv)'
    BY <1>2, <2>1, RaidKeeps DEF IInv, Next
  <2>8. (arena = "pack" => Pack!PullsInv)'
    BY <1>2, <2>1, Pack!PullsKeep DEF IInv, Next
  <2>9. (arena = "gauntlet" => Gauntlet!PullsInv)'
    BY <1>2, <2>1, Gauntlet!PullsKeep DEF IInv, Next
  <2>10. (arena = "sequence" => Sequence!PullsInv)'
    BY <1>2, <2>1, Sequence!PullsKeep DEF IInv, Next
  <2>11. arena = "owned" => Owned!PullsInv' /\ Owned!PullFindsAll
    BY <1>2, Owned!PullsKeep DEF IInv, Next
  <2>12. (arena = "ambush" => Ambush!AmbushInv)'
    BY <1>2, <2>1, SetupAssumption, Ambush!AmbushKeeps DEF IInv, Next
  <2>13. (arena = "ambushed" => Ambushed!AmbushInv)'
    BY <1>2, <2>1, SetupAssumption, Ambushed!AmbushKeeps DEF IInv, Next
  <2> QED
    BY <2>1, <2>2, <2>3, <2>4, <2>5, <2>6, <2>7, <2>8, <2>9, <2>10, <2>11, <2>12, <2>13 DEF IInv
<1> QED
  BY <1>1, <1>2

-----------------------------------------------------------------------------

\* DifficultyLadder::Draw and Record: whatever order the envs' fights end in, a
\* row's window is of fights at the rung it is on, never more than the window's
\* length, and the seeds of an evaluation take every pair to every rung once.
THEOREM LadderIsSound == Spec => []LadderSound
<1>1. IInv => LadderSound
  BY LadderHolds DEF IInv, LadderSound
<1> QED
  BY <1>1, Starts, Keeps, PTL DEF Spec

\* CombatReward::OneOnOne, CreatureEncounter, AmbushEncounter and
\* InstanceEncounter: a fight that is over was recorded once, and paid once for
\* its kill and once for every death, whenever the dying and the killing came.
THEOREM FightsAreSettled == Spec => []FightsSettled
<1>1. IInv => FightsSettled
  BY DuelHolds, RaidHolds, Ambush!AmbushHolds, Ambushed!AmbushHolds DEF IInv, FightsSettled
<1> QED
  BY <1>1, Starts, Keeps, PTL DEF Spec

\* LifeEncounter with its quest, field and town: what the seat did was paid
\* once, nothing it did not do was paid, and the outcome is that of the game.
THEOREM ErrandsAreSettled == Spec => []ErrandsSettled
<1>1. IInv => ErrandsSettled
  BY QuestHolds, FieldHolds, TownHolds DEF IInv, ErrandsSettled
<1> QED
  BY <1>1, Starts, Keeps, PTL DEF Spec

\* PullsEncounter: every creature that died, every death and every clear is
\* paid once whatever pull it belongs to, and a single pack is recorded once.
THEOREM PullsAreSettled == Spec => []PullsSettled
<1>1. IInv => PullsSettled
  BY Pack!PullsHold, Gauntlet!PullsHold, Sequence!PullsHold, Owned!PullsHold DEF IInv, PullsSettled
<1> QED
  BY <1>1, Starts, Keeps, PTL DEF Spec

\* PullsEncounter::Recover and Update: a pull beside an owner never comes while
\* one of the party is dead.
THEOREM PullsFindTheParty == Spec => [][arena = "owned" => Owned!PullFindsAll]_vars
<1>1. IInv /\ [Next]_vars => [arena = "owned" => Owned!PullFindsAll]_vars
  BY Keeps
<1> QED
  BY <1>1, Starts, Keeps, PTL DEF Spec
=============================================================================
