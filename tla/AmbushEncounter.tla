-------------------------- MODULE AmbushEncounter --------------------------
(***************************************************************************)
(* Enemy players that ambush the seats (AmbushEncounter.cpp): alone, as    *)
(* the fight of the episode, or arriving in the middle of a run of pulls,  *)
(* whose creatures share the enemy slots with them (PullsEncounter::       *)
(* SpawnPull).  A step is one decision.  Time counts decisions.            *)
(***************************************************************************)
EXTENDS CombatTally, FiniteSetTheorems, SequencesExt, TLAPS

CONSTANTS Alone, Ambushers, PackSlots, MinArrival, MaxArrival

VARIABLES env, paid

vars == <<env, paid>>

Slots == 0 .. Ambushers - 1
Enemy(index) == <<"ambusher", index>>
Creature(n) == <<"creature", n>>
IsPlayer(guid) == guid[1] = "ambusher"

NothingPaid == [kills |-> 0, deaths |-> 0, kill |-> 0]

NewAmbusher == [bot |-> FALSE, alive |-> FALSE, counted |-> FALSE]

\* What is in the enemy slots: enemy players, and a pull's creatures.
PlayersOf(targets) == SelectSeq(targets, IsPlayer)
CreaturesOf(targets) == SelectSeq(targets, LAMBDA guid: ~IsPlayer(guid))

\* ResetEpisode, then BeforeRebuild's RemoveBots: the bots leave the slots and
\* the enemy slots.
RemoveBots(e) ==
    [e EXCEPT !.ambushers = [i \in Slots |-> [e.ambushers[i] EXCEPT !.bot = FALSE, !.alive = FALSE]],
              !.targets = CreaturesOf(@), !.arrived = FALSE]

ResetEpisode(e) ==
    [e EXCEPT !.count = 0, !.arriveAt = 0, !.arrived = FALSE, !.down = 0, !.stepKills = 0,
              !.ambushers = [i \in Slots |-> [e.ambushers[i] EXCEPT !.counted = FALSE]]]

\* Those of the count that could be made take the first slots.
Comes(e, made) ==
    [e EXCEPT !.count = made, !.arrived = TRUE,
              !.ambushers = [i \in Slots |-> IF i < made THEN [bot |-> TRUE, alive |-> TRUE, counted |-> FALSE] ELSE @[i]],
              !.targets = @ \o [i \in 1 .. made |-> Enemy(i - 1)]]
Arrive(e) == {Comes(e, made) : made \in 0 .. e.count}

\* The pulls' creatures take what the ambushers leave of the enemy slots; the
\* old pull's leave, enemy players stay first.
SpawnPull(e, n) ==
    [e EXCEPT !.targets = PlayersOf(@) \o [i \in 1 .. n |-> Creature(i)]]
Despawn(e) == [e EXCEPT !.targets = PlayersOf(@)]
Room == PackSlots - (IF Ambushers < PackSlots THEN Ambushers ELSE PackSlots)

NewEnv ==
    With(NewTally(FALSE),
    [failed |-> FALSE, count |-> 0, arriveAt |-> 0, arrived |-> FALSE, down |-> 0, stepKills |-> 0,
     ambushers |-> [i \in Slots |-> NewAmbusher], targets |-> <<>>])

\* Build: how many come, and now or when.
Fresh(e) == With(NewTally(FALSE), [RemoveBots(ResetEpisode(e)) EXCEPT !.failed = FALSE])
Fights(a, soul) == [a EXCEPT !.failed = a.count = 0, !.soul = soul]
Awaits(e, n, m, at) == [SpawnPull(e, m) EXCEPT !.count = n, !.arriveAt = at]
BuildAlone(e, n) == {Fights(a, soul) : a \in Arrive([e EXCEPT !.count = n]), soul \in BOOLEAN}
BuildPulls(e, n) == {Awaits(e, n, m, at) : m \in 1 .. Room, at \in MinArrival .. MaxArrival}
Build(e) == UNION {IF Alone THEN BuildAlone(Fresh(e), n) ELSE BuildPulls(Fresh(e), n) : n \in 1 .. Ambushers}

\* Nobody could come: no ambush this episode.
Update(e) ==
    IF e.arrived \/ Alone \/ e.now < e.arriveAt THEN {e}
    ELSE {IF a.count > 0 THEN a ELSE [a EXCEPT !.arriveAt = EpisodeDecisions + 1] : a \in Arrive(e)}

Find(e, index) == index < e.count /\ e.ambushers[index].bot

\* A dead ambusher is a kill, once.
NewlyDead(e) == {i \in Slots : Find(e, i) /\ ~e.ambushers[i].alive /\ ~e.ambushers[i].counted}

Counts(ambusher, newly) == [ambusher EXCEPT !.counted = @ \/ newly]
BeforeRewards(e) ==
    [e EXCEPT !.stepKills = Cardinality(NewlyDead(e)), !.down = @ + Cardinality(NewlyDead(e)),
              !.ambushers = [i \in Slots |-> Counts(e.ambushers[i], i \in NewlyDead(e))]]

\* Alone it is a one-on-one with the first of them; else its kills are paid
\* and the deaths are the pulls'.
WinsDuel(e) == Find(e, 0) /\ ~e.ambushers[0].alive

Reward(e) ==
    LET b == BeforeRewards(e)
    IN  IF Alone /\ Find(e, 0) THEN [CountDeath(b) EXCEPT !.killed = @ \/ WinsDuel(e)] ELSE b

Pay(e, p) ==
    LET r == Reward(e)
    IN  [kills |-> p.kills + (IF Alone THEN 0 ELSE r.stepKills), kill |-> p.kill + Bit(r.killed /\ ~e.killed),
         deaths |-> p.deaths + r.deaths - e.deaths]

IsTerminal(e) == TimeIsUp(e) \/ e.failed \/ (Alone /\ (e.killed \/ DeadForGood(e)))

-----------------------------------------------------------------------------

\* What the world did since the last decision: ambushers died; the seat's life
\* is told only in the fight alone.
Dies(ambusher, dies) == [ambusher EXCEPT !.alive = @ /\ ~dies]
Later(l, dead) == [l EXCEPT !.ambushers = [i \in Slots |-> Dies(l.ambushers[i], i \in dead)]]
SeatLives(e) == IF Alone THEN Lives(e) ELSE {[e EXCEPT !.now = @ + 1]}
World(e) == {Later(l, dead) : dead \in SUBSET Slots, l \in SeatLives(e)}

\* Beside pulls, those end and begin as they please.
Pulls(e) == IF Alone THEN {e} ELSE {e, Despawn(e)} \cup {SpawnPull(e, n) : n \in 1 .. Room}

Decide ==
    /\ ~env.over
    /\ \E w \in World(env) :
          LET r == Reward(w)
          IN  /\ paid' = Pay(w, paid)
              /\ IF IsTerminal(r) THEN env' = [r EXCEPT !.over = TRUE]
                 ELSE \E p \in Pulls(r) : env' \in Update(p)

NextEpisode == env.over /\ env' \in Build(env) /\ paid' = NothingPaid

Init == env \in Build(NewEnv) /\ paid = NothingPaid

Next == Decide \/ NextEpisode

Spec == Init /\ [][Next]_vars

-----------------------------------------------------------------------------

\* Whoever came is in an enemy slot for the whole episode, once, beside any
\* pull, and nobody of an earlier episode is; the enemy slots never run over.
AmbushersKeepSlots ==
    /\ Len(env.targets) <= PackSlots /\ IsInjective(env.targets)
    /\ {guid \in ToSet(env.targets) : IsPlayer(guid)} = {Enemy(i) : i \in {j \in Slots : env.ambushers[j].bot}}
    /\ \A i \in Slots : env.ambushers[i].bot <=> env.arrived /\ i < env.count

\* Every ambusher killed is paid exactly once, by the ambush or as the
\* one-on-one's kill.
AmbushSettled ==
    env.over =>
        LET dead == {i \in Slots : env.ambushers[i].bot /\ ~env.ambushers[i].alive}
        IN  /\ env.down = Cardinality(dead)
            /\ IF Alone THEN paid.kill = Bit(0 \in dead) /\ paid.deaths = env.deaths
               ELSE paid.kills = Cardinality(dead)

-----------------------------------------------------------------------------
(* What is paid for an ambusher once.  Between decisions the dead of those  *)
(* that came are the counted ones.                                          *)

AmbushFields ==
    {"now", "over", "alive", "soul", "counted", "died", "deaths", "deathAt", "killed", "timedOut",
     "failed", "count", "arriveAt", "arrived", "down", "stepKills", "ambushers", "targets"}
AmbusherFields == {"bot", "alive", "counted"}
Ambushed(e) == {i \in Slots : e.ambushers[i].bot}
Dead(e) == {i \in Slots : e.ambushers[i].bot /\ ~e.ambushers[i].alive}
Counted(e) == {i \in Slots : e.ambushers[i].bot /\ e.ambushers[i].counted}

\* What an env keeps from one episode to the next.
AmbushTyped(e) ==
    /\ DOMAIN e = AmbushFields
    /\ \A i \in Slots : DOMAIN e.ambushers[i] = AmbusherFields

\* Who came is one of the count, and before anybody came nobody is there.
AmbushKept(e) ==
    /\ AmbushTyped(e) /\ ~e.over
    /\ e.count \in 0 .. Ambushers /\ e.deaths \in Nat
    /\ \A i \in Slots : e.ambushers[i].bot => i < e.count
    /\ ~e.arrived => Ambushed(e) = {}
    /\ e.down = Cardinality(Counted(e))

\* An ambush that goes on, as the world may have moved it, and what it paid.
AmbushMoved(e, p) ==
    /\ AmbushKept(e) /\ Counted(e) \subseteq Dead(e)
    /\ IF Alone THEN p.kill = Bit(e.killed) /\ p.deaths = e.deaths /\ (e.killed <=> 0 \in Counted(e))
       ELSE p.kills = e.down
AmbushOpen(e, p) == AmbushMoved(e, p) /\ Counted(e) = Dead(e)

\* What AmbushSettled says of one that is over.
AmbushClosed(e, p) ==
    /\ AmbushTyped(e)
    /\ e.down = Cardinality(Dead(e))
    /\ IF Alone THEN p.kill = Bit(0 \in Dead(e)) /\ p.deaths = e.deaths ELSE p.kills = Cardinality(Dead(e))

\* A step that leaves the ambushers, their count and the seat's tally alone.
LEMMA AmbushSame ==
    ASSUME NEW e, NEW p, AmbushOpen(e, p), NEW f, DOMAIN f = AmbushFields, ~f.over,
           f.ambushers = e.ambushers, f.count = e.count, f.down = e.down, f.killed = e.killed, f.deaths = e.deaths,
           f.arrived = e.arrived \/ f.arrived
    PROVE  AmbushOpen(f, p)
<1>1. Counted(f) = Counted(e) /\ Dead(f) = Dead(e) /\ Ambushed(f) = Ambushed(e)
  BY DEF Counted, Dead, Ambushed
<1>2. AmbushKept(f)
  BY <1>1 DEF AmbushOpen, AmbushMoved, AmbushKept, AmbushTyped
<1> QED
  BY <1>1, <1>2 DEF AmbushOpen, AmbushMoved

\* Nobody of those that come is dead.
LEMMA AmbushArrives ==
    ASSUME Ambushers \in Nat, NEW e, NEW p, AmbushOpen(e, p), ~e.arrived, NEW a \in Arrive(e)
    PROVE  AmbushOpen(a, p)
<1>1. PICK made \in 0 .. e.count : a = Comes(e, made)
  BY DEF Arrive
<1>2. PICK them, targets : /\ a = [e EXCEPT !.count = made, !.arrived = TRUE, !.ambushers = them, !.targets = targets]
                           /\ them = [i \in Slots |-> IF i < made THEN [bot |-> TRUE, alive |-> TRUE, counted |-> FALSE] ELSE e.ambushers[i]]
  BY <1>1 DEF Comes
<1>3. /\ DOMAIN a = AmbushFields /\ a.over = e.over /\ a.count = made /\ a.deaths = e.deaths /\ a.killed = e.killed
      /\ a.down = e.down /\ a.arrived = TRUE /\ a.ambushers = them
  BY <1>2 DEF AmbushOpen, AmbushMoved, AmbushKept, AmbushTyped, AmbushFields
<1>4. \A i \in Slots : ~e.ambushers[i].bot /\ DOMAIN e.ambushers[i] = AmbusherFields
  BY DEF AmbushOpen, AmbushMoved, AmbushKept, AmbushTyped, Ambushed
<1>5. \A i \in Slots : /\ DOMAIN them[i] = AmbusherFields /\ (them[i].bot <=> i < made)
                       /\ (them[i].bot => them[i].alive /\ ~them[i].counted)
  BY <1>2, <1>4 DEF AmbusherFields
<1>6. Counted(a) = {} /\ Dead(a) = {} /\ Counted(e) = {}
  BY <1>3, <1>4, <1>5 DEF Counted, Dead
<1>7. made \in 0 .. Ambushers
  BY DEF AmbushOpen, AmbushMoved, AmbushKept
<1>8. AmbushKept(a)
  BY <1>3, <1>5, <1>6, <1>7 DEF AmbushOpen, AmbushMoved, AmbushKept, AmbushTyped
<1> QED
  BY <1>3, <1>6, <1>8 DEF AmbushOpen, AmbushMoved

\* An episode begins with nobody dead.
LEMMA AmbushFresh ==
    ASSUME Ambushers \in Nat, NEW e, AmbushTyped(e)
    PROVE  AmbushOpen(Fresh(e), NothingPaid) /\ ~Fresh(e).arrived
<1>1. PICK r : r = ResetEpisode(e)
  OBVIOUS
<1>2. PICK v : v = [RemoveBots(r) EXCEPT !.failed = FALSE]
  OBVIOUS
<1>3. PICK t : t = NewTally(FALSE)
  OBVIOUS
<1>4. PICK f : f = With(t, v)
  OBVIOUS
<1>5. PICK them : them = [i \in Slots |-> [e.ambushers[i] EXCEPT !.counted = FALSE]]
  OBVIOUS
<1>6. r = [e EXCEPT !.count = 0, !.arriveAt = 0, !.arrived = FALSE, !.down = 0, !.stepKills = 0, !.ambushers = them]
  BY <1>1, <1>5 DEF ResetEpisode
<1>7. \A i \in Slots : DOMAIN them[i] = AmbusherFields
  BY <1>5 DEF AmbushTyped
<1>8. DOMAIN r = AmbushFields /\ r.count = 0 /\ r.down = 0 /\ r.ambushers = them
  BY <1>6 DEF AmbushTyped, AmbushFields
<1>9. PICK gone : gone = [i \in Slots |-> [them[i] EXCEPT !.bot = FALSE, !.alive = FALSE]]
  OBVIOUS
<1>10. v = [r EXCEPT !.ambushers = gone, !.targets = CreaturesOf(r.targets), !.arrived = FALSE, !.failed = FALSE]
  BY <1>2, <1>8, <1>9 DEF RemoveBots
<1>11. DOMAIN v = AmbushFields /\ v.count = 0 /\ v.down = 0 /\ v.ambushers = gone /\ v.arrived = FALSE
  BY <1>8, <1>10 DEF AmbushFields
<1>12. \A i \in Slots : DOMAIN gone[i] = AmbusherFields /\ gone[i].bot = FALSE
  BY <1>7, <1>9 DEF AmbusherFields
<1>13. /\ DOMAIN t = {"now", "over", "alive", "soul", "counted", "died", "deaths", "deathAt", "killed", "timedOut"}
       /\ t.over = FALSE /\ t.deaths = 0 /\ t.killed = FALSE
  BY <1>3 DEF NewTally
<1>14. DOMAIN f = AmbushFields
  BY <1>4, <1>11, <1>13 DEF AmbushFields, With
<1>15. /\ f.over = FALSE /\ f.deaths = 0 /\ f.killed = FALSE /\ f.count = 0 /\ f.down = 0 /\ f.ambushers = gone /\ f.arrived = FALSE
  BY <1>4, <1>11, <1>13 DEF AmbushFields, With
<1>16. Counted(f) = {} /\ Dead(f) = {} /\ Ambushed(f) = {}
  BY <1>12, <1>15 DEF Counted, Dead, Ambushed
<1>17. AmbushKept(f)
  BY <1>12, <1>14, <1>15, <1>16, FS_EmptySet DEF AmbushKept, AmbushTyped
<1>18. NothingPaid.kill = 0 /\ NothingPaid.kills = 0 /\ NothingPaid.deaths = 0
  BY DEF NothingPaid
<1>19. AmbushOpen(f, NothingPaid)
  BY <1>15, <1>16, <1>17, <1>18 DEF AmbushOpen, AmbushMoved, Bit
<1> QED
  BY <1>1, <1>2, <1>3, <1>4, <1>15, <1>19 DEF Fresh

LEMMA AmbushBuilt == ASSUME Ambushers \in Nat, NEW e, AmbushTyped(e), NEW b \in Build(e) PROVE AmbushOpen(b, NothingPaid)
<1>1. PICK f : f = Fresh(e)
  OBVIOUS
<1>2. AmbushOpen(f, NothingPaid) /\ ~f.arrived
  BY <1>1, AmbushFresh
<1>3. PICK n \in 1 .. Ambushers : b \in IF Alone THEN BuildAlone(f, n) ELSE BuildPulls(f, n)
  BY <1>1 DEF Build
<1>4. Ambushed(f) = {} /\ DOMAIN f = AmbushFields
  BY <1>2 DEF AmbushOpen, AmbushMoved, AmbushKept, AmbushTyped
<1>5. ASSUME NEW g, DOMAIN g = AmbushFields, ~g.over, g.ambushers = f.ambushers, g.count = n, g.down = f.down, g.killed = f.killed,
             g.deaths = f.deaths, ~g.arrived
      PROVE  AmbushOpen(g, NothingPaid)
  <2>1. Counted(g) = Counted(f) /\ Dead(g) = Dead(f) /\ Ambushed(g) = {}
    BY <1>4, <1>5 DEF Counted, Dead, Ambushed
  <2>2. n \in 0 .. Ambushers /\ \A i \in Slots : ~g.ambushers[i].bot
    BY <2>1 DEF Ambushed
  <2>3. AmbushKept(g)
    BY <1>2, <1>5, <2>1, <2>2 DEF AmbushOpen, AmbushMoved, AmbushKept, AmbushTyped
  <2> QED
    BY <1>2, <1>5, <2>1, <2>3 DEF AmbushOpen, AmbushMoved
<1>6. CASE Alone
  <2>1. PICK a \in Arrive([f EXCEPT !.count = n]), soul \in BOOLEAN : b = Fights(a, soul)
    BY <1>3, <1>6 DEF BuildAlone
  <2>2. PICK g : g = [f EXCEPT !.count = n]
    OBVIOUS
  <2>3. AmbushOpen(g, NothingPaid) /\ ~g.arrived
    BY <1>2, <1>4, <1>5, <2>2 DEF AmbushFields, AmbushOpen, AmbushMoved, AmbushKept
  <2>4. AmbushOpen(a, NothingPaid)
    BY <2>1, <2>2, <2>3, AmbushArrives
  <2>5. PICK x : b = [a EXCEPT !.failed = x, !.soul = soul]
    BY <2>1 DEF Fights
  <2>6. /\ DOMAIN b = AmbushFields /\ ~b.over /\ b.ambushers = a.ambushers /\ b.count = a.count /\ b.down = a.down
        /\ b.killed = a.killed /\ b.deaths = a.deaths /\ b.arrived = a.arrived
    BY <2>4, <2>5 DEF AmbushFields, AmbushOpen, AmbushMoved, AmbushKept, AmbushTyped
  <2>7. Counted(b) = Counted(a) /\ Dead(b) = Dead(a) /\ Ambushed(b) = Ambushed(a)
    BY <2>6 DEF Counted, Dead, Ambushed
  <2>8. AmbushKept(b)
    BY <2>4, <2>6, <2>7 DEF AmbushOpen, AmbushMoved, AmbushKept, AmbushTyped
  <2> QED
    BY <2>4, <2>6, <2>7, <2>8 DEF AmbushOpen, AmbushMoved
<1>7. CASE ~Alone
  <2>1. PICK m \in 1 .. Room, at \in MinArrival .. MaxArrival : b = Awaits(f, n, m, at)
    BY <1>3, <1>7 DEF BuildPulls
  <2>2. PICK targets : b = [f EXCEPT !.targets = targets, !.count = n, !.arriveAt = at]
    BY <2>1 DEF Awaits, SpawnPull
  <2> QED
    BY <1>2, <1>4, <1>5, <2>2 DEF AmbushFields, AmbushOpen, AmbushMoved, AmbushKept
<1> QED
  BY <1>6, <1>7

LEMMA AmbushWorld == ASSUME NEW e, NEW p, AmbushOpen(e, p), NEW w \in World(e) PROVE AmbushMoved(w, p)
<1>1. PICK dead \in SUBSET Slots, l \in SeatLives(e) : w = Later(l, dead)
  BY DEF World
<1>2. \/ l = [e EXCEPT !.now = e.now + 1]
      \/ l = [e EXCEPT !.now = e.now + 1, !.alive = FALSE]
      \/ l = [e EXCEPT !.now = e.now + 1, !.alive = TRUE, !.soul = FALSE]
  BY DEF SeatLives, Lives
<1>3. /\ DOMAIN l = AmbushFields /\ l.over = e.over /\ l.count = e.count /\ l.deaths = e.deaths /\ l.killed = e.killed
      /\ l.down = e.down /\ l.arrived = e.arrived /\ l.ambushers = e.ambushers
  <2>1. DOMAIN e = AmbushFields
    BY DEF AmbushOpen, AmbushMoved, AmbushKept, AmbushTyped
  <2>2. CASE l = [e EXCEPT !.now = e.now + 1]
    BY <2>1, <2>2 DEF AmbushFields
  <2>3. CASE l = [e EXCEPT !.now = e.now + 1, !.alive = FALSE]
    BY <2>1, <2>3 DEF AmbushFields
  <2>4. CASE l = [e EXCEPT !.now = e.now + 1, !.alive = TRUE, !.soul = FALSE]
    BY <2>1, <2>4 DEF AmbushFields
  <2> QED
    BY <1>2, <2>2, <2>3, <2>4
<1>4. PICK them : them = [i \in Slots |-> Dies(e.ambushers[i], i \in dead)]
  OBVIOUS
<1>5. w = [l EXCEPT !.ambushers = them]
  BY <1>1, <1>3, <1>4 DEF Later
<1>6. /\ DOMAIN w = AmbushFields /\ w.over = e.over /\ w.count = e.count /\ w.deaths = e.deaths /\ w.killed = e.killed
      /\ w.down = e.down /\ w.arrived = e.arrived /\ w.ambushers = them
  BY <1>3, <1>5 DEF AmbushFields
<1>7. \A i \in Slots : /\ DOMAIN them[i] = AmbusherFields /\ them[i].bot = e.ambushers[i].bot
                       /\ them[i].counted = e.ambushers[i].counted /\ (~e.ambushers[i].alive => ~them[i].alive)
  BY <1>4 DEF AmbushOpen, AmbushMoved, AmbushKept, AmbushTyped, AmbusherFields, Dies
<1>8. Counted(w) = Counted(e) /\ Dead(e) \subseteq Dead(w) /\ Ambushed(w) = Ambushed(e)
  BY <1>6, <1>7 DEF Counted, Dead, Ambushed
<1>9. AmbushKept(w)
  BY <1>6, <1>7, <1>8 DEF AmbushOpen, AmbushMoved, AmbushKept, AmbushTyped
<1> QED
  BY <1>6, <1>8, <1>9 DEF AmbushOpen, AmbushMoved

LEMMA AmbushRewarded ==
    ASSUME Ambushers \in Nat, NEW e, NEW p, AmbushMoved(e, p), NEW r, r = Reward(e), NEW q, q = Pay(e, p)
    PROVE  AmbushOpen(r, q)
<1>1. PICK b : b = BeforeRewards(e)
  OBVIOUS
<1>2. PICK new : new = NewlyDead(e)
  OBVIOUS
<1>3. PICK them : them = [i \in Slots |-> Counts(e.ambushers[i], i \in new)]
  OBVIOUS
<1>4. b = [e EXCEPT !.stepKills = Cardinality(new), !.down = e.down + Cardinality(new), !.ambushers = them]
  BY <1>1, <1>2, <1>3 DEF BeforeRewards
<1>5. /\ DOMAIN b = AmbushFields /\ b.over = e.over /\ b.count = e.count /\ b.deaths = e.deaths /\ b.killed = e.killed
      /\ b.down = e.down + Cardinality(new) /\ b.stepKills = Cardinality(new) /\ b.arrived = e.arrived /\ b.ambushers = them
  BY <1>4 DEF AmbushMoved, AmbushKept, AmbushTyped, AmbushFields
<1>6. \A i \in Slots : DOMAIN e.ambushers[i] = AmbusherFields /\ (e.ambushers[i].bot => i < e.count)
  BY DEF AmbushMoved, AmbushKept, AmbushTyped
<1>7. new = Dead(e) \ Counted(e)
  BY <1>2, <1>6 DEF NewlyDead, Find, Dead, Counted
<1>8. \A i \in Slots : /\ DOMAIN them[i] = AmbusherFields /\ them[i].bot = e.ambushers[i].bot
                       /\ them[i].alive = e.ambushers[i].alive /\ (them[i].counted <=> e.ambushers[i].counted \/ i \in new)
  BY <1>3, <1>6 DEF AmbusherFields, Counts
<1>9. Dead(b) = Dead(e) /\ Ambushed(b) = Ambushed(e) /\ Counted(b) = Counted(e) \cup new
  BY <1>5, <1>7, <1>8 DEF Dead, Counted, Ambushed
<1>10. Counted(b) = Dead(b)
  BY <1>7, <1>9 DEF AmbushMoved
<1>11. /\ Cardinality(new) \in Nat /\ Cardinality(Counted(e)) \in Nat
       /\ Cardinality(Dead(e)) = Cardinality(Counted(e)) + Cardinality(new)
  <2>1. IsFiniteSet(Slots)
    BY FS_Interval DEF Slots
  <2>2. Counted(e) \subseteq Slots /\ new \subseteq Slots
    BY <1>7 DEF Counted, Dead
  <2>3. IsFiniteSet(Counted(e)) /\ IsFiniteSet(new)
    BY <2>1, <2>2, FS_Subset
  <2>4. Cardinality(Counted(e) \cap new) = 0
    <3>1. Counted(e) \cap new = {}
      BY <1>7
    <3> QED
      BY <3>1, FS_EmptySet
  <2>5. Cardinality(Counted(e) \cup new) = Cardinality(Counted(e)) + Cardinality(new) - Cardinality(Counted(e) \cap new)
    BY <2>3, FS_Union
  <2>6. Cardinality(new) \in Nat /\ Cardinality(Counted(e)) \in Nat
    BY <2>3, FS_CardinalityType
  <2>7. Counted(e) \cup new = Dead(e)
    BY <1>9, <1>10
  <2> QED
    BY <2>4, <2>5, <2>6, <2>7
<1>12. b.down = Cardinality(Dead(b)) /\ e.down \in Nat /\ b.down \in Nat
  BY <1>5, <1>9, <1>11 DEF AmbushMoved, AmbushKept
<1>13. AmbushKept(b)
  BY <1>5, <1>6, <1>8, <1>9, <1>10, <1>12 DEF AmbushMoved, AmbushKept, AmbushTyped
<1>14. /\ q.kills = p.kills + (IF Alone THEN 0 ELSE r.stepKills)
       /\ q.kill = p.kill + Bit(r.killed /\ ~e.killed) /\ q.deaths = p.deaths + r.deaths - e.deaths
  BY DEF Pay
<1>15. CASE ~Alone
  <2>1. r = b
    BY <1>1, <1>15 DEF Reward
  <2>2. q.kills = b.down
    BY <1>5, <1>11, <1>12, <1>14, <1>15, <2>1 DEF AmbushMoved
  <2> QED
    BY <1>10, <1>13, <1>15, <2>1, <2>2 DEF AmbushOpen, AmbushMoved
<1>16. CASE Alone /\ ~Find(e, 0)
  <2>1. r = b
    BY <1>1, <1>16 DEF Reward
  <2>2. 0 \notin Dead(e) /\ 0 \notin Counted(e)
    BY <1>6, <1>16 DEF Find, Dead, Counted
  <2>3. ~e.killed /\ p.kill = 0 /\ p.deaths = e.deaths /\ e.deaths \in Nat
    BY <1>16, <2>2 DEF AmbushMoved, AmbushKept, Bit
  <2>4. q.kill = 0 /\ q.deaths = b.deaths
    BY <1>5, <1>14, <2>1, <2>3 DEF Bit
  <2>5. ~b.killed /\ 0 \notin Counted(b)
    BY <1>5, <1>9, <1>10, <2>2, <2>3
  <2> QED
    BY <1>10, <1>13, <1>16, <2>1, <2>4, <2>5 DEF AmbushOpen, AmbushMoved, Bit
<1>17. CASE Alone /\ Find(e, 0)
  <2>1. PICK c : c = CountDeath(b)
    OBVIOUS
  <2>2. /\ DOMAIN c = AmbushFields /\ c.over = e.over /\ c.count = e.count /\ c.killed = e.killed /\ c.down = b.down
        /\ c.arrived = e.arrived /\ c.ambushers = them /\ c.deaths \in Nat
    <3>1. b.deaths \in Nat
      BY <1>5 DEF AmbushMoved, AmbushKept
    <3>2. CASE b.alive
      BY <1>5, <2>1, <3>1, <3>2 DEF CountDeath, AmbushFields
    <3>3. CASE ~b.alive /\ b.counted
      BY <1>5, <2>1, <3>1, <3>3 DEF CountDeath
    <3>4. CASE ~b.alive /\ ~b.counted
      BY <1>5, <2>1, <3>1, <3>4 DEF CountDeath, AmbushFields
    <3> QED
      BY <3>2, <3>3, <3>4
  <2>3. r = [c EXCEPT !.killed = c.killed \/ WinsDuel(e)]
    BY <1>1, <1>17, <2>1 DEF Reward
  <2>4. /\ DOMAIN r = AmbushFields /\ r.over = e.over /\ r.count = e.count /\ (r.killed <=> e.killed \/ WinsDuel(e)) /\ r.down = b.down
        /\ r.arrived = e.arrived /\ r.ambushers = them /\ r.deaths \in Nat
    BY <2>2, <2>3 DEF AmbushFields
  <2>5. 0 \in Slots
    BY <1>17 DEF Find, Slots, AmbushMoved, AmbushKept
  <2>6. r.killed <=> 0 \in Dead(e)
    <3>1. e.killed <=> 0 \in Counted(e)
      BY <1>17 DEF AmbushMoved
    <3>2. Counted(e) \subseteq Dead(e)
      BY DEF AmbushMoved
    <3>3. 0 \in Dead(e) <=> e.ambushers[0].bot /\ ~e.ambushers[0].alive
      BY <2>5 DEF Dead
    <3>4. WinsDuel(e) <=> ~e.ambushers[0].alive
      BY <1>17 DEF WinsDuel
    <3>5. e.ambushers[0].bot
      BY <1>17 DEF Find
    <3> QED
      BY <2>4, <3>1, <3>2, <3>3, <3>4, <3>5
  <2>7. Counted(r) = Counted(b) /\ Dead(r) = Dead(b) /\ Ambushed(r) = Ambushed(b)
    BY <1>5, <2>4 DEF Counted, Dead, Ambushed
  <2>8. AmbushKept(r)
    BY <1>5, <1>13, <2>4, <2>7 DEF AmbushKept, AmbushTyped
  <2>9. q.deaths = r.deaths
    BY <1>14, <1>17, <2>4 DEF AmbushMoved, AmbushKept
  <2>10. q.kill = Bit(r.killed)
    <3>1. p.kill = Bit(e.killed) /\ (e.killed => r.killed)
      BY <1>17, <2>4 DEF AmbushMoved
    <3>2. CASE e.killed
      BY <1>14, <3>1, <3>2 DEF Bit
    <3>3. CASE ~e.killed
      BY <1>14, <3>1, <3>3 DEF Bit
    <3> QED
      BY <3>2, <3>3
  <2>11. r.killed <=> 0 \in Counted(r)
    BY <1>9, <1>10, <2>6, <2>7
  <2> QED
    BY <1>10, <1>17, <2>7, <2>8, <2>9, <2>10, <2>11 DEF AmbushOpen, AmbushMoved
<1> QED
  BY <1>15, <1>16, <1>17

LEMMA AmbushUpdated ==
    ASSUME Ambushers \in Nat, NEW e, NEW p, AmbushOpen(e, p), NEW b \in Pulls(e), NEW u \in Update(b)
    PROVE  AmbushOpen(u, p)
<1>1. DOMAIN e = AmbushFields /\ ~e.over
  BY DEF AmbushOpen, AmbushMoved, AmbushKept, AmbushTyped
<1>2. AmbushOpen(b, p)
  <2>1. b = e \/ b = Despawn(e) \/ \E n \in 1 .. Room : b = SpawnPull(e, n)
    BY DEF Pulls
  <2>2. b = e \/ \E targets : b = [e EXCEPT !.targets = targets]
    BY <2>1 DEF Despawn, SpawnPull
  <2>3. ASSUME NEW targets, b = [e EXCEPT !.targets = targets] PROVE AmbushOpen(b, p)
    <3>1. /\ DOMAIN b = AmbushFields /\ ~b.over /\ b.ambushers = e.ambushers /\ b.count = e.count /\ b.down = e.down
          /\ b.killed = e.killed /\ b.deaths = e.deaths /\ b.arrived = e.arrived
      BY <1>1, <2>3 DEF AmbushFields
    <3>2. Counted(b) = Counted(e) /\ Dead(b) = Dead(e) /\ Ambushed(b) = Ambushed(e)
      BY <3>1 DEF Counted, Dead, Ambushed
    <3>3. AmbushKept(b)
      BY <3>1, <3>2 DEF AmbushOpen, AmbushMoved, AmbushKept, AmbushTyped
    <3> QED
      BY <3>1, <3>2, <3>3 DEF AmbushOpen, AmbushMoved
  <2> QED
    BY <2>2, <2>3
<1>3. CASE b.arrived \/ Alone \/ b.now < b.arriveAt
  BY <1>2, <1>3 DEF Update
<1>4. CASE ~(b.arrived \/ Alone \/ b.now < b.arriveAt)
  <2>1. PICK a \in Arrive(b) : u = a \/ u = [a EXCEPT !.arriveAt = EpisodeDecisions + 1]
    BY <1>4 DEF Update
  <2>2. AmbushOpen(a, p)
    BY <1>2, <1>4, <2>1, AmbushArrives
  <2>3. CASE u = [a EXCEPT !.arriveAt = EpisodeDecisions + 1]
    <3>1. /\ DOMAIN u = AmbushFields /\ ~u.over /\ u.ambushers = a.ambushers /\ u.count = a.count /\ u.down = a.down
          /\ u.killed = a.killed /\ u.deaths = a.deaths /\ u.arrived = a.arrived
      BY <2>2, <2>3 DEF AmbushFields, AmbushOpen, AmbushMoved, AmbushKept, AmbushTyped
    <3>2. Counted(u) = Counted(a) /\ Dead(u) = Dead(a) /\ Ambushed(u) = Ambushed(a)
      BY <3>1 DEF Counted, Dead, Ambushed
    <3>3. AmbushKept(u)
      BY <2>2, <3>1, <3>2 DEF AmbushOpen, AmbushMoved, AmbushKept, AmbushTyped
    <3> QED
      BY <2>2, <3>1, <3>2, <3>3 DEF AmbushOpen, AmbushMoved
  <2> QED
    BY <2>1, <2>2, <2>3
<1> QED
  BY <1>3, <1>4

\* The invariant of an ambush, and that its steps keep it.
AmbushInv == (~env.over => AmbushOpen(env, paid)) /\ (env.over => AmbushClosed(env, paid))

LEMMA AmbushStarts == ASSUME Ambushers \in Nat PROVE Init => AmbushInv
<1>1. PICK t : t = NewTally(FALSE)
  OBVIOUS
<1>2. PICK o : o = [failed |-> FALSE, count |-> 0, arriveAt |-> 0, arrived |-> FALSE, down |-> 0, stepKills |-> 0,
         ambushers |-> [i \in Slots |-> NewAmbusher], targets |-> << >>]
  OBVIOUS
<1>3. DOMAIN t = {"now", "over", "alive", "soul", "counted", "died", "deaths", "deathAt", "killed", "timedOut"}
  BY <1>1 DEF NewTally
<1>4. /\ DOMAIN o = {"failed", "count", "arriveAt", "arrived", "down", "stepKills", "ambushers", "targets"}
      /\ o.ambushers = [i \in Slots |-> NewAmbusher]
  BY <1>2
<1>5. DOMAIN NewEnv = AmbushFields /\ NewEnv.ambushers = [i \in Slots |-> NewAmbusher]
  BY <1>1, <1>2, <1>3, <1>4 DEF NewEnv, With, AmbushFields
<1>6. AmbushTyped(NewEnv)
  BY <1>5 DEF AmbushTyped, NewAmbusher, AmbusherFields
<1> QED
  BY <1>6, AmbushBuilt DEF Init, AmbushInv, AmbushOpen, AmbushMoved, AmbushKept

LEMMA AmbushKeeps == ASSUME Ambushers \in Nat PROVE AmbushInv /\ Next => AmbushInv'
<1>1. ASSUME AmbushInv, Decide PROVE AmbushInv'
  <2>1. PICK w \in World(env) :
           LET r == Reward(w)
           IN  /\ paid' = Pay(w, paid)
               /\ IF IsTerminal(r) THEN env' = [r EXCEPT !.over = TRUE] ELSE \E b \in Pulls(r) : env' \in Update(b)
    BY <1>1 DEF Decide
  <2>2. AmbushMoved(w, paid)
    BY <1>1, <2>1, AmbushWorld DEF AmbushInv, Decide
  <2>3. PICK r : r = Reward(w)
    OBVIOUS
  <2>4. AmbushOpen(r, paid')
    BY <2>1, <2>2, <2>3, AmbushRewarded
  <2>5. CASE IsTerminal(r)
    <3>1. PICK x : x = [r EXCEPT !.over = TRUE] /\ env' = x
      BY <2>1, <2>3, <2>5
    <3>2. DOMAIN x = AmbushFields /\ x.over /\ x.ambushers = r.ambushers /\ x.down = r.down /\ x.deaths = r.deaths
      BY <2>4, <3>1 DEF AmbushFields, AmbushOpen, AmbushMoved, AmbushKept, AmbushTyped
    <3>3. Dead(x) = Dead(r)
      BY <3>2 DEF Dead
    <3>4. AmbushTyped(x) /\ x.down = Cardinality(Dead(x))
      BY <2>4, <3>2, <3>3 DEF AmbushOpen, AmbushMoved, AmbushKept, AmbushTyped
    <3>5. Alone => paid'.kill = Bit(0 \in Dead(x)) /\ paid'.deaths = x.deaths
      BY <2>4, <3>2, <3>3 DEF AmbushOpen, AmbushMoved, Bit
    <3>6. ~Alone => paid'.kills = Cardinality(Dead(x))
      BY <2>4, <3>2, <3>4 DEF AmbushOpen, AmbushMoved
    <3>7. AmbushClosed(x, paid')
      BY <3>4, <3>5, <3>6 DEF AmbushClosed
    <3> QED
      BY <3>1, <3>2, <3>7 DEF AmbushInv
  <2>6. CASE ~IsTerminal(r)
    <3>1. AmbushOpen(env', paid')
      BY <2>1, <2>3, <2>4, <2>6, AmbushUpdated
    <3> QED
      BY <3>1 DEF AmbushInv, AmbushOpen, AmbushMoved, AmbushKept
  <2> QED
    BY <2>5, <2>6
<1>2. ASSUME AmbushInv, NextEpisode PROVE AmbushInv'
  <2>1. AmbushOpen(env', paid')
    BY <1>2, AmbushBuilt DEF NextEpisode, AmbushInv, AmbushClosed
  <2> QED
    BY <2>1 DEF AmbushInv, AmbushOpen, AmbushMoved, AmbushKept
<1> QED
  BY <1>1, <1>2 DEF Next

LEMMA AmbushHolds == AmbushInv => AmbushSettled
BY DEF AmbushInv, AmbushClosed, AmbushSettled, Dead
=============================================================================
