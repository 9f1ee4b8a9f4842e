--------------------------- MODULE PullsEncounter ---------------------------
(***************************************************************************)
(* Pulls of creatures (PullsEncounter.cpp) against one seat: a single pack *)
(* on a rung of the ladder, a gauntlet of pull after pull, a planned       *)
(* sequence of them, or a gauntlet beside an owner, where nobody's death   *)
(* ends the episode.  A step is one decision: what the world did, the      *)
(* rewards, IsTerminal, then Update.  Time counts decisions.               *)
(***************************************************************************)
EXTENDS DifficultyLadder, CombatTally, TLAPS

CONSTANTS Schedule, Owner, SequencePulls, WinPulls, MaxPack, Break, Wait

VARIABLES env, paid

vars == <<env, paid>>

Gauntlet == Schedule \in {"Gauntlet", "Sequence"}
SoloGauntlet == Gauntlet /\ ~Owner
Sequence == Schedule = "Sequence"
SinglePack == Schedule = "SinglePack" /\ ~Owner

NothingPaid == [kills |-> 0, clears |-> 0, deaths |-> 0, recorded |-> 0]

-----------------------------------------------------------------------------
(* A pull: the creatures up and those down in the enemy slots.              *)

HasCreatures(e) == e.up + e.down > 0
Despawn(e) == [e EXCEPT !.up = 0, !.down = 0]

\* Alone, an unengaged pull walks over after a wait; a run's later waits are
\* shorter.
ArriveAt(e) == e.now + (IF e.cleared < Wait - 1 THEN Wait - e.cleared ELSE 1)

SpawnPull(e) ==
    {[e EXCEPT !.up = n, !.down = 0, !.pullKills = 0,
               !.engaged = FALSE, !.arrived = FALSE, !.arriveAt = IF SoloGauntlet THEN ArriveAt(e) ELSE @] : n \in 1 .. MaxPack}

Build(row, pick, soul, canResurrect) ==
    SpawnPull(With(NewTally(soul),
        [row |-> row, pick |-> pick, recorded |-> FALSE, up |-> 0, down |-> 0, slain |-> 0, pullKills |-> 0,
         newKills |-> 0, engaged |-> FALSE, pullCleared |-> FALSE, cleared |-> 0, quietSince |-> 0, nextPull |-> 0,
         arrived |-> FALSE, arriveAt |-> 0, arrivals |-> 0, wipes |-> 0, ownerDied |-> FALSE, awaiting |-> FALSE,
         owner |-> TRUE, ownerFell |-> FALSE, canResurrect |-> canResurrect]))

EndPull(e) == [e EXCEPT !.pullKills = 0, !.pullCleared = FALSE, !.quietSince = e.now, !.nextPull = e.now + Break]

-----------------------------------------------------------------------------
(* The rewards.                                                             *)

\* A mutant of BeforeRewards: the dead of the decisions before are new again.
BeforeRewardsAll(e) ==
    [e EXCEPT !.newKills = e.down, !.pullKills = e.down, !.pullCleared = HasCreatures(e) /\ e.up = 0]

\* What died since the last decision; a corpse that left the map is dead.
BeforeRewards(e) ==
    LET dead == IF e.down > e.pullKills THEN e.down - e.pullKills ELSE 0
    IN  [e EXCEPT !.newKills = dead, !.pullKills = @ + dead, !.pullCleared = HasCreatures(e) /\ e.up = 0]

\* The outcome of the episode as the seat's tally keeps it.  A clear wins a
\* single pack; the last pull of a gauntlet is won by lasting, if enough pulls
\* are cleared by then; beside an owner also if it never died and nobody wiped.
Lasting(e) == TimeIsUp(e) /\ ~e.killed /\ ~e.timedOut
Wins(e) ==
    CASE SinglePack -> e.pullCleared
      [] Sequence /\ ~Owner -> FALSE
      [] SoloGauntlet -> Lasting(e) /\ ~e.died /\ e.alive /\ e.cleared >= WinPulls
      [] OTHER -> Lasting(e) /\ ~e.ownerDied /\ e.wipes = 0 /\ e.cleared >= WinPulls
Outcome(e) ==
    [e EXCEPT !.killed = @ \/ Wins(e),
              !.timedOut = @ \/ (Lasting(e) /\ ~Wins(e) /\ (Owner \/ ~e.died) /\ (SoloGauntlet => e.alive))]

\* A single pack's outcome moves the ladder, once: a clear without a death.
RecordRung(e) ==
    IF ~SinglePack \/ ~e.pick.counts \/ e.recorded \/ ~(e.killed \/ e.died \/ e.timedOut) THEN e
    ELSE [e EXCEPT !.recorded = TRUE, !.row = Record(@, e.pick.tier, e.killed /\ ~e.died)]

\* A pull cleared in a gauntlet makes room for the next; a planned run is won
\* with its last one.
AfterRewards(e) ==
    IF ~e.pullCleared \/ ~Gauntlet THEN e
    ELSE LET ended == EndPull([Despawn(e) EXCEPT !.cleared = @ + 1])
         IN  IF Sequence /\ ended.cleared >= SequencePulls /\ e.alive /\ ~e.died
             THEN [ended EXCEPT !.killed = TRUE] ELSE ended

Engages(e) == [e EXCEPT !.engaged = @ \/ e.down > 0]

Reward(e) == AfterRewards(RecordRung(Outcome(CountDeath(Engages(BeforeRewards(e))))))

Pay(e, p) ==
    LET b == BeforeRewards(e)
        r == Reward(e)
    IN  [kills |-> p.kills + b.newKills, clears |-> p.clears + Bit(b.pullCleared),
         deaths |-> p.deaths + r.deaths - e.deaths, recorded |-> p.recorded + Bit(r.recorded /\ ~e.recorded)]

IsTerminal(e) ==
    \/ TimeIsUp(e)
    \/ /\ ~Owner
       /\ \/ DeadForGood(e)
          \/ Sequence /\ e.cleared >= SequencePulls
          \/ SinglePack /\ e.killed

-----------------------------------------------------------------------------
(* Update.                                                                  *)

\* Between pulls the dead wait for a resurrection they can get, and stand up
\* when the grace is over.  A wipe clears the pull away.
ClearsWipe(e) ==
    IF ~e.owner /\ ~e.alive /\ HasCreatures(e) THEN EndPull([Despawn(e) EXCEPT !.wipes = @ + 1]) ELSE e
StandsUp(e) ==
    LET waits(self) == e.now < e.quietSince + Grace /\ ((e.alive /\ e.canResurrect) \/ self)
    IN  IF HasCreatures(e) THEN [e EXCEPT !.awaiting = FALSE]
        ELSE [e EXCEPT !.awaiting = (~e.owner /\ waits(FALSE)) \/ (~e.alive /\ waits(e.soul)),
                       !.owner = @ \/ ~waits(FALSE), !.alive = @ \/ ~waits(e.soul),
                       !.counted = @ /\ waits(e.soul)]
Recover(e) == StandsUp(ClearsWipe(e))

BesideOwner(e) == IF Owner THEN Recover([e EXCEPT !.ownerDied = @ \/ ~e.owner]) ELSE e

\* Nobody engaged the pull in time: it walks over to the seat.
SendPull(e) ==
    IF SoloGauntlet /\ HasCreatures(e) /\ ~e.engaged /\ e.now >= e.arriveAt /\ e.alive /\ ~e.arrived
    THEN [e EXCEPT !.arrived = TRUE, !.arrivals = @ + 1] ELSE e

\* A mutant of NextPullDue: nobody asks who is still down.
NextPullSoon(e) == Gauntlet /\ ~HasCreatures(e) /\ e.now >= e.nextPull /\ e.alive

\* The next pull, once the break is over, if anyone is left to fight it.
NextPullDue(e) ==
    /\ Gauntlet /\ ~HasCreatures(e) /\ e.now >= e.nextPull
    /\ Sequence => e.cleared < SequencePulls
    /\ e.alive /\ (Owner => e.owner) /\ ~e.awaiting

Update(e) ==
    LET u == SendPull(BesideOwner(e)) IN IF NextPullDue(u) THEN SpawnPull(u) ELSE {u}

-----------------------------------------------------------------------------

\* What the world did since the last decision: creatures died or were engaged,
\* the seat or the owner fell or was resurrected.
Owners(e) == IF Owner THEN {e.owner, FALSE, e.owner \/ (e.alive /\ e.canResurrect)} ELSE {TRUE}
Later(l, n, fought, o) ==
    [l EXCEPT !.up = @ - n, !.down = @ + n, !.slain = @ + n, !.engaged = @ \/ (fought /\ HasCreatures(l)),
              !.owner = o, !.ownerFell = @ \/ (Owner /\ ~o)]
World(e) ==
    {Later(l, n, fought, o) :
        l \in Lives(e), n \in 0 .. e.up, fought \in BOOLEAN,
        o \in Owners(e)}

Decide ==
    /\ ~env.over
    /\ \E e \in World(env) :
          LET r == Reward(e)
          IN  /\ paid' = Pay(e, paid)
              /\ IF IsTerminal(r) THEN env' = [r EXCEPT !.over = TRUE] ELSE env' \in Update(r)

\* The next episode, which the row of the ladder outlives.
Picks(row) == IF SinglePack THEN TrainingPicks(row) ELSE {[tier |-> 0, counts |-> FALSE]}
Resurrecting == IF Owner THEN BOOLEAN ELSE {FALSE}
Begins(row) == UNION {Build(row, pick, soul, can) : pick \in Picks(row), soul \in BOOLEAN, can \in Resurrecting}

NextEpisode == env.over /\ env' \in Begins(env.row) /\ paid' = NothingPaid

Init == env \in Begins(NewRow) /\ paid = NothingPaid

Next == Decide \/ NextEpisode

Spec == Init /\ [][Next]_vars

-----------------------------------------------------------------------------

\* Every creature that died and every death of the seat was paid once, whatever
\* pull it died in and whether or not the pull was ever cleared; a single pack
\* was recorded once, unless its rung does not count.
PullsSettled ==
    env.over =>
        /\ paid.kills = env.slain /\ paid.deaths = env.deaths
        /\ Gauntlet => paid.clears = env.cleared
        /\ SinglePack => paid.recorded = Bit(env.pick.counts) /\ (env.killed \/ env.died \/ env.timedOut)

\* A pull of an owner's gauntlet finds the whole party standing, and finds the
\* dead of the last one paid for.
PullFindsAll ==
    Owner /\ ~HasCreatures(env) /\ HasCreatures(env') /\ env'.now > env.now => env'.owner /\ env'.alive

-----------------------------------------------------------------------------
(* What pays for a creature, a death and a clear once.  Between decisions   *)
(* every dead creature of a pull is one of its kills.                       *)

PullFields ==
    {"now", "over", "alive", "soul", "counted", "died", "deaths", "deathAt", "killed", "timedOut",
     "row", "pick", "recorded", "up", "down", "slain", "pullKills", "newKills", "engaged", "pullCleared", "cleared",
     "quietSince", "nextPull", "arrived", "arriveAt", "arrivals", "wipes", "ownerDied", "awaiting", "owner", "ownerFell",
     "canResurrect"}

\* A single pack is recorded with its outcome.
PackRecorded(e, p) ==
    SinglePack => /\ p.recorded = Bit(e.recorded)
                  /\ (e.recorded <=> e.pick.counts /\ (e.killed \/ e.died \/ e.timedOut))

\* A run that goes on, as the world may have moved it, and as it was paid for.
PullMoved(e, p) ==
    /\ DOMAIN e = PullFields /\ ~e.over /\ e.now \in Nat
    /\ e.up \in Nat /\ e.down \in Nat /\ e.pullKills \in Nat /\ e.pullKills <= e.down
    /\ e.slain \in Nat /\ e.deaths \in Nat /\ e.cleared \in Nat
    /\ p.kills = e.slain - (e.down - e.pullKills) /\ p.deaths = e.deaths
    /\ Gauntlet => p.clears = e.cleared
    /\ PackRecorded(e, p)
PullOpen(e, p) == PullMoved(e, p) /\ e.pullKills = e.down

\* What PullsSettled says of one that is over.
PullClosed(e, p) ==
    /\ e.now \in Nat
    /\ p.kills = e.slain /\ p.deaths = e.deaths
    /\ Gauntlet => p.clears = e.cleared
    /\ SinglePack => p.recorded = Bit(e.pick.counts) /\ (e.killed \/ e.died \/ e.timedOut)

LEMMA PullSpawned ==
    ASSUME NEW e, NEW p, PullOpen(e, p), NEW s \in SpawnPull(e)
    PROVE  PullOpen(s, p) /\ s.owner = e.owner /\ s.alive = e.alive /\ s.now = e.now
<1>1. PICK n \in 1 .. MaxPack : \E a : s = [e EXCEPT !.up = n, !.down = 0, !.pullKills = 0, !.engaged = FALSE, !.arrived = FALSE, !.arriveAt = a]
  BY DEF SpawnPull
<1>2. PICK a : s = [e EXCEPT !.up = n, !.down = 0, !.pullKills = 0, !.engaged = FALSE, !.arrived = FALSE, !.arriveAt = a]
  BY <1>1
<1>3. n \in Nat
  OBVIOUS
<1>4. /\ DOMAIN s = PullFields /\ s.up = n /\ s.down = 0 /\ s.pullKills = 0 /\ s.over = e.over /\ s.slain = e.slain
      /\ s.deaths = e.deaths /\ s.cleared = e.cleared /\ s.recorded = e.recorded /\ s.pick = e.pick /\ s.killed = e.killed
      /\ s.died = e.died /\ s.timedOut = e.timedOut /\ s.now = e.now /\ s.owner = e.owner /\ s.alive = e.alive
  BY <1>2 DEF PullOpen, PullMoved, PullFields
<1>5. PackRecorded(s, p)
  BY <1>4 DEF PullOpen, PullMoved, PackRecorded
<1> QED
  BY <1>3, <1>4, <1>5 DEF PullOpen, PullMoved

LEMMA PullBuilt == \A row, pick, soul, can : \A e \in Build(row, pick, soul, can) : PullOpen(e, NothingPaid) /\ e.now = 0
<1> SUFFICES ASSUME NEW row, NEW pick, NEW soul, NEW can, NEW e \in Build(row, pick, soul, can) PROVE PullOpen(e, NothingPaid) /\ e.now = 0
  OBVIOUS
<1>1. PICK t : t = NewTally(soul)
  OBVIOUS
<1>2. PICK o : o = [row |-> row, pick |-> pick, recorded |-> FALSE, up |-> 0, down |-> 0, slain |-> 0, pullKills |-> 0,
         newKills |-> 0, engaged |-> FALSE, pullCleared |-> FALSE, cleared |-> 0, quietSince |-> 0, nextPull |-> 0,
         arrived |-> FALSE, arriveAt |-> 0, arrivals |-> 0, wipes |-> 0, ownerDied |-> FALSE, awaiting |-> FALSE,
         owner |-> TRUE, ownerFell |-> FALSE, canResurrect |-> can]
  OBVIOUS
<1>3. PICK b : b = With(t, o)
  OBVIOUS
<1>4. /\ DOMAIN t = {"now", "over", "alive", "soul", "counted", "died", "deaths", "deathAt", "killed", "timedOut"}
      /\ t.now = 0 /\ t.over = FALSE /\ t.died = FALSE /\ t.deaths = 0 /\ t.killed = FALSE /\ t.timedOut = FALSE
  BY <1>1 DEF NewTally
<1>5. /\ DOMAIN o = {"row", "pick", "recorded", "up", "down", "slain", "pullKills", "newKills", "engaged", "pullCleared", "cleared",
                     "quietSince", "nextPull", "arrived", "arriveAt", "arrivals", "wipes", "ownerDied", "awaiting", "owner", "ownerFell",
                     "canResurrect"}
      /\ o.recorded = FALSE /\ o.up = 0 /\ o.down = 0 /\ o.slain = 0 /\ o.pullKills = 0 /\ o.cleared = 0
  BY <1>2
<1>6. DOMAIN b = PullFields
  BY <1>3, <1>4, <1>5 DEF PullFields, With
<1>7. b.now = 0 /\ b.over = FALSE /\ b.died = FALSE /\ b.deaths = 0 /\ b.killed = FALSE /\ b.timedOut = FALSE
  BY <1>3, <1>4, <1>5 DEF With
<1>8. b.recorded = FALSE /\ b.up = 0 /\ b.down = 0 /\ b.slain = 0 /\ b.pullKills = 0 /\ b.cleared = 0
  BY <1>3, <1>4, <1>5 DEF With
<1>9. PICK p : p = NothingPaid
  OBVIOUS
<1>10. p.kills = 0 /\ p.clears = 0 /\ p.deaths = 0 /\ p.recorded = 0
  BY <1>9 DEF NothingPaid
<1>11. PackRecorded(b, p)
  BY <1>7, <1>8, <1>10 DEF PackRecorded, Bit
<1>12. PullOpen(b, p) /\ b.now = 0
  BY <1>6, <1>7, <1>8, <1>10, <1>11 DEF PullOpen, PullMoved
<1> QED
  BY <1>1, <1>2, <1>3, <1>9, <1>12, PullSpawned DEF Build

LEMMA PullWorld ==
    ASSUME NEW e, NEW p, PullOpen(e, p), NEW w \in World(e)
    PROVE  PullMoved(w, p) /\ (~HasCreatures(e) => ~HasCreatures(w))
<1>1. PICK l \in Lives(e), n \in 0 .. e.up, fought \in BOOLEAN, o \in Owners(e) : w = Later(l, n, fought, o)
  BY DEF World
<1>2. /\ PullOpen(l, p) /\ l.now = e.now + 1 /\ l.up = e.up /\ l.down = e.down
  <2>1. /\ DOMAIN l = PullFields /\ l.now = e.now + 1 /\ l.up = e.up /\ l.down = e.down /\ l.pullKills = e.pullKills /\ l.over = e.over /\ l.slain = e.slain
        /\ l.deaths = e.deaths /\ l.cleared = e.cleared /\ l.recorded = e.recorded /\ l.pick = e.pick /\ l.killed = e.killed
        /\ l.died = e.died /\ l.timedOut = e.timedOut
    <3>1. \/ l = [e EXCEPT !.now = e.now + 1]
          \/ l = [e EXCEPT !.now = e.now + 1, !.alive = FALSE]
          \/ l = [e EXCEPT !.now = e.now + 1, !.alive = TRUE, !.soul = FALSE]
      BY DEF Lives
    <3>2. CASE l = [e EXCEPT !.now = e.now + 1]
      BY <3>2 DEF PullOpen, PullMoved, PullFields
    <3>3. CASE l = [e EXCEPT !.now = e.now + 1, !.alive = FALSE]
      BY <3>3 DEF PullOpen, PullMoved, PullFields
    <3>4. CASE l = [e EXCEPT !.now = e.now + 1, !.alive = TRUE, !.soul = FALSE]
      BY <3>4 DEF PullOpen, PullMoved, PullFields
    <3> QED
      BY <3>1, <3>2, <3>3, <3>4
  <2>2. PackRecorded(l, p)
    BY <2>1 DEF PullOpen, PullMoved, PackRecorded
  <2> QED
    BY <2>1, <2>2 DEF PullOpen, PullMoved
<1>3. n \in Nat /\ n <= l.up /\ l.up \in Nat /\ l.down \in Nat
  BY <1>2 DEF PullOpen, PullMoved
<1>4. /\ DOMAIN w = PullFields /\ w.up = l.up - n /\ w.down = l.down + n /\ w.slain = l.slain + n /\ w.pullKills = l.pullKills
      /\ w.over = l.over /\ w.now = l.now /\ w.deaths = l.deaths /\ w.cleared = l.cleared /\ w.recorded = l.recorded /\ w.pick = l.pick
      /\ w.killed = l.killed /\ w.died = l.died /\ w.timedOut = l.timedOut
  BY <1>1, <1>2 DEF Later, PullOpen, PullMoved, PullFields
<1>5. PackRecorded(w, p)
  BY <1>2, <1>4 DEF PullOpen, PullMoved, PackRecorded
<1>6. PullMoved(w, p)
  BY <1>2, <1>3, <1>4, <1>5 DEF PullOpen, PullMoved
<1> QED
  BY <1>2, <1>3, <1>4, <1>6 DEF HasCreatures

LEMMA PullRewarded ==
    ASSUME NEW e, NEW p, PullMoved(e, p), NEW r, r = Reward(e), NEW q, q = Pay(e, p)
    PROVE  /\ IF IsTerminal(r) THEN PullClosed([r EXCEPT !.over = TRUE], q) ELSE PullOpen(r, q)
           /\ DOMAIN r = PullFields /\ (~HasCreatures(e) => ~HasCreatures(r))
<1>1. PICK b : b = BeforeRewards(e)
  OBVIOUS
<1>2. PICK g : g = Engages(b)
  OBVIOUS
<1>3. PICK c : c = CountDeath(g)
  OBVIOUS
<1>4. PICK o : o = Outcome(c)
  OBVIOUS
<1>5. PICK k : k = RecordRung(o)
  OBVIOUS
<1>6. r = AfterRewards(k)
  BY <1>1, <1>2, <1>3, <1>4, <1>5 DEF Reward
<1>7. PICK clears \in BOOLEAN : clears <=> HasCreatures(e) /\ e.up = 0
  OBVIOUS
<1>8. /\ DOMAIN b = PullFields /\ b.now = e.now /\ b.over = e.over /\ b.up = e.up /\ b.down = e.down /\ b.slain = e.slain
      /\ b.cleared = e.cleared /\ b.deaths = e.deaths /\ b.died = e.died /\ b.killed = e.killed /\ b.timedOut = e.timedOut
      /\ b.recorded = e.recorded /\ b.pick = e.pick /\ b.alive = e.alive /\ b.counted = e.counted
      /\ b.newKills = e.down - e.pullKills /\ b.pullKills = e.down /\ b.pullCleared = clears
  <2>1. PICK d : d = IF e.down > e.pullKills THEN e.down - e.pullKills ELSE 0
    OBVIOUS
  <2>2. b = [e EXCEPT !.newKills = d, !.pullKills = e.pullKills + d, !.pullCleared = clears]
    BY <1>1, <1>7, <2>1 DEF BeforeRewards, HasCreatures
  <2>3. d = e.down - e.pullKills /\ e.pullKills + d = e.down
    BY <2>1 DEF PullMoved
  <2> QED
    BY <2>2, <2>3 DEF PullMoved, PullFields
<1>9. /\ DOMAIN g = PullFields /\ g.now = e.now /\ g.over = e.over /\ g.up = e.up /\ g.down = e.down /\ g.slain = e.slain
      /\ g.cleared = e.cleared /\ g.deaths = e.deaths /\ g.died = e.died /\ g.killed = e.killed /\ g.timedOut = e.timedOut
      /\ g.recorded = e.recorded /\ g.pick = e.pick /\ g.alive = e.alive /\ g.counted = e.counted
      /\ g.pullKills = e.down /\ g.pullCleared = clears
  BY <1>2, <1>8 DEF Engages, PullFields
<1>10. /\ DOMAIN c = PullFields /\ c.now = e.now /\ c.over = e.over /\ c.up = e.up /\ c.down = e.down /\ c.slain = e.slain
       /\ c.cleared = e.cleared /\ (e.died => c.died) /\ c.killed = e.killed /\ c.timedOut = e.timedOut
       /\ c.recorded = e.recorded /\ c.pick = e.pick /\ c.pullKills = e.down /\ c.pullCleared = clears /\ c.deaths \in Nat
  <2>1. e.deaths \in Nat
    BY DEF PullMoved
  <2>2. CASE g.alive
    BY <1>3, <1>9, <2>1, <2>2 DEF CountDeath, PullFields
  <2>3. CASE ~g.alive /\ g.counted
    BY <1>3, <1>9, <2>1, <2>3 DEF CountDeath, PullFields
  <2>4. CASE ~g.alive /\ ~g.counted
    BY <1>3, <1>9, <2>1, <2>4 DEF CountDeath, PullFields
  <2> QED
    BY <2>2, <2>3, <2>4
<1>11. PICK won, lost : /\ o = [c EXCEPT !.killed = c.killed \/ won, !.timedOut = c.timedOut \/ lost]
                         /\ lost = (Lasting(c) /\ ~won /\ (Owner \/ ~c.died) /\ (SoloGauntlet => c.alive))
  BY <1>4 DEF Outcome
<1>12. /\ DOMAIN o = PullFields /\ o.now = e.now /\ o.over = e.over /\ o.up = e.up /\ o.down = e.down /\ o.slain = e.slain
       /\ o.cleared = e.cleared /\ o.died = c.died /\ (e.killed => o.killed) /\ (e.timedOut => o.timedOut)
       /\ o.recorded = e.recorded /\ o.pick = e.pick /\ o.pullKills = e.down /\ o.pullCleared = clears /\ o.deaths = c.deaths
  BY <1>10, <1>11 DEF PullFields
<1>13. SinglePack /\ TimeIsUp(e) => o.killed \/ o.died \/ o.timedOut
  <2> SUFFICES ASSUME SinglePack, TimeIsUp(e), ~o.killed, ~o.died PROVE o.timedOut
    OBVIOUS
  <2>1. (o.killed <=> c.killed \/ won) /\ (o.timedOut <=> c.timedOut \/ lost)
    BY <1>10, <1>11 DEF PullFields
  <2>2. ~c.killed /\ ~won /\ ~c.died /\ TimeIsUp(c) /\ ~SoloGauntlet
    BY <1>10, <1>12, <2>1 DEF TimeIsUp, SinglePack, SoloGauntlet, Gauntlet
  <2> QED
    BY <1>11, <2>1, <2>2 DEF Lasting
<1>14. /\ DOMAIN k = PullFields /\ k.now = e.now /\ k.over = e.over /\ k.up = e.up /\ k.down = e.down /\ k.slain = e.slain
       /\ k.cleared = e.cleared /\ k.died = o.died /\ k.killed = o.killed /\ k.timedOut = o.timedOut
       /\ k.pick = e.pick /\ k.pullKills = e.down /\ k.pullCleared = clears /\ k.deaths = c.deaths
       /\ k.recorded = (IF ~SinglePack \/ ~o.pick.counts \/ o.recorded \/ ~(o.killed \/ o.died \/ o.timedOut) THEN o.recorded ELSE TRUE)
  <2>1. CASE ~SinglePack \/ ~o.pick.counts \/ o.recorded \/ ~(o.killed \/ o.died \/ o.timedOut)
    BY <1>5, <1>12, <2>1 DEF RecordRung
  <2>2. CASE ~(~SinglePack \/ ~o.pick.counts \/ o.recorded \/ ~(o.killed \/ o.died \/ o.timedOut))
    BY <1>5, <1>12, <2>2 DEF RecordRung, PullFields
  <2> QED
    BY <2>1, <2>2
<1>15. SinglePack => (k.recorded <=> k.pick.counts /\ (k.killed \/ k.died \/ k.timedOut)) /\ (e.recorded => k.recorded)
  BY <1>10, <1>12, <1>14 DEF PullMoved, PackRecorded
<1>16. /\ DOMAIN r = PullFields /\ r.now = e.now /\ r.over = e.over /\ r.slain = e.slain /\ r.deaths = c.deaths
       /\ r.pick = k.pick /\ r.recorded = k.recorded /\ r.died = k.died
       /\ (SinglePack => r.killed = k.killed /\ r.timedOut = k.timedOut)
       /\ r.cleared = (IF clears /\ Gauntlet THEN e.cleared + 1 ELSE e.cleared)
       /\ (IF clears /\ Gauntlet THEN r.up = 0 /\ r.down = 0 /\ r.pullKills = 0 ELSE r.up = e.up /\ r.down = e.down /\ r.pullKills = e.down)
  <2>1. CASE ~clears \/ ~Gauntlet
    BY <1>6, <1>14, <2>1 DEF AfterRewards
  <2>2. CASE clears /\ Gauntlet
    <3>1. ~SinglePack
      BY <2>2 DEF SinglePack, Gauntlet
    <3>2. PICK d : d = [Despawn(k) EXCEPT !.cleared = Despawn(k).cleared + 1]
      OBVIOUS
    <3>3. d = [k EXCEPT !.up = 0, !.down = 0, !.cleared = k.cleared + 1]
      BY <3>2, <1>14 DEF Despawn, PullFields
    <3>4. PICK x : x = EndPull(d)
      OBVIOUS
    <3>5. /\ DOMAIN d = PullFields /\ d.now = e.now /\ d.over = e.over /\ d.slain = e.slain /\ d.deaths = c.deaths
          /\ d.pick = k.pick /\ d.recorded = k.recorded /\ d.died = k.died /\ d.cleared = e.cleared + 1 /\ d.up = 0 /\ d.down = 0
      BY <3>3, <1>14 DEF PullFields
    <3>6. /\ DOMAIN x = PullFields /\ x.now = e.now /\ x.over = e.over /\ x.slain = e.slain /\ x.deaths = c.deaths
          /\ x.pick = k.pick /\ x.recorded = k.recorded /\ x.died = k.died /\ x.cleared = e.cleared + 1 /\ x.up = 0 /\ x.down = 0
          /\ x.pullKills = 0
      BY <3>4, <3>5 DEF EndPull, PullFields
    <3>7. r = x \/ r = [x EXCEPT !.killed = TRUE]
      BY <1>6, <1>14, <2>2, <3>2, <3>4 DEF AfterRewards
    <3>8. CASE r = x
      BY <2>2, <3>1, <3>6, <3>8
    <3>9. CASE r = [x EXCEPT !.killed = TRUE]
      BY <2>2, <3>1, <3>6, <3>9 DEF PullFields
    <3> QED
      BY <3>7, <3>8, <3>9
  <2> QED
    BY <2>1, <2>2
<1>17. /\ q.kills = p.kills + (e.down - e.pullKills) /\ q.clears = p.clears + (IF clears THEN 1 ELSE 0)
       /\ q.deaths = p.deaths + r.deaths - e.deaths
       /\ q.recorded = p.recorded + (IF r.recorded /\ ~e.recorded THEN 1 ELSE 0)
  BY <1>1, <1>8 DEF Pay, Bit
<1>18. q.kills = e.slain /\ q.deaths = r.deaths /\ r.deaths \in Nat
  BY <1>10, <1>16, <1>17 DEF PullMoved
<1>19. Gauntlet => q.clears = r.cleared
  BY <1>16, <1>17 DEF PullMoved
<1>20. SinglePack => q.recorded = Bit(r.recorded) /\ (r.recorded <=> r.pick.counts /\ (r.killed \/ r.died \/ r.timedOut))
  <2> SUFFICES ASSUME SinglePack PROVE q.recorded = Bit(r.recorded) /\ (r.recorded <=> r.pick.counts /\ (r.killed \/ r.died \/ r.timedOut))
    OBVIOUS
  <2>1. r.recorded <=> r.pick.counts /\ (r.killed \/ r.died \/ r.timedOut)
    BY <1>15, <1>16
  <2>2. e.recorded => r.recorded
    BY <1>15, <1>16
  <2>3. p.recorded = IF e.recorded THEN 1 ELSE 0
    BY DEF PullMoved, PackRecorded, Bit
  <2> QED
    BY <1>17, <2>1, <2>2, <2>3 DEF Bit
<1>21. ~HasCreatures(e) => ~HasCreatures(r)
  BY <1>16 DEF HasCreatures, PullMoved
<1>22. CASE IsTerminal(r)
  <2>1. PICK x : x = [r EXCEPT !.over = TRUE]
    OBVIOUS
  <2>2. /\ x.now = r.now /\ r.now \in Nat /\ x.slain = r.slain /\ x.deaths = r.deaths /\ x.cleared = r.cleared /\ x.pick = r.pick /\ x.killed = r.killed
        /\ x.died = r.died /\ x.timedOut = r.timedOut
    BY <1>16, <2>1 DEF PullFields, PullMoved
  <2>3. SinglePack => r.killed \/ r.died \/ r.timedOut
    <3> SUFFICES ASSUME SinglePack PROVE r.killed \/ r.died \/ r.timedOut
      OBVIOUS
    <3>1. TimeIsUp(e) \/ r.died \/ r.killed
      BY <1>16, <1>22 DEF IsTerminal, DeadForGood, TimeIsUp, SinglePack, Sequence
    <3> QED
      BY <1>13, <1>14, <1>16, <3>1
  <2>4. SinglePack => q.recorded = Bit(r.pick.counts)
    BY <1>20, <2>3 DEF Bit
  <2>5. PullClosed(x, q)
    BY <1>16, <1>18, <1>19, <2>2, <2>3, <2>4 DEF PullClosed
  <2> QED
    BY <1>16, <1>21, <1>22, <2>1, <2>5
<1>23. CASE ~IsTerminal(r)
  <2>1. PackRecorded(r, q)
    BY <1>20 DEF PackRecorded
  <2>2. r.now \in Nat /\ r.up \in Nat /\ r.down \in Nat /\ r.pullKills = r.down /\ r.cleared \in Nat /\ r.slain \in Nat /\ ~r.over
    BY <1>16 DEF PullMoved
  <2>3. q.kills = r.slain - (r.down - r.pullKills)
    BY <1>16, <1>18, <2>2
  <2>4. PullOpen(r, q)
    BY <1>16, <1>18, <1>19, <2>1, <2>2, <2>3 DEF PullOpen, PullMoved
  <2> QED
    BY <1>16, <1>21, <1>23, <2>4
<1> QED
  BY <1>22, <1>23

LEMMA PullRecovered ==
    ASSUME NEW e, NEW p, PullOpen(e, p), NEW u, u = SendPull(BesideOwner(e))
    PROVE  PullOpen(u, p) /\ (~HasCreatures(e) => ~HasCreatures(u))
<1>1. PICK b : b = BesideOwner(e)
  OBVIOUS
<1>2. PullOpen(b, p) /\ (~HasCreatures(e) => ~HasCreatures(b))
  <2>1. CASE ~Owner
    BY <1>1, <2>1 DEF BesideOwner
  <2>2. CASE Owner
    <3>1. PICK o : o = [e EXCEPT !.ownerDied = e.ownerDied \/ ~e.owner]
      OBVIOUS
    <3>2. b = Recover(o) /\ ~SinglePack
      BY <1>1, <2>2, <3>1 DEF BesideOwner, SinglePack
    <3>3. /\ DOMAIN o = PullFields /\ ~o.over /\ o.now = e.now /\ o.up = e.up /\ o.down = e.down /\ o.pullKills = e.pullKills /\ o.slain = e.slain
          /\ o.deaths = e.deaths /\ o.cleared = e.cleared
      BY <3>1 DEF PullOpen, PullMoved, PullFields
    <3>4. PICK wiped \in BOOLEAN : wiped <=> ~o.owner /\ ~o.alive /\ HasCreatures(o)
      OBVIOUS
    <3>5. PICK r : r = ClearsWipe(o)
      OBVIOUS
    <3>6. /\ DOMAIN r = PullFields /\ ~r.over /\ r.now = e.now /\ r.slain = e.slain /\ r.deaths = e.deaths /\ r.cleared = e.cleared
          /\ \/ r.up = e.up /\ r.down = e.down /\ r.pullKills = e.pullKills
             \/ r.up = 0 /\ r.down = 0 /\ r.pullKills = 0
      <4>1. CASE ~wiped
        BY <3>3, <3>4, <3>5, <4>1 DEF ClearsWipe
      <4>2. CASE wiped
        <5>1. PICK d : d = [Despawn(o) EXCEPT !.wipes = Despawn(o).wipes + 1]
          OBVIOUS
        <5>2. d = [o EXCEPT !.up = 0, !.down = 0, !.wipes = o.wipes + 1]
          BY <5>1, <3>3 DEF Despawn, PullFields
        <5>3. /\ DOMAIN d = PullFields /\ ~d.over /\ d.now = e.now /\ d.slain = e.slain /\ d.deaths = e.deaths /\ d.cleared = e.cleared
              /\ d.up = 0 /\ d.down = 0
          BY <5>2, <3>3 DEF PullFields
        <5>4. r = [d EXCEPT !.pullKills = 0, !.pullCleared = FALSE, !.quietSince = d.now, !.nextPull = d.now + Break]
          BY <3>4, <3>5, <4>2, <5>1 DEF ClearsWipe, EndPull
        <5> QED
          BY <5>3, <5>4 DEF PullFields
      <4> QED
        BY <4>1, <4>2
    <3>7. \/ b = [r EXCEPT !.awaiting = FALSE]
          \/ \E a, w, v, c : b = [r EXCEPT !.awaiting = a, !.owner = w, !.alive = v, !.counted = c]
      BY <3>2, <3>5 DEF Recover, StandsUp
    <3>8. /\ DOMAIN b = PullFields /\ ~b.over /\ b.now = r.now /\ b.slain = r.slain /\ b.deaths = r.deaths /\ b.cleared = r.cleared
          /\ b.up = r.up /\ b.down = r.down /\ b.pullKills = r.pullKills
      BY <3>6, <3>7 DEF PullFields
    <3>9. PackRecorded(b, p)
      BY <3>2 DEF PackRecorded
    <3>10. PullOpen(b, p)
      BY <3>6, <3>8, <3>9 DEF PullOpen, PullMoved
    <3> QED
      BY <3>6, <3>8, <3>10 DEF HasCreatures, PullOpen, PullMoved
  <2> QED
    BY <2>1, <2>2
<1>3. u = b \/ u = [b EXCEPT !.arrived = TRUE, !.arrivals = b.arrivals + 1]
  BY <1>1 DEF SendPull
<1>4. CASE u = [b EXCEPT !.arrived = TRUE, !.arrivals = b.arrivals + 1]
  <2>1. /\ DOMAIN u = PullFields /\ ~u.over /\ u.now = b.now /\ u.up = b.up /\ u.down = b.down /\ u.pullKills = b.pullKills /\ u.slain = b.slain
        /\ u.deaths = b.deaths /\ u.cleared = b.cleared /\ u.recorded = b.recorded /\ u.pick = b.pick /\ u.killed = b.killed
        /\ u.died = b.died /\ u.timedOut = b.timedOut
    BY <1>2, <1>4 DEF PullOpen, PullMoved, PullFields
  <2>2. PackRecorded(u, p)
    BY <1>2, <2>1 DEF PullOpen, PullMoved, PackRecorded
  <2> QED
    BY <1>2, <2>1, <2>2 DEF PullOpen, PullMoved, HasCreatures
<1> QED
  BY <1>2, <1>3, <1>4

\* The invariant of a run of pulls, that its steps keep it, and what they never do.
PullsInv == (~env.over => PullOpen(env, paid)) /\ (env.over => PullClosed(env, paid))

LEMMA PullsBegin == \A row : \A e \in Begins(row) : PullOpen(e, NothingPaid) /\ e.now = 0
<1> SUFFICES ASSUME NEW row, NEW e \in Begins(row) PROVE PullOpen(e, NothingPaid) /\ e.now = 0
  OBVIOUS
<1>1. PICK pick \in Picks(row), soul \in BOOLEAN, can \in Resurrecting : e \in Build(row, pick, soul, can)
  BY DEF Begins
<1> QED
  BY <1>1, PullBuilt

LEMMA PullsStart == Init => PullsInv
BY PullsBegin DEF Init, PullsInv, PullOpen, PullMoved

LEMMA PullsKeep == PullsInv /\ Next => PullsInv' /\ PullFindsAll
<1>1. ASSUME PullsInv, Decide PROVE PullsInv' /\ PullFindsAll
  <2>1. PICK w \in World(env) :
           LET r == Reward(w)
           IN  /\ paid' = Pay(w, paid)
               /\ IF IsTerminal(r) THEN env' = [r EXCEPT !.over = TRUE] ELSE env' \in Update(r)
    BY <1>1 DEF Decide
  <2>2. PullMoved(w, paid) /\ (~HasCreatures(env) => ~HasCreatures(w))
    BY <1>1, <2>1, PullWorld DEF PullsInv, Decide
  <2>3. PICK r : r = Reward(w)
    OBVIOUS
  <2>4. /\ IF IsTerminal(r) THEN PullClosed([r EXCEPT !.over = TRUE], paid') ELSE PullOpen(r, paid')
        /\ DOMAIN r = PullFields /\ (~HasCreatures(env) => ~HasCreatures(r))
    BY <2>1, <2>2, <2>3, PullRewarded
  <2>5. CASE IsTerminal(r)
    <3>1. env' = [r EXCEPT !.over = TRUE]
      BY <2>1, <2>3, <2>5
    <3>2. env'.over /\ env'.up = r.up /\ env'.down = r.down
      BY <2>4, <3>1 DEF PullFields
    <3>3. PullsInv'
      BY <2>4, <2>5, <3>1, <3>2 DEF PullsInv
    <3>4. PullFindsAll
      BY <2>4, <3>2 DEF PullFindsAll, HasCreatures
    <3> QED
      BY <3>3, <3>4
  <2>6. CASE ~IsTerminal(r)
    <3>1. PICK u : u = SendPull(BesideOwner(r))
      OBVIOUS
    <3>2. PullOpen(u, paid') /\ (~HasCreatures(env) => ~HasCreatures(u))
      BY <2>4, <2>6, <3>1, PullRecovered
    <3>3. env' \in IF NextPullDue(u) THEN SpawnPull(u) ELSE {u}
      BY <2>1, <2>3, <2>6, <3>1 DEF Update
    <3>4. CASE NextPullDue(u)
      <4>1. PullOpen(env', paid') /\ env'.owner = u.owner /\ env'.alive = u.alive
        BY <3>2, <3>3, <3>4, PullSpawned
      <4>2. PullsInv'
        BY <4>1 DEF PullsInv, PullOpen, PullMoved
      <4>3. PullFindsAll
        BY <3>4, <4>1 DEF PullFindsAll, NextPullDue
      <4> QED
        BY <4>2, <4>3
    <3>5. CASE ~NextPullDue(u)
      <4>1. env' = u
        BY <3>3, <3>5
      <4>2. PullsInv'
        BY <3>2, <4>1 DEF PullsInv, PullOpen, PullMoved
      <4>3. PullFindsAll
        BY <3>2, <4>1 DEF PullFindsAll, HasCreatures
      <4> QED
        BY <4>2, <4>3
    <3> QED
      BY <3>4, <3>5
  <2> QED
    BY <2>5, <2>6
<1>2. ASSUME PullsInv, NextEpisode PROVE PullsInv' /\ PullFindsAll
  <2>1. PullOpen(env', paid') /\ env'.now = 0
    BY <1>2, PullsBegin DEF NextEpisode
  <2>2. env.now \in Nat
    BY <1>2 DEF PullsInv, PullClosed, NextEpisode
  <2>3. PullFindsAll
    BY <2>1, <2>2 DEF PullFindsAll
  <2> QED
    BY <2>1, <2>3 DEF PullsInv, PullOpen, PullMoved
<1> QED
  BY <1>1, <1>2 DEF Next

LEMMA PullsHold == PullsInv => PullsSettled
BY DEF PullsInv, PullClosed, PullsSettled
=============================================================================
