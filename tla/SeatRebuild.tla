---------------------------- MODULE SeatRebuild ----------------------------
(***************************************************************************)
(* The characters of one env, rebuilt for every episode                    *)
(* (StageScenario::Rebuild in src/src/Scenario/Curriculum, with the owner  *)
(* of OwnerEncounter), each in the slot of its bot, and the account ids of *)
(* all bots (BotSlot.cpp and BotAccounts.h in src/src/Bot).                *)
(*                                                                         *)
(* The new bots go into the map before the old ones leave; any of them may *)
(* fail to be created or placed, and any encounter to be built.            *)
(***************************************************************************)
EXTENDS Integers, FiniteSets, FiniteSetTheorems, TLAPS

CONSTANTS NoBot, MaxSeats, Pairs, Tanks, Healers, \* the (class, build) pairs, those that hold a pull, those that heal
          MinLevelOf(_), MaxLevel, Bands,  \* the level a class starts at; DEFAULT_MAX_LEVEL; LEVEL_BANDS
          Arenas, ReuseEpisodes, SpawnAttempts

VARIABLE env

vars == <<env>>

Seats == 0 .. MaxSeats - 1
CastOwner == MaxSeats     \* the owner's own agent row
Script == MaxSeats + 1    \* OwnerEncounter's scripted owner
Larger(a, b) == IF a > b THEN a ELSE b

-----------------------------------------------------------------------------
(* One bot that is rebuilt every episode, and the account ids.              *)

Sessions == 0 .. 1

NoSlot == [bots |-> [s \in Sessions |-> NoBot], active |-> 0, previous |-> FALSE, created |-> FALSE]

Active(slot) == slot.bots[slot.active]

Begin(slot) == [slot EXCEPT !.previous = Active(slot) # NoBot, !.created = FALSE]

NextSession(slot) == IF slot.previous THEN 1 - slot.active ELSE slot.active

\* Placed; a bot that cannot be created or placed leaves the slot as it was.
CreateNext(slot, bot) == [slot EXCEPT !.bots[NextSession(slot)] = bot, !.created = TRUE]

Promote(slot) ==
    [slot EXCEPT !.bots[slot.active] = IF slot.previous THEN NoBot ELSE @,
                 !.active = IF slot.created THEN NextSession(slot) ELSE @,
                 !.previous = FALSE, !.created = FALSE]

Abort(slot) ==
    [slot EXCEPT !.bots[NextSession(slot)] = IF slot.created THEN NoBot ELSE @,
                 !.previous = FALSE, !.created = FALSE]

Destroy(slot) == [slot EXCEPT !.bots[slot.active] = NoBot, !.previous = FALSE, !.created = FALSE]

-----------------------------------------------------------------------------
(* What a slot goes through from one rebuild to the next.                   *)

WholeSlot(slot) ==
    /\ slot = [bots |-> slot.bots, active |-> slot.active, previous |-> slot.previous, created |-> slot.created]
    /\ slot.bots = [s \in Sessions |-> slot.bots[s]] /\ slot.active \in Sessions
    /\ slot.previous \in BOOLEAN /\ slot.created \in BOOLEAN
Has(slot, active, other) == slot.bots[slot.active] = active /\ slot.bots[1 - slot.active] = other

\* Between two rebuilds; begun; and with the next bot made, beside the one before
\* it if there is one.
Rests(slot, bot) == WholeSlot(slot) /\ Has(slot, bot, NoBot) /\ ~slot.previous /\ ~slot.created
Begun(slot, bot) == WholeSlot(slot) /\ Has(slot, bot, NoBot) /\ (slot.previous <=> bot # NoBot) /\ ~slot.created
Made(slot, bot, next) ==
    /\ WholeSlot(slot) /\ slot.created /\ (slot.previous <=> bot # NoBot)
    /\ IF slot.previous THEN Has(slot, bot, next) ELSE Has(slot, next, NoBot)

-----------------------------------------------------------------------------
(* BotAccounts: a range of account ids per kind of bot.                     *)

SessionsPerBot == 2
SeatsPerEnv == 40
AmbushersPerEnv == 2
OwnerOffset == 100000
OpponentOffset == 300000
AmbusherOffset == 500000
MaxEnvs == OwnerOffset \div (SeatsPerEnv * SessionsPerBot)

\* Relative to BASE.
SeatAccount(e, seat, session) == e * SeatsPerEnv * SessionsPerBot + seat * SessionsPerBot + session
OwnerAccount(e, session) == OwnerOffset + e * SessionsPerBot + session
OpponentAccount(e, session) == OpponentOffset + e * SessionsPerBot + session
AmbusherAccount(e, ambusher, session) ==
    AmbusherOffset + e * AmbushersPerEnv * SessionsPerBot + ambusher * SessionsPerBot + session
ProbeAccount(race) == -1 - race

Envs == 0 .. MaxEnvs - 1
SeatIndexes == 0 .. SeatsPerEnv - 1
Ambushers == 0 .. AmbushersPerEnv - 1

-----------------------------------------------------------------------------
(* What is drawn.                                                           *)

\* ClassicDemands and RollDemand; a party's makeup is shuffled.
Demands == {"anything", "tank", "healer"}
ClassicDemand(seat) == IF seat = 0 THEN "tank" ELSE IF seat = 1 THEN "healer" ELSE "anything"
Makeups(n) ==
    {d \in [0 .. n - 1 -> Demands] :
        \A demand \in Demands : Cardinality({s \in 0 .. n - 1 : d[s] = demand}) =
                                Cardinality({s \in 0 .. n - 1 : ClassicDemand(s) = demand})}
    \union [0 .. n - 1 -> Demands]
Wanted(arena, makeup, seat) == IF seat \in DOMAIN arena.drill THEN arena.drill[seat] ELSE makeup[seat]

\* Castings: who can do it, or everybody if nobody can.
Meeting(demand) == CASE demand = "tank" -> Tanks [] demand = "healer" -> Healers [] OTHER -> {}
Castings(demand) == IF Meeting(demand) = {} THEN Pairs ELSE Meeting(demand)
Seatings(arena, n) ==
    {p \in [Seats -> Pairs \union {NoBot}] :
        \E makeup \in (IF arena.party THEN Makeups(n) ELSE {[s \in 0 .. n - 1 |-> "anything"]}) :
            \A s \in Seats : IF s < n THEN p[s] \in Castings(Wanted(arena, makeup, s)) ELSE p[s] = NoBot}

\* The least level that every class drawn can be.
LowestLevels(pairs, n) ==
    {m \in 1 .. MaxLevel :
        /\ \A s \in 0 .. n - 1 : MinLevelOf(pairs[s]) <= m
        /\ m = 1 \/ \E s \in 0 .. n - 1 : MinLevelOf(pairs[s]) = m}

\* RandomLevel; and the level of an episode whose arena, or whose kept
\* characters, have none.
Drawn(min, seed) ==
    LET width == MaxLevel \div Bands
        band == seed % Bands
        last == (band + 1) * width
    IN IF seed < 0 \/ last < min THEN min .. MaxLevel ELSE Larger(min, band * width + 1) .. last
Levels(arena, kept, min, seed) ==
    IF arena.level > 0 THEN {Larger(arena.level, min)} ELSE IF kept.level > 0 THEN {kept.level} ELSE Drawn(min, seed)

-----------------------------------------------------------------------------

Character == [pair : Pairs, level : 1 .. MaxLevel]
Seat == [pair : Pairs \union {NoBot}, level : 0 .. MaxLevel, apt : Character \union {NoBot}, played : 0 .. ReuseEpisodes]
EmptySeat == [pair |-> NoBot, level |-> 0, apt |-> NoBot, played |-> 0]

\* What Rebuild works with; nothing between two of them.
NoWork == [seat |-> 0, level |-> 1, reuse |-> {}, into |-> 0, attempt |-> 0, cast |-> FALSE,
           active |-> 0, seats |-> [s \in Seats |-> EmptySeat]]

Init == env = [pc |-> "idle", arena |-> CHOOSE a \in Arenas : ~a.owner, active |-> 0, map |-> "none", instance |-> 0,
               slots |-> [s \in Seats \union {CastOwner, Script} |-> NoSlot],
               seats |-> [s \in Seats |-> EmptySeat], cast |-> FALSE, work |-> NoWork]

Bot(s) == Active(env.slots[s])
FirstBuild == Bot(0) = NoBot

\* Rebuild, which seats keep their character: those that still fit, at the
\* level of the first of them.
Fits(s, pairs, arena, min) ==
    /\ pairs[s] = env.seats[s].pair /\ env.seats[s].played < ReuseEpisodes
    /\ env.seats[s].level >= min /\ arena.level \in {0, env.seats[s].level}
Kept(ready, pairs, arena, min) ==
    LET fit == {s \in ready : Fits(s, pairs, arena, min)}
        first == {s \in fit : \A other \in fit : s <= other}
    IN IF fit = {} THEN {[reuse |-> {}, level |-> 0]}
       ELSE {[reuse |-> {r \in fit : env.seats[r].level = env.seats[s].level}, level |-> env.seats[s].level] : s \in first}

\* OwnerEncounter::Deactivate: what the last arena had and this one does not.
Deactivated(slots, arena) ==
    IF env.arena.owner /\ ~arena.owner
    THEN [slots EXCEPT ![IF env.cast THEN CastOwner ELSE Script] = Destroy(@)] ELSE slots

\* Rebuild up to the first seat: the arena, who sits where, at what level, who
\* keeps the character, and on which map.
Stays(arena) == env.map \in {"none", arena.map}
MayReuse(arena, evaluating) == ~FirstBuild /\ ~evaluating /\ ~arena.match /\ Stays(arena)
Begins(arena, evaluating, n, pairs, kept, level) ==
    [env EXCEPT
       !.pc = "seats", !.arena = arena, !.active = n,
       !.seats = [s \in Seats |-> [env.seats[s] EXCEPT !.pair = pairs[s]]],
       !.slots = [s \in DOMAIN env.slots |->
                     IF s \in Seats THEN Begin(env.slots[s]) ELSE Deactivated(env.slots, arena)[s]],
       !.cast = env.cast /\ arena.owner,
       !.work = [seat |-> 0, level |-> level, reuse |-> kept.reuse, attempt |-> 0, cast |-> arena.cast /\ ~evaluating,
                 into |-> IF ~FirstBuild /\ Stays(arena) THEN env.instance ELSE 1 - env.instance,
                 active |-> env.active, seats |-> env.seats]]
Draw ==
    /\ env.pc = "idle"
    /\ \E arena \in Arenas : \E evaluating \in BOOLEAN :
       \E n \in (IF arena.party THEN 1 .. MaxSeats ELSE {arena.seats}) :
       \E pairs \in Seatings(arena, n) : \E min \in LowestLevels(pairs, n) :
       \E ready \in SUBSET {s \in Seats : s < n /\ s < env.active} : \* in the world and not being teleported
       \E kept \in Kept(IF MayReuse(arena, evaluating) THEN ready ELSE {}, pairs, arena, min) :
       \E seed \in (IF evaluating THEN 0 .. Bands - 1 ELSE {-1}) : \E level \in Levels(arena, kept, min, seed) :
          env' = Begins(arena, evaluating, n, pairs, kept, level)

Configured(s) == [pair |-> env.seats[s].pair, level |-> env.work.level]

\* ReuseSeat: the seat's character, made ready; and BuildSeat: a new one on
\* the idle session.
ReuseSeat(s) ==
    /\ s \in env.work.reuse
    /\ env' = [env EXCEPT !.slots[s] = Abort(@), !.seats[s].played = @ + 1, !.work.seat = s + 1]
BuildSeat(s) ==
    /\ s \notin env.work.reuse
    /\ env' = [env EXCEPT !.slots[s] = CreateNext(@, [of |-> Configured(s), at |-> env.work.into]),
                          !.seats[s] = [@ EXCEPT !.level = env.work.level, !.apt = Configured(s), !.played = 0],
                          !.work.seat = s + 1]

\* Rebuild when a seat has no bot: the bots already made go, and what the
\* seats' characters are is put back; an episode that could not be built.
\* Mutant of Restored: a seat keeps the level it was to have.
RestoredPair(s) == [env.seats[s] EXCEPT !.pair = env.work.seats[s].pair]
Restored(s) == [env.seats[s] EXCEPT !.pair = env.work.seats[s].pair, !.level = env.work.seats[s].level]
SeatFails ==
    /\ env.pc = "seats" /\ env.work.seat < env.active
    /\ env.work.active > 0       \* a first build that fails is a pool that never starts
    /\ env' = [env EXCEPT !.pc = "idle", !.active = env.work.active, !.work = NoWork,
                          !.slots = [s \in DOMAIN env.slots |-> IF s \in Seats THEN Abort(env.slots[s]) ELSE env.slots[s]],
                          !.seats = [s \in Seats |-> Restored(s)]]

BuildNext == /\ env.pc = "seats" /\ env.work.seat < env.active
             /\ ReuseSeat(env.work.seat) \/ BuildSeat(env.work.seat)

\* The old ones leave one by one.
PromoteSeat == /\ \/ env.pc = "seats" /\ env.work.seat = env.active
                  \/ env.pc = "promote"
               /\ LET s == IF env.pc = "seats" THEN 0 ELSE env.work.seat IN
                  env' = [env EXCEPT !.slots[s] = Promote(@), !.work.seat = s + 1,
                                     !.seats[s] = IF s < env.active THEN @ ELSE EmptySeat, \* nobody asks any more
                                     !.map = env.arena.map, !.instance = env.work.into,
                                     !.pc = IF s + 1 = MaxSeats THEN "encounters" ELSE "promote"]

-----------------------------------------------------------------------------
(* OwnerEncounter::Build, again at every attempt to build the encounters.   *)

\* The owner of another kind of episode is sent away first.
SentAway(cast) ==
    IF env.cast /\ ~cast THEN [env.slots EXCEPT ![CastOwner] = Destroy(@)]
    ELSE IF ~env.cast /\ cast THEN [env.slots EXCEPT ![Script] = Destroy(@)]
    ELSE env.slots
OwnerBot == [of |-> "owner", at |-> env.instance]
BuildOwner(cast) ==
    LET slot == IF cast THEN CastOwner ELSE Script IN
    [SentAway(cast) EXCEPT ![slot] = Promote(CreateNext(Begin(@), OwnerBot))]

\* BuildCast that finds nobody aborts; a scripted owner that cannot be created
\* leaves the slot begun.
NoOwner(cast) ==
    IF cast THEN [SentAway(cast) EXCEPT ![CastOwner] = Abort(Begin(@))] ELSE [SentAway(cast) EXCEPT ![Script] = Begin(@)]

\* Every encounter is built, or the seats move to another spawn point to try
\* again, a few times.
Built == [env EXCEPT !.pc = "idle", !.work = NoWork]
NotBuilt == IF env.work.attempt + 1 < SpawnAttempts THEN [env EXCEPT !.work.attempt = @ + 1] ELSE Built
Encounters ==
    /\ env.pc = "encounters"
    /\ \/ env' = NotBuilt      \* one before the owner fails
       \/ ~env.arena.owner /\ env' = Built
       \/ /\ env.arena.owner
          /\ \E cast \in {FALSE} \union {env.work.cast} :
             \/ \E after \in {Built, NotBuilt} : env' = [after EXCEPT !.slots = BuildOwner(cast), !.cast = cast]
             \/ env' = [NotBuilt EXCEPT !.slots = NoOwner(cast), !.cast = FALSE]

Next == Draw \/ BuildNext \/ SeatFails \/ PromoteSeat \/ Encounters
Spec == Init /\ [][Next]_vars

-----------------------------------------------------------------------------

TypeOK == /\ env.active \in 0 .. MaxSeats /\ env.work.level \in 1 .. MaxLevel
          /\ env.seats \in [Seats -> Seat]

Held(s) == {x \in Sessions : env.slots[s].bots[x] # NoBot}

\* BotSlot: "an instance never loses its last player": at every step of a
\* rebuild there is a bot in the instance the next one is placed in, but for a
\* new instance before its first, and the bots of a slot never share a session.
InstanceNeverEmpty ==
    env.active > 0 /\ (env.pc = "seats" /\ env.work.seat = 0 => env.work.into = env.instance) =>
        \E s \in Seats : \E x \in Held(s) :
            env.slots[s].bots[x].at = IF env.pc = "seats" THEN env.work.into ELSE env.instance

\* Rebuild: between two rebuilds, whatever failed in them, a seat in play has
\* one bot, which is what the seat says it is, at one level with the others,
\* and an empty seat has none.
SeatsMatchBots ==
    env.pc = "idle" =>
        \A s \in Seats :
            IF s < env.active
            THEN /\ Cardinality(Held(s)) = 1 /\ Bot(s) # NoBot
                 /\ Bot(s).of = [pair |-> env.seats[s].pair, level |-> env.seats[s].level]
                 /\ \A other \in 0 .. env.active - 1 : env.seats[other].level = env.seats[s].level
            ELSE Held(s) = {}
-----------------------------------------------------------------------------
(* Theorems.  Both invariants are about a rebuild as a whole: a step keeps   *)
(* them only with, for every seat, what its slot holds at every point of     *)
(* one: the bot it had, and the one it is to have.                           *)

\* What the code takes its constants to be: a class can do what it is listed
\* for, an arena has a seat and no more than there are, and no level past the last.
RebuildConstants ==
    /\ MaxSeats \in Nat \ {0} /\ MaxLevel \in Nat \ {0} /\ Bands \in Nat \ {0}
    /\ Tanks \subseteq Pairs /\ Healers \subseteq Pairs
    /\ \A a \in Arenas : a.level \in 0 .. MaxLevel /\ a.seats \in 1 .. MaxSeats
    /\ ReuseEpisodes \in Nat
    /\ NoBot \notin [of : [pair : Pairs, level : Nat], at : 0 .. 1]

\* The bot of a seat's character, in an instance; the one a seat had before this
\* rebuild, and the one it is to have after it.
BotOf(seat, at) == [of |-> [pair |-> seat.pair, level |-> seat.level], at |-> at]
Was(work, s, at) == IF s < work.active THEN BotOf(work.seats[s], at) ELSE NoBot
Becomes(e, s) == [of |-> [pair |-> e.seats[s].pair, level |-> e.work.level], at |-> e.work.into]

\* The seats that play are characters of one level.
Playing(seats, n) ==
    /\ \A s \in Seats : s < n => seats[s].pair \in Pairs /\ seats[s].level \in Nat
    /\ \A s, t \in Seats : s < n /\ t < n => seats[s].level = seats[t].level

Settled(e) ==
    /\ Playing(e.seats, e.active)
    /\ \A s \in Seats : Rests(e.slots[s], IF s < e.active THEN BotOf(e.seats[s], e.instance) ELSE NoBot)

\* The seats are built one after the other, beside the bots there were.
WhichBots(e) ==
    /\ e.active \in 1 .. MaxSeats
    /\ Playing(e.work.seats, e.work.active)
    /\ e.work.active = 0 => e.work.into # e.instance
    /\ \A s \in Seats : s < e.active => e.seats[s].pair \in Pairs
    /\ \A s \in e.work.reuse :
          /\ s < e.active /\ s < e.work.active /\ e.work.into = e.instance
          /\ e.seats[s].pair = e.work.seats[s].pair
          /\ e.seats[s].level = e.work.level /\ e.work.seats[s].level = e.work.level
SeatBegun(e, s) == Begun(e.slots[s], Was(e.work, s, e.instance))
SeatBuilt(e, s) ==
    /\ e.seats[s].level = e.work.level
    /\ IF s \in e.work.reuse THEN Rests(e.slots[s], Was(e.work, s, e.instance))
       ELSE Made(e.slots[s], Was(e.work, s, e.instance), Becomes(e, s))
Building(e) ==
    /\ WhichBots(e) /\ e.work.seat \in 0 .. e.active
    /\ \A s \in Seats : IF s < e.work.seat THEN SeatBuilt(e, s) ELSE SeatBegun(e, s)

\* The old bots leave one after the other; k have.
SeatLeft(e, s) == Rests(e.slots[s], IF s < e.active THEN Becomes(e, s) ELSE NoBot)
SeatLeaves(e, s) ==
    IF s >= e.active THEN \E at \in 0 .. 1 : Begun(e.slots[s], Was(e.work, s, at))
    ELSE IF s \in e.work.reuse THEN Rests(e.slots[s], Becomes(e, s))
    ELSE \E at \in 0 .. 1 : Made(e.slots[s], Was(e.work, s, at), Becomes(e, s))
Leaving(e, k) ==
    /\ e.active \in 1 .. MaxSeats
    /\ \A s \in Seats : s < e.active => e.seats[s].pair \in Pairs /\ e.seats[s].level = e.work.level
    /\ \A s \in Seats : IF s < k THEN SeatLeft(e, s) ELSE SeatLeaves(e, s)

WholeSeats(seats) ==
    /\ seats = [s \in Seats |-> seats[s]]
    /\ \A s \in Seats : /\ seats[s] = [pair |-> seats[s].pair, level |-> seats[s].level, apt |-> seats[s].apt, played |-> seats[s].played]
                        /\ seats[s].level \in Nat
WholeEnv(e) ==
    /\ e = [pc |-> e.pc, arena |-> e.arena, active |-> e.active, map |-> e.map, instance |-> e.instance, slots |-> e.slots,
            seats |-> e.seats, cast |-> e.cast, work |-> e.work]
    /\ e.work = [seat |-> e.work.seat, level |-> e.work.level, reuse |-> e.work.reuse, into |-> e.work.into,
                 attempt |-> e.work.attempt, cast |-> e.work.cast, active |-> e.work.active, seats |-> e.work.seats]
SlotNames == Seats \union {CastOwner, Script}
Fields(e) ==
    /\ e.pc \in {"idle", "seats", "promote", "encounters"}
    /\ e.active \in 0 .. MaxSeats /\ e.instance \in 0 .. 1 /\ WholeSeats(e.seats)
    /\ e.slots = [s \in SlotNames |-> e.slots[s]]
    /\ e.work.level \in Nat /\ e.work.reuse \subseteq Seats /\ e.work.into \in 0 .. 1
    /\ e.work.active \in 0 .. MaxSeats /\ WholeSeats(e.work.seats)

IInv ==
    /\ WholeEnv(env) /\ Fields(env)
    /\ env.pc \in {"idle", "encounters"} => Settled(env)
    /\ env.pc = "encounters" => env.active > 0
    /\ env.pc = "seats" => Building(env)
    /\ env.pc = "promote" => env.work.seat \in 1 .. MaxSeats - 1 /\ Leaving(env, env.work.seat) /\ env.instance = env.work.into

-----------------------------------------------------------------------------
(* A slot over a rebuild.                                                  *)

LEMMA OtherSession == \A s \in Sessions : 1 - s \in Sessions /\ 1 - s # s /\ 1 - (1 - s) = s /\ \A t \in Sessions : t \in {s, 1 - s}
BY DEF Sessions

LEMMA NewSlot ==
    ASSUME NEW r, NEW bots, NEW active \in Sessions, NEW previous \in BOOLEAN, NEW created \in BOOLEAN,
           bots = [s \in Sessions |-> bots[s]],
           r = [bots |-> bots, active |-> active, previous |-> previous, created |-> created]
    PROVE  WholeSlot(r) /\ r.bots = bots /\ r.active = active /\ r.previous = previous /\ r.created = created
BY DEF WholeSlot

LEMMA RestsAre ==
    ASSUME NEW slot, NEW bot, Rests(slot, bot)
    PROVE  /\ Active(slot) = bot /\ slot.active \in Sessions /\ slot.bots[slot.active] = bot
           /\ \A x \in Sessions : x # slot.active => slot.bots[x] = NoBot
BY OtherSession DEF Rests, Active, WholeSlot, Has

LEMMA BeginIs == ASSUME NEW slot, NEW bot, Rests(slot, bot) PROVE Begun(Begin(slot), bot)
<1>1. PICK r : r = Begin(slot)
  OBVIOUS
<1>2. PICK previous \in BOOLEAN : previous <=> bot # NoBot
  OBVIOUS
<1>3. Active(slot) = bot /\ WholeSlot(slot) /\ Has(slot, bot, NoBot)
  BY RestsAre DEF Rests
<1>4. r = [bots |-> slot.bots, active |-> slot.active, previous |-> previous, created |-> FALSE]
  BY <1>1, <1>2, <1>3 DEF Begin, WholeSlot
<1>5. WholeSlot(r) /\ r.bots = slot.bots /\ r.active = slot.active /\ r.previous = previous /\ r.created = FALSE
  BY <1>3, <1>4, NewSlot DEF WholeSlot
<1>6. Begun(r, bot)
  BY <1>2, <1>3, <1>5 DEF Begun, Has
<1> QED
  BY <1>1, <1>6

LEMMA CreateNextIs == ASSUME NEW slot, NEW bot, NEW next, Begun(slot, bot) PROVE Made(CreateNext(slot, next), bot, next)
<1>1. PICK r : r = CreateNext(slot, next)
  OBVIOUS
<1>2. PICK at : at = NextSession(slot)
  OBVIOUS
<1>3. /\ WholeSlot(slot) /\ at \in Sessions /\ 1 - slot.active \in Sessions /\ 1 - slot.active # slot.active
      /\ at = IF slot.previous THEN 1 - slot.active ELSE slot.active
  BY <1>2, OtherSession DEF Begun, WholeSlot, NextSession
<1>4. PICK bots : bots = [slot.bots EXCEPT ![at] = next]
  OBVIOUS
<1>5. bots = [s \in Sessions |-> bots[s]] /\ \A s \in Sessions : bots[s] = IF s = at THEN next ELSE slot.bots[s]
  BY <1>3, <1>4 DEF WholeSlot
<1>6. r = [bots |-> bots, active |-> slot.active, previous |-> slot.previous, created |-> TRUE]
  BY <1>1, <1>2, <1>3, <1>4 DEF CreateNext, WholeSlot
<1>7. WholeSlot(r) /\ r.bots = bots /\ r.active = slot.active /\ r.previous = slot.previous /\ r.created = TRUE
  BY <1>3, <1>5, <1>6, NewSlot DEF WholeSlot
<1>8. Made(r, bot, next)
  <2>1. slot.active \in Sessions /\ (slot.previous <=> bot # NoBot) /\ Has(slot, bot, NoBot)
    BY DEF Begun, WholeSlot
  <2>2. IF slot.previous THEN Has(r, bot, next) ELSE Has(r, next, NoBot)
    BY <1>3, <1>5, <1>7, <2>1 DEF Has
  <2> QED
    BY <1>7, <2>1, <2>2 DEF Made
<1> QED
  BY <1>1, <1>8

\* A bot that was made takes the place of the one before it; one that was not
\* leaves none; and a seat that kept its own keeps it.
LEMMA PromoteIs ==
    ASSUME NEW slot, NEW bot, NEW next
    PROVE  /\ Made(slot, bot, next) => Rests(Promote(slot), next)
           /\ Begun(slot, bot) => Rests(Promote(slot), NoBot)
           /\ Rests(slot, bot) => Rests(Promote(slot), bot)
<1> SUFFICES ASSUME WholeSlot(slot)
             PROVE  /\ Made(slot, bot, next) => Rests(Promote(slot), next)
                    /\ Begun(slot, bot) => Rests(Promote(slot), NoBot)
                    /\ Rests(slot, bot) => Rests(Promote(slot), bot)
  BY DEF Made, Begun, Rests
<1>1. PICK r : r = Promote(slot)
  OBVIOUS
<1>2. PICK a : a = slot.active
  OBVIOUS
<1>3. a \in Sessions /\ 1 - a \in Sessions /\ 1 - a # a /\ 1 - (1 - a) = a
  BY <1>2, OtherSession DEF WholeSlot
<1>4. PICK active : active = IF slot.created THEN NextSession(slot) ELSE a
  OBVIOUS
<1>5. active \in Sessions /\ active = IF slot.created /\ slot.previous THEN 1 - a ELSE a
  BY <1>2, <1>3, <1>4 DEF NextSession
<1>6. PICK bots : bots = [slot.bots EXCEPT ![a] = IF slot.previous THEN NoBot ELSE slot.bots[a]]
  OBVIOUS
<1>7. /\ bots = [s \in Sessions |-> bots[s]]
      /\ bots[a] = IF slot.previous THEN NoBot ELSE slot.bots[a]
      /\ bots[1 - a] = slot.bots[1 - a]
  BY <1>3, <1>6 DEF WholeSlot
<1>8. r = [bots |-> bots, active |-> active, previous |-> FALSE, created |-> FALSE]
  BY <1>1, <1>2, <1>4, <1>6 DEF Promote, WholeSlot
<1>9. WholeSlot(r) /\ r.bots = bots /\ r.active = active /\ r.previous = FALSE /\ r.created = FALSE
  BY <1>5, <1>7, <1>8, NewSlot
<1>10. ASSUME Made(slot, bot, next) PROVE Rests(r, next)
  BY <1>2, <1>3, <1>5, <1>7, <1>9, <1>10 DEF Made, Rests, Has
<1>11. ASSUME Begun(slot, bot) PROVE Rests(r, NoBot)
  BY <1>2, <1>3, <1>5, <1>7, <1>9, <1>11 DEF Begun, Rests, Has
<1>12. ASSUME Rests(slot, bot) PROVE Rests(r, bot)
  BY <1>2, <1>3, <1>5, <1>7, <1>9, <1>12 DEF Rests, Has
<1> QED
  BY <1>1, <1>10, <1>11, <1>12

\* A rebuild given up leaves the bot there was.
LEMMA AbortIs ==
    ASSUME NEW slot, NEW bot, NEW next
    PROVE  Made(slot, bot, next) \/ Begun(slot, bot) \/ Rests(slot, bot) => Rests(Abort(slot), bot)
<1> SUFFICES ASSUME WholeSlot(slot), Made(slot, bot, next) \/ Begun(slot, bot) \/ Rests(slot, bot) PROVE Rests(Abort(slot), bot)
  BY DEF Made, Begun, Rests
<1>1. PICK r : r = Abort(slot)
  OBVIOUS
<1>2. PICK a : a = slot.active
  OBVIOUS
<1>3. PICK at : at = NextSession(slot)
  OBVIOUS
<1>4. a \in Sessions /\ 1 - a \in Sessions /\ 1 - a # a /\ at \in Sessions /\ at = IF slot.previous THEN 1 - a ELSE a
  BY <1>2, <1>3, OtherSession DEF WholeSlot, NextSession
<1>5. PICK bots : bots = [slot.bots EXCEPT ![at] = IF slot.created THEN NoBot ELSE slot.bots[at]]
  OBVIOUS
<1>6. /\ bots = [s \in Sessions |-> bots[s]]
      /\ \A s \in Sessions : bots[s] = IF s = at /\ slot.created THEN NoBot ELSE slot.bots[s]
  BY <1>4, <1>5 DEF WholeSlot
<1>7. r = [bots |-> bots, active |-> a, previous |-> FALSE, created |-> FALSE]
  BY <1>1, <1>2, <1>3, <1>5 DEF Abort, WholeSlot
<1>8. WholeSlot(r) /\ r.bots = bots /\ r.active = a /\ r.previous = FALSE /\ r.created = FALSE
  BY <1>4, <1>6, <1>7, NewSlot
<1>9. Has(r, bot, NoBot)
  BY <1>2, <1>4, <1>6, <1>8 DEF Made, Begun, Rests, Has
<1> QED
  BY <1>1, <1>8, <1>9 DEF Rests

-----------------------------------------------------------------------------

LEMMA SeatingsPlay ==
    ASSUME RebuildConstants, NEW arena \in Arenas, NEW n \in 1 .. MaxSeats, NEW pairs \in Seatings(arena, n)
    PROVE  \A s \in Seats : s < n => pairs[s] \in Pairs
<1>1. \A demand : Castings(demand) \subseteq Pairs
  BY DEF RebuildConstants, Castings, Meeting
<1> QED
  BY <1>1 DEF Seatings

LEMMA KeptFits ==
    ASSUME NEW ready \in SUBSET Seats, NEW pairs, NEW arena, NEW min, NEW kept \in Kept(ready, pairs, arena, min)
    PROVE  /\ kept.reuse \subseteq ready
           /\ \A s \in kept.reuse : /\ pairs[s] = env.seats[s].pair /\ env.seats[s].level = kept.level
                                   /\ kept.level >= min /\ arena.level \in {0, kept.level}
<1> DEFINE fit == {s \in ready : Fits(s, pairs, arena, min)}
<1>1. CASE fit = {}
  <2>1. kept = [reuse |-> {}, level |-> 0]
    BY <1>1 DEF Kept
  <2> QED
    BY <2>1
<1>2. CASE fit # {}
  <2>1. PICK s \in fit : kept = [reuse |-> {r \in fit : env.seats[r].level = env.seats[s].level}, level |-> env.seats[s].level]
    BY <1>2 DEF Kept
  <2>2. kept.reuse = {r \in fit : env.seats[r].level = env.seats[s].level} /\ kept.level = env.seats[s].level
    BY <2>1
  <2> QED
    BY <2>2 DEF Fits
<1> QED
  BY <1>1, <1>2

LEMMA KeptLevel ==
    ASSUME NEW ready \in SUBSET Seats, NEW pairs, NEW arena, NEW min, NEW kept \in Kept(ready, pairs, arena, min),
           WholeSeats(env.seats)
    PROVE  kept.level \in Nat
<1> DEFINE fit == {s \in ready : Fits(s, pairs, arena, min)}
<1>1. CASE fit = {}
  <2>1. kept = [reuse |-> {}, level |-> 0]
    BY <1>1 DEF Kept
  <2> QED
    BY <2>1
<1>2. CASE fit # {}
  <2>1. PICK s \in fit : kept = [reuse |-> {r \in fit : env.seats[r].level = env.seats[s].level}, level |-> env.seats[s].level]
    BY <1>2 DEF Kept
  <2>2. kept.level = env.seats[s].level /\ s \in Seats
    BY <2>1
  <2> QED
    BY <2>2 DEF WholeSeats
<1> QED
  BY <1>1, <1>2

LEMMA LevelsFit ==
    ASSUME RebuildConstants, NEW arena \in Arenas, NEW kept, kept.level \in Nat, NEW min \in 1 .. MaxLevel,
           NEW seed \in {-1} \union 0 .. Bands - 1, NEW level \in Levels(arena, kept, min, seed)
    PROVE  /\ level \in Nat
           /\ kept.level >= min /\ arena.level \in {0, kept.level} => level = kept.level
<1>1. arena.level \in Nat /\ min \in Nat /\ min > 0
  BY DEF RebuildConstants
<1>2. CASE arena.level > 0
  BY <1>1, <1>2 DEF Levels, Larger
<1>3. CASE ~(arena.level > 0) /\ kept.level > 0
  BY <1>1, <1>3 DEF Levels
<1>4. CASE ~(arena.level > 0) /\ ~(kept.level > 0)
  <2>1. level \in Drawn(min, seed)
    BY <1>4 DEF Levels
  <2>2. level \in Nat
    <3> DEFINE width == MaxLevel \div Bands
               band == seed % Bands
    <3>1. width \in Int /\ band \in Int
      BY DEF RebuildConstants
    <3>2. band * width + 1 \in Int /\ (band + 1) * width \in Int
      BY <3>1
    <3>3. Larger(min, band * width + 1) \in Nat
      BY <1>1, <3>2 DEF Larger
    <3> QED
      BY <1>1, <2>1, <3>2, <3>3 DEF Drawn, RebuildConstants
  <2> QED
    BY <1>1, <1>4, <2>2
<1> QED
  BY <1>2, <1>3, <1>4

LEMMA RealBot == ASSUME RebuildConstants, NEW seat, seat.pair \in Pairs, seat.level \in Nat, NEW at \in 0 .. 1 PROVE BotOf(seat, at) # NoBot
BY DEF RebuildConstants, BotOf

LEMMA FirstSeat == RebuildConstants => 0 \in Seats
BY DEF RebuildConstants, Seats

\* Nobody has been built yet only before the first rebuild.
LEMMA FirstIs == ASSUME RebuildConstants, WholeEnv(env), Fields(env), Settled(env) PROVE FirstBuild <=> env.active = 0
<1>1. 0 \in Seats
  BY DEF Seats, RebuildConstants
<1>2. Bot(0) = IF 0 < env.active THEN BotOf(env.seats[0], env.instance) ELSE NoBot
  BY <1>1, RestsAre DEF Settled, Bot
<1>3. 0 < env.active => BotOf(env.seats[0], env.instance) # NoBot
  BY <1>1, RealBot DEF Settled, Playing, Fields
<1> QED
  BY <1>2, <1>3 DEF FirstBuild, Fields, RebuildConstants

LEMMA InitInv == RebuildConstants /\ Init => IInv
<1> SUFFICES ASSUME RebuildConstants, Init PROVE IInv
  OBVIOUS
<1>1. WholeSeats([s \in Seats |-> EmptySeat])
  BY DEF WholeSeats, EmptySeat
<1>2. /\ WholeEnv(env) /\ env.pc = "idle" /\ env.active = 0 /\ env.instance = 0 /\ env.seats = [s \in Seats |-> EmptySeat]
      /\ env.slots = [s \in SlotNames |-> NoSlot] /\ env.work = NoWork
  BY DEF Init, WholeEnv, NoWork, SlotNames
<1>3. Fields(env)
  BY <1>1, <1>2 DEF Fields, NoWork, RebuildConstants, Seats
<1>4. Rests(NoSlot, NoBot)
  BY DEF Rests, WholeSlot, Has, NoSlot, Sessions
<1>5. \A s \in Seats : s \in Nat /\ env.slots[s] = NoSlot
  BY <1>2 DEF Seats, SlotNames
<1>6. Settled(env)
  BY <1>2, <1>4, <1>5 DEF Settled, Playing
<1> QED
  BY <1>2, <1>3, <1>6 DEF IInv

LEMMA DrawInv == ASSUME RebuildConstants, IInv, Draw PROVE IInv'
<1>1. PICK arena \in Arenas, evaluating \in BOOLEAN :
        \E n \in (IF arena.party THEN 1 .. MaxSeats ELSE {arena.seats}) :
        \E pairs \in Seatings(arena, n) : \E min \in LowestLevels(pairs, n) :
        \E ready \in SUBSET {s \in Seats : s < n /\ s < env.active} :
        \E kept \in Kept(IF MayReuse(arena, evaluating) THEN ready ELSE {}, pairs, arena, min) :
        \E seed \in (IF evaluating THEN 0 .. Bands - 1 ELSE {-1}) : \E level \in Levels(arena, kept, min, seed) :
           env' = Begins(arena, evaluating, n, pairs, kept, level)
  BY DEF Draw
<1>2. PICK n \in (IF arena.party THEN 1 .. MaxSeats ELSE {arena.seats}) :
        \E pairs \in Seatings(arena, n) : \E min \in LowestLevels(pairs, n) :
        \E ready \in SUBSET {s \in Seats : s < n /\ s < env.active} :
        \E kept \in Kept(IF MayReuse(arena, evaluating) THEN ready ELSE {}, pairs, arena, min) :
        \E seed \in (IF evaluating THEN 0 .. Bands - 1 ELSE {-1}) : \E level \in Levels(arena, kept, min, seed) :
           env' = Begins(arena, evaluating, n, pairs, kept, level)
  BY <1>1
<1>21. PICK pairs \in Seatings(arena, n), ready \in SUBSET {s \in Seats : s < n /\ s < env.active} :
        \E min \in LowestLevels(pairs, n) :
        \E kept \in Kept(IF MayReuse(arena, evaluating) THEN ready ELSE {}, pairs, arena, min) :
        \E seed \in (IF evaluating THEN 0 .. Bands - 1 ELSE {-1}) : \E level \in Levels(arena, kept, min, seed) :
           env' = Begins(arena, evaluating, n, pairs, kept, level)
  BY <1>2
<1>22. PICK min \in LowestLevels(pairs, n) :
        \E kept \in Kept(IF MayReuse(arena, evaluating) THEN ready ELSE {}, pairs, arena, min) :
        \E seed \in (IF evaluating THEN 0 .. Bands - 1 ELSE {-1}) : \E level \in Levels(arena, kept, min, seed) :
           env' = Begins(arena, evaluating, n, pairs, kept, level)
  BY <1>21
<1>23. PICK kept \in Kept(IF MayReuse(arena, evaluating) THEN ready ELSE {}, pairs, arena, min),
            seed \in (IF evaluating THEN 0 .. Bands - 1 ELSE {-1}) : \E level \in Levels(arena, kept, min, seed) :
           env' = Begins(arena, evaluating, n, pairs, kept, level)
  BY <1>22
<1>24. PICK level \in Levels(arena, kept, min, seed) : env' = Begins(arena, evaluating, n, pairs, kept, level)
  BY <1>23
<1>3. WholeEnv(env) /\ Fields(env) /\ Settled(env)
  BY DEF Draw, IInv
<1>4. n \in 1 .. MaxSeats
  BY DEF RebuildConstants
<1> DEFINE into == IF ~FirstBuild /\ Stays(arena) THEN env.instance ELSE 1 - env.instance
           seats == [s \in Seats |-> [env.seats[s] EXCEPT !.pair = pairs[s]]]
<1>5. /\ WholeEnv(env') /\ env'.pc = "seats" /\ env'.active = n /\ env'.instance = env.instance /\ env'.seats = seats
      /\ env'.slots = [s \in DOMAIN env.slots |-> IF s \in Seats THEN Begin(env.slots[s]) ELSE Deactivated(env.slots, arena)[s]]
      /\ env'.work.seat = 0 /\ env'.work.level = level /\ env'.work.reuse = kept.reuse /\ env'.work.into = into
      /\ env'.work.active = env.active /\ env'.work.seats = env.seats
  BY <1>24, <1>3 DEF WholeEnv, Begins
<1>6. /\ DOMAIN env.slots = SlotNames /\ env'.slots = [s \in SlotNames |-> env'.slots[s]]
      /\ \A s \in Seats : env'.slots[s] = Begin(env.slots[s])
  BY <1>3, <1>5 DEF Fields, SlotNames
<1>7. into \in 0 .. 1 /\ (env.active = 0 => into # env.instance) /\ (MayReuse(arena, evaluating) => into = env.instance)
  BY <1>3, FirstIs DEF Fields, MayReuse
<1>8. WholeSeats(seats) /\ \A s \in Seats : seats[s].pair = pairs[s] /\ seats[s].level = env.seats[s].level
  <2>1. WholeSeats(env.seats)
    BY <1>3 DEF Fields
  <2>2. ASSUME NEW s \in Seats
        PROVE  /\ seats[s].pair = pairs[s] /\ seats[s].level = env.seats[s].level /\ seats[s].level \in Nat
               /\ seats[s] = [pair |-> seats[s].pair, level |-> seats[s].level, apt |-> seats[s].apt, played |-> seats[s].played]
    <3>1. PICK r : r = env.seats[s]
      OBVIOUS
    <3>2. r = [pair |-> r.pair, level |-> r.level, apt |-> r.apt, played |-> r.played] /\ r.level \in Nat
      BY <2>1, <3>1 DEF WholeSeats
    <3>3. seats[s] = [pair |-> pairs[s], level |-> r.level, apt |-> r.apt, played |-> r.played]
      BY <3>1, <3>2
    <3> HIDE DEF seats
    <3> QED
      BY <3>1, <3>2, <3>3
  <2> QED
    BY <2>2 DEF WholeSeats
<1>9. /\ kept.reuse \subseteq {s \in Seats : s < n /\ s < env.active} /\ (kept.reuse # {} => MayReuse(arena, evaluating))
      /\ \A s \in kept.reuse : /\ pairs[s] = env.seats[s].pair /\ env.seats[s].level = kept.level
                              /\ kept.level >= min /\ arena.level \in {0, kept.level}
  <2>1. (IF MayReuse(arena, evaluating) THEN ready ELSE {}) \in SUBSET Seats
    OBVIOUS
  <2>2. /\ kept.reuse \subseteq (IF MayReuse(arena, evaluating) THEN ready ELSE {})
        /\ \A s \in kept.reuse : /\ pairs[s] = env.seats[s].pair /\ env.seats[s].level = kept.level
                                /\ kept.level >= min /\ arena.level \in {0, kept.level}
    BY <2>1, KeptFits
  <2> QED
    BY <2>2
<1>10. level \in Nat /\ \A s \in kept.reuse : env.seats[s].level = level
  <2>1. kept.level \in Nat
    <3>1. WholeSeats(env.seats) /\ (IF MayReuse(arena, evaluating) THEN ready ELSE {}) \in SUBSET Seats
      BY <1>3 DEF Fields
    <3> QED
      BY <3>1, KeptLevel
  <2>2. min \in 1 .. MaxLevel
    BY DEF LowestLevels
  <2>3. seed \in {-1} \union 0 .. Bands - 1
    OBVIOUS
  <2>4. level \in Nat /\ (kept.level >= min /\ arena.level \in {0, kept.level} => level = kept.level)
    BY <2>1, <2>2, <2>3, LevelsFit
  <2> QED
    BY <1>9, <2>4
<1> HIDE DEF into, seats
<1>11. Fields(env')
  BY <1>3, <1>4, <1>5, <1>6, <1>7, <1>8, <1>9, <1>10 DEF Fields
<1>12. Building(env')
  <2>1. /\ env'.active \in 1 .. MaxSeats /\ env'.work.seat \in 0 .. env'.active
        /\ env'.work.active = 0 => env'.work.into # env'.instance
    BY <1>4, <1>5, <1>7
  <2>2. Playing(env'.work.seats, env'.work.active)
    BY <1>3, <1>5 DEF Settled
  <2>3. \A s \in Seats : s < env'.active => env'.seats[s].pair \in Pairs
    BY <1>4, <1>5, <1>8, SeatingsPlay
  <2>4. \A s \in env'.work.reuse :
          /\ s < env'.active /\ s < env'.work.active /\ env'.work.into = env'.instance
          /\ env'.seats[s].pair = env'.work.seats[s].pair
          /\ env'.seats[s].level = env'.work.level /\ env'.work.seats[s].level = env'.work.level
    BY <1>5, <1>7, <1>8, <1>9, <1>10
  <2>5. \A s \in Seats : Begun(env'.slots[s], Was(env'.work, s, env.instance))
    <3> TAKE s \in Seats
    <3>1. Rests(env.slots[s], IF s < env.active THEN BotOf(env.seats[s], env.instance) ELSE NoBot)
      BY <1>3 DEF Settled
    <3>2. Was(env'.work, s, env.instance) = IF s < env.active THEN BotOf(env.seats[s], env.instance) ELSE NoBot
      BY <1>5 DEF Was
    <3> QED
      BY <1>6, <3>1, <3>2, BeginIs
  <2>6. \A s \in Seats : ~(s < env'.work.seat)
    BY <1>5 DEF Seats
  <2> QED
    BY <2>1, <2>2, <2>3, <2>4, <2>5, <2>6, <1>5 DEF Building, WhichBots, SeatBegun
<1> QED
  BY <1>5, <1>11, <1>12 DEF IInv

\* BuildNext writes the seat's slot and the seat, in one of two ways.
Writes(e, f, s, slot, seat) ==
    /\ WholeEnv(f) /\ f.pc = "seats" /\ f.active = e.active /\ f.instance = e.instance
    /\ f.seats = [e.seats EXCEPT ![s] = seat] /\ f.slots = [e.slots EXCEPT ![s] = slot]
    /\ f.work.seat = s + 1 /\ f.work.level = e.work.level /\ f.work.reuse = e.work.reuse /\ f.work.into = e.work.into
    /\ f.work.active = e.work.active /\ f.work.seats = e.work.seats
SeatWith(e, s, seat) ==
    /\ seat = [pair |-> seat.pair, level |-> seat.level, apt |-> seat.apt, played |-> seat.played]
    /\ seat.pair = e.seats[s].pair /\ seat.level = e.work.level

LEMMA ReuseWrites ==
    ASSUME IInv, env.pc = "seats", NEW s \in Seats, s = env.work.seat, ReuseSeat(s)
    PROVE  \E slot, seat : /\ Writes(env, env', s, slot, seat) /\ SeatWith(env, s, seat)
                           /\ s \in env.work.reuse /\ Rests(slot, Was(env.work, s, env.instance))
<1>1. /\ WholeEnv(env) /\ Building(env)
      /\ env.seats[s] = [pair |-> env.seats[s].pair, level |-> env.seats[s].level, apt |-> env.seats[s].apt, played |-> env.seats[s].played]
  BY DEF IInv, Fields, WholeSeats
<1>2. PICK slot : slot = Abort(env.slots[s])
  OBVIOUS
<1>3. PICK seat : seat = [env.seats[s] EXCEPT !.played = @ + 1]
  OBVIOUS
<1>4. Rests(slot, Was(env.work, s, env.instance))
  <2>1. ~(s < env.work.seat)
    BY DEF Seats
  <2>2. Begun(env.slots[s], Was(env.work, s, env.instance))
    BY <1>1, <2>1 DEF Building, SeatBegun
  <2> QED
    BY <1>2, <2>2, AbortIs
<1>5. s \in env.work.reuse /\ env.seats[s].level = env.work.level
  BY <1>1 DEF ReuseSeat, Building, WhichBots
<1>6. seat = [pair |-> env.seats[s].pair, level |-> env.work.level, apt |-> env.seats[s].apt, played |-> env.seats[s].played + 1]
  BY <1>1, <1>3, <1>5
<1>7. SeatWith(env, s, seat)
  BY <1>6 DEF SeatWith
<1>8. env' = [env EXCEPT !.slots = [env.slots EXCEPT ![s] = slot], !.seats = [env.seats EXCEPT ![s] = seat],
                         !.work = [env.work EXCEPT !.seat = s + 1]]
  BY <1>1, <1>2, <1>3 DEF ReuseSeat, WholeEnv
<1>9. Writes(env, env', s, slot, seat)
  BY <1>1, <1>8 DEF Writes, WholeEnv
<1> QED
  BY <1>4, <1>5, <1>7, <1>9

LEMMA BuildWrites ==
    ASSUME IInv, env.pc = "seats", NEW s \in Seats, s = env.work.seat, BuildSeat(s)
    PROVE  \E slot, seat : /\ Writes(env, env', s, slot, seat) /\ SeatWith(env, s, seat)
                           /\ s \notin env.work.reuse /\ Made(slot, Was(env.work, s, env.instance), Becomes(env, s))
<1>1. /\ WholeEnv(env) /\ Building(env)
      /\ env.seats[s] = [pair |-> env.seats[s].pair, level |-> env.seats[s].level, apt |-> env.seats[s].apt, played |-> env.seats[s].played]
  BY DEF IInv, Fields, WholeSeats
<1>2. PICK slot : slot = CreateNext(env.slots[s], Becomes(env, s))
  OBVIOUS
<1>3. PICK seat : seat = [env.seats[s] EXCEPT !.level = env.work.level, !.apt = Configured(s), !.played = 0]
  OBVIOUS
<1>4. Made(slot, Was(env.work, s, env.instance), Becomes(env, s))
  <2>1. ~(s < env.work.seat)
    BY DEF Seats
  <2>2. Begun(env.slots[s], Was(env.work, s, env.instance))
    BY <1>1, <2>1 DEF Building, SeatBegun
  <2> QED
    BY <1>2, <2>2, CreateNextIs
<1>5. PICK old : old = env.seats[s]
  OBVIOUS
<1>6. SeatWith(env, s, seat)
  <2>1. seat = [pair |-> old.pair, level |-> env.work.level, apt |-> Configured(s), played |-> 0]
    BY <1>1, <1>3, <1>5
  <2> QED
    BY <1>5, <2>1 DEF SeatWith
<1>8. env' = [env EXCEPT !.slots = [env.slots EXCEPT ![s] = slot], !.seats = [env.seats EXCEPT ![s] = seat],
                         !.work = [env.work EXCEPT !.seat = s + 1]]
  BY <1>1, <1>2, <1>3 DEF BuildSeat, WholeEnv, Becomes, Configured
<1>9. Writes(env, env', s, slot, seat)
  BY <1>1, <1>8 DEF Writes, WholeEnv
<1> QED
  BY <1>4, <1>6, <1>9 DEF BuildSeat

LEMMA BuildNextInv == ASSUME RebuildConstants, IInv, BuildNext PROVE IInv'
<1>1. PICK s : s = env.work.seat
  OBVIOUS
<1>2. /\ Fields(env) /\ Building(env) /\ env.pc = "seats" /\ s < env.active
      /\ s \in Seats /\ s \in Nat /\ s + 1 \in 0 .. env.active
  BY <1>1 DEF BuildNext, IInv, Building, Fields, Seats, RebuildConstants
<1>3. PICK slot, seat :
        /\ Writes(env, env', s, slot, seat) /\ SeatWith(env, s, seat)
        /\ IF s \in env.work.reuse THEN Rests(slot, Was(env.work, s, env.instance))
           ELSE Made(slot, Was(env.work, s, env.instance), Becomes(env, s))
  BY <1>1, <1>2, ReuseWrites, BuildWrites DEF BuildNext
<1>4. /\ WholeEnv(env') /\ env'.pc = "seats" /\ env'.active = env.active /\ env'.instance = env.instance
      /\ env'.seats = [env.seats EXCEPT ![s] = seat] /\ env'.slots = [env.slots EXCEPT ![s] = slot]
      /\ env'.work.seat = s + 1 /\ env'.work.level = env.work.level /\ env'.work.reuse = env.work.reuse
      /\ env'.work.into = env.work.into /\ env'.work.active = env.work.active /\ env'.work.seats = env.work.seats
  BY <1>3 DEF Writes
<1>6. /\ env'.slots = [t \in SlotNames |-> env'.slots[t]]
      /\ \A t \in Seats : env'.slots[t] = IF t = s THEN slot ELSE env.slots[t]
  BY <1>2, <1>4 DEF SlotNames, Fields
<1>7. /\ WholeSeats(env'.seats)
      /\ \A t \in Seats : /\ env'.seats[t].pair = env.seats[t].pair
                          /\ env'.seats[t].level = IF t = s THEN env.work.level ELSE env.seats[t].level
  <2>1. WholeSeats(env.seats) /\ env.work.level \in Nat
    BY <1>2 DEF Fields
  <2>2. env'.seats = [t \in Seats |-> env'.seats[t]] /\ \A t \in Seats : env'.seats[t] = IF t = s THEN seat ELSE env.seats[t]
    BY <1>2, <1>4, <2>1 DEF WholeSeats
  <2>3. /\ seat = [pair |-> seat.pair, level |-> seat.level, apt |-> seat.apt, played |-> seat.played]
        /\ seat.pair = env.seats[s].pair /\ seat.level = env.work.level
    BY <1>3 DEF SeatWith
  <2> QED
    BY <2>1, <2>2, <2>3 DEF WholeSeats
<1>8. Fields(env')
  BY <1>2, <1>4, <1>6, <1>7 DEF Fields
<1>9. \A t \in Seats : \A at : Was(env'.work, t, at) = Was(env.work, t, at) /\ Becomes(env', t) = Becomes(env, t)
  BY <1>4, <1>7 DEF Was, Becomes
<1>10. WhichBots(env')
  BY <1>2, <1>4, <1>7 DEF Building, WhichBots, Fields
<1>11. ASSUME NEW t \in Seats PROVE IF t < env'.work.seat THEN SeatBuilt(env', t) ELSE SeatBegun(env', t)
  <2>1. CASE t = s
    <3>1. SeatBuilt(env', s)
      BY <1>2, <1>3, <1>4, <1>6, <1>7, <1>9 DEF SeatBuilt
    <3> QED
      BY <1>2, <1>4, <2>1, <3>1
  <2>2. CASE t # s
    <3>1. /\ t < env'.work.seat <=> t < env.work.seat
          /\ IF t < env.work.seat THEN SeatBuilt(env, t) ELSE SeatBegun(env, t)
      BY <1>1, <1>2, <1>4, <2>2 DEF Building, Seats
    <3>2. SeatBuilt(env, t) => SeatBuilt(env', t)
      BY <1>4, <1>6, <1>7, <1>9, <2>2 DEF SeatBuilt
    <3>3. SeatBegun(env, t) => SeatBegun(env', t)
      BY <1>4, <1>6, <1>9, <2>2 DEF SeatBegun
    <3> QED
      BY <3>1, <3>2, <3>3
  <2> QED
    BY <2>1, <2>2
<1>12. Building(env')
  BY <1>2, <1>4, <1>10, <1>11 DEF Building
<1> QED
  BY <1>4, <1>8, <1>12 DEF IInv

LEMMA NoWorkFits ==
    RebuildConstants => /\ NoWork.level \in Nat /\ NoWork.reuse \subseteq Seats /\ NoWork.into \in 0 .. 1
                        /\ NoWork.active \in 0 .. MaxSeats /\ WholeSeats(NoWork.seats)
                        /\ NoWork = [seat |-> NoWork.seat, level |-> NoWork.level, reuse |-> NoWork.reuse, into |-> NoWork.into,
                                     attempt |-> NoWork.attempt, cast |-> NoWork.cast, active |-> NoWork.active, seats |-> NoWork.seats]
<1>1. WholeSeats([s \in Seats |-> EmptySeat])
  BY DEF WholeSeats, EmptySeat
<1> QED
  BY <1>1 DEF NoWork, RebuildConstants

LEMMA SeatFailsInv == ASSUME RebuildConstants, IInv, SeatFails PROVE IInv'
<1>1. WholeEnv(env) /\ Fields(env) /\ Building(env)
  BY DEF SeatFails, IInv
<1>2. /\ WholeEnv(env') /\ env'.pc = "idle" /\ env'.active = env.work.active /\ env'.work = NoWork /\ env'.instance = env.instance
      /\ env'.slots = [s \in DOMAIN env.slots |-> IF s \in Seats THEN Abort(env.slots[s]) ELSE env.slots[s]]
      /\ env'.seats = [s \in Seats |-> Restored(s)]
  BY <1>1, NoWorkFits DEF SeatFails, WholeEnv
<1>3. env'.slots = [s \in SlotNames |-> env'.slots[s]] /\ \A s \in Seats : env'.slots[s] = Abort(env.slots[s])
  BY <1>1, <1>2 DEF Fields, SlotNames
<1>4. ASSUME NEW s \in Seats
      PROVE  /\ env'.seats[s] = [pair |-> env'.seats[s].pair, level |-> env'.seats[s].level, apt |-> env'.seats[s].apt, played |-> env'.seats[s].played]
             /\ env'.seats[s].pair = env.work.seats[s].pair /\ env'.seats[s].level = env.work.seats[s].level
             /\ env'.seats[s].level \in Nat
  <2>1. PICK old : old = env.seats[s]
    OBVIOUS
  <2>2. old = [pair |-> old.pair, level |-> old.level, apt |-> old.apt, played |-> old.played] /\ env.work.seats[s].level \in Nat
    BY <1>1, <2>1 DEF Fields, WholeSeats
  <2>3. PICK r : r = [old EXCEPT !.pair = env.work.seats[s].pair, !.level = env.work.seats[s].level]
    OBVIOUS
  <2>4. r = [pair |-> env.work.seats[s].pair, level |-> env.work.seats[s].level, apt |-> old.apt, played |-> old.played]
    BY <2>2, <2>3
  <2>5. env'.seats[s] = r
    BY <1>2, <2>1, <2>3 DEF Restored
  <2> QED
    BY <2>2, <2>4, <2>5
<1>5. Fields(env')
  <2>1. WholeSeats(env'.seats)
    BY <1>2, <1>4 DEF WholeSeats
  <2> QED
    BY <1>1, <1>2, <1>3, <2>1, NoWorkFits DEF Fields
<1>6. Playing(env'.seats, env'.active)
  BY <1>1, <1>2, <1>4 DEF Building, WhichBots, Playing
<1>7. ASSUME NEW s \in Seats PROVE Rests(env'.slots[s], IF s < env'.active THEN BotOf(env'.seats[s], env'.instance) ELSE NoBot)
  <2>1. Was(env.work, s, env.instance) = IF s < env'.active THEN BotOf(env'.seats[s], env'.instance) ELSE NoBot
    BY <1>2, <1>4 DEF Was, BotOf
  <2>2. PICK bot, next : bot = Was(env.work, s, env.instance) /\ next = Becomes(env, s)
    OBVIOUS
  <2>3. Made(env.slots[s], bot, next) \/ Begun(env.slots[s], bot) \/ Rests(env.slots[s], bot)
    BY <1>1, <2>2 DEF Building, SeatBegun, SeatBuilt
  <2>4. Rests(env'.slots[s], bot)
    BY <1>3, <2>3, AbortIs
  <2> QED
    BY <2>1, <2>2, <2>4
<1> QED
  BY <1>2, <1>5, <1>6, <1>7 DEF IInv, Settled

\* The rebuild of the last seat is where the old bots start to leave.
LEMMA AllBuilt ==
    ASSUME RebuildConstants, Fields(env), Building(env), env.work.seat = env.active
    PROVE  Leaving(env, 0)
<1>1. /\ env.active \in 1 .. MaxSeats /\ env.instance \in 0 .. 1
      /\ \A s \in Seats : s \in Nat /\ IF s < env.active THEN SeatBuilt(env, s) ELSE SeatBegun(env, s)
      /\ \A s \in Seats : s < env.active => env.seats[s].pair \in Pairs
  BY DEF Fields, Building, WhichBots, Seats
<1>2. \A s \in env.work.reuse : Was(env.work, s, env.instance) = Becomes(env, s)
  BY DEF Building, WhichBots, Was, BotOf, Becomes
<1>3. \A s \in Seats : SeatLeaves(env, s)
  <2> TAKE s \in Seats
  <2>1. CASE s < env.active
    <3>1. IF s \in env.work.reuse THEN Rests(env.slots[s], Was(env.work, s, env.instance))
          ELSE Made(env.slots[s], Was(env.work, s, env.instance), Becomes(env, s))
      BY <1>1, <2>1 DEF SeatBuilt
    <3>2. ~(s >= env.active)
      BY <1>1, <2>1
    <3> QED
      BY <1>1, <1>2, <3>1, <3>2 DEF SeatLeaves
  <2>2. CASE ~(s < env.active)
    <3>1. Begun(env.slots[s], Was(env.work, s, env.instance)) /\ s >= env.active
      BY <1>1, <2>2 DEF SeatBegun
    <3> QED
      BY <1>1, <3>1 DEF SeatLeaves
  <2> QED
    BY <2>1, <2>2
<1> QED
  BY <1>1, <1>3 DEF Leaving, SeatBuilt

LEMMA PromoteSeatInv == ASSUME RebuildConstants, IInv, PromoteSeat PROVE IInv'
<1>1. PICK k : k = IF env.pc = "seats" THEN 0 ELSE env.work.seat
  OBVIOUS
<1>2. WholeEnv(env) /\ Fields(env) /\ k \in Seats /\ k \in Nat /\ Leaving(env, k)
  <2>1. 0 \in Seats /\ \A n \in 1 .. MaxSeats - 1 : n \in Seats
    BY DEF Seats, RebuildConstants
  <2>2. CASE env.pc = "seats"
    BY <1>1, <2>1, <2>2, AllBuilt DEF PromoteSeat, IInv
  <2>3. CASE env.pc = "promote"
    BY <1>1, <2>1, <2>3 DEF IInv
  <2> QED
    BY <2>2, <2>3 DEF PromoteSeat
<1>3. env' = [env EXCEPT !.slots[k] = Promote(@), !.work.seat = k + 1,
                         !.seats[k] = IF k < env.active THEN @ ELSE EmptySeat,
                         !.map = env.arena.map, !.instance = env.work.into,
                         !.pc = IF k + 1 = MaxSeats THEN "encounters" ELSE "promote"]
  BY <1>1 DEF PromoteSeat
<1>4. /\ WholeEnv(env') /\ env'.pc = (IF k + 1 = MaxSeats THEN "encounters" ELSE "promote")
      /\ env'.active = env.active /\ env'.instance = env.work.into
      /\ env'.slots = [env.slots EXCEPT ![k] = Promote(env.slots[k])]
      /\ env'.seats = [env.seats EXCEPT ![k] = IF k < env.active THEN env.seats[k] ELSE EmptySeat]
      /\ env'.work = [env.work EXCEPT !.seat = k + 1]
  BY <1>2, <1>3 DEF WholeEnv
<1>5. /\ env'.work.seat = k + 1 /\ env'.work.level = env.work.level /\ env'.work.reuse = env.work.reuse
      /\ env'.work.into = env.work.into /\ env'.work.active = env.work.active /\ env'.work.seats = env.work.seats
  BY <1>2, <1>4 DEF WholeEnv
<1>6. /\ env'.slots = [t \in SlotNames |-> env'.slots[t]]
      /\ \A t \in Seats : env'.slots[t] = IF t = k THEN Promote(env.slots[k]) ELSE env.slots[t]
  BY <1>2, <1>4 DEF Fields, SlotNames
<1>7. WholeSeats(env'.seats) /\ \A t \in Seats : t < env.active => env'.seats[t] = env.seats[t]
  <2>1. WholeSeats(env.seats) /\ env.seats = [t \in Seats |-> env.seats[t]]
    BY <1>2 DEF Fields, WholeSeats
  <2>2. /\ env'.seats = [t \in Seats |-> env'.seats[t]]
        /\ \A t \in Seats : env'.seats[t] = env.seats[t] \/ (env'.seats[t] = EmptySeat /\ ~(t < env.active))
    BY <1>2, <1>4, <2>1
  <2>3. EmptySeat = [pair |-> EmptySeat.pair, level |-> EmptySeat.level, apt |-> EmptySeat.apt, played |-> EmptySeat.played]
        /\ EmptySeat.level \in Nat
    BY DEF EmptySeat
  <2> QED
    BY <2>1, <2>2, <2>3 DEF WholeSeats
<1>8. Fields(env')
  BY <1>2, <1>4, <1>5, <1>6, <1>7 DEF Fields
<1>9. \A t \in Seats : /\ \A at : Was(env'.work, t, at) = Was(env.work, t, at)
                       /\ t < env.active => Becomes(env', t) = Becomes(env, t)
  BY <1>5, <1>7 DEF Was, Becomes
<1>10. env.active \in 1 .. MaxSeats /\ \A t \in Seats : t \in Nat
  BY <1>2 DEF Leaving, Seats
<1>11. SeatLeft(env', k)
  <2>1. SeatLeaves(env, k)
    BY <1>2 DEF Leaving
  <2>2. CASE k >= env.active
    <3>1. PICK at \in 0 .. 1 : Begun(env.slots[k], Was(env.work, k, at))
      BY <2>1, <2>2 DEF SeatLeaves
    <3>2. Rests(Promote(env.slots[k]), NoBot)
      BY <3>1, PromoteIs
    <3>3. ~(k < env'.active)
      BY <1>2, <1>4, <1>10, <2>2
    <3> QED
      BY <1>2, <1>6, <3>2, <3>3 DEF SeatLeft
  <2>3. CASE ~(k >= env.active)
    <3>1. Rests(env.slots[k], Becomes(env, k)) \/ \E at \in 0 .. 1 : Made(env.slots[k], Was(env.work, k, at), Becomes(env, k))
      BY <2>1, <2>3 DEF SeatLeaves
    <3>2. Rests(Promote(env.slots[k]), Becomes(env, k))
      BY <3>1, PromoteIs
    <3>3. k < env.active /\ k < env'.active
      BY <1>2, <1>4, <1>10, <2>3
    <3> QED
      BY <1>2, <1>6, <1>9, <3>2, <3>3 DEF SeatLeft
  <2> QED
    BY <2>2, <2>3
<1>12. Leaving(env', k + 1)
  <2>1. ASSUME NEW t \in Seats PROVE IF t < k + 1 THEN SeatLeft(env', t) ELSE SeatLeaves(env', t)
    <3>1. CASE t = k
      BY <1>2, <1>11, <3>1
    <3>2. CASE t # k
      <4>0. t < k + 1 <=> t < k
        BY <1>2, <1>10, <3>2
      <4>1. IF t < k THEN SeatLeft(env, t) ELSE SeatLeaves(env, t)
        BY <1>2 DEF Leaving
      <4>2. SeatLeft(env, t) => SeatLeft(env', t)
        BY <1>4, <1>6, <1>9, <3>2 DEF SeatLeft
      <4>3. SeatLeaves(env, t) => SeatLeaves(env', t)
        <5>1. t < env.active \/ t >= env.active
          BY <1>10
        <5> QED
          BY <1>4, <1>5, <1>6, <1>9, <3>2, <5>1 DEF SeatLeaves
      <4> QED
        BY <4>0, <4>1, <4>2, <4>3
    <3> QED
      BY <3>1, <3>2
  <2>2. \A t \in Seats : t < env'.active => env'.seats[t].pair \in Pairs /\ env'.seats[t].level = env'.work.level
    BY <1>2, <1>4, <1>5, <1>7 DEF Leaving
  <2> QED
    BY <1>4, <1>10, <2>1, <2>2 DEF Leaving
<1>13. CASE k + 1 = MaxSeats
  <2>1. \A t \in Seats : t < k + 1
    BY <1>13 DEF Seats, RebuildConstants
  <2>2. \A t \in Seats : t < env'.active => Becomes(env', t) = BotOf(env'.seats[t], env'.instance)
    BY <1>4, <1>5, <1>12 DEF Leaving, Becomes, BotOf
  <2>3. Playing(env'.seats, env'.active)
    BY <1>8, <1>12 DEF Leaving, Playing, Fields
  <2>4. \A t \in Seats : Rests(env'.slots[t], IF t < env'.active THEN BotOf(env'.seats[t], env'.instance) ELSE NoBot)
    BY <1>12, <2>1, <2>2 DEF Leaving, SeatLeft
  <2>5. env'.active > 0
    BY <1>4, <1>10
  <2> QED
    BY <1>4, <1>8, <1>13, <2>3, <2>4, <2>5 DEF IInv, Settled
<1>14. CASE k + 1 # MaxSeats
  <2>1. k + 1 \in 1 .. MaxSeats - 1
    BY <1>2, <1>14 DEF Seats, RebuildConstants
  <2> QED
    BY <1>4, <1>5, <1>8, <1>12, <1>14, <2>1 DEF IInv
<1> QED
  BY <1>13, <1>14

\* The owner's slots are not the seats'.
SeatsAre(slots) == slots = [t \in SlotNames |-> slots[t]] /\ \A s \in Seats : slots[s] = env.slots[s]
LEMMA OwnerOnly ==
    ASSUME RebuildConstants, Fields(env), NEW cast, NEW slots \in {BuildOwner(cast), NoOwner(cast)}
    PROVE  SeatsAre(slots)
<1>1. /\ env.slots = [t \in SlotNames |-> env.slots[t]] /\ CastOwner \in SlotNames /\ Script \in SlotNames
      /\ \A s \in Seats : s # CastOwner /\ s # Script /\ s \in SlotNames
  BY DEF Fields, SlotNames, Seats, CastOwner, Script, RebuildConstants
<1>2. PICK away : away = SentAway(cast)
  OBVIOUS
<1>3. away = [t \in SlotNames |-> away[t]] /\ \A s \in Seats : away[s] = env.slots[s]
  BY <1>1, <1>2 DEF SentAway
<1>4. PICK at, slot : (at = CastOwner \/ at = Script) /\ slots = [away EXCEPT ![at] = slot]
  BY <1>2 DEF BuildOwner, NoOwner
<1> QED
  BY <1>1, <1>3, <1>4 DEF SeatsAre

\* What is built, or tried again, of a rebuild.
Ends(f) ==
    /\ WholeEnv(f) /\ f.pc \in {"idle", "encounters"} /\ f.active = env.active /\ f.instance = env.instance
    /\ f.seats = env.seats /\ SeatsAre(f.slots)
    /\ f.work.level \in Nat /\ f.work.reuse \subseteq Seats /\ f.work.into \in 0 .. 1
    /\ f.work.active \in 0 .. MaxSeats /\ WholeSeats(f.work.seats)
LEMMA WrittenEnds ==
    ASSUME NEW e, Ends(e), NEW pc \in {"idle", "encounters"}, NEW slots, SeatsAre(slots), NEW cast, NEW work,
           work = [seat |-> work.seat, level |-> work.level, reuse |-> work.reuse, into |-> work.into,
                   attempt |-> work.attempt, cast |-> work.cast, active |-> work.active, seats |-> work.seats],
           work.level \in Nat, work.reuse \subseteq Seats, work.into \in 0 .. 1, work.active \in 0 .. MaxSeats, WholeSeats(work.seats),
           NEW f, f = [e EXCEPT !.pc = pc, !.slots = slots, !.cast = cast, !.work = work]
    PROVE  Ends(f)
<1>1. f = [pc |-> pc, arena |-> e.arena, active |-> e.active, map |-> e.map, instance |-> e.instance, slots |-> slots,
           seats |-> e.seats, cast |-> cast, work |-> work]
  BY DEF Ends, WholeEnv
<1>2. /\ WholeEnv(f) /\ f.pc = pc /\ f.active = e.active /\ f.instance = e.instance /\ f.seats = e.seats
      /\ f.slots = slots /\ f.work = work
  BY <1>1 DEF WholeEnv
<1> QED
  BY <1>2 DEF Ends
LEMMA EitherEnds ==
    ASSUME RebuildConstants, WholeEnv(env), Fields(env), env.pc = "encounters"
    PROVE  \A after \in {Built, NotBuilt} :
              Ends(after) /\ \A slots, cast : SeatsAre(slots) => Ends([after EXCEPT !.slots = slots, !.cast = cast])
<1>1. SeatsAre(env.slots) /\ Ends(env)
  BY DEF SeatsAre, Fields, Ends
<1>2. Ends(Built)
  <2>1. PICK f : f = Built
    OBVIOUS
  <2>2. f = [env EXCEPT !.pc = "idle", !.slots = env.slots, !.cast = env.cast, !.work = NoWork]
    BY <2>1 DEF Built, WholeEnv
  <2>3. Ends(f)
    BY <1>1, <2>2, NoWorkFits, WrittenEnds
  <2> QED
    BY <2>1, <2>3
<1>3. Ends(NotBuilt)
  <2>1. PICK work : work = [env.work EXCEPT !.attempt = @ + 1]
    OBVIOUS
  <2>2. work = [seat |-> env.work.seat, level |-> env.work.level, reuse |-> env.work.reuse, into |-> env.work.into,
                attempt |-> env.work.attempt + 1, cast |-> env.work.cast, active |-> env.work.active, seats |-> env.work.seats]
    BY <2>1 DEF WholeEnv
  <2>3. PICK f : f = [env EXCEPT !.work = work]
    OBVIOUS
  <2>4. f = [env EXCEPT !.pc = env.pc, !.slots = env.slots, !.cast = env.cast, !.work = work]
    BY <2>3 DEF WholeEnv
  <2>5. Ends(f)
    <3>1. /\ work = [seat |-> work.seat, level |-> work.level, reuse |-> work.reuse, into |-> work.into,
                     attempt |-> work.attempt, cast |-> work.cast, active |-> work.active, seats |-> work.seats]
          /\ work.level \in Nat /\ work.reuse \subseteq Seats /\ work.into \in 0 .. 1 /\ work.active \in 0 .. MaxSeats
          /\ WholeSeats(work.seats) /\ env.pc \in {"idle", "encounters"}
      BY <2>2 DEF Fields
    <3> QED
      BY <1>1, <2>4, <3>1, WrittenEnds
  <2>6. [env EXCEPT !.work.attempt = @ + 1] = f
    BY <2>1, <2>3
  <2> QED
    BY <1>2, <2>5, <2>6 DEF NotBuilt
<1>4. ASSUME NEW after, Ends(after), NEW slots, NEW cast, SeatsAre(slots)
      PROVE  Ends([after EXCEPT !.slots = slots, !.cast = cast])
  <2>1. PICK f : f = [after EXCEPT !.slots = slots, !.cast = cast]
    OBVIOUS
  <2>2. f = [after EXCEPT !.pc = after.pc, !.slots = slots, !.cast = cast, !.work = after.work]
    BY <1>4, <2>1 DEF Ends, WholeEnv
  <2>3. Ends(f)
    <3>1. /\ after.work = [seat |-> after.work.seat, level |-> after.work.level, reuse |-> after.work.reuse, into |-> after.work.into,
                           attempt |-> after.work.attempt, cast |-> after.work.cast, active |-> after.work.active, seats |-> after.work.seats]
          /\ after.work.level \in Nat /\ after.work.reuse \subseteq Seats /\ after.work.into \in 0 .. 1
          /\ after.work.active \in 0 .. MaxSeats /\ WholeSeats(after.work.seats) /\ after.pc \in {"idle", "encounters"}
      BY <1>4 DEF Ends, WholeEnv
    <3> QED
      BY <1>4, <2>2, <3>1, WrittenEnds
  <2> QED
    BY <2>1, <2>3
<1> QED
  BY <1>2, <1>3, <1>4

LEMMA EncountersInv == ASSUME RebuildConstants, IInv, Encounters PROVE IInv'
<1>1. WholeEnv(env) /\ Fields(env) /\ Settled(env) /\ env.active > 0 /\ env.pc = "encounters"
  BY DEF Encounters, IInv
<1>2. \A cast : SeatsAre(BuildOwner(cast)) /\ SeatsAre(NoOwner(cast))
  BY <1>1, OwnerOnly
<1>3. Ends(env')
  <2>1. \A after \in {Built, NotBuilt} :
           Ends(after) /\ \A slots, cast : SeatsAre(slots) => Ends([after EXCEPT !.slots = slots, !.cast = cast])
    BY <1>1, EitherEnds
  <2>2. \A after \in {Built, NotBuilt} : \A cast : Ends([after EXCEPT !.slots = BuildOwner(cast), !.cast = cast])
    BY <1>2, <2>1
  <2>3. \A cast : Ends([NotBuilt EXCEPT !.slots = NoOwner(cast), !.cast = FALSE])
    BY <1>2, <2>1
  <2>4. CASE env' = NotBuilt \/ env' = Built
    BY <2>1, <2>4
  <2>5. CASE \E cast : \E after \in {Built, NotBuilt} : env' = [after EXCEPT !.slots = BuildOwner(cast), !.cast = cast]
    BY <2>2, <2>5
  <2>6. CASE \E cast : env' = [NotBuilt EXCEPT !.slots = NoOwner(cast), !.cast = FALSE]
    BY <2>3, <2>6
  <2> QED
    BY <2>4, <2>5, <2>6 DEF Encounters
<1>4. Fields(env')
  BY <1>1, <1>3 DEF Ends, SeatsAre, Fields
<1>5. Settled(env')
  BY <1>1, <1>3 DEF Ends, SeatsAre, Settled
<1> QED
  BY <1>1, <1>3, <1>4, <1>5 DEF Ends, IInv

-----------------------------------------------------------------------------

\* One bot in a slot at rest is the only one it has.
LEMMA OnlyBot ==
    ASSUME NEW s, NEW bot, Rests(env.slots[s], bot)
    PROVE  IF bot = NoBot THEN Held(s) = {} ELSE Cardinality(Held(s)) = 1 /\ env.slots[s].active \in Held(s)
<1>1. Held(s) = IF bot = NoBot THEN {} ELSE {env.slots[s].active}
  BY RestsAre DEF Held
<1>2. Cardinality({env.slots[s].active}) = 1
  BY FS_Singleton
<1> QED
  BY <1>1, <1>2

LEMMA SeatsMatch == RebuildConstants /\ IInv => SeatsMatchBots
<1> SUFFICES ASSUME RebuildConstants, IInv, env.pc = "idle", NEW s \in Seats
             PROVE  IF s < env.active
                    THEN /\ Cardinality(Held(s)) = 1 /\ Bot(s) # NoBot
                         /\ Bot(s).of = [pair |-> env.seats[s].pair, level |-> env.seats[s].level]
                         /\ \A other \in 0 .. env.active - 1 : env.seats[other].level = env.seats[s].level
                    ELSE Held(s) = {}
  BY DEF SeatsMatchBots
<1>1. Fields(env) /\ Settled(env)
  BY DEF IInv
<1>2. CASE s < env.active
  <2>1. PICK bot : bot = BotOf(env.seats[s], env.instance)
    OBVIOUS
  <2>2. Rests(env.slots[s], bot)
    BY <1>1, <1>2, <2>1 DEF Settled
  <2>3. bot # NoBot /\ bot.of = [pair |-> env.seats[s].pair, level |-> env.seats[s].level]
    BY <1>1, <1>2, <2>1, RealBot DEF Settled, Playing, Fields, BotOf
  <2>4. Bot(s) = bot /\ Cardinality(Held(s)) = 1
    BY <2>2, <2>3, RestsAre, OnlyBot DEF Bot
  <2>5. \A other \in 0 .. env.active - 1 : env.seats[other].level = env.seats[s].level
    <3>1. \A other \in 0 .. env.active - 1 : other \in Seats /\ other < env.active
      BY <1>1 DEF Fields, Seats, RebuildConstants
    <3> QED
      BY <1>1, <1>2, <3>1 DEF Settled, Playing
  <2> QED
    BY <1>2, <2>3, <2>4, <2>5
<1>3. CASE ~(s < env.active)
  BY <1>1, <1>3, OnlyBot DEF Settled
<1> QED
  BY <1>2, <1>3

\* Who keeps the instance: the first seat, with the bot it has or the next one.
LEMMA InstanceIsKept == RebuildConstants /\ IInv => InstanceNeverEmpty
<1> DEFINE at == IF env.pc = "seats" THEN env.work.into ELSE env.instance
           slot == env.slots[0]
<1> SUFFICES ASSUME RebuildConstants, IInv, env.active > 0, env.pc = "seats" /\ env.work.seat = 0 => env.work.into = env.instance
             PROVE  \E x \in Sessions : slot.bots[x] # NoBot /\ slot.bots[x].at = at
  BY FirstSeat DEF InstanceNeverEmpty, Held
<1>0. 0 \in Seats
  BY FirstSeat
<1>1. /\ 0 \in Seats /\ Fields(env) /\ env.seats[0].level \in Nat /\ env.work.seats[0].level \in Nat /\ env.work.level \in Nat
      /\ env.instance \in 0 .. 1 /\ env.work.into \in 0 .. 1
  BY <1>0 DEF IInv, Fields, WholeSeats
<1>2. \A bot : WholeSlot(slot) /\ (Has(slot, bot, NoBot) \/ \E other : Has(slot, other, bot)) => \E x \in Sessions : slot.bots[x] = bot
  BY OtherSession DEF WholeSlot, Has
<1>3. SUFFICES \E bot : /\ WholeSlot(slot) /\ (Has(slot, bot, NoBot) \/ \E other : Has(slot, other, bot))
                        /\ bot # NoBot /\ bot.at = at
  BY <1>2
<1>4. CASE env.pc \in {"idle", "encounters"}
  <2>1. PICK bot : bot = BotOf(env.seats[0], env.instance)
    OBVIOUS
  <2>2. Rests(slot, bot) /\ env.seats[0].pair \in Pairs
    BY <1>1, <1>4, <2>1 DEF IInv, Settled, Playing
  <2>3. bot # NoBot /\ bot.at = at
    BY <1>1, <1>4, <2>1, <2>2, RealBot DEF BotOf
  <2> HIDE DEF slot, at
  <2> QED
    BY <2>2, <2>3 DEF Rests
<1>5. \A seat : seat.pair \in Pairs /\ seat.level \in Nat => \A i \in 0 .. 1 : BotOf(seat, i) # NoBot /\ BotOf(seat, i).at = i
  BY RealBot DEF BotOf
<1>6. env.seats[0].pair \in Pairs => Becomes(env, 0) # NoBot /\ Becomes(env, 0).at = env.work.into
  BY <1>1 DEF RebuildConstants, Becomes
<1>7. CASE env.pc = "seats"
  <2>1. Building(env) /\ env.seats[0].pair \in Pairs
    BY <1>1, <1>7 DEF IInv, Building, WhichBots
  <2>2. 0 < env.work.active => Was(env.work, 0, env.instance) # NoBot /\ Was(env.work, 0, env.instance).at = env.instance
    BY <1>1, <1>5, <2>1 DEF Was, Building, WhichBots, Playing
  <2>3. CASE env.work.seat = 0
    <3>1. 0 < env.work.active /\ at = env.instance
      BY <1>1, <1>7, <2>1, <2>3 DEF Building, WhichBots, Fields
    <3>2. Begun(slot, Was(env.work, 0, env.instance))
      BY <1>1, <2>1, <2>3 DEF Building, SeatBegun
    <3> HIDE DEF slot, at
    <3> QED
      BY <2>2, <3>1, <3>2 DEF Begun
  <2>4. CASE env.work.seat # 0
    <3>1. SeatBuilt(env, 0)
      BY <1>1, <2>1, <2>4 DEF Building, WhichBots, Fields
    <3>2. CASE 0 \in env.work.reuse
      <4>1. 0 < env.work.active /\ at = env.instance
        BY <1>7, <2>1, <3>2 DEF Building, WhichBots
      <4>2. Rests(slot, Was(env.work, 0, env.instance))
        BY <3>1, <3>2 DEF SeatBuilt
      <4> HIDE DEF slot, at
      <4> QED
        BY <2>2, <4>1, <4>2 DEF Rests
    <3>3. CASE 0 \notin env.work.reuse
      <4>1. Made(slot, Was(env.work, 0, env.instance), Becomes(env, 0)) /\ at = env.work.into
        BY <1>7, <3>1, <3>3 DEF SeatBuilt
      <4> HIDE DEF slot, at
      <4> QED
        BY <1>6, <2>1, <4>1 DEF Made
    <3> QED
      BY <3>2, <3>3
  <2> QED
    BY <2>3, <2>4
<1>8. CASE env.pc = "promote"
  <2>1. Leaving(env, env.work.seat) /\ 0 < env.work.seat /\ at = env.work.into
    BY <1>8 DEF IInv
  <2>2. Rests(slot, Becomes(env, 0)) /\ env.seats[0].pair \in Pairs
    BY <1>1, <2>1 DEF Leaving, SeatLeft
  <2> HIDE DEF slot, at
  <2> QED
    BY <1>6, <2>1, <2>2 DEF Rests
<1> QED
  BY <1>1, <1>4, <1>7, <1>8 DEF Fields

-----------------------------------------------------------------------------
(* The types of what a seat keeps.  A character that is kept is one that has *)
(* not been kept too often, and still is when its turn comes.                *)

SeatTyped(seat) == /\ seat.pair \in Pairs \union {NoBot} /\ seat.level \in 0 .. MaxLevel
                   /\ seat.apt \in Character \union {NoBot} /\ seat.played \in 0 .. ReuseEpisodes
Typed(e) ==
    /\ e.work.level \in 1 .. MaxLevel
    /\ \A s \in Seats : SeatTyped(e.seats[s]) /\ SeatTyped(e.work.seats[s])
    /\ e.pc = "seats" => \A s \in e.work.reuse : s >= e.work.seat => e.seats[s].played < ReuseEpisodes

LEMMA EmptyIsTyped == RebuildConstants => SeatTyped(EmptySeat) /\ NoWork.level \in 1 .. MaxLevel /\ \A s \in Seats : SeatTyped(NoWork.seats[s])
BY DEF RebuildConstants, SeatTyped, EmptySeat, NoWork

LEMMA InitTyped == RebuildConstants /\ Init => Typed(env)
<1> SUFFICES ASSUME RebuildConstants, Init PROVE Typed(env)
  OBVIOUS
<1>1. env.pc = "idle" /\ env.seats = [s \in Seats |-> EmptySeat] /\ env.work = NoWork
  BY DEF Init
<1> QED
  BY <1>1, EmptyIsTyped DEF Typed

LEMMA KeptTyped ==
    ASSUME RebuildConstants, Typed(env), NEW ready \in SUBSET Seats, NEW pairs, NEW arena, NEW min,
           NEW kept \in Kept(ready, pairs, arena, min)
    PROVE  kept.level \in 0 .. MaxLevel /\ \A s \in kept.reuse : env.seats[s].played < ReuseEpisodes
<1> DEFINE fit == {s \in ready : Fits(s, pairs, arena, min)}
<1>1. CASE fit = {}
  <2>1. kept = [reuse |-> {}, level |-> 0]
    BY <1>1 DEF Kept
  <2>2. kept.reuse = {} /\ kept.level = 0
    BY <2>1
  <2> QED
    BY <2>2 DEF RebuildConstants
<1>2. CASE fit # {}
  <2>1. PICK s \in fit : kept = [reuse |-> {r \in fit : env.seats[r].level = env.seats[s].level}, level |-> env.seats[s].level]
    BY <1>2 DEF Kept
  <2>2. kept.reuse = {r \in fit : env.seats[r].level = env.seats[s].level} /\ kept.level = env.seats[s].level
    BY <2>1
  <2>3. kept.level \in 0 .. MaxLevel
    BY <2>2 DEF Typed, SeatTyped
  <2> QED
    BY <2>2, <2>3 DEF Fits
<1> QED
  BY <1>1, <1>2

LEMMA BandEnds ==
    ASSUME NEW max \in Nat, NEW n \in Nat \ {0}, NEW band \in 0 .. n - 1
    PROVE  max \div n \in Nat /\ (band + 1) * (max \div n) <= max
<1>1. PICK width : width = max \div n
  OBVIOUS
<1>2. width \in Nat /\ n * width <= max
  BY <1>1
<1>3. (band + 1) * width <= n * width
  BY <1>2
<1>4. (band + 1) * width \in Nat /\ n * width \in Nat
  BY <1>2
<1> QED
  BY <1>1, <1>2, <1>3, <1>4

LEMMA LevelTyped ==
    ASSUME RebuildConstants, NEW arena \in Arenas, NEW kept, kept.level \in 0 .. MaxLevel, NEW min \in 1 .. MaxLevel,
           NEW seed \in {-1} \union 0 .. Bands - 1, NEW level \in Levels(arena, kept, min, seed)
    PROVE  level \in 1 .. MaxLevel
<1>1. arena.level \in 0 .. MaxLevel /\ MaxLevel \in Nat \ {0}
  BY DEF RebuildConstants
<1>2. CASE arena.level > 0
  BY <1>1, <1>2 DEF Levels, Larger
<1>3. CASE ~(arena.level > 0) /\ kept.level > 0
  BY <1>1, <1>3 DEF Levels
<1>4. CASE ~(arena.level > 0) /\ ~(kept.level > 0)
  <2>1. level \in Drawn(min, seed)
    BY <1>4 DEF Levels
  <2> DEFINE width == MaxLevel \div Bands
             band == seed % Bands
  <2>2. CASE seed < 0 \/ (band + 1) * width < min
    BY <1>1, <2>1, <2>2 DEF Drawn
  <2>3. CASE ~(seed < 0 \/ (band + 1) * width < min)
    <3>1. level \in Larger(min, band * width + 1) .. (band + 1) * width
      BY <2>1, <2>3 DEF Drawn
    <3>2. Bands \in Nat \ {0} /\ band \in 0 .. Bands - 1
      BY DEF RebuildConstants
    <3>3. width \in Nat /\ (band + 1) * width <= MaxLevel
      BY <1>1, <3>2, BandEnds
    <3>4. band * width + 1 \in Int /\ (band + 1) * width \in Int
      BY <3>2, <3>3
    <3> HIDE DEF width, band
    <3>5. Larger(min, band * width + 1) \in Int /\ Larger(min, band * width + 1) >= min
      BY <3>4 DEF Larger
    <3> QED
      BY <1>1, <3>1, <3>3, <3>4, <3>5
  <2> QED
    BY <2>2, <2>3
<1> QED
  BY <1>2, <1>3, <1>4

LEMMA DrawTyped == ASSUME RebuildConstants, IInv, Typed(env), Draw PROVE Typed(env')
<1>1. PICK arena \in Arenas, evaluating \in BOOLEAN :
        \E n \in (IF arena.party THEN 1 .. MaxSeats ELSE {arena.seats}) :
        \E pairs \in Seatings(arena, n) : \E min \in LowestLevels(pairs, n) :
        \E ready \in SUBSET {s \in Seats : s < n /\ s < env.active} :
        \E kept \in Kept(IF MayReuse(arena, evaluating) THEN ready ELSE {}, pairs, arena, min) :
        \E seed \in (IF evaluating THEN 0 .. Bands - 1 ELSE {-1}) : \E level \in Levels(arena, kept, min, seed) :
           env' = Begins(arena, evaluating, n, pairs, kept, level)
  BY DEF Draw
<1>2. PICK n \in (IF arena.party THEN 1 .. MaxSeats ELSE {arena.seats}) :
        \E pairs \in Seatings(arena, n) : \E min \in LowestLevels(pairs, n) :
        \E ready \in SUBSET {s \in Seats : s < n /\ s < env.active} :
        \E kept \in Kept(IF MayReuse(arena, evaluating) THEN ready ELSE {}, pairs, arena, min) :
        \E seed \in (IF evaluating THEN 0 .. Bands - 1 ELSE {-1}) : \E level \in Levels(arena, kept, min, seed) :
           env' = Begins(arena, evaluating, n, pairs, kept, level)
  BY <1>1
<1>3. PICK pairs \in Seatings(arena, n), ready \in SUBSET {s \in Seats : s < n /\ s < env.active} :
        \E min \in LowestLevels(pairs, n) :
        \E kept \in Kept(IF MayReuse(arena, evaluating) THEN ready ELSE {}, pairs, arena, min) :
        \E seed \in (IF evaluating THEN 0 .. Bands - 1 ELSE {-1}) : \E level \in Levels(arena, kept, min, seed) :
           env' = Begins(arena, evaluating, n, pairs, kept, level)
  BY <1>2
<1>4. PICK min \in LowestLevels(pairs, n) :
        \E kept \in Kept(IF MayReuse(arena, evaluating) THEN ready ELSE {}, pairs, arena, min) :
        \E seed \in (IF evaluating THEN 0 .. Bands - 1 ELSE {-1}) : \E level \in Levels(arena, kept, min, seed) :
           env' = Begins(arena, evaluating, n, pairs, kept, level)
  BY <1>3
<1>5. PICK kept \in Kept(IF MayReuse(arena, evaluating) THEN ready ELSE {}, pairs, arena, min),
           seed \in (IF evaluating THEN 0 .. Bands - 1 ELSE {-1}) : \E level \in Levels(arena, kept, min, seed) :
           env' = Begins(arena, evaluating, n, pairs, kept, level)
  BY <1>4
<1>6. PICK level \in Levels(arena, kept, min, seed) : env' = Begins(arena, evaluating, n, pairs, kept, level)
  BY <1>5
<1> DEFINE seats == [s \in Seats |-> [env.seats[s] EXCEPT !.pair = pairs[s]]]
<1>7. WholeEnv(env) /\ WholeSeats(env.seats)
  BY DEF IInv, Fields
<1>8. /\ env'.seats = seats /\ env'.work.level = level /\ env'.work.reuse = kept.reuse /\ env'.work.seats = env.seats
  BY <1>6, <1>7 DEF WholeEnv, Begins
<1>9. (IF MayReuse(arena, evaluating) THEN ready ELSE {}) \in SUBSET Seats
  OBVIOUS
<1>10. /\ kept.level \in 0 .. MaxLevel /\ kept.reuse \subseteq Seats
       /\ \A s \in kept.reuse : env.seats[s].played < ReuseEpisodes
  BY <1>9, KeptTyped, KeptFits
<1>11. level \in 1 .. MaxLevel
  <2>1. min \in 1 .. MaxLevel
    BY DEF LowestLevels
  <2>2. seed \in {-1} \union 0 .. Bands - 1
    OBVIOUS
  <2> QED
    BY <1>10, <2>1, <2>2, LevelTyped
<1>12. ASSUME NEW s \in Seats PROVE SeatTyped(seats[s]) /\ seats[s].played = env.seats[s].played
  <2>1. PICK r : r = env.seats[s]
    OBVIOUS
  <2>2. r = [pair |-> r.pair, level |-> r.level, apt |-> r.apt, played |-> r.played] /\ SeatTyped(r)
    BY <1>7, <2>1 DEF WholeSeats, Typed
  <2>3. seats[s] = [pair |-> pairs[s], level |-> r.level, apt |-> r.apt, played |-> r.played]
    BY <2>1, <2>2
  <2>4. pairs[s] \in Pairs \union {NoBot}
    BY DEF Seatings
  <2> HIDE DEF seats
  <2> QED
    BY <2>1, <2>2, <2>3, <2>4 DEF SeatTyped
<1> HIDE DEF seats
<1> QED
  BY <1>8, <1>10, <1>11, <1>12 DEF Typed

LEMMA BuildNextTyped == ASSUME RebuildConstants, IInv, Typed(env), BuildNext PROVE Typed(env')
<1>1. PICK s : s = env.work.seat
  OBVIOUS
<1>2. /\ WholeEnv(env) /\ WholeSeats(env.seats) /\ Building(env) /\ env.pc = "seats" /\ s < env.active
      /\ s \in Seats /\ s \in Nat /\ env.work.reuse \subseteq Seats
  BY <1>1 DEF BuildNext, IInv, Building, Fields, Seats, RebuildConstants
<1>3. PICK old : old = env.seats[s]
  OBVIOUS
<1>4. SeatTyped(old) /\ old = [pair |-> old.pair, level |-> old.level, apt |-> old.apt, played |-> old.played]
  BY <1>2, <1>3 DEF WholeSeats, Typed
<1>5. PICK seat : seat = IF s \in env.work.reuse THEN [old EXCEPT !.played = old.played + 1]
                         ELSE [old EXCEPT !.level = env.work.level, !.apt = Configured(s), !.played = 0]
  OBVIOUS
<1>6. /\ env'.seats = [env.seats EXCEPT ![s] = seat] /\ env'.work = [env.work EXCEPT !.seat = s + 1]
  BY <1>1, <1>2, <1>3, <1>5 DEF BuildNext, ReuseSeat, BuildSeat, WholeEnv
<1>7. SeatTyped(seat)
  <2>1. CASE s \in env.work.reuse
    <3>1. seat = [pair |-> old.pair, level |-> old.level, apt |-> old.apt, played |-> old.played + 1]
      BY <1>4, <1>5, <2>1
    <3>2. old.played < ReuseEpisodes
      BY <1>1, <1>2, <1>3, <2>1 DEF Typed
    <3>3. old.played + 1 \in 0 .. ReuseEpisodes
      BY <1>4, <3>2 DEF SeatTyped, RebuildConstants
    <3> QED
      BY <1>4, <3>1, <3>3 DEF SeatTyped
  <2>2. CASE s \notin env.work.reuse
    <3>1. seat = [pair |-> old.pair, level |-> env.work.level, apt |-> Configured(s), played |-> 0]
      BY <1>4, <1>5, <2>2
    <3>2. Configured(s) \in Character
      BY <1>2 DEF Configured, Character, Building, WhichBots, Typed
    <3>3. env.work.level \in 0 .. MaxLevel /\ 0 \in 0 .. ReuseEpisodes
      BY DEF Typed, RebuildConstants
    <3> QED
      BY <1>4, <3>1, <3>2, <3>3 DEF SeatTyped
  <2> QED
    BY <2>1, <2>2
<1>8. \A t \in Seats : env'.seats[t] = IF t = s THEN seat ELSE env.seats[t]
  BY <1>2, <1>6 DEF WholeSeats
<1>9. env'.work.level = env.work.level /\ env'.work.reuse = env.work.reuse /\ env'.work.seats = env.work.seats /\ env'.work.seat = s + 1
  BY <1>2, <1>6 DEF WholeEnv
<1>10. ASSUME NEW t \in env.work.reuse, t >= s + 1 PROVE env'.seats[t].played < ReuseEpisodes
  <2>1. t \in Seats /\ t # s /\ t >= env.work.seat
    BY <1>1, <1>2, <1>10 DEF Seats
  <2> QED
    BY <1>2, <1>8, <2>1 DEF Typed
<1> QED
  BY <1>7, <1>8, <1>9, <1>10 DEF Typed

LEMMA SeatFailsTyped == ASSUME RebuildConstants, IInv, Typed(env), SeatFails PROVE Typed(env')
<1>1. WholeEnv(env) /\ WholeSeats(env.seats)
  BY DEF IInv, Fields
<1>2. env'.pc = "idle" /\ env'.work = NoWork /\ env'.seats = [s \in Seats |-> Restored(s)]
  BY <1>1 DEF SeatFails, WholeEnv
<1>3. ASSUME NEW s \in Seats PROVE SeatTyped(env'.seats[s])
  <2>1. PICK old : old = env.seats[s]
    OBVIOUS
  <2>2. /\ old = [pair |-> old.pair, level |-> old.level, apt |-> old.apt, played |-> old.played]
        /\ SeatTyped(old) /\ SeatTyped(env.work.seats[s])
    BY <1>1, <2>1 DEF WholeSeats, Typed
  <2>3. PICK r : r = [old EXCEPT !.pair = env.work.seats[s].pair, !.level = env.work.seats[s].level]
    OBVIOUS
  <2>4. r = [pair |-> env.work.seats[s].pair, level |-> env.work.seats[s].level, apt |-> old.apt, played |-> old.played]
    BY <2>2, <2>3
  <2>5. env'.seats[s] = r
    BY <1>2, <2>1, <2>3 DEF Restored
  <2> QED
    BY <2>2, <2>4, <2>5 DEF SeatTyped
<1> QED
  BY <1>2, <1>3, EmptyIsTyped DEF Typed

LEMMA PromoteSeatTyped == ASSUME RebuildConstants, IInv, Typed(env), PromoteSeat PROVE Typed(env')
<1>1. WholeEnv(env) /\ WholeSeats(env.seats)
  BY DEF IInv, Fields
<1>2. PICK k : k = IF env.pc = "seats" THEN 0 ELSE env.work.seat
  OBVIOUS
<1>3. /\ env'.pc = (IF k + 1 = MaxSeats THEN "encounters" ELSE "promote")
      /\ env'.seats = [env.seats EXCEPT ![k] = IF k < env.active THEN env.seats[k] ELSE EmptySeat]
      /\ env'.work = [env.work EXCEPT !.seat = k + 1]
  BY <1>1, <1>2 DEF PromoteSeat, WholeEnv
<1>4. env'.work.level = env.work.level /\ env'.work.seats = env.work.seats
  BY <1>1, <1>3 DEF WholeEnv
<1>5. \A s \in Seats : env'.seats[s] \in {env.seats[s], EmptySeat}
  BY <1>1, <1>3 DEF WholeSeats
<1> QED
  BY <1>3, <1>4, <1>5, EmptyIsTyped DEF Typed

LEMMA EncountersTyped == ASSUME RebuildConstants, IInv, Typed(env), Encounters PROVE Typed(env')
<1>1. WholeEnv(env) /\ env.pc = "encounters"
  BY DEF Encounters, IInv
<1>2. \A after \in {Built, NotBuilt} :
        /\ after.pc # "seats" /\ after.seats = env.seats /\ after.work.level \in {env.work.level, NoWork.level}
        /\ after.work.seats \in {env.work.seats, NoWork.seats}
        /\ DOMAIN after = DOMAIN env
  BY <1>1 DEF Built, NotBuilt, WholeEnv
<1>3. \E after \in {Built, NotBuilt} : env'.pc = after.pc /\ env'.seats = after.seats /\ env'.work = after.work
  BY <1>1 DEF Encounters, Built, NotBuilt, WholeEnv
<1> QED
  BY <1>2, <1>3, EmptyIsTyped DEF Typed

LEMMA TypesHold == ASSUME RebuildConstants, IInv, Typed(env) PROVE TypeOK
<1>1. env.active \in 0 .. MaxSeats /\ env.work.level \in 1 .. MaxLevel /\ WholeSeats(env.seats)
  BY DEF IInv, Fields, Typed
<1>2. ASSUME NEW s \in Seats PROVE env.seats[s] \in Seat
  <2>1. PICK r : r = env.seats[s]
    OBVIOUS
  <2>2. r = [pair |-> r.pair, level |-> r.level, apt |-> r.apt, played |-> r.played] /\ SeatTyped(r)
    BY <1>1, <2>1 DEF WholeSeats, Typed
  <2>3. r \in Seat
    BY <2>2 DEF SeatTyped, Seat
  <2> QED
    BY <2>1, <2>3
<1>3. env.seats = [s \in Seats |-> env.seats[s]]
  BY <1>1 DEF WholeSeats
<1> QED
  BY <1>1, <1>2, <1>3 DEF TypeOK

LEMMA NextInv == ASSUME RebuildConstants, IInv, Typed(env), [Next]_vars PROVE IInv' /\ Typed(env)'
<1>1. CASE Next
  BY <1>1, DrawInv, BuildNextInv, SeatFailsInv, PromoteSeatInv, EncountersInv,
     DrawTyped, BuildNextTyped, SeatFailsTyped, PromoteSeatTyped, EncountersTyped DEF Next
<1>2. CASE UNCHANGED vars
  BY <1>2 DEF vars, IInv
<1> QED
  BY <1>1, <1>2

\* StageScenario::Rebuild and BotSlot: whatever a rebuild could not create,
\* place or build, and in whichever step, the seats in play end it each with
\* the one bot the seat says it has, at one level, and at no step of it does
\* the instance the next episode is played in lose its last player.
THEOREM RebuildKeepsItsBots == ASSUME RebuildConstants PROVE Spec => [](TypeOK /\ SeatsMatchBots /\ InstanceNeverEmpty)
<1>1. Init => IInv /\ Typed(env)
  BY InitInv, InitTyped
<1>2. IInv /\ Typed(env) /\ [Next]_vars => (IInv /\ Typed(env))'
  BY NextInv
<1>3. IInv /\ Typed(env) => TypeOK /\ SeatsMatchBots /\ InstanceNeverEmpty
  BY TypesHold, SeatsMatch, InstanceIsKept
<1> QED
  BY <1>1, <1>2, <1>3, PTL DEF Spec

-----------------------------------------------------------------------------
(* The accounts of all of them.                                             *)

\* BotAccounts: "every bot needs an account id of its own, and they must never
\* collide".  Two bots of one kind, in any envs the forge runs: MAX_ENVS is what
\* keeps the seats' range below the owners'.
THEOREM OfOneKind ==
    \A e, f \in Envs, r, s \in Sessions :
       /\ \A i, j \in SeatIndexes : SeatAccount(e, i, r) = SeatAccount(f, j, s) => <<e, i, r>> = <<f, j, s>>
       /\ \A i, j \in Ambushers : AmbusherAccount(e, i, r) = AmbusherAccount(f, j, s) => <<e, i, r>> = <<f, j, s>>
       /\ OwnerAccount(e, r) = OwnerAccount(f, s) => <<e, r>> = <<f, s>>
       /\ OpponentAccount(e, r) = OpponentAccount(f, s) => <<e, r>> = <<f, s>>
BY DEF Envs, SeatIndexes, Ambushers, Sessions, MaxEnvs, SeatAccount, OwnerAccount, OpponentAccount, AmbusherAccount,
       SessionsPerBot, SeatsPerEnv, AmbushersPerEnv, OwnerOffset, OpponentOffset, AmbusherOffset

\* ... and of two kinds: the ranges follow one another.
THEOREM OfTwoKinds ==
    \A e, f \in Envs, r, s \in Sessions, i \in SeatIndexes, j \in Ambushers, race \in Nat :
       /\ ProbeAccount(race) < SeatAccount(e, i, r)
       /\ SeatAccount(e, i, r) < OwnerAccount(f, s)
       /\ OwnerAccount(e, r) < OpponentAccount(f, s)
       /\ OpponentAccount(e, r) < AmbusherAccount(f, j, s)
BY DEF Envs, SeatIndexes, Ambushers, Sessions, MaxEnvs, SeatAccount, OwnerAccount, OpponentAccount, AmbusherAccount, ProbeAccount,
       SessionsPerBot, SeatsPerEnv, AmbushersPerEnv, OwnerOffset, OpponentOffset, AmbusherOffset
=============================================================================
