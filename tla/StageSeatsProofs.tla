-------------------------- MODULE StageSeatsProofs --------------------------
(***************************************************************************)
(* Proofs about what a stage scenario keeps for its seats: the offers they *)
(* answer, the presses held back and charged, their breath, their shields, *)
(* the casts they watch, their pay, and how they hide.  Each part keeps an *)
(* invariant of its own, for any values its constants may have, and what   *)
(* StageSeats says of these parts follows.                                 *)
(***************************************************************************)
EXTENDS StageSeats, Sequences, FiniteSets, FiniteSetTheorems, FunctionTheorems, TLAPS

-----------------------------------------------------------------------------
(* Breath: SeatWater.  Neither of its invariants is inductive: a seat that  *)
(* drowned may stand up and dive again, with its head under and no dive     *)
(* open, so that the breaths are counted against the dives by where its     *)
(* head is.                                                                 *)

WetState == [since : Nat, spent : Nat, breaths : Nat, submerged : Nat, drowned : BOOLEAN]

\* The state of an env and the world's account of it.
SwimmerTyped == env \in [clock : Nat, episode : Nat, alive : BOOLEAN, water : WetState,
                        under : BOOLEAN, dives : Nat, ups : Nat, below : Nat, hurt : BOOLEAN, last : Nat]

Used == /\ env.last <= env.water.spent /\ env.water.spent <= env.below
        /\ env.water.submerged = env.below
        /\ env.water.drowned => env.below >= Setup.water.Breath

Dived == /\ env.water.breaths + (IF env.under THEN 1 ELSE 0) <= env.dives
         /\ env.water.since > 0 => env.under
         /\ ~env.water.drowned => /\ env.under => env.water.since > 0
                                  /\ env.water.breaths + (IF env.under THEN 1 ELSE 0) = env.dives

WaterInv == SwimmerTyped /\ Used /\ Dived

\* Of a step: the state after it is a whole record, of fields of their kinds.
WholeSwimmer(e) == e = [clock |-> e.clock, episode |-> e.episode, alive |-> e.alive, water |-> e.water, under |-> e.under,
                        dives |-> e.dives, ups |-> e.ups, below |-> e.below, hurt |-> e.hurt, last |-> e.last]
SwimmerFields(e) == /\ e.clock \in Nat /\ e.episode \in Nat /\ e.alive \in BOOLEAN /\ e.water \in WetState /\ e.under \in BOOLEAN
                    /\ e.dives \in Nat /\ e.ups \in Nat /\ e.below \in Nat /\ e.hurt \in BOOLEAN /\ e.last \in Nat

LEMMA SwimmerIsTyped == ASSUME WholeSwimmer(env'), SwimmerFields(env') PROVE SwimmerTyped'
BY DEF SwimmerTyped, WholeSwimmer, SwimmerFields

LEMMA WaterStarts == Setup.water.Breath \in Nat /\ Water!Init => WaterInv
BY DEF Water!Init, Water!NoWater, WaterInv, SwimmerTyped, WetState, Used, Dived

LEMMA SwimKeeps == ASSUME Setup.water.Breath \in Nat, WaterInv, NEW under \in BOOLEAN, NEW breathes \in BOOLEAN, Water!Swim(under, breathes) PROVE WaterInv'
<1> DEFINE w == env'.water
<1>1. env.water \in WetState /\ env.clock \in Nat
  BY DEF WaterInv, SwimmerTyped
<1>2. /\ w = IF under THEN Water!Submerged(env.water, breathes) ELSE Water!Surfaced(env.water)
      /\ env'.under = under /\ env'.clock = env.clock + 1
      /\ env'.dives = (IF under /\ ~env.under THEN env.dives + 1 ELSE env.dives)
      /\ env'.below = (IF under THEN env.below + 1 ELSE env.below)
      /\ env'.last = (IF ~under \/ breathes THEN 0 ELSE env.last + 1)
      /\ env'.episode = env.episode /\ env'.alive = env.alive /\ env'.hurt = env.hurt
      /\ env'.ups = (IF ~under /\ env.under THEN env.ups + 1 ELSE env.ups)
  BY Zenon DEF WaterInv, SwimmerTyped, Water!Swim
<1>3. WholeSwimmer(env')
  BY DEF WaterInv, SwimmerTyped, Water!Swim, WholeSwimmer
<1>4. CASE under
  <2>1. w = Water!Submerged(env.water, breathes)
    BY <1>2, <1>4
  <2>2. /\ w.since = (IF env.water.since = 0 THEN Water!Larger(1, env.clock) ELSE env.water.since)
        /\ w.breaths = env.water.breaths /\ w.submerged = env.water.submerged + 1
        /\ w.spent = (IF breathes THEN 0 ELSE env.water.spent + 1) /\ w.drowned = env.water.drowned
    BY <1>1, <2>1 DEF WetState, Water!Submerged
  <2>3. w = [since |-> w.since, spent |-> w.spent, breaths |-> w.breaths, submerged |-> w.submerged, drowned |-> w.drowned]
    BY <1>1, <2>1, Zenon DEF WetState, Water!Submerged
  <2>4. w.since \in Nat /\ w.since > 0
    BY <1>1, <2>2 DEF WetState, Water!Larger
  <2>5. w \in WetState
    BY <1>1, <2>2, <2>3, <2>4 DEF WetState
  <2>6. SwimmerFields(env')
    BY <1>1, <1>2, <2>5 DEF WaterInv, SwimmerTyped, SwimmerFields
  <2>7. SwimmerTyped'
    BY <1>3, <2>6, SwimmerIsTyped
  <2> QED
    BY <1>2, <1>4, <2>2, <2>4, <2>7 DEF WaterInv, SwimmerTyped, WetState, Used, Dived
<1>5. CASE ~under
  <2>1. w = Water!Surfaced(env.water)
    BY <1>2, <1>5
  <2>2. /\ w.since = 0 /\ w.submerged = env.water.submerged /\ w.drowned = env.water.drowned
        /\ w.spent = env.water.spent - Water!Smaller(env.water.spent, Water!Recovery)
        /\ w.breaths = (IF env.water.since > 0 THEN env.water.breaths + 1 ELSE env.water.breaths)
    BY <1>1, <2>1 DEF WetState, Water!Surfaced
  <2>3. w = [since |-> w.since, spent |-> w.spent, breaths |-> w.breaths, submerged |-> w.submerged, drowned |-> w.drowned]
    BY <1>1, <2>1 DEF WetState, Water!Surfaced
  <2>4. w.spent \in Nat /\ w.spent <= env.water.spent
    BY <1>1, <2>2 DEF WetState, Water!Smaller, Water!Recovery
  <2>5. w \in WetState
    BY <1>1, <2>2, <2>3, <2>4 DEF WetState
  <2>6. SwimmerFields(env')
    BY <1>1, <1>2, <2>5 DEF WaterInv, SwimmerTyped, SwimmerFields
  <2>7. SwimmerTyped'
    BY <1>3, <2>6, SwimmerIsTyped
  <2> QED
    BY <1>2, <1>5, <2>2, <2>4, <2>7 DEF WaterInv, SwimmerTyped, WetState, Used, Dived
<1> QED
  BY <1>4, <1>5

LEMMA Drowned == ASSUME NEW wet \in WetState, NEW w, w = [wet EXCEPT !.drowned = TRUE, !.since = 0]
                 PROVE  /\ w \in WetState /\ w.since = 0 /\ w.spent = wet.spent /\ w.breaths = wet.breaths
                        /\ w.submerged = wet.submerged /\ w.drowned
BY DEF WetState

\* A death takes its breath and its dive as they are.
LEMMA DeathKeeps == ASSUME Setup.water.Breath \in Nat, WaterInv, NEW hurt \in BOOLEAN, hurt => env.last >= Setup.water.Breath, NEW hurts \in BOOLEAN,
                        env' = [env EXCEPT !.clock = @ + 1, !.alive = FALSE, !.water = Water!Dead(@, hurt), !.hurt = hurts]
                 PROVE  WaterInv'
<1> DEFINE w == env'.water
<1>1. env.water \in WetState /\ env.clock \in Nat
  BY DEF WaterInv, SwimmerTyped
<1>2. w = Water!Dead(env.water, hurt)
  BY DEF WaterInv, SwimmerTyped
<1>3. /\ w \in WetState /\ w.spent = env.water.spent /\ w.breaths = env.water.breaths /\ w.submerged = env.water.submerged
      /\ w.since \in {0, env.water.since}
      /\ w.drowned => env.water.drowned \/ hurt \/ env.water.spent >= Setup.water.Breath
      /\ ~w.drowned => ~env.water.drowned /\ w.since = env.water.since
  <2> DEFINE wet == env.water
             drowns == wet.since > 0 /\ ~wet.drowned /\ (hurt \/ wet.spent >= Setup.water.Breath)
  <2>1. CASE drowns
    <3>1. w = [wet EXCEPT !.drowned = TRUE, !.since = 0]
      BY <1>2, <2>1 DEF Water!Dead
    <3> QED
      BY <1>1, <2>1, <3>1, Drowned, Zenon
  <2>2. CASE ~drowns
    BY <1>1, <1>2, <2>2 DEF Water!Dead
  <2> QED
    BY <2>1, <2>2
<1>4. /\ env'.under = env.under /\ env'.dives = env.dives
      /\ env'.below = env.below /\ env'.last = env.last
  BY DEF WaterInv, SwimmerTyped
<1>5. SwimmerTyped'
  <2>1. WholeSwimmer(env')
    BY DEF WaterInv, SwimmerTyped, WholeSwimmer
  <2>2. SwimmerFields(env')
    BY <1>3 DEF WaterInv, SwimmerTyped, SwimmerFields
  <2> QED
    BY <2>1, <2>2, SwimmerIsTyped
<1>6. w.drowned => env.below >= Setup.water.Breath
  BY <1>1, <1>3 DEF WaterInv, SwimmerTyped, WetState, Used
<1> QED
  BY <1>1, <1>3, <1>4, <1>5, <1>6 DEF WaterInv, SwimmerTyped, WetState, Used, Dived

LEMMA WaterKeeps == ASSUME Setup.water.Breath \in Nat, WaterInv, Water!Next PROVE WaterInv'
<1>1. CASE \E under, breathes \in BOOLEAN : Water!Swim(under, breathes)
  BY <1>1, SwimKeeps
<1>2. CASE Water!Die
  BY <1>2, DeathKeeps, Zenon DEF Water!Die, WaterInv, SwimmerTyped
<1>3. CASE Water!Lie
  <2>1. env' = [env EXCEPT !.clock = @ + 1, !.alive = FALSE, !.water = Water!Dead(@, FALSE), !.hurt = env.hurt] /\ env.hurt \in BOOLEAN
    BY <1>3 DEF Water!Lie, WaterInv, SwimmerTyped
  <2> QED
    BY <2>1, DeathKeeps, Zenon
<1>4. CASE Water!StandUp
  <2>1. WholeSwimmer(env')
    BY <1>4, Zenon DEF Water!StandUp, WaterInv, SwimmerTyped, WholeSwimmer
  <2>2. /\ env'.water = env.water /\ env'.last = 0 /\ env'.alive /\ env'.hurt = env.hurt /\ env'.ups = env.ups
        /\ env'.under = env.under /\ env'.dives = env.dives /\ env'.below = env.below
        /\ env'.clock = env.clock /\ env'.episode = env.episode
    BY <1>4 DEF Water!StandUp, WaterInv, SwimmerTyped
  <2>3. SwimmerFields(env')
    <3>1. env'.alive \in BOOLEAN
      BY <1>4 DEF Water!StandUp, WaterInv, SwimmerTyped
    <3> QED
      BY <2>2, <3>1 DEF WaterInv, SwimmerTyped, SwimmerFields
  <2>4. SwimmerTyped'
    BY <2>1, <2>3, SwimmerIsTyped
  <2> QED
    BY <2>2, <2>4 DEF WaterInv, SwimmerTyped, WetState, Used, Dived
<1>5. CASE Water!NewEpisode
  <2>1. WholeSwimmer(env') /\ env'.water = Water!NoWater /\ env'.clock = 0 /\ env'.episode = env.episode + 1 /\ env'.alive
        /\ ~env'.under /\ env'.dives = 0 /\ env'.ups = 0 /\ env'.below = 0 /\ ~env'.hurt /\ env'.last = 0
    BY <1>5 DEF Water!NewEpisode, WaterInv, SwimmerTyped, WholeSwimmer
  <2>2. env'.water \in WetState
    BY <2>1 DEF Water!NoWater, WetState
  <2>3. env'.under \in BOOLEAN /\ env'.hurt \in BOOLEAN /\ env'.alive \in BOOLEAN
    BY <1>5 DEF Water!NewEpisode, WaterInv, SwimmerTyped
  <2>4. SwimmerTyped'
    BY <2>1, <2>2, <2>3, SwimmerIsTyped DEF WaterInv, SwimmerTyped, SwimmerFields
  <2> QED
    BY <2>1, <2>4 DEF WaterInv, Water!NoWater, Used, Dived
<1> QED
  BY <1>1, <1>2, <1>3, <1>4, <1>5 DEF Water!Next

LEMMA WaterHolds == WaterInv => Water!BreathIsSpent /\ Water!BreathsAreDives
BY DEF WaterInv, SwimmerTyped, WetState, Used, Dived, Water!BreathIsSpent, Water!BreathsAreDives

-----------------------------------------------------------------------------
(* Offers to resurrect: Resurrections.                                      *)

LEMMA SameFinite == \A S : (Revive!IsFiniteSet(S) <=> IsFiniteSet(S)) /\ Revive!Cardinality(S) = Cardinality(S)
BY DEF Cardinality, Revive!Cardinality, IsFiniteSet, Revive!IsFiniteSet

ReviveFields == {"clock", "episode", "alive", "request", "by", "ms", "revives", "deaths", "offers"}

\* Whose offers lie with a dead seat or a standing one, and were not paid yet.
Asked(e, seat) == {s \in Setup.revive.Slots : e.request[s] = seat}

\* An answer under way is one to the offer that lies there; an offer is paid or
\* lies somewhere, or was forgotten.
ReviveInv ==
    /\ DOMAIN env = ReviveFields /\ env.clock \in Nat
    /\ \A f \in {"request", "by", "ms"} : DOMAIN env[f] = Setup.revive.Slots
    /\ \A f \in {"revives", "offers"} : DOMAIN env[f] = Setup.revive.Seats
    /\ \A s \in Setup.revive.Slots :
          env.ms[s] \in Nat /\ (env.ms[s] > 0 => env.by[s] = env.request[s] /\ env.request[s] # NoSeat)
    /\ \A seat \in Setup.revive.Seats :
          /\ env.revives[seat] \in Nat /\ env.offers[seat] \in Nat
          /\ env.revives[seat] + Cardinality(Asked(env, seat)) <= env.offers[seat]

LEMMA AskedIsFinite == ASSUME Revive!ReviveConstants, NEW e, NEW seat PROVE IsFiniteSet(Asked(e, seat)) /\ Cardinality(Asked(e, seat)) \in Nat
<1>1. IsFiniteSet(Setup.revive.Slots)
  BY SameFinite DEF Revive!ReviveConstants
<1>2. Asked(e, seat) \in SUBSET Setup.revive.Slots
  BY DEF Asked
<1>3. IsFiniteSet(Asked(e, seat))
  BY <1>1, <1>2, FS_Subset
<1> QED
  BY <1>3, FS_CardinalityType

LEMMA ReviveStarts == Revive!ReviveConstants /\ Revive!Init => ReviveInv
<1> SUFFICES ASSUME Revive!ReviveConstants, Revive!Init PROVE ReviveInv
  OBVIOUS
<1>1. /\ DOMAIN env = ReviveFields /\ env.clock = 0
      /\ env.request = [s \in Setup.revive.Slots |-> NoSeat] /\ env.by = [s \in Setup.revive.Slots |-> NoSeat]
      /\ env.ms = [s \in Setup.revive.Slots |-> 0]
      /\ env.revives = [s \in Setup.revive.Seats |-> 0] /\ env.offers = [s \in Setup.revive.Seats |-> 0]
  BY DEF Revive!Init, ReviveFields
<1>2. ASSUME NEW seat \in Setup.revive.Seats PROVE Cardinality(Asked(env, seat)) = 0
  <2>1. Asked(env, seat) = {}
    BY <1>1 DEF Asked, Revive!ReviveConstants
  <2> QED
    BY <2>1, FS_EmptySet
<1>3. \A f \in {"request", "by", "ms"} : DOMAIN env[f] = Setup.revive.Slots
  BY <1>1
<1>4. \A f \in {"revives", "offers"} : DOMAIN env[f] = Setup.revive.Seats
  BY <1>1
<1> QED
  BY <1>1, <1>2, <1>3, <1>4 DEF ReviveInv

\* An offer is one more for the seat that makes it, and lies with the dead.
LEMMA OfferKeeps ==
    ASSUME Revive!ReviveConstants, ReviveInv, NEW s \in Setup.revive.Slots, NEW by, by # NoSeat \/ by \notin Setup.revive.Seats,
           Revive!Offer(s, by)
    PROVE  ReviveInv'
<1>1. /\ env.request[s] = NoSeat
      /\ env' = [env EXCEPT !.request[s] = by,
                            !.offers = [seat \in Setup.revive.Seats |-> IF seat = by THEN @[seat] + 1 ELSE @[seat]]]
  BY DEF Revive!Offer
<1>2. /\ DOMAIN env' = ReviveFields /\ env'.clock = env.clock /\ env'.by = env.by /\ env'.ms = env.ms /\ env'.revives = env.revives
      /\ env'.request = [env.request EXCEPT ![s] = by]
      /\ env'.offers = [seat \in Setup.revive.Seats |-> IF seat = by THEN env.offers[seat] + 1 ELSE env.offers[seat]]
  BY <1>1 DEF ReviveInv, ReviveFields
<1>3. /\ DOMAIN env.request = Setup.revive.Slots /\ DOMAIN env.by = Setup.revive.Slots /\ DOMAIN env.ms = Setup.revive.Slots
      /\ DOMAIN env.revives = Setup.revive.Seats /\ DOMAIN env.offers = Setup.revive.Seats
  BY DEF ReviveInv
<1>4. \A f \in {"request", "by", "ms"} : DOMAIN env'[f] = Setup.revive.Slots
  BY <1>2, <1>3
<1>5. \A f \in {"revives", "offers"} : DOMAIN env'[f] = Setup.revive.Seats
  BY <1>2, <1>3
<1>6. ASSUME NEW t \in Setup.revive.Slots
      PROVE  env'.ms[t] \in Nat /\ (env'.ms[t] > 0 => env'.by[t] = env'.request[t] /\ env'.request[t] # NoSeat)
  <2>1. env.ms[t] \in Nat /\ (env.ms[t] > 0 => env.by[t] = env.request[t] /\ env.request[t] # NoSeat)
    BY DEF ReviveInv
  <2>2. t # s => env'.request[t] = env.request[t]
    BY <1>2, <1>3
  <2> QED
    BY <1>1, <1>2, <2>1, <2>2
<1>7. ASSUME NEW seat \in Setup.revive.Seats
      PROVE  /\ env'.revives[seat] \in Nat /\ env'.offers[seat] \in Nat
             /\ env'.revives[seat] + Cardinality(Asked(env', seat)) <= env'.offers[seat]
  <2>1. /\ env.revives[seat] \in Nat /\ env.offers[seat] \in Nat
        /\ env.revives[seat] + Cardinality(Asked(env, seat)) <= env.offers[seat]
    BY DEF ReviveInv
  <2>2. seat # NoSeat
    BY DEF Revive!ReviveConstants
  <2>3. IsFiniteSet(Asked(env, seat)) /\ Cardinality(Asked(env, seat)) \in Nat
    BY AskedIsFinite
  <2>4. CASE seat = by
    <3>1. Asked(env', seat) = Asked(env, seat) \union {s} /\ s \notin Asked(env, seat)
      BY <1>1, <1>2, <1>3, <2>2, <2>4 DEF Asked
    <3>2. Cardinality(Asked(env', seat)) = Cardinality(Asked(env, seat)) + 1
      BY <2>3, <3>1, FS_AddElement
    <3>3. env'.offers[seat] = env.offers[seat] + 1
      BY <1>2, <1>3, <2>4
    <3> QED
      BY <1>2, <2>1, <2>3, <3>2, <3>3
  <2>5. CASE seat # by
    <3>1. Asked(env', seat) = Asked(env, seat)
      BY <1>1, <1>2, <1>3, <2>2, <2>5 DEF Asked
    <3>2. env'.offers[seat] = env.offers[seat]
      BY <1>2, <1>3, <2>5
    <3> QED
      BY <1>2, <2>1, <3>1, <3>2
  <2> QED
    BY <2>4, <2>5
<1> QED
  BY <1>2, <1>4, <1>5, <1>6, <1>7 DEF ReviveInv

\* A decision pays for offers that lay with somebody who stands, and takes them.
LEMMA AnswersKeep == ASSUME Revive!ReviveConstants, ReviveInv, Revive!Decide PROVE ReviveInv'
<1> DEFINE slots == Setup.revive.Slots
           seats == Setup.revive.Seats
<1>1. env' = [env EXCEPT !.clock = @ + 1,
                          !.revives = [seat \in seats |-> @[seat] + Revive!PaidTo(seat)],
                          !.request = [s \in slots |-> IF Revive!Landed(s) THEN NoSeat ELSE @[s]],
                          !.by = [s \in slots |-> IF Revive!Accepted(s) THEN env.request[s] ELSE @[s]],
                          !.ms = [s \in slots |-> IF Revive!Landed(s) THEN 0
                                                  ELSE IF Revive!Accepted(s) THEN Revive!Larger(1, env.clock) ELSE @[s]]]
  BY DEF Revive!Decide
<1>2. /\ DOMAIN env' = ReviveFields /\ env'.clock = env.clock + 1 /\ env'.offers = env.offers
      /\ env'.revives = [seat \in seats |-> env.revives[seat] + Revive!PaidTo(seat)]
      /\ env'.request = [s \in slots |-> IF Revive!Landed(s) THEN NoSeat ELSE env.request[s]]
      /\ env'.by = [s \in slots |-> IF Revive!Accepted(s) THEN env.request[s] ELSE env.by[s]]
      /\ env'.ms = [s \in slots |-> IF Revive!Landed(s) THEN 0
                                    ELSE IF Revive!Accepted(s) THEN Revive!Larger(1, env.clock) ELSE env.ms[s]]
  BY <1>1 DEF ReviveInv, ReviveFields
<1>3. /\ env.clock \in Nat /\ DOMAIN env.offers = seats
      /\ \A s \in slots : env.ms[s] \in Nat /\ (env.ms[s] > 0 => env.by[s] = env.request[s] /\ env.request[s] # NoSeat)
  BY DEF ReviveInv
<1>4. \A f \in {"request", "by", "ms"} : DOMAIN env'[f] = slots
  BY <1>2
<1>5. \A f \in {"revives", "offers"} : DOMAIN env'[f] = seats
  BY <1>2, <1>3
<1>6. ASSUME NEW s \in slots
      PROVE  env'.ms[s] \in Nat /\ (env'.ms[s] > 0 => env'.by[s] = env'.request[s] /\ env'.request[s] # NoSeat)
  <2>1. Revive!Larger(1, env.clock) \in Nat
    BY <1>3 DEF Revive!Larger
  <2>2. CASE Revive!Landed(s)
    BY <1>2, <2>2
  <2>3. CASE ~Revive!Landed(s) /\ Revive!Accepted(s)
    BY <1>2, <2>1, <2>3 DEF Revive!Accepted
  <2>4. CASE ~Revive!Landed(s) /\ ~Revive!Accepted(s)
    BY <1>2, <1>3, <2>4
  <2> QED
    BY <2>2, <2>3, <2>4
<1>7. ASSUME NEW seat \in seats
      PROVE  /\ env'.revives[seat] \in Nat /\ env'.offers[seat] \in Nat
             /\ env'.revives[seat] + Cardinality(Asked(env', seat)) <= env'.offers[seat]
  <2>1. /\ env.revives[seat] \in Nat /\ env.offers[seat] \in Nat
        /\ env.revives[seat] + Cardinality(Asked(env, seat)) <= env.offers[seat]
    BY DEF ReviveInv
  <2>2. seat # NoSeat
    BY DEF Revive!ReviveConstants
  <2>3. PICK paid : paid = {s \in slots : Revive!Landed(s) /\ env.by[s] = seat}
    OBVIOUS
  <2>4. \A s \in slots : Revive!Landed(s) => env.by[s] = env.request[s]
    BY <1>3 DEF Revive!Landed
  <2>5. Asked(env', seat) = Asked(env, seat) \ paid /\ Asked(env, seat) \intersect paid = paid
    BY <1>2, <2>2, <2>3, <2>4 DEF Asked
  <2>6. IsFiniteSet(Asked(env, seat)) /\ Cardinality(Asked(env, seat)) \in Nat
    BY AskedIsFinite
  <2>7. Cardinality(Asked(env', seat)) = Cardinality(Asked(env, seat)) - Cardinality(paid)
    BY <2>5, <2>6, FS_Difference
  <2>8. Cardinality(paid) \in Nat
    <3>1. paid \in SUBSET Asked(env, seat)
      BY <2>5
    <3>2. IsFiniteSet(paid)
      BY <2>6, <3>1, FS_Subset
    <3> QED
      BY <3>2, FS_CardinalityType
  <2>9. env'.revives[seat] = env.revives[seat] + Cardinality(paid)
    BY <1>2, <2>3, SameFinite DEF Revive!PaidTo
  <2> QED
    BY <1>2, <2>1, <2>6, <2>7, <2>8, <2>9
<1>8. DOMAIN env' = ReviveFields /\ env'.clock \in Nat
  BY <1>2, <1>3
<1> QED
  BY <1>4, <1>5, <1>6, <1>7, <1>8 DEF ReviveInv

\* A new episode forgets the offers to seats that are new.
LEMMA EpisodeForgets == ASSUME Revive!ReviveConstants, ReviveInv, Revive!NewEpisode PROVE ReviveInv'
<1>1. PICK kept \in SUBSET Setup.revive.Slots :
         env' = [env EXCEPT !.clock = 0, !.episode = @ + 1,
                            !.alive = [s \in Setup.revive.Slots |-> TRUE],
                            !.request = [s \in Setup.revive.Slots |-> IF s \in kept THEN env.request[s] ELSE NoSeat],
                            !.by = [s \in Setup.revive.Slots |-> NoSeat], !.ms = [s \in Setup.revive.Slots |-> 0]]
  BY DEF Revive!NewEpisode
<1>2. /\ DOMAIN env' = ReviveFields /\ env'.clock = 0 /\ env'.offers = env.offers /\ env'.revives = env.revives
      /\ env'.request = [s \in Setup.revive.Slots |-> IF s \in kept THEN env.request[s] ELSE NoSeat]
      /\ env'.by = [s \in Setup.revive.Slots |-> NoSeat] /\ env'.ms = [s \in Setup.revive.Slots |-> 0]
  BY <1>1 DEF ReviveInv, ReviveFields
<1>3. DOMAIN env.revives = Setup.revive.Seats /\ DOMAIN env.offers = Setup.revive.Seats
  BY DEF ReviveInv
<1>4. \A f \in {"request", "by", "ms"} : DOMAIN env'[f] = Setup.revive.Slots
  BY <1>2
<1>5. \A f \in {"revives", "offers"} : DOMAIN env'[f] = Setup.revive.Seats
  BY <1>2, <1>3
<1>6. ASSUME NEW seat \in Setup.revive.Seats
      PROVE  /\ env'.revives[seat] \in Nat /\ env'.offers[seat] \in Nat
             /\ env'.revives[seat] + Cardinality(Asked(env', seat)) <= env'.offers[seat]
  <2>1. /\ env.revives[seat] \in Nat /\ env.offers[seat] \in Nat
        /\ env.revives[seat] + Cardinality(Asked(env, seat)) <= env.offers[seat]
    BY DEF ReviveInv
  <2>2. seat # NoSeat
    BY DEF Revive!ReviveConstants
  <2>3. Asked(env', seat) \in SUBSET Asked(env, seat)
    BY <1>2, <2>2 DEF Asked
  <2>4. /\ IsFiniteSet(Asked(env, seat)) /\ Cardinality(Asked(env, seat)) \in Nat
        /\ Cardinality(Asked(env', seat)) \in Nat
    BY AskedIsFinite
  <2>5. Cardinality(Asked(env', seat)) <= Cardinality(Asked(env, seat))
    BY <2>3, <2>4, FS_Subset
  <2> QED
    BY <1>2, <2>1, <2>4, <2>5
<1> QED
  BY <1>2, <1>4, <1>5, <1>6 DEF ReviveInv

LEMMA ReviveKeeps == ASSUME Revive!ReviveConstants, ReviveInv, Revive!Next PROVE ReviveInv'
<1>1. ASSUME NEW s \in Setup.revive.Slots, Revive!Die(s) \/ Revive!Stand(s) PROVE ReviveInv'
  <2>1. /\ DOMAIN env' = ReviveFields /\ env'.clock = env.clock /\ env'.by = env.by /\ env'.ms = env.ms
        /\ env'.revives = env.revives /\ env'.offers = env.offers /\ env'.request = env.request
    BY <1>1 DEF Revive!Die, Revive!Stand, ReviveInv, ReviveFields
  <2> QED
    BY <2>1 DEF ReviveInv, Asked
<1>2. ASSUME NEW s \in Setup.revive.Slots, NEW by \in (Setup.revive.Slots \intersect Setup.revive.Seats) \union {Stranger},
             Revive!Offer(s, by)
      PROVE  ReviveInv'
  BY <1>2, OfferKeeps DEF Revive!ReviveConstants
<1>3. CASE Revive!World
  BY <1>1, <1>2, <1>3 DEF Revive!World
<1> QED
  BY <1>3, AnswersKeep, EpisodeForgets DEF Revive!Next

LEMMA ReviveHolds == Revive!ReviveConstants /\ ReviveInv => Revive!RevivesWereOffered
<1> SUFFICES ASSUME Revive!ReviveConstants, ReviveInv, NEW seat \in Setup.revive.Seats PROVE env.revives[seat] <= env.offers[seat]
  BY DEF Revive!RevivesWereOffered
<1>1. Cardinality(Asked(env, seat)) \in Nat
  BY AskedIsFinite
<1> QED
  BY <1>1 DEF ReviveInv


-----------------------------------------------------------------------------
(* Pay: SeatRewards.                                                        *)

PayFields == {"pc", "clock", "episode", "ledger", "goal", "rewarded", "pet", "lastPet", "petDied", "paid", "reached", "held", "sick"}
Ledger == [step : Int, hazard : Int, goal : Int]

\* A goal is held for the first time where it is paid for, and what an episode paid
\* is what its terms say, to the decision under way.
InPay == /\ env.ledger.hazard >= -Setup.pay.HazardMax
         /\ env.held \in Nat /\ env.paid \in Int /\ env.ledger.goal = Setup.pay.Match * env.held
         /\ env.paid + env.ledger.step = env.ledger.hazard + env.ledger.goal
\* A pet that may have died has been seen to be sick.
InHealth == /\ env.petDied => env.sick
            /\ env.lastPet = "nearly dead" => env.sick
            /\ env.pc = "reward" /\ env.pet \in {"corpse", "nearly dead"} => env.sick

PayInv == /\ DOMAIN env = PayFields /\ env.ledger \in Ledger
          /\ env.rewarded \in BOOLEAN /\ env.reached = env.rewarded
          /\ InPay /\ InHealth

LEMMA PayStarts == Pay!RewardConstants /\ Pay!Init => PayInv
<1> SUFFICES ASSUME Pay!RewardConstants, Pay!Init PROVE PayInv
  OBVIOUS
<1>1. /\ DOMAIN env = PayFields /\ env.pc = "goals" /\ env.ledger = [step |-> 0, hazard |-> 0, goal |-> 0]
      /\ env.rewarded = FALSE /\ env.reached = FALSE /\ env.petDied = FALSE /\ env.lastPet = "none" /\ env.pet = "none"
      /\ env.held = 0 /\ env.paid = 0
  BY DEF Pay!Init, Pay!NewLedger, PayFields
<1> QED
  <2>1. env.ledger \in Ledger /\ env.ledger.step = 0 /\ env.ledger.hazard = 0 /\ env.ledger.goal = 0
    BY <1>1 DEF Ledger
  <2>2. Setup.pay.Match * 0 = 0 /\ 0 >= -Setup.pay.HazardMax
    BY DEF Pay!RewardConstants
  <2>3. InPay
    BY <1>1, <2>1, <2>2 DEF InPay
  <2>4. InHealth
    BY <1>1 DEF InHealth
  <2> QED
    BY <1>1, <2>1, <2>3, <2>4 DEF PayInv

\* A charge leaves the room that is left, and is booked twice over.
LEMMA ChargedInPart ==
    ASSUME Pay!RewardConstants, NEW ledger \in Ledger, ledger.hazard >= -Setup.pay.HazardMax, NEW amount \in Nat
    PROVE  LET charged == Pay!Charged(ledger, amount)
           IN  /\ charged \in Ledger /\ charged.hazard >= -Setup.pay.HazardMax /\ charged.goal = ledger.goal
               /\ charged.step - ledger.step = charged.hazard - ledger.hazard
<1> DEFINE value == -Pay!Smaller(amount, Pay!Room(ledger))
<1>1. value \in Int /\ value >= -Setup.pay.HazardMax - ledger.hazard
  BY DEF Pay!Smaller, Pay!Room, Pay!Larger, Pay!RewardConstants, Ledger
<1>2. PICK charged : charged = Pay!Charged(ledger, amount)
  OBVIOUS
<1>3. PICK v : v = value
  OBVIOUS
<1>4. charged = [ledger EXCEPT !.step = @ + v, !["hazard"] = @ + v]
  BY <1>2, <1>3 DEF Pay!Charged, Pay!Add
<1>5. charged = [step |-> ledger.step + v, hazard |-> ledger.hazard + v, goal |-> ledger.goal]
  BY <1>4 DEF Ledger
<1>6. v \in Int /\ v >= -Setup.pay.HazardMax - ledger.hazard
  BY <1>1, <1>3
<1>7. charged \in Ledger /\ charged.hazard >= -Setup.pay.HazardMax
  BY <1>5, <1>6 DEF Ledger, Pay!RewardConstants
<1> QED
  BY <1>2, <1>5, <1>6, <1>7 DEF Ledger

\* What the ground costs in one decision, of two charges.
LEMMA HazardsInPart ==
    ASSUME Pay!RewardConstants, NEW ledger \in Ledger, ledger.hazard >= -Setup.pay.HazardMax, NEW stands \in BOOLEAN, NEW share \in Nat
    PROVE  LET after == Pay!InHazards(ledger, stands, share)
           IN  /\ after \in Ledger /\ after.hazard >= -Setup.pay.HazardMax /\ after.goal = ledger.goal
               /\ after.step - ledger.step = after.hazard - ledger.hazard
<1>1. PICK stood : stood = (IF stands THEN Pay!Charged(ledger, Setup.pay.Standing) ELSE ledger)
  OBVIOUS
<1>2. Setup.pay.Standing \in Nat
  BY DEF Pay!RewardConstants
<1>3. /\ stood \in Ledger /\ stood.hazard >= -Setup.pay.HazardMax /\ stood.goal = ledger.goal
      /\ stood.step - ledger.step = stood.hazard - ledger.hazard
  <2>1. CASE stands
    BY <1>1, <1>2, <2>1, ChargedInPart
  <2>2. CASE ~stands
    BY <1>1, <2>2 DEF Ledger
  <2> QED
    BY <2>1, <2>2
<1>4. PICK after : after = (IF share > 0 THEN Pay!Charged(stood, share) ELSE stood)
  OBVIOUS
<1>5. /\ after \in Ledger /\ after.hazard >= -Setup.pay.HazardMax /\ after.goal = stood.goal
      /\ after.step - stood.step = after.hazard - stood.hazard
  <2>1. CASE share > 0
    BY <1>3, <1>4, <2>1, ChargedInPart
  <2>2. CASE ~(share > 0)
    BY <1>3, <1>4, <2>2 DEF Ledger
  <2> QED
    BY <2>1, <2>2
<1>6. Pay!InHazards(ledger, stands, share) = after
  BY <1>1, <1>4 DEF Pay!InHazards
<1> QED
  BY <1>3, <1>5, <1>6 DEF Ledger

\* The pay of a decision: what its terms add up to, the goal's once.
LEMMA PayKeeps == ASSUME Pay!RewardConstants, PayInv, Pay!SeatReward PROVE PayInv'
<1>1. PICK alive \in BOOLEAN, stands \in BOOLEAN, holds \in BOOLEAN, share \in {0} \union Setup.pay.DamageShares :
         LET matches == alive /\ holds /\ env.goal # Setup.pay.NoGoal
             ledger == Pay!GoalPaid(IF alive THEN Pay!InHazards(env.ledger, stands, share) ELSE env.ledger, matches)
         IN env' = [env EXCEPT !.pc = "goals", !.clock = @ + 1,
                               !.ledger = [ledger EXCEPT !.step = 0], !.paid = @ + ledger.step,
                               !.rewarded = @ \/ matches, !.reached = @ \/ matches,
                               !.held = IF matches /\ ~env.reached THEN @ + 1 ELSE @,
                               !.petDied = @ \/ Pay!PetDied,
                               !.lastPet = IF env.pet = "corpse" THEN "none" ELSE env.pet]
  BY Zenon DEF Pay!SeatReward
<1>2. PICK matches \in BOOLEAN : matches = (alive /\ holds /\ env.goal # Setup.pay.NoGoal)
  OBVIOUS
<1>3. PICK ground : ground = IF alive THEN Pay!InHazards(env.ledger, stands, share) ELSE env.ledger
  OBVIOUS
<1>4. PICK ledger : ledger = Pay!GoalPaid(ground, matches)
  OBVIOUS
<1>5. PICK taken : taken = [ledger EXCEPT !.step = 0]
  OBVIOUS
<1>6. /\ env.pc = "reward" /\ DOMAIN env = PayFields /\ env.ledger \in Ledger /\ env.rewarded \in BOOLEAN /\ env.reached = env.rewarded
  BY DEF PayInv, Pay!SeatReward
<1>7. env' = [env EXCEPT !.pc = "goals", !.clock = @ + 1,
                         !.ledger = taken, !.paid = @ + ledger.step,
                         !.rewarded = @ \/ matches, !.reached = @ \/ matches,
                         !.held = IF matches /\ ~env.reached THEN @ + 1 ELSE @,
                         !.petDied = @ \/ Pay!PetDied,
                         !.lastPet = IF env.pet = "corpse" THEN "none" ELSE env.pet]
  BY <1>1, <1>2, <1>3, <1>4, <1>5, Zenon
<1>8. /\ DOMAIN env' = PayFields /\ env'.pc = "goals" /\ env'.ledger = taken /\ env'.paid = env.paid + ledger.step
      /\ env'.rewarded = (env.rewarded \/ matches) /\ env'.reached = (env.reached \/ matches)
      /\ env'.held = (IF matches /\ ~env.reached THEN env.held + 1 ELSE env.held)
      /\ env'.petDied = (env.petDied \/ Pay!PetDied) /\ env'.sick = env.sick
      /\ env'.lastPet = IF env.pet = "corpse" THEN "none" ELSE env.pet
  BY <1>6, <1>7, Zenon DEF PayFields
<1>9. /\ ground \in Ledger /\ ground.hazard >= -Setup.pay.HazardMax /\ ground.goal = env.ledger.goal
      /\ ground.step - env.ledger.step = ground.hazard - env.ledger.hazard
  <2>1. env.ledger.hazard >= -Setup.pay.HazardMax
    BY DEF PayInv, InPay
  <2>2. share \in Nat
    BY DEF Pay!RewardConstants
  <2>3. CASE alive
    BY <1>3, <1>6, <2>1, <2>2, <2>3, HazardsInPart
  <2>4. CASE ~alive
    BY <1>3, <1>6, <2>1, <2>4 DEF Ledger
  <2> QED
    BY <2>3, <2>4
<1>10. PICK gained : gained = IF matches /\ ~env.rewarded THEN Setup.pay.Match ELSE 0
  OBVIOUS
<1>11. gained \in Int
  BY <1>10 DEF Pay!RewardConstants
<1>12. /\ ledger \in Ledger /\ ledger.hazard = ground.hazard /\ ledger.goal = ground.goal + gained
       /\ ledger.step = ground.step + gained
  <2>1. CASE matches /\ ~env.rewarded
    <3>1. ledger = [ground EXCEPT !.step = @ + gained, !["goal"] = @ + gained]
      BY <1>4, <1>10, <2>1 DEF Pay!GoalPaid, Pay!Add
    <3>2. ledger = [step |-> ground.step + gained, hazard |-> ground.hazard, goal |-> ground.goal + gained]
      BY <1>9, <3>1 DEF Ledger
    <3> QED
      BY <1>9, <1>11, <3>2 DEF Ledger
  <2>2. CASE ~(matches /\ ~env.rewarded)
    BY <1>4, <1>9, <1>10, <2>2 DEF Pay!GoalPaid, Ledger
  <2> QED
    BY <2>1, <2>2
<1>13. taken = [step |-> 0, hazard |-> ledger.hazard, goal |-> ledger.goal]
  BY <1>5, <1>12 DEF Ledger
<1>14. taken \in Ledger
  BY <1>12, <1>13 DEF Ledger
<1>15. InPay'
  <2>1. /\ env.held \in Nat /\ env.paid \in Int /\ env.ledger.goal = Setup.pay.Match * env.held
        /\ env.paid + env.ledger.step = env.ledger.hazard + env.ledger.goal
    BY DEF PayInv, InPay
  <2>2. env'.held \in Nat /\ env.ledger.goal + gained = Setup.pay.Match * env'.held
    <3>1. CASE matches /\ ~env.rewarded
      <4>1. env'.held = env.held + 1 /\ gained = Setup.pay.Match /\ Setup.pay.Match \in Int
        BY <1>6, <1>8, <1>10, <3>1 DEF Pay!RewardConstants
      <4>2. Setup.pay.Match * (env.held + 1) = Setup.pay.Match * env.held + Setup.pay.Match
        BY <2>1, <4>1
      <4> QED
        BY <2>1, <4>1, <4>2
    <3>2. CASE ~(matches /\ ~env.rewarded)
      <4>1. env'.held = env.held /\ gained = 0
        BY <1>6, <1>8, <1>10, <3>2
      <4>2. env.ledger.goal + 0 = env.ledger.goal
        BY <1>6 DEF Ledger
      <4> QED
        BY <2>1, <4>1, <4>2
    <3> QED
      BY <3>1, <3>2
  <2>3. env'.ledger.hazard = ground.hazard /\ env'.ledger.goal = env.ledger.goal + gained /\ env'.ledger.step = 0
    BY <1>8, <1>9, <1>12, <1>13
  <2>4. env'.paid = env.paid + ground.step + gained
    BY <1>8, <1>9, <1>11, <1>12, <2>1 DEF Ledger
  <2>5. env'.paid \in Int /\ env'.paid + env'.ledger.step = env'.ledger.hazard + env'.ledger.goal
    BY <1>6, <1>9, <1>11, <2>1, <2>3, <2>4 DEF Ledger
  <2> QED
    BY <1>9, <2>2, <2>3, <2>5 DEF InPay
<1>16. InHealth'
  BY <1>6, <1>8, Zenon DEF PayInv, InHealth, Pay!PetDied
<1> QED
  BY <1>6, <1>8, <1>14, <1>15, <1>16 DEF PayInv

LEMMA PayStep == ASSUME Pay!RewardConstants, PayInv, Pay!Next PROVE PayInv'
<1>1. CASE Pay!ApplyGoals
  <2>1. PICK goal : env' = [env EXCEPT !.pc = "world", !.goal = goal, !.rewarded = Pay!Rewarded(goal), !.reached = @ /\ goal = env.goal]
    BY <1>1, Zenon DEF Pay!ApplyGoals
  <2>2. /\ DOMAIN env' = PayFields /\ env'.pc = "world" /\ env'.ledger = env.ledger
        /\ env'.rewarded = (env.rewarded /\ goal = env.goal) /\ env'.reached = (env.reached /\ goal = env.goal)
        /\ env'.petDied = env.petDied /\ env'.sick = env.sick /\ env'.lastPet = env.lastPet
        /\ env'.paid = env.paid /\ env'.held = env.held
    BY <2>1 DEF PayInv, PayFields, Pay!Rewarded
  <2> QED
    BY <2>2, Zenon DEF PayInv, InPay, InHealth
<1>2. CASE Pay!World
  <2>1. PICK pet : env' = [env EXCEPT !.pc = "reward", !.pet = pet, !.sick = @ \/ pet \in {"corpse", "nearly dead"}]
    BY <1>2, Zenon DEF Pay!World
  <2>2. /\ DOMAIN env' = PayFields /\ env'.ledger = env.ledger /\ env'.rewarded = env.rewarded /\ env'.reached = env.reached
        /\ env'.petDied = env.petDied /\ env'.sick = (env.sick \/ pet \in {"corpse", "nearly dead"}) /\ env'.lastPet = env.lastPet
        /\ env'.paid = env.paid /\ env'.held = env.held /\ env'.pet = pet
    BY <2>1 DEF PayInv, PayFields
  <2> QED
    BY <2>2, Zenon DEF PayInv, InPay, InHealth
<1>3. CASE Pay!NewEpisode
  <2>1. /\ DOMAIN env' = PayFields /\ env'.ledger = [step |-> 0, hazard |-> 0, goal |-> 0]
        /\ env'.rewarded = FALSE /\ env'.reached = FALSE /\ env'.petDied = FALSE /\ env'.lastPet = "none" /\ env'.pc = "goals"
        /\ env'.held = 0 /\ env'.paid = 0
    BY <1>3, Zenon DEF Pay!NewEpisode, Pay!NewLedger, PayInv, PayFields
  <2>2. env'.ledger \in Ledger /\ env'.ledger.step = 0 /\ env'.ledger.hazard = 0 /\ env'.ledger.goal = 0
    BY <2>1 DEF Ledger
  <2>3. Setup.pay.Match * 0 = 0 /\ 0 >= -Setup.pay.HazardMax
    BY DEF Pay!RewardConstants
  <2>4. InPay'
    BY <2>1, <2>2, <2>3 DEF InPay
  <2>5. InHealth'
    BY <2>1 DEF InHealth
  <2> QED
    BY <2>1, <2>2, <2>4, <2>5, Zenon DEF PayInv
<1> QED
  BY <1>1, <1>2, <1>3, PayKeeps DEF Pay!Next

LEMMA PayHolds == PayInv => Pay!SeatPaidInFull /\ Pay!HealthyPetsLive
BY Zenon DEF PayInv, InPay, InHealth, Pay!SeatPaidInFull, Pay!HealthyPetsLive

-----------------------------------------------------------------------------
(* Shields and casts: SeatSupport, once for what shields soak and once for  *)
(* the casts of a target.                                                   *)

SupportFields == {"clock", "alive", "present", "shield", "absorbs", "shields", "credit", "lost", "target", "casting", "last",
                  "seen", "casts", "turns", "decided"}
Amounts == [amount : 0 .. Setup.shields.Full, left : 0 .. Setup.shields.Lasts]

\* What a friend's shield lost since the last decision, and what it has left, cover
\* what it had then; gone, it lost all of it or had no time left, and no decision
\* makes it younger.
Covered(before, after, lost, credit, decided) ==
    /\ after # Shields!NoShield => /\ lost + after.amount >= credit + before.amount
                                   /\ ~decided => before.left <= after.left
    /\ after = Shields!NoShield => before.left <= Setup.shields.Slack \/ lost >= credit + before.amount
Sound(e, f) == /\ e.credit[f] <= e.lost[f]
               /\ e.present[f] => Covered(e.absorbs[f], e.shield[f], e.lost[f], e.credit[f], e.decided)

ShieldsTyped(e) ==
    /\ DOMAIN e = SupportFields
    /\ e.shield \in [Setup.shields.Friends -> Amounts] /\ e.absorbs \in [Setup.shields.Friends -> Amounts]
    /\ e.credit \in [Setup.shields.Friends -> Nat] /\ e.lost \in [Setup.shields.Friends -> Nat]
    /\ DOMAIN e.present = Setup.shields.Friends
ShieldsInv == ShieldsTyped(env) /\ \A f \in Setup.shields.Friends : Sound(env, f)

LEMMA NoShieldIsNone == ASSUME Shields!SupportConstants
                        PROVE  /\ Shields!NoShield \in Amounts /\ Shields!NoShield.amount = 0 /\ Shields!NoShield.left = 0
                               /\ \A s \in Amounts : s = Shields!NoShield <=> s.amount = 0 /\ s.left = 0
BY DEF Shields!NoShield, Amounts, Shields!SupportConstants

LEMMA ShieldsStart == Shields!SupportConstants /\ Shields!Init => ShieldsInv
<1> SUFFICES ASSUME Shields!SupportConstants, Shields!Init PROVE ShieldsInv
  OBVIOUS
<1>1. /\ DOMAIN env = SupportFields
      /\ env.present = [f \in Setup.shields.Friends |-> TRUE]
      /\ env.shield = [f \in Setup.shields.Friends |-> Shields!NoShield]
      /\ env.absorbs = [f \in Setup.shields.Friends |-> Shields!NoShield]
      /\ env.credit = [f \in Setup.shields.Friends |-> 0] /\ env.lost = [f \in Setup.shields.Friends |-> 0]
  BY DEF Shields!Init, SupportFields
<1>2. ShieldsTyped(env)
  BY <1>1, NoShieldIsNone DEF ShieldsTyped
<1>3. ASSUME NEW f \in Setup.shields.Friends PROVE Sound(env, f)
  BY <1>1, NoShieldIsNone DEF Sound, Covered
<1> QED
  BY <1>2, <1>3 DEF ShieldsInv

\* What happens to the shield of one friend is nothing to the others.
LEMMA OneFriend ==
    ASSUME ShieldsInv, NEW f \in Setup.shields.Friends, NEW s \in Amounts, NEW l \in Nat,
           DOMAIN env' = SupportFields,
           env'.absorbs = env.absorbs /\ env'.credit = env.credit /\ env'.decided = env.decided,
           env'.shield = [env.shield EXCEPT ![f] = s] /\ env'.lost = [env.lost EXCEPT ![f] = l],
           DOMAIN env'.present = Setup.shields.Friends, \A g \in Setup.shields.Friends : g # f => env'.present[g] = env.present[g],
           l >= env.lost[f],
           env'.present[f] => env.present[f] /\ Covered(env.absorbs[f], s, l, env.credit[f], env.decided)
    PROVE  ShieldsInv'
<1>1. ShieldsTyped(env')
  BY DEF ShieldsInv, ShieldsTyped
<1>2. ASSUME NEW g \in Setup.shields.Friends PROVE Sound(env', g)
  <2>1. CASE g = f
    <3>1. env'.shield[f] = s /\ env'.lost[f] = l /\ env'.credit[f] \in Nat /\ env.credit[f] <= env.lost[f]
      BY DEF ShieldsInv, ShieldsTyped, Sound
    <3>2. env'.credit[f] <= env'.lost[f]
      BY <3>1 DEF ShieldsInv, ShieldsTyped
    <3> QED
      BY <2>1, <3>1, <3>2 DEF Sound
  <2>2. CASE g # f
    <3>1. env'.shield[g] = env.shield[g] /\ env'.lost[g] = env.lost[g] /\ env'.present[g] = env.present[g]
      BY <2>2 DEF ShieldsInv, ShieldsTyped
    <3> QED
      BY <3>1 DEF ShieldsInv, Sound
  <2> QED
    BY <2>1, <2>2
<1> QED
  BY <1>1, <1>2 DEF ShieldsInv

LEMMA ShieldKeeps == ASSUME Shields!SupportConstants, ShieldsInv, NEW f \in Setup.shields.Friends, Shields!Shield(f) PROVE ShieldsInv'
<1>1. PICK s : s = [amount |-> Setup.shields.Full, left |-> Setup.shields.Lasts]
  OBVIOUS
<1>2. env' = [env EXCEPT !.shields = @ + 1, !.shield[f] = s]
  BY <1>1 DEF Shields!Shield
<1>3. /\ DOMAIN env' = SupportFields /\ env'.absorbs = env.absorbs /\ env'.credit = env.credit /\ env'.decided = env.decided
      /\ env'.shield = [env.shield EXCEPT ![f] = s] /\ env'.lost = env.lost /\ env'.present = env.present
  BY <1>2 DEF ShieldsInv, ShieldsTyped, SupportFields
<1>4. s \in Amounts /\ s.amount = Setup.shields.Full /\ s.left = Setup.shields.Lasts
  BY <1>1 DEF Amounts, Shields!SupportConstants
<1>5. env.absorbs[f] \in Amounts /\ env.lost[f] \in Nat /\ env.credit[f] \in Nat /\ env.credit[f] <= env.lost[f]
  BY DEF ShieldsInv, ShieldsTyped, Sound
<1>6. env.lost = [env.lost EXCEPT ![f] = env.lost[f]]
  BY DEF ShieldsInv, ShieldsTyped
<1>7. env.present[f] => Covered(env.absorbs[f], s, env.lost[f], env.credit[f], env.decided)
  <2>1. /\ env.absorbs[f].amount \in Nat /\ env.absorbs[f].amount <= s.amount
        /\ env.absorbs[f].left \in Nat /\ env.absorbs[f].left <= s.left /\ s.amount \in Nat /\ s.left \in Nat
    BY <1>4, <1>5 DEF Amounts, Shields!SupportConstants
  <2>2. s = Shields!NoShield => env.absorbs[f].amount = 0 /\ env.absorbs[f].left = 0
    BY <2>1, NoShieldIsNone
  <2> QED
    BY <1>5, <2>1, <2>2 DEF Covered
<1>8. DOMAIN env'.present = Setup.shields.Friends
  BY <1>3 DEF ShieldsInv, ShieldsTyped
<1> QED
  BY <1>3, <1>4, <1>5, <1>6, <1>7, <1>8, OneFriend

LEMMA SoakKeeps == ASSUME Shields!SupportConstants, ShieldsInv, NEW f \in Setup.shields.Friends, NEW n \in 1 .. Setup.shields.Full,
                          env.present[f], Shields!Soak(f, n)
                   PROVE  ShieldsInv'
<1>1. PICK s : s = Shields!Hit(env.shield[f], n)
  OBVIOUS
<1>2. env' = [env EXCEPT !.lost[f] = @ + n, !.shield[f] = s]
  BY <1>1 DEF Shields!Soak
<1>3. /\ DOMAIN env' = SupportFields /\ env'.absorbs = env.absorbs /\ env'.credit = env.credit /\ env'.decided = env.decided
      /\ env'.shield = [env.shield EXCEPT ![f] = s] /\ env'.lost = [env.lost EXCEPT ![f] = env.lost[f] + n] /\ env'.present = env.present
  BY <1>2 DEF ShieldsInv, ShieldsTyped, SupportFields
<1>4. /\ env.absorbs[f] \in Amounts /\ env.shield[f] \in Amounts /\ env.lost[f] \in Nat /\ env.credit[f] \in Nat
      /\ env.credit[f] <= env.lost[f] /\ Covered(env.absorbs[f], env.shield[f], env.lost[f], env.credit[f], env.decided)
  BY DEF ShieldsInv, ShieldsTyped, Sound
<1>5. n \in 1 .. env.shield[f].amount /\ n \in Nat /\ n >= 1
  BY DEF Shields!Soak, Shields!SupportConstants
<1>6. /\ env.absorbs[f].amount \in Nat /\ env.absorbs[f].left \in Nat /\ env.shield[f].amount \in Nat /\ env.shield[f].left \in Nat
      /\ env.shield[f].amount <= Setup.shields.Full
  BY <1>4 DEF Amounts, Shields!SupportConstants
<1>7. env.shield[f] # Shields!NoShield
  BY <1>4, <1>5, <1>6, NoShieldIsNone
<1>8. s \in Amounts /\ Covered(env.absorbs[f], s, env.lost[f] + n, env.credit[f], env.decided)
  <2>1. CASE n = env.shield[f].amount
    <3>1. s = Shields!NoShield
      BY <1>1, <2>1 DEF Shields!Hit
    <3> QED
      BY <1>4, <1>6, <1>7, <2>1, <3>1, NoShieldIsNone DEF Covered
  <2>2. CASE n # env.shield[f].amount
    <3>1. s = [env.shield[f] EXCEPT !.amount = @ - n]
      BY <1>1, <2>2 DEF Shields!Hit
    <3>2. s = [amount |-> env.shield[f].amount - n, left |-> env.shield[f].left]
      BY <1>4, <3>1 DEF Amounts
    <3>3. env.shield[f].amount - n \in 1 .. Setup.shields.Full
      BY <1>5, <1>6, <2>2 DEF Shields!SupportConstants
    <3>4. s \in Amounts /\ s.amount = env.shield[f].amount - n /\ s.left = env.shield[f].left
      BY <1>4, <3>2, <3>3 DEF Amounts
    <3>5. s # Shields!NoShield
      BY <3>3, <3>4, NoShieldIsNone
    <3> QED
      BY <1>4, <1>5, <1>6, <1>7, <3>4, <3>5 DEF Covered
  <2> QED
    BY <2>1, <2>2
<1>9. env.lost[f] + n \in Nat /\ env.lost[f] + n >= env.lost[f]
  BY <1>4, <1>5
<1>10. DOMAIN env'.present = Setup.shields.Friends
  BY <1>3 DEF ShieldsInv, ShieldsTyped
<1> QED
  BY <1>3, <1>8, <1>9, <1>10, OneFriend

LEMMA TakeOffKeeps == ASSUME Shields!SupportConstants, ShieldsInv, NEW f \in Setup.shields.Friends, NEW dies \in BOOLEAN,
                             env.present[f], Shields!TakeOff(f, dies)
                      PROVE  ShieldsInv'
<1>1. env' = [env EXCEPT !.shield[f] = Shields!NoShield, !.lost[f] = @ + env.shield[f].amount, !.alive[f] = ~dies]
  BY DEF Shields!TakeOff
<1>2. /\ DOMAIN env' = SupportFields /\ env'.absorbs = env.absorbs /\ env'.credit = env.credit /\ env'.decided = env.decided
      /\ env'.shield = [env.shield EXCEPT ![f] = Shields!NoShield]
      /\ env'.lost = [env.lost EXCEPT ![f] = env.lost[f] + env.shield[f].amount] /\ env'.present = env.present
  BY <1>1 DEF ShieldsInv, ShieldsTyped, SupportFields
<1>3. /\ env.absorbs[f] \in Amounts /\ env.shield[f] \in Amounts /\ env.lost[f] \in Nat /\ env.credit[f] \in Nat
      /\ env.credit[f] <= env.lost[f] /\ Covered(env.absorbs[f], env.shield[f], env.lost[f], env.credit[f], env.decided)
  BY DEF ShieldsInv, ShieldsTyped, Sound
<1>4. env.absorbs[f].amount \in Nat /\ env.absorbs[f].left \in Nat /\ env.shield[f].amount \in Nat
  BY <1>3 DEF Amounts, Shields!SupportConstants
<1>5. env.lost[f] + env.shield[f].amount \in Nat /\ env.lost[f] + env.shield[f].amount >= env.lost[f]
  BY <1>3, <1>4
<1>6. Covered(env.absorbs[f], Shields!NoShield, env.lost[f] + env.shield[f].amount, env.credit[f], env.decided)
  BY <1>3, <1>4, NoShieldIsNone DEF Covered, Shields!SupportConstants
<1>7. DOMAIN env'.present = Setup.shields.Friends
  BY <1>2 DEF ShieldsInv, ShieldsTyped
<1> QED
  BY <1>2, <1>5, <1>6, <1>7, NoShieldIsNone, OneFriend

LEMMA LeaveKeeps == ASSUME Shields!SupportConstants, ShieldsInv, NEW f \in Setup.shields.Friends, Shields!Leave(f) PROVE ShieldsInv'
<1>1. env' = [env EXCEPT !.present[f] = FALSE, !.shield[f] = Shields!NoShield, !.alive[f] = FALSE]
  BY DEF Shields!Leave
<1>2. /\ DOMAIN env' = SupportFields /\ env'.absorbs = env.absorbs /\ env'.credit = env.credit /\ env'.decided = env.decided
      /\ env'.shield = [env.shield EXCEPT ![f] = Shields!NoShield] /\ env'.lost = env.lost
      /\ env'.present = [env.present EXCEPT ![f] = FALSE]
  BY <1>1 DEF ShieldsInv, ShieldsTyped, SupportFields
<1>3. env.lost = [env.lost EXCEPT ![f] = env.lost[f]] /\ env.lost[f] \in Nat
  BY DEF ShieldsInv, ShieldsTyped
<1>4. /\ DOMAIN env'.present = Setup.shields.Friends /\ ~env'.present[f]
      /\ \A g \in Setup.shields.Friends : g # f => env'.present[g] = env.present[g]
  BY <1>2 DEF ShieldsInv, ShieldsTyped
<1>5. PICK l \in Nat : l = env.lost[f]
  BY <1>3
<1>6. l >= env.lost[f] /\ env'.lost = [env.lost EXCEPT ![f] = l]
  BY <1>2, <1>3, <1>5
<1>7. PICK s \in Amounts : s = Shields!NoShield
  BY NoShieldIsNone
<1> QED
  BY <1>2, <1>4, <1>6, <1>7, OneFriend

\* A shield whose time runs out within a decision had little left at the last.
LEMMA PassKeeps == ASSUME Shields!SupportConstants, ShieldsInv, Shields!Pass PROVE ShieldsInv'
<1>1. env' = [env EXCEPT !.decided = TRUE, !.clock = @ + 1, !.shield = [f \in Setup.shields.Friends |-> Shields!Older(@[f])]]
  BY DEF Shields!Pass
<1>2. /\ DOMAIN env' = SupportFields /\ env'.absorbs = env.absorbs /\ env'.credit = env.credit /\ env'.decided = TRUE
      /\ env'.shield = [f \in Setup.shields.Friends |-> Shields!Older(env.shield[f])]
      /\ env'.lost = env.lost /\ env'.present = env.present
  BY <1>1 DEF ShieldsInv, ShieldsTyped, SupportFields
<1>3. ASSUME NEW f \in Setup.shields.Friends PROVE env'.shield[f] \in Amounts /\ Sound(env', f)
  <2>1. PICK s : s = Shields!Older(env.shield[f])
    OBVIOUS
  <2>2. /\ env.absorbs[f] \in Amounts /\ env.shield[f] \in Amounts /\ env.lost[f] \in Nat /\ env.credit[f] \in Nat
        /\ env.credit[f] <= env.lost[f]
        /\ env.present[f] => Covered(env.absorbs[f], env.shield[f], env.lost[f], env.credit[f], env.decided)
    BY DEF ShieldsInv, ShieldsTyped, Sound
  <2>3. /\ env.absorbs[f].amount \in Nat /\ env.absorbs[f].left \in Nat /\ env.shield[f].amount \in Nat /\ env.shield[f].left \in Nat
        /\ env.shield[f].left <= Setup.shields.Lasts
    BY <2>2 DEF Amounts, Shields!SupportConstants
  <2>4. ~env.decided
    BY DEF Shields!Pass
  <2>5. s \in Amounts /\ (env.present[f] => Covered(env.absorbs[f], s, env.lost[f], env.credit[f], TRUE))
    <3>1. CASE env.shield[f].left <= 1
      <4>1. s = Shields!NoShield
        BY <2>1, <3>1 DEF Shields!Older
      <4>2. Setup.shields.Slack \in Nat /\ Setup.shields.Slack >= 1
        BY DEF Shields!SupportConstants
      <4> QED
        BY <2>2, <2>3, <2>4, <3>1, <4>1, <4>2, NoShieldIsNone DEF Covered
    <3>2. CASE ~(env.shield[f].left <= 1)
      <4>1. s = [env.shield[f] EXCEPT !.left = @ - 1]
        BY <2>1, <3>2 DEF Shields!Older
      <4>2. s = [amount |-> env.shield[f].amount, left |-> env.shield[f].left - 1]
        BY <2>2, <4>1 DEF Amounts
      <4>3. env.shield[f].left - 1 \in 1 .. Setup.shields.Lasts
        BY <2>3, <3>2 DEF Shields!SupportConstants
      <4>4. s \in Amounts /\ s.amount = env.shield[f].amount /\ s.left = env.shield[f].left - 1
        BY <2>2, <4>2, <4>3 DEF Amounts
      <4>5. s # Shields!NoShield /\ env.shield[f] # Shields!NoShield
        BY <2>2, <3>2, <4>3, <4>4, NoShieldIsNone
      <4> QED
        BY <2>2, <2>3, <4>4, <4>5 DEF Covered
    <3> QED
      BY <3>1, <3>2
  <2>6. env'.shield[f] = s
    BY <1>2, <2>1
  <2> QED
    BY <1>2, <2>2, <2>5, <2>6 DEF Sound
<1>4. ShieldsTyped(env')
  BY <1>2, <1>3 DEF ShieldsInv, ShieldsTyped
<1> QED
  BY <1>3, <1>4 DEF ShieldsInv

\* What is credited was covered by what was lost.
LEMMA SoakedWasLost ==
    ASSUME Shields!SupportConstants, NEW before \in Amounts, NEW after \in Amounts, NEW lost \in Nat, NEW credit \in Nat,
           NEW decided, NEW alive, Covered(before, after, lost, credit, decided), credit <= lost
    PROVE  Shields!Soaked(before, after, alive) \in Nat /\ credit + Shields!Soaked(before, after, alive) <= lost
<1>1. before.amount \in Nat /\ before.left \in Nat /\ after.amount \in Nat /\ after.left \in Nat /\ Setup.shields.Slack \in Nat
  BY DEF Amounts, Shields!SupportConstants
<1> QED
  BY <1>1 DEF Covered, Shields!Soaked

LEMMA TrackKeeps == ASSUME Shields!SupportConstants, ShieldsInv, Shields!Track PROVE ShieldsInv'
<1>1. PICK e : e = [env EXCEPT !.decided = FALSE, !.absorbs = env.shield,
                               !.credit = [f \in Setup.shields.Friends |->
                                   IF env.present[f] /\ env.absorbs[f] # Shields!NoShield
                                   THEN @[f] + Shields!Soaked(env.absorbs[f], env.shield[f], env.alive[f]) ELSE @[f]]]
  BY Zenon
<1>2. /\ DOMAIN e = SupportFields /\ e.absorbs = env.shield /\ e.shield = env.shield /\ e.decided = FALSE
      /\ e.lost = env.lost /\ e.present = env.present
      /\ e.credit = [f \in Setup.shields.Friends |-> IF env.present[f] /\ env.absorbs[f] # Shields!NoShield
                                   THEN env.credit[f] + Shields!Soaked(env.absorbs[f], env.shield[f], env.alive[f]) ELSE env.credit[f]]
  BY <1>1 DEF ShieldsInv, ShieldsTyped, SupportFields
<1>3. env' = Shields!SeenCast(e)
  BY <1>1 DEF Shields!Track
<1>4. /\ DOMAIN env' = SupportFields /\ env'.absorbs = e.absorbs /\ env'.shield = e.shield /\ env'.decided = e.decided
      /\ env'.lost = e.lost /\ env'.present = e.present /\ env'.credit = e.credit
  BY <1>2, <1>3 DEF Shields!SeenCast, SupportFields
<1>5. ASSUME NEW f \in Setup.shields.Friends PROVE e.credit[f] \in Nat /\ Sound(e, f)
  <2>1. /\ env.absorbs[f] \in Amounts /\ env.shield[f] \in Amounts /\ env.lost[f] \in Nat /\ env.credit[f] \in Nat
        /\ env.credit[f] <= env.lost[f]
        /\ env.present[f] => Covered(env.absorbs[f], env.shield[f], env.lost[f], env.credit[f], env.decided)
    BY DEF ShieldsInv, ShieldsTyped, Sound
  <2>2. e.credit[f] \in Nat /\ e.credit[f] <= env.lost[f]
    <3>1. CASE env.present[f] /\ env.absorbs[f] # Shields!NoShield
      <4>1. e.credit[f] = env.credit[f] + Shields!Soaked(env.absorbs[f], env.shield[f], env.alive[f])
        BY <1>2, <3>1
      <4> QED
        BY <2>1, <3>1, <4>1, SoakedWasLost
    <3>2. CASE ~(env.present[f] /\ env.absorbs[f] # Shields!NoShield)
      BY <1>2, <2>1, <3>2
    <3> QED
      BY <3>1, <3>2
  <2>3. env.shield[f].amount \in Nat /\ env.shield[f].left \in Nat
    BY <2>1 DEF Amounts, Shields!SupportConstants
  <2>4. Covered(env.shield[f], env.shield[f], env.lost[f], e.credit[f], FALSE)
    BY <2>1, <2>2, <2>3, NoShieldIsNone DEF Covered
  <2> QED
    BY <1>2, <2>2, <2>4 DEF Sound
<1>6. ShieldsTyped(env')
  BY <1>2, <1>4, <1>5 DEF ShieldsInv, ShieldsTyped
<1>7. \A f \in Setup.shields.Friends : Sound(env', f)
  BY <1>4, <1>5 DEF Sound
<1> QED
  BY <1>6, <1>7 DEF ShieldsInv

LEMMA ShieldsKeep == ASSUME Shields!SupportConstants, ShieldsInv, Shields!Next PROVE ShieldsInv'
<1>1. ASSUME NEW f \in Setup.shields.Friends, Shields!StandUp(f) PROVE ShieldsInv'
  <2>1. /\ DOMAIN env' = SupportFields /\ env'.absorbs = env.absorbs /\ env'.shield = env.shield /\ env'.decided = env.decided
        /\ env'.lost = env.lost /\ env'.present = env.present /\ env'.credit = env.credit
    BY <1>1 DEF Shields!StandUp, ShieldsInv, ShieldsTyped, SupportFields
  <2> QED
    BY <2>1 DEF ShieldsInv, ShieldsTyped, Sound
<1>2. ASSUME NEW c \in Setup.shields.Casters, Shields!Cast(c) \/ Shields!EndCast(c) \/ Shields!Retarget(c) PROVE ShieldsInv'
  <2>1. /\ DOMAIN env' = SupportFields /\ env'.absorbs = env.absorbs /\ env'.shield = env.shield /\ env'.decided = env.decided
        /\ env'.lost = env.lost /\ env'.present = env.present /\ env'.credit = env.credit
    BY <1>2, Zenon DEF Shields!Cast, Shields!EndCast, Shields!Retarget, ShieldsInv, ShieldsTyped, SupportFields
  <2> QED
    BY <2>1 DEF ShieldsInv, ShieldsTyped, Sound
<1>3. CASE Shields!World
  BY <1>1, <1>2, <1>3, ShieldKeeps, SoakKeeps, TakeOffKeeps, LeaveKeeps DEF Shields!World
<1> QED
  BY <1>3, PassKeeps, TrackKeeps DEF Shields!Next

LEMMA ShieldsHold == ShieldsInv => Shields!CreditWasLost
BY DEF ShieldsInv, Sound, Shields!CreditWasLost

\* What was not seen yet of the target's cast was cast, or turned to.
Unseen(e) == e.casting[e.target] /\ e.last # e.target
CastsInv == /\ DOMAIN env = SupportFields /\ env.target \in Setup.casts.Casters /\ DOMAIN env.casting = Setup.casts.Casters
            /\ env.seen \in Nat /\ env.casts \in Nat /\ env.turns \in Nat
            /\ env.seen <= env.casts + env.turns
            /\ Unseen(env) => env.seen < env.casts + env.turns

LEMMA CastsStart == Casts!SupportConstants /\ Casts!Init => CastsInv
<1> SUFFICES ASSUME Casts!SupportConstants, Casts!Init PROVE CastsInv
  OBVIOUS
<1>1. (CHOOSE c \in Setup.casts.Casters : TRUE) \in Setup.casts.Casters
  BY DEF Casts!SupportConstants
<1>2. /\ DOMAIN env = SupportFields /\ env.target \in Setup.casts.Casters
      /\ env.casting = [c \in Setup.casts.Casters |-> FALSE] /\ env.seen = 0 /\ env.casts = 0 /\ env.turns = 0
  BY <1>1 DEF Casts!Init, SupportFields
<1> QED
  BY <1>2 DEF CastsInv, Unseen

LEMMA CastsKeep == ASSUME Casts!SupportConstants, CastsInv, Casts!Next PROVE CastsInv'
<1>1. ASSUME NEW f \in Setup.casts.Friends,
             \/ Casts!Shield(f) \/ Casts!StandUp(f) \/ Casts!Leave(f)
             \/ \E n \in 1 .. Setup.casts.Full : Casts!Soak(f, n)
             \/ \E dies \in BOOLEAN : Casts!TakeOff(f, dies)
      PROVE  CastsInv'
  <2>1. /\ DOMAIN env' = SupportFields /\ env'.target = env.target /\ env'.casting = env.casting /\ env'.last = env.last
        /\ env'.seen = env.seen /\ env'.casts = env.casts /\ env'.turns = env.turns
    BY <1>1, Zenon DEF Casts!Shield, Casts!StandUp, Casts!Leave, Casts!Soak, Casts!TakeOff, CastsInv, SupportFields
  <2> QED
    BY <2>1 DEF CastsInv, Unseen
<1>2. ASSUME NEW c \in Setup.casts.Casters, Casts!Cast(c) PROVE CastsInv'
  <2>1. /\ DOMAIN env' = SupportFields /\ env'.target = env.target /\ DOMAIN env'.casting = Setup.casts.Casters
        /\ env'.seen = env.seen /\ env'.casts = env.casts + 1 /\ env'.turns = env.turns
    BY <1>2 DEF Casts!Cast, CastsInv, SupportFields
  <2> QED
    BY <2>1 DEF CastsInv
<1>3. ASSUME NEW c \in Setup.casts.Casters, Casts!EndCast(c) PROVE CastsInv'
  <2>1. /\ DOMAIN env' = SupportFields /\ env'.target = env.target /\ env'.casting = [env.casting EXCEPT ![c] = FALSE] /\ env'.last = env.last
        /\ env'.seen = env.seen /\ env'.casts = env.casts /\ env'.turns = env.turns
    BY <1>3 DEF Casts!EndCast, CastsInv, SupportFields
  <2>2. Unseen(env') => Unseen(env)
    BY <2>1 DEF CastsInv, Unseen
  <2> QED
    BY <2>1, <2>2 DEF CastsInv
<1>4. ASSUME NEW c \in Setup.casts.Casters, Casts!Retarget(c) PROVE CastsInv'
  <2>1. /\ DOMAIN env' = SupportFields /\ env'.target = c /\ env'.casting = env.casting
        /\ env'.seen = env.seen /\ env'.casts = env.casts /\ env'.turns = env.turns + 1
    BY <1>4 DEF Casts!Retarget, CastsInv, SupportFields
  <2> QED
    BY <2>1 DEF CastsInv
<1>5. CASE Casts!World
  BY <1>1, <1>2, <1>3, <1>4, <1>5 DEF Casts!World
<1>6. CASE Casts!Pass
  <2>1. /\ DOMAIN env' = SupportFields /\ env'.target = env.target /\ env'.casting = env.casting /\ env'.last = env.last
        /\ env'.seen = env.seen /\ env'.casts = env.casts /\ env'.turns = env.turns
    BY <1>6 DEF Casts!Pass, CastsInv, SupportFields
  <2> QED
    BY <2>1 DEF CastsInv, Unseen
<1>7. CASE Casts!Track
  <2>1. PICK credit : env' = Casts!SeenCast([env EXCEPT !.decided = FALSE, !.absorbs = env.shield, !.credit = credit])
    BY <1>7, Zenon DEF Casts!Track
  <2>2. PICK e : e = [env EXCEPT !.decided = FALSE, !.absorbs = env.shield, !.credit = credit]
    OBVIOUS
  <2>3. /\ DOMAIN e = SupportFields /\ e.target = env.target /\ e.casting = env.casting /\ e.last = env.last
        /\ e.seen = env.seen /\ e.casts = env.casts /\ e.turns = env.turns
    BY <2>2 DEF CastsInv, SupportFields
  <2>4. env' = Casts!SeenCast(e)
    BY <2>1, <2>2
  <2>5. CASE ~e.casting[e.target]
    <3>1. /\ DOMAIN env' = SupportFields /\ env'.target = e.target /\ env'.casting = e.casting
          /\ env'.seen = e.seen /\ env'.casts = e.casts /\ env'.turns = e.turns
      BY <2>3, <2>4, <2>5 DEF Casts!SeenCast, SupportFields
    <3> QED
      BY <2>3, <2>5, <3>1 DEF CastsInv, Unseen
  <2>6. CASE e.casting[e.target] /\ e.last = e.target
    BY <2>3, <2>4, <2>6 DEF Casts!SeenCast, CastsInv, Unseen
  <2>7. CASE e.casting[e.target] /\ e.last # e.target
    <3>1. /\ DOMAIN env' = SupportFields /\ env'.target = e.target /\ env'.casting = e.casting /\ env'.last = e.target
          /\ env'.seen = e.seen + 1 /\ env'.casts = e.casts /\ env'.turns = e.turns
      BY <2>3, <2>4, <2>7 DEF Casts!SeenCast, SupportFields
    <3>2. Unseen(env)
      BY <2>3, <2>7 DEF Unseen
    <3> QED
      BY <2>3, <3>1, <3>2 DEF CastsInv, Unseen
  <2> QED
    BY <2>5, <2>6, <2>7
<1> QED
  BY <1>5, <1>6, <1>7 DEF Casts!Next

LEMMA CastsHold == CastsInv => Casts!CastsSeen
BY DEF CastsInv, Casts!CastsSeen

-----------------------------------------------------------------------------
(* Presses: SeatPacing.  What the memory holds back is, from now on, what   *)
(* the presses of the episode say, and the times it keeps of a button are   *)
(* those of its presses that did nothing, as far back as the window goes.   *)

PaceFields == {"clock", "episode", "observed", "memory", "charged", "log", "casting"}
MemoryFields == {"ready", "modeChange", "cast", "castStart", "times"}

\* A seat presses once a decision.
Logged(log, clock) == /\ IsFiniteSet(log)
                      /\ \A p \in log : p.at \in Nat /\ p.at < clock
                      /\ \A p, q \in log : p.at = q.at => p = q

\* Whether the presses hold a button back at a time, or lock the modes; and those of
\* a button that did nothing, within the window.
Holds(log, a, t) == \E p \in log : \/ p.action = a /\ t < p.at + Pace!RepeatOf(a)
                                   \/ p.action = Setup.pace.Stop /\ p.stopped = a /\ t < p.at + Setup.pace.RecastAfterStop
Locks(log, t) == \E p \in log : p.action \in Setup.pace.Modes /\ t < Pace!Larger(1, p.at) + Setup.pace.ModeLock
Wasted(log, a, t) == {q \in log : q.action = a /\ ~q.did /\ q.at + Setup.pace.RepeatWindow > t}
Times(log) == {q.at : q \in log}
Recent(memory, a, t) == {x \in memory.times[a] : x + Setup.pace.RepeatWindow > t}

\* The presses in the window a press ends, and the presses that are charged.
Streak(log, p) == {q \in log : q.action = p.action /\ ~q.did /\ q.at <= p.at /\ q.at + Setup.pace.RepeatWindow > p.at}
Charges(log) == {p \in log : ~p.did /\ Cardinality(Streak(log, p)) > Setup.pace.RepeatFree}

Remembers(memory, log, clock) ==
    /\ DOMAIN memory = MemoryFields /\ DOMAIN memory.ready = Pace!Actions /\ DOMAIN memory.times = Pace!Actions
    /\ memory.modeChange \in Nat
    /\ \A a \in Pace!Actions : memory.ready[a] \in Nat /\ memory.times[a] \subseteq Nat
    /\ \A a \in Pace!Actions, t \in Nat : t >= clock => (t < memory.ready[a] <=> Holds(log, a, t))
    /\ \A t \in Nat : t >= clock => (memory.modeChange > 0 /\ t < memory.modeChange + Setup.pace.ModeLock <=> Locks(log, t))
    /\ \A a \in Pace!Actions, t \in Nat : t >= clock => Recent(memory, a, t) = Times(Wasted(log, a, t))

PaceInv == /\ DOMAIN env = PaceFields /\ env.clock \in Nat
           /\ Logged(env.log, env.clock) /\ Remembers(env.memory, env.log, env.clock)
           /\ env.charged = Cardinality(Charges(env.log))

LEMMA PaceSameFinite == \A S : Pace!Cardinality(S) = Cardinality(S)
BY DEF Cardinality, Pace!Cardinality, IsFiniteSet, Pace!IsFiniteSet

LEMMA PaceNumbers == ASSUME Pace!PaceConstants
                     PROVE  /\ Setup.pace.RecastAfterStop \in Nat /\ Setup.pace.ModeLock \in Nat /\ Setup.pace.RepeatFree \in Nat
                            /\ Setup.pace.RepeatWindow \in Nat /\ Setup.pace.RepeatWindow >= 1
                            /\ \A a : Pace!RepeatOf(a) \in Nat
BY DEF Pace!PaceConstants, Pace!RepeatOf

\* Nothing pressed, nothing held back.
LEMMA NothingRemembered == ASSUME Pace!PaceConstants
                           PROVE  Remembers(Pace!NoMemory, {}, 0) /\ Logged({}, 0) /\ Cardinality(Charges({})) = 0
<1>1. /\ DOMAIN Pace!NoMemory = MemoryFields /\ Pace!NoMemory.ready = [a \in Pace!Actions |-> 0] /\ Pace!NoMemory.modeChange = 0
      /\ Pace!NoMemory.times = [a \in Pace!Actions |-> {}]
  BY DEF Pace!NoMemory, MemoryFields
<1>2. \A a \in Pace!Actions, t \in Nat : ~(t < Pace!NoMemory.ready[a]) /\ ~Holds({}, a, t)
  BY <1>1 DEF Holds
<1>3. \A t : ~Locks({}, t)
  BY DEF Locks
<1>4. \A a \in Pace!Actions, t \in Nat : Recent(Pace!NoMemory, a, t) = {} /\ Times(Wasted({}, a, t)) = {}
  BY <1>1 DEF Recent, Times, Wasted
<1>5. Charges({}) = {}
  BY DEF Charges
<1>6. Cardinality(Charges({})) = 0 /\ IsFiniteSet({})
  BY <1>5, FS_EmptySet
<1>7. Remembers(Pace!NoMemory, {}, 0)
  BY <1>1, <1>2, <1>3, <1>4 DEF Remembers
<1>8. Logged({}, 0)
  BY <1>6 DEF Logged
<1> QED
  BY <1>6, <1>7, <1>8

LEMMA PaceStarts == Pace!PaceConstants /\ Pace!Init => PaceInv
<1> SUFFICES ASSUME Pace!PaceConstants, Pace!Init PROVE PaceInv
  OBVIOUS
<1>1. DOMAIN env = PaceFields /\ env.clock = 0 /\ env.memory = Pace!NoMemory /\ env.charged = 0 /\ env.log = {}
  BY DEF Pace!Init, PaceFields
<1> QED
  BY <1>1, NothingRemembered DEF PaceInv

\* As many presses as times: a seat presses once a decision.
LEMMA OnceADecision == ASSUME NEW log, NEW clock, Logged(log, clock), NEW S \in SUBSET log
                       PROVE  IsFiniteSet(S) /\ IsFiniteSet(Times(S)) /\ Cardinality(Times(S)) = Cardinality(S)
<1>1. IsFiniteSet(S)
  BY FS_Subset DEF Logged
<1> DEFINE at == [q \in S |-> q.at]
<1>2. at \in [S -> Times(S)]
  BY DEF Times
<1>3. \A p, q \in S : at[p] = at[q] => p = q
  BY DEF Logged
<1>4. \A t \in Times(S) : \E q \in S : at[q] = t
  BY DEF Times
<1>5. at \in Bijection(S, Times(S))
  BY <1>2, <1>3, <1>4, Fun_IsBij
<1>6. ExistsBijection(S, Times(S))
  BY <1>5 DEF ExistsBijection
<1> QED
  BY <1>1, <1>6, FS_Bijection

\* A press is the last of its log: it is charged for those before, and they are not for it.
LEMMA PressIsLast ==
    ASSUME Pace!PaceConstants, NEW log, NEW clock \in Nat, Logged(log, clock), NEW p, p.at = clock
    PROVE  /\ Logged(log \union {p}, clock + 1) /\ p \notin log
           /\ Cardinality(Charges(log \union {p})) =
                 Cardinality(Charges(log)) + (IF ~p.did /\ Cardinality(Streak(log \union {p}, p)) > Setup.pace.RepeatFree THEN 1 ELSE 0)
<1>1. IsFiniteSet(log) /\ p \notin log /\ \A q \in log : q.at \in Nat /\ q.at < clock
  BY DEF Logged
<1>2. IsFiniteSet(log \union {p})
  BY <1>1, FS_AddElement
<1>3. \A q \in log \union {p} : q.at \in Nat /\ q.at < clock + 1
  BY <1>1
<1>4. \A q, r \in log \union {p} : q.at = r.at => q = r
  BY <1>1 DEF Logged
<1>5. ASSUME NEW q \in log PROVE Streak(log \union {p}, q) = Streak(log, q)
  BY <1>1 DEF Streak
<1>6. IsFiniteSet(Charges(log)) /\ p \notin Charges(log)
  <2>1. Charges(log) \in SUBSET log
    BY DEF Charges
  <2> QED
    BY <1>1, <2>1, FS_Subset
<1>7. CASE ~p.did /\ Cardinality(Streak(log \union {p}, p)) > Setup.pace.RepeatFree
  <2>1. Charges(log \union {p}) = Charges(log) \union {p}
    BY <1>5, <1>7 DEF Charges
  <2> QED
    BY <1>1, <1>2, <1>3, <1>4, <1>6, <1>7, <2>1, FS_AddElement, Zenon DEF Logged
<1>8. CASE ~(~p.did /\ Cardinality(Streak(log \union {p}, p)) > Setup.pace.RepeatFree)
  <2>1. Charges(log \union {p}) = Charges(log)
    BY <1>5, <1>8 DEF Charges
  <2>2. Cardinality(Charges(log)) \in Nat
    BY <1>6, FS_CardinalityType
  <2> QED
    BY <1>1, <1>2, <1>3, <1>4, <1>8, <2>1, <2>2 DEF Logged
<1> QED
  BY <1>7, <1>8

\* What a press holds back is added to what those before it hold back: it was not
\* held back itself.
LEMMA PressHoldsBack ==
    ASSUME Pace!PaceConstants, env.clock \in Nat, NEW log, NEW memory, Remembers(memory, log, env.clock), NEW action \in Pace!Actions,
           ~Pace!Paced(memory, action), NEW p, p.at = env.clock, p.action = action, p.stopped = memory.cast,
           NEW a \in Pace!Actions, NEW t \in Nat, t >= env.clock + 1
    PROVE  /\ Pace!ReadyAgain(memory, action, a) \in Nat
           /\ t < Pace!ReadyAgain(memory, action, a) <=> Holds(log \union {p}, a, t)
<1>1. memory.ready[a] \in Nat /\ memory.ready[action] \in Nat /\ memory.ready[action] <= env.clock
  BY DEF Remembers, Pace!Paced
<1>2. t < memory.ready[a] <=> Holds(log, a, t)
  BY DEF Remembers
<1>3. Holds(log \union {p}, a, t) <=>
         (\/ Holds(log, a, t)
          \/ action = a /\ t < env.clock + Pace!RepeatOf(a)
          \/ action = Setup.pace.Stop /\ memory.cast = a /\ t < env.clock + Setup.pace.RecastAfterStop)
  BY DEF Holds
<1>4. Setup.pace.RecastAfterStop \in Nat /\ Pace!RepeatOf(action) \in Nat
  BY PaceNumbers
<1>5. PICK ready : ready = (IF a = action THEN env.clock + Pace!RepeatOf(action) ELSE memory.ready[a])
  OBVIOUS
<1>6. ready \in Nat /\ (t < ready <=> Holds(log, a, t) \/ (action = a /\ t < env.clock + Pace!RepeatOf(a)))
  <2>1. CASE a = action
    BY <1>1, <1>2, <1>4, <1>5, <2>1
  <2>2. CASE a # action
    BY <1>1, <1>2, <1>5, <2>2
  <2> QED
    BY <2>1, <2>2
<1>7. Pace!ReadyAgain(memory, action, a) =
         IF action = Setup.pace.Stop /\ a = memory.cast THEN Pace!Larger(ready, env.clock + Setup.pace.RecastAfterStop) ELSE ready
  BY <1>5 DEF Pace!ReadyAgain
<1>8. CASE action = Setup.pace.Stop /\ a = memory.cast
  <2>1. Pace!ReadyAgain(memory, action, a) = Pace!Larger(ready, env.clock + Setup.pace.RecastAfterStop)
    BY <1>7, <1>8
  <2>2. PICK again : again = env.clock + Setup.pace.RecastAfterStop
    OBVIOUS
  <2>3. again \in Nat
    BY <1>4, <2>2
  <2>4. /\ Pace!Larger(ready, again) \in Nat
        /\ t < Pace!Larger(ready, again) <=> t < ready \/ t < again
    BY <1>6, <2>3 DEF Pace!Larger
  <2> QED
    BY <1>3, <1>6, <1>8, <2>1, <2>2, <2>4
<1>9. CASE ~(action = Setup.pace.Stop /\ a = memory.cast)
  BY <1>3, <1>6, <1>7, <1>9
<1> QED
  BY <1>8, <1>9

\* The last mode pressed locks the longest.
LEMMA PressLocks ==
    ASSUME Pace!PaceConstants, env.clock \in Nat, NEW log, Logged(log, env.clock), NEW memory, Remembers(memory, log, env.clock),
           NEW action \in Pace!Actions, NEW p, p.at = env.clock, p.action = action, NEW t \in Nat, t >= env.clock + 1,
           NEW change, change = IF action \in Setup.pace.Modes THEN Pace!Larger(1, env.clock) ELSE memory.modeChange
    PROVE  change \in Nat /\ (change > 0 /\ t < change + Setup.pace.ModeLock <=> Locks(log \union {p}, t))
<1>1. Setup.pace.ModeLock \in Nat
  BY PaceNumbers
<1>2. Locks(log \union {p}, t) <=> Locks(log, t) \/ (action \in Setup.pace.Modes /\ t < Pace!Larger(1, env.clock) + Setup.pace.ModeLock)
  BY DEF Locks
<1>3. memory.modeChange \in Nat /\ (memory.modeChange > 0 /\ t < memory.modeChange + Setup.pace.ModeLock <=> Locks(log, t))
  BY DEF Remembers
<1>4. CASE action \in Setup.pace.Modes
  <2>1. Locks(log, t) => t < Pace!Larger(1, env.clock) + Setup.pace.ModeLock
    BY <1>1 DEF Locks, Logged, Pace!Larger
  <2> QED
    BY <1>2, <1>4, <2>1 DEF Pace!Larger
<1>5. CASE action \notin Setup.pace.Modes
  BY <1>2, <1>3, <1>5
<1> QED
  BY <1>4, <1>5

\* The presses of a button that did nothing, with one more.
LEMMA PressWasted ==
    ASSUME NEW log, NEW p, NEW a, NEW t
    PROVE  Times(Wasted(log \union {p}, a, t)) =
              Times(Wasted(log, a, t)) \union (IF p.action = a /\ ~p.did /\ p.at + Setup.pace.RepeatWindow > t THEN {p.at} ELSE {})
<1>1. Wasted(log \union {p}, a, t) = Wasted(log, a, t) \union (IF p.action = a /\ ~p.did /\ p.at + Setup.pace.RepeatWindow > t THEN {p} ELSE {})
  BY DEF Wasted
<1> QED
  BY <1>1 DEF Times

\* The memory after a press, of one that did something and of one that did not.
LEMMA PressIsRemembered ==
    ASSUME Pace!PaceConstants, env.clock \in Nat, NEW log, Logged(log, env.clock), NEW memory, Remembers(memory, log, env.clock),
           NEW action \in Pace!Actions, ~Pace!Paced(memory, action),
           NEW p, p.at = env.clock, p.action = action, p.stopped = memory.cast, NEW after,
           after = IF ~p.did THEN Pace!Counted(Pace!Pressed(memory, action), action) ELSE Pace!Pressed(memory, action)
    PROVE  Remembers(after, log \union {p}, env.clock + 1)
<1>1. PICK pressed : pressed = Pace!Pressed(memory, action)
  OBVIOUS
<1>2. PICK change : change = IF action \in Setup.pace.Modes THEN Pace!Larger(1, env.clock) ELSE memory.modeChange
  OBVIOUS
<1>3. DOMAIN memory = MemoryFields /\ DOMAIN memory.times = Pace!Actions /\ \A a \in Pace!Actions : memory.times[a] \subseteq Nat
  BY DEF Remembers
<1>4. /\ DOMAIN pressed = MemoryFields /\ pressed.modeChange = change /\ pressed.times = memory.times
      /\ pressed.ready = [a \in Pace!Actions |-> Pace!ReadyAgain(memory, action, a)]
  BY <1>1, <1>2, <1>3 DEF Pace!Pressed, MemoryFields
<1>5. PICK useless : useless = Pace!Useless(pressed, action)
  OBVIOUS
<1>6. /\ DOMAIN after = MemoryFields /\ after.modeChange = change /\ after.ready = pressed.ready
      /\ after.times = IF ~p.did THEN [memory.times EXCEPT ![action] = useless] ELSE memory.times
  <2>1. CASE ~p.did
    <3>1. after = [pressed EXCEPT !.times[action] = useless]
      BY <1>1, <1>5, <2>1 DEF Pace!Counted
    <3> QED
      BY <1>4, <2>1, <3>1 DEF MemoryFields
  <2>2. CASE p.did
    BY <1>1, <1>4, <2>2
  <2> QED
    BY <2>1, <2>2
<1>7. useless = Recent(memory, action, env.clock) \union {env.clock}
  BY <1>4, <1>5 DEF Pace!Useless, Recent
<1>8. Setup.pace.RepeatWindow \in Nat
  BY PaceNumbers
<1>9. ASSUME NEW a \in Pace!Actions PROVE after.ready[a] \in Nat /\ after.times[a] \subseteq Nat
  <2>1. after.ready[a] \in Nat
    <3>1. PICK t \in Nat : t = env.clock + 1
      OBVIOUS
    <3>2. t >= env.clock + 1
      BY <3>1
    <3>3. /\ Pace!ReadyAgain(memory, action, a) \in Nat
          /\ t < Pace!ReadyAgain(memory, action, a) <=> Holds(log \union {p}, a, t)
      BY <3>2, PressHoldsBack
    <3> QED
      BY <1>4, <1>6, <3>3
  <2>2. useless \subseteq Nat
    BY <1>3, <1>7 DEF Recent
  <2> QED
    BY <1>3, <1>6, <2>1, <2>2
<1>10. ASSUME NEW a \in Pace!Actions, NEW t \in Nat, t >= env.clock + 1
       PROVE  /\ t < after.ready[a] <=> Holds(log \union {p}, a, t)
              /\ Recent(after, a, t) = Times(Wasted(log \union {p}, a, t))
  <2>1. t < after.ready[a] <=> Holds(log \union {p}, a, t)
    BY <1>4, <1>6, <1>10, PressHoldsBack
  <2>2. Recent(memory, a, t) = Times(Wasted(log, a, t))
    BY <1>10 DEF Remembers
  <2>3. Recent(after, a, t) =
           Recent(memory, a, t) \union (IF action = a /\ ~p.did /\ env.clock + Setup.pace.RepeatWindow > t THEN {env.clock} ELSE {})
    <3>1. CASE a = action /\ ~p.did
      <4>1. after.times[a] = Recent(memory, action, env.clock) \union {env.clock}
        BY <1>3, <1>6, <1>7, <3>1
      <4>2. \A x \in memory.times[a] : x + Setup.pace.RepeatWindow > t => x + Setup.pace.RepeatWindow > env.clock
        BY <1>3, <1>8, <1>10
      <4> QED
        BY <3>1, <4>1, <4>2 DEF Recent
    <3>2. CASE ~(a = action /\ ~p.did)
      BY <1>3, <1>6, <3>2 DEF Recent
    <3> QED
      BY <3>1, <3>2
  <2>4. Times(Wasted(log \union {p}, a, t)) =
           Times(Wasted(log, a, t)) \union (IF p.action = a /\ ~p.did /\ p.at + Setup.pace.RepeatWindow > t THEN {p.at} ELSE {})
    BY PressWasted
  <2>5. (IF p.action = a /\ ~p.did /\ p.at + Setup.pace.RepeatWindow > t THEN {p.at} ELSE {}) =
        (IF action = a /\ ~p.did /\ env.clock + Setup.pace.RepeatWindow > t THEN {env.clock} ELSE {})
    OBVIOUS
  <2> QED
    BY <2>1, <2>2, <2>3, <2>4, <2>5
<1>11. ASSUME NEW t \in Nat, t >= env.clock + 1
       PROVE  change \in Nat /\ (change > 0 /\ t < change + Setup.pace.ModeLock <=> Locks(log \union {p}, t))
  BY <1>2, <1>11, PressLocks
<1>12. change \in Nat
  <2>1. env.clock + 1 \in Nat /\ env.clock + 1 >= env.clock + 1
    OBVIOUS
  <2> QED
    BY <1>11, <2>1
<1>13. DOMAIN after.ready = Pace!Actions /\ DOMAIN after.times = Pace!Actions
  BY <1>3, <1>4, <1>6
<1> QED
  BY <1>6, <1>9, <1>10, <1>11, <1>12, <1>13 DEF Remembers

\* What a press is charged for is what the log says of it.
LEMMA PressIsCharged ==
    ASSUME Pace!PaceConstants, env.clock \in Nat, NEW log, Logged(log, env.clock), NEW memory, Remembers(memory, log, env.clock),
           NEW action \in Pace!Actions, NEW p, p.at = env.clock, p.action = action, ~p.did
    PROVE  Pace!Cardinality(Pace!Useless(Pace!Pressed(memory, action), action)) = Cardinality(Streak(log \union {p}, p))
<1>1. Pace!Useless(Pace!Pressed(memory, action), action) = Recent(memory, action, env.clock) \union {env.clock}
  BY DEF Pace!Pressed, Pace!Useless, Recent, Remembers, MemoryFields
<1>2. Recent(memory, action, env.clock) = Times(Wasted(log, action, env.clock))
  BY DEF Remembers
<1>3. Setup.pace.RepeatWindow \in Nat /\ Setup.pace.RepeatWindow >= 1
  BY PaceNumbers
<1>4. Streak(log \union {p}, p) = Wasted(log, action, env.clock) \union {p}
  BY <1>3 DEF Streak, Wasted, Logged
<1>5. Times(Streak(log \union {p}, p)) = Times(Wasted(log, action, env.clock)) \union {env.clock}
  BY <1>4 DEF Times
<1>6. Logged(log \union {p}, env.clock + 1)
  BY PressIsLast
<1>7. Streak(log \union {p}, p) \in SUBSET (log \union {p})
  BY DEF Streak
<1>8. Cardinality(Times(Streak(log \union {p}, p))) = Cardinality(Streak(log \union {p}, p))
  BY <1>6, <1>7, OnceADecision
<1> QED
  BY <1>1, <1>2, <1>5, <1>8, PaceSameFinite

LEMMA PressKeeps == ASSUME Pace!PaceConstants, PaceInv, NEW action \in Pace!Actions, Pace!Press(action) PROVE PaceInv'
<1>1. PICK did \in (IF action \in Setup.pace.Orders \union Setup.pace.Modes THEN BOOLEAN ELSE {TRUE}) :
         LET memory == Pace!Pressed(env.memory, action)
             counts == ~did /\ action \notin Setup.pace.Moves
         IN env' = [env EXCEPT
               !.memory = IF counts THEN Pace!Counted(memory, action) ELSE memory,
               !.charged = IF counts /\ Pace!Cardinality(Pace!Useless(memory, action)) > Setup.pace.RepeatFree THEN @ + 1 ELSE @,
               !.casting = IF action = Setup.pace.Stop THEN Setup.pace.NoSpell
                           ELSE IF action \in Setup.pace.Spells /\ @ = Setup.pace.NoSpell THEN action ELSE @,
               !.log = @ \union {[at |-> env.clock, action |-> action, did |-> did, stopped |-> env.memory.cast]},
               !.clock = @ + 1, !.observed = FALSE]
  BY Zenon DEF Pace!Press
<1>2. did \in BOOLEAN /\ (~did => action \notin Setup.pace.Moves)
  BY DEF Pace!PaceConstants
<1>3. PICK p : p = [at |-> env.clock, action |-> action, did |-> did, stopped |-> env.memory.cast]
  OBVIOUS
<1>4. p.at = env.clock /\ p.action = action /\ p.did = did /\ p.stopped = env.memory.cast
  BY <1>3
<1>5. PICK pressed : pressed = Pace!Pressed(env.memory, action)
  OBVIOUS
<1>6. PICK n : n = Pace!Cardinality(Pace!Useless(pressed, action))
  OBVIOUS
<1>7. PICK after : after = IF ~did THEN Pace!Counted(pressed, action) ELSE pressed
  OBVIOUS
<1>8. env' = [env EXCEPT !.memory = after,
               !.charged = IF ~did /\ n > Setup.pace.RepeatFree THEN @ + 1 ELSE @,
               !.casting = IF action = Setup.pace.Stop THEN Setup.pace.NoSpell
                           ELSE IF action \in Setup.pace.Spells /\ @ = Setup.pace.NoSpell THEN action ELSE @,
               !.log = @ \union {p}, !.clock = @ + 1, !.observed = FALSE]
  BY <1>1, <1>2, <1>3, <1>5, <1>6, <1>7
<1>9. /\ DOMAIN env' = PaceFields /\ env'.memory = after /\ env'.log = env.log \union {p} /\ env'.clock = env.clock + 1
      /\ env'.charged = IF ~did /\ n > Setup.pace.RepeatFree THEN env.charged + 1 ELSE env.charged
  BY <1>8 DEF PaceInv, PaceFields
<1>10. /\ env.clock \in Nat /\ Logged(env.log, env.clock) /\ Remembers(env.memory, env.log, env.clock)
       /\ env.charged = Cardinality(Charges(env.log)) /\ ~Pace!Paced(env.memory, action)
  BY DEF PaceInv, Pace!Press
<1>11. Remembers(after, env.log \union {p}, env.clock + 1)
  BY <1>4, <1>5, <1>7, <1>10, PressIsRemembered
<1>12. ~did => n = Cardinality(Streak(env.log \union {p}, p))
  BY <1>4, <1>5, <1>6, <1>10, PressIsCharged
<1>13. /\ Logged(env.log \union {p}, env.clock + 1)
       /\ Cardinality(Charges(env.log \union {p})) =
             Cardinality(Charges(env.log)) + (IF ~did /\ Cardinality(Streak(env.log \union {p}, p)) > Setup.pace.RepeatFree THEN 1 ELSE 0)
  BY <1>4, <1>10, PressIsLast
<1>14. Cardinality(Charges(env.log)) \in Nat
  <2>1. Charges(env.log) \in SUBSET env.log
    BY DEF Charges
  <2> QED
    BY <1>10, <2>1, OnceADecision, FS_CardinalityType
<1>15. env'.charged = Cardinality(Charges(env.log \union {p}))
  BY <1>9, <1>10, <1>12, <1>13, <1>14
<1> QED
  BY <1>9, <1>10, <1>11, <1>13, <1>15 DEF PaceInv

\* As time passes nothing is held back that was not.
LEMMA LaterRemembers == ASSUME NEW memory, NEW log, NEW clock \in Nat, Remembers(memory, log, clock), Logged(log, clock)
                        PROVE  Remembers(memory, log, clock + 1) /\ Logged(log, clock + 1)
<1>1. \A t \in Nat : t >= clock + 1 => t >= clock
  OBVIOUS
<1>2. Remembers(memory, log, clock + 1)
  BY <1>1 DEF Remembers
<1>3. Logged(log, clock + 1)
  BY DEF Logged
<1> QED
  BY <1>2, <1>3

LEMMA PaceKeeps == ASSUME Pace!PaceConstants, PaceInv, Pace!Next PROVE PaceInv'
<1>1. CASE Pace!Observe
  <2>1. PICK spell : env' = [env EXCEPT !.observed = TRUE, !.casting = spell, !.memory = Pace!Seen(@, spell)]
    BY <1>1, Zenon DEF Pace!Observe
  <2>2. PICK seen : seen = Pace!Seen(env.memory, spell)
    OBVIOUS
  <2>3. /\ DOMAIN env' = PaceFields /\ env'.memory = seen /\ env'.log = env.log /\ env'.clock = env.clock /\ env'.charged = env.charged
    BY <2>1, <2>2 DEF PaceInv, PaceFields
  <2>4. /\ DOMAIN seen = MemoryFields /\ seen.ready = env.memory.ready /\ seen.times = env.memory.times
        /\ seen.modeChange = env.memory.modeChange
    BY <2>2 DEF Pace!Seen, PaceInv, Remembers, MemoryFields
  <2>5. Remembers(seen, env.log, env.clock)
    BY <2>4 DEF PaceInv, Remembers, Recent
  <2> QED
    BY <2>3, <2>5 DEF PaceInv
<1>2. CASE Pace!NoOp
  <2>1. /\ DOMAIN env' = PaceFields /\ env'.memory = env.memory /\ env'.log = env.log /\ env'.clock = env.clock + 1
        /\ env'.charged = env.charged
    BY <1>2 DEF Pace!NoOp, PaceInv, PaceFields
  <2> QED
    BY <2>1, LaterRemembers DEF PaceInv
<1>3. CASE Pace!NewEpisode
  <2>1. DOMAIN env' = PaceFields /\ env'.memory = Pace!NoMemory /\ env'.log = {} /\ env'.clock = 0 /\ env'.charged = 0
    BY <1>3 DEF Pace!NewEpisode, Pace!Forgotten, PaceInv, PaceFields
  <2> QED
    BY <2>1, NothingRemembered DEF PaceInv
<1> QED
  BY <1>1, <1>2, <1>3, PressKeeps DEF Pace!Next

LEMMA PaceHolds == Pace!PaceConstants /\ PaceInv => Pace!PacedByHistory /\ Pace!ChargedAsPressed
<1> SUFFICES ASSUME Pace!PaceConstants, PaceInv PROVE Pace!PacedByHistory /\ Pace!ChargedAsPressed
  OBVIOUS
<1>1. ASSUME NEW a \in Pace!Actions, a # Setup.pace.Stop PROVE Pace!Paced(env.memory, a) <=> Pace!HeldBack(a)
  <2>1. env.clock \in Nat /\ env.clock >= env.clock
    BY DEF PaceInv
  <2>2. env.clock < env.memory.ready[a] <=> Holds(env.log, a, env.clock)
    BY <2>1 DEF PaceInv, Remembers
  <2>3. env.memory.modeChange > 0 /\ env.clock < env.memory.modeChange + Setup.pace.ModeLock <=> Locks(env.log, env.clock)
    BY <2>1 DEF PaceInv, Remembers
  <2>4. Pace!HeldBack(a) <=> Holds(env.log, a, env.clock) \/ (a \in Setup.pace.Modes /\ Locks(env.log, env.clock))
    BY DEF Pace!HeldBack, Holds, Locks
  <2>5. Pace!Paced(env.memory, a) <=>
           (\/ env.clock < env.memory.ready[a]
            \/ /\ a \in Setup.pace.Modes
               /\ env.memory.modeChange > 0 /\ env.clock < env.memory.modeChange + Setup.pace.ModeLock)
    BY <1>1 DEF Pace!Paced
  <2> QED
    BY <2>2, <2>3, <2>4, <2>5
<1>2. Pace!ChargedAsPressed
  <2>1. Charges(env.log) = {p \in env.log : ~p.did /\ Pace!Cardinality(Streak(env.log, p)) > Setup.pace.RepeatFree}
    BY PaceSameFinite DEF Charges
  <2>2. env.charged = Pace!Cardinality(Charges(env.log))
    BY PaceSameFinite DEF PaceInv
  <2> QED
    BY <2>1, <2>2 DEF Pace!ChargedAsPressed, Streak
<1> QED
  BY <1>1, <1>2 DEF Pace!PacedByHistory
-----------------------------------------------------------------------------
(* Hiding: TrackHiding and TrackStalking.  What is said is about what is    *)
(* counted and what is paid; a step keeps it only with what ties the two    *)
(* together: that wasSeen is what the hunter sees, that breakPaid is the    *)
(* last break paid, and that a streak is never longer than its total.       *)

Hider == [now : Nat, hunted : BOOLEAN, seen : BOOLEAN, stealthed : BOOLEAN,
          wasSeen : BOOLEAN, unseen : Nat, streak : Nat, longest : Nat, wasStealthed : BOOLEAN,
          breaks : Nat, sightBreaks : Nat, breakPaid : Nat, breaksPaid : Seq(Nat), lost : Nat,
          wasStalking : BOOLEAN, stalked : Nat, stalkStreak : Nat, longestStalk : Nat, approaches : Nat, stalkPaid : Nat]

\* Of a step: the state after it is a whole record, of fields of their kinds.
WholeHider(e) == e = [now |-> e.now, hunted |-> e.hunted, seen |-> e.seen, stealthed |-> e.stealthed,
                      wasSeen |-> e.wasSeen, unseen |-> e.unseen, streak |-> e.streak, longest |-> e.longest,
                      wasStealthed |-> e.wasStealthed, breaks |-> e.breaks, sightBreaks |-> e.sightBreaks,
                      breakPaid |-> e.breakPaid, breaksPaid |-> e.breaksPaid, lost |-> e.lost,
                      wasStalking |-> e.wasStalking, stalked |-> e.stalked, stalkStreak |-> e.stalkStreak,
                      longestStalk |-> e.longestStalk, approaches |-> e.approaches, stalkPaid |-> e.stalkPaid]
HiderFlags(e) == /\ e.hunted \in BOOLEAN /\ e.seen \in BOOLEAN /\ e.stealthed \in BOOLEAN
                 /\ e.wasSeen \in BOOLEAN /\ e.wasStealthed \in BOOLEAN /\ e.wasStalking \in BOOLEAN
HiderClocks(e) == e.now \in Nat /\ e.lost \in Nat
HiderUnseens(e) == e.unseen \in Nat /\ e.streak \in Nat /\ e.longest \in Nat
HiderBreaks(e) == e.breaks \in Nat /\ e.sightBreaks \in Nat /\ e.breakPaid \in Nat /\ e.breaksPaid \in Seq(Nat)
HiderStalks(e) == /\ e.stalked \in Nat /\ e.stalkStreak \in Nat /\ e.longestStalk \in Nat
                  /\ e.approaches \in Nat /\ e.stalkPaid \in Nat
HiderCounts(e) == HiderClocks(e) /\ HiderUnseens(e) /\ HiderBreaks(e) /\ HiderStalks(e)

HunterSees(e) == e.wasSeen = (e.hunted /\ e.seen) /\ (e.wasSeen => e.now > 0)
UnseenCounted(e) == e.streak <= e.unseen /\ e.longest <= e.unseen
StalkingPaid(e) ==
    /\ e.stalkPaid <= Setup.hide.StalkMax /\ e.stalkPaid <= Setup.hide.Stalk * e.stalked
    /\ e.approaches <= e.stalked /\ e.stalkStreak <= e.stalked /\ e.longestStalk <= e.stalked
    /\ Setup.hide.Stalk * e.stalked <= Setup.hide.StalkMax => e.stalkPaid = Setup.hide.Stalk * e.stalked
BreaksPaid(e) ==
    /\ e.sightBreaks <= e.breaks
    /\ \A i \in 1 .. Len(e.breaksPaid) - 1 : e.breaksPaid[i + 1] >= e.breaksPaid[i] + Setup.hide.BreakCooldown
    /\ (e.breaks > 0) = (Len(e.breaksPaid) > 0)
    /\ IF Len(e.breaksPaid) = 0 THEN e.breakPaid = 0
       ELSE e.breakPaid > 0 /\ e.breakPaid = e.breaksPaid[Len(e.breaksPaid)]

HidingInv == env \in Hider /\ HunterSees(env) /\ env.breaks = env.lost /\ UnseenCounted(env) /\ StalkingPaid(env) /\ BreaksPaid(env)

\* What the handlers of a decision leave alone.
SameSight(e, f) == f.now = e.now /\ f.hunted = e.hunted /\ f.seen = e.seen /\ f.stealthed = e.stealthed /\ f.lost = e.lost
SameStalk(e, f) == /\ f.stalked = e.stalked /\ f.stalkStreak = e.stalkStreak /\ f.longestStalk = e.longestStalk
                   /\ f.approaches = e.approaches /\ f.stalkPaid = e.stalkPaid
SameBreaks(e, f) == /\ f.breaks = e.breaks /\ f.sightBreaks = e.sightBreaks /\ f.breakPaid = e.breakPaid
                    /\ f.breaksPaid = e.breaksPaid
SameFlags(e, f) == f.wasSeen = e.wasSeen /\ f.wasStealthed = e.wasStealthed
SameUnseen(e, f) == f.streak = e.streak /\ f.unseen = e.unseen /\ f.longest = e.longest

LEMMA HiderTyped == ASSUME NEW e, WholeHider(e), HiderFlags(e), HiderCounts(e) PROVE e \in Hider
BY DEF WholeHider, HiderFlags, HiderCounts, HiderClocks, HiderUnseens, HiderBreaks, HiderStalks, Hider

LEMMA HiderKnown == ASSUME NEW e \in Hider PROVE WholeHider(e) /\ HiderFlags(e) /\ HiderCounts(e)
<1>1. WholeHider(e)
  BY DEF Hider, WholeHider
<1>2. HiderFlags(e)
  BY DEF Hider, HiderFlags
<1>3. HiderCounts(e)
  BY DEF Hider, HiderCounts, HiderClocks, HiderUnseens, HiderBreaks, HiderStalks
<1> QED
  BY <1>1, <1>2, <1>3

\* The records a decision goes through.
LooksAbout(e, now, hunted, seen, stealthed, lost) ==
    [e EXCEPT !.now = now, !.hunted = hunted, !.seen = seen, !.stealthed = stealthed, !.lost = lost]
IsNoticed(e, seen) == [e EXCEPT !.wasSeen = seen]
BreakPaidAt(e, at, all) == [e EXCEPT !.breakPaid = at, !.breaksPaid = all]

LEMMA LooksAboutIs ==
    ASSUME NEW e, WholeHider(e), NEW now, NEW hunted, NEW seen, NEW stealthed, NEW lost,
           NEW f, f = LooksAbout(e, now, hunted, seen, stealthed, lost)
    PROVE  /\ WholeHider(f) /\ f.now = now /\ f.hunted = hunted /\ f.seen = seen /\ f.stealthed = stealthed /\ f.lost = lost
           /\ SameBreaks(e, f) /\ SameStalk(e, f) /\ SameUnseen(e, f) /\ SameFlags(e, f) /\ f.wasStalking = e.wasStalking
BY Zenon DEF LooksAbout, WholeHider, SameBreaks, SameStalk, SameUnseen, SameFlags

LEMMA UnhuntedIs ==
    ASSUME NEW e \in Hider, NEW f, f = Hide!Unhunted(e)
    PROVE  /\ f \in Hider /\ f.wasSeen = FALSE /\ SameSight(e, f) /\ SameBreaks(e, f) /\ SameStalk(e, f)
           /\ f.streak = 0 /\ f.unseen = e.unseen /\ f.longest = e.longest
<1>1. WholeHider(e) /\ HiderFlags(e) /\ HiderCounts(e)
  BY HiderKnown
<1>2. /\ WholeHider(f) /\ f.wasSeen = FALSE /\ SameSight(e, f) /\ SameBreaks(e, f) /\ SameStalk(e, f)
      /\ f.streak = 0 /\ f.unseen = e.unseen /\ f.longest = e.longest
      /\ f.wasStealthed = e.wasStealthed /\ f.wasStalking = e.wasStalking
  BY <1>1, Zenon DEF Hide!Unhunted, WholeHider, SameSight, SameBreaks, SameStalk
<1>3. HiderFlags(f)
  BY <1>1, <1>2 DEF HiderFlags, SameSight
<1>4. HiderCounts(f)
  BY <1>1, <1>2 DEF HiderCounts, HiderClocks, HiderUnseens, HiderBreaks, HiderStalks, SameSight, SameBreaks, SameStalk
<1> QED
  BY <1>2, <1>3, <1>4, HiderTyped

LEMMA IsNoticedIs ==
    ASSUME NEW e \in Hider, NEW seen \in BOOLEAN, NEW f, f = IsNoticed(e, seen)
    PROVE  f \in Hider /\ f.wasSeen = seen /\ SameSight(e, f) /\ SameBreaks(e, f) /\ SameStalk(e, f) /\ SameUnseen(e, f)
<1>1. WholeHider(e) /\ HiderFlags(e) /\ HiderCounts(e)
  BY HiderKnown
<1>2. /\ WholeHider(f) /\ f.wasSeen = seen /\ SameSight(e, f) /\ SameBreaks(e, f) /\ SameStalk(e, f) /\ SameUnseen(e, f)
      /\ f.wasStealthed = e.wasStealthed /\ f.wasStalking = e.wasStalking
  BY <1>1 DEF IsNoticed, WholeHider, SameSight, SameBreaks, SameStalk, SameUnseen
<1>3. HiderFlags(f)
  BY <1>1, <1>2 DEF HiderFlags, SameSight
<1>4. HiderCounts(f)
  BY <1>1, <1>2 DEF HiderCounts, HiderClocks, HiderUnseens, HiderBreaks, HiderStalks, SameSight, SameBreaks, SameStalk, SameUnseen
<1> QED
  BY <1>2, <1>3, <1>4, HiderTyped

SameButPaidAt(e, f, at, all) ==
    /\ f.breakPaid = at /\ f.breaksPaid = all /\ f.breaks = e.breaks /\ f.sightBreaks = e.sightBreaks
    /\ SameSight(e, f) /\ SameStalk(e, f) /\ SameUnseen(e, f) /\ SameFlags(e, f) /\ f.wasStalking = e.wasStalking

LEMMA BreakPaidAtIs ==
    ASSUME NEW e, WholeHider(e), NEW at, NEW all, NEW f, f = BreakPaidAt(e, at, all)
    PROVE  WholeHider(f) /\ SameButPaidAt(e, f, at, all)
BY Zenon DEF BreakPaidAt, SameButPaidAt, WholeHider, SameSight, SameStalk, SameUnseen, SameFlags

LEMMA StalkingPaidKept == ASSUME Hide!Rewards, NEW e, NEW f, StalkingPaid(e), SameStalk(e, f) PROVE StalkingPaid(f)
BY DEF StalkingPaid, SameStalk

LEMMA BreaksPaidKept == ASSUME NEW e, NEW f, BreaksPaid(e), SameBreaks(e, f) PROVE BreaksPaid(f)
BY DEF BreaksPaid, SameBreaks

\* What an approach is paid: Setup.hide.Stalk, until Setup.hide.StalkMax is reached.
LEMMA PaidUpToMax ==
    ASSUME Hide!Rewards, NEW stalked \in Nat, NEW paid \in Nat, NEW room,
           room = Hide!Smaller(Setup.hide.Stalk, Hide!Larger(0, Setup.hide.StalkMax - paid)),
           paid <= Setup.hide.StalkMax, paid <= Setup.hide.Stalk * stalked, Setup.hide.Stalk * stalked <= Setup.hide.StalkMax => paid = Setup.hide.Stalk * stalked
    PROVE  /\ room \in Nat /\ paid + room <= Setup.hide.StalkMax /\ paid + room <= Setup.hide.Stalk * (stalked + 1)
           /\ Setup.hide.Stalk * (stalked + 1) <= Setup.hide.StalkMax => paid + room = Setup.hide.Stalk * (stalked + 1)
<1>1. Setup.hide.Stalk * (stalked + 1) = Setup.hide.Stalk * stalked + Setup.hide.Stalk /\ Setup.hide.Stalk * stalked \in Nat
  BY DEF Hide!Rewards
<1> QED
  BY <1>1 DEF Hide!Rewards, Hide!Smaller, Hide!Larger

LEMMA TrackStalkingKeeps ==
    ASSUME Hide!Rewards, NEW e \in Hider, NEW near \in BOOLEAN, NEW t, t = Hide!TrackStalking(e, near), StalkingPaid(e)
    PROVE  t \in Hider /\ StalkingPaid(t) /\ SameSight(e, t) /\ SameBreaks(e, t) /\ SameUnseen(e, t) /\ SameFlags(e, t)
<1>1. WholeHider(e) /\ HiderFlags(e) /\ HiderCounts(e)
  BY HiderKnown
<1>2. CASE e.seen \/ ~e.stealthed \/ ~near
  <2>1. t = [e EXCEPT !.stalkStreak = 0, !.wasStalking = FALSE]
    BY <1>2 DEF Hide!TrackStalking
  <2>2. WholeHider(t) /\ SameSight(e, t) /\ SameBreaks(e, t) /\ SameUnseen(e, t) /\ SameFlags(e, t)
    BY <1>1, <2>1, Zenon DEF WholeHider, SameSight, SameBreaks, SameUnseen, SameFlags
  <2>3. /\ t.stalked = e.stalked /\ t.stalkStreak = 0 /\ t.longestStalk = e.longestStalk
        /\ t.approaches = e.approaches /\ t.stalkPaid = e.stalkPaid /\ t.wasStalking = FALSE
    BY <1>1, <2>1 DEF WholeHider
  <2>4. HiderFlags(t) /\ HiderCounts(t)
    <3>1. HiderFlags(t)
      BY <1>1, <2>2, <2>3, Zenon DEF HiderFlags, SameSight, SameFlags
    <3>2. HiderCounts(t)
      BY <1>1, <2>2, <2>3 DEF HiderCounts, HiderClocks, HiderUnseens, HiderBreaks, HiderStalks, SameSight, SameBreaks, SameUnseen
    <3> QED
      BY <3>1, <3>2
  <2>5. StalkingPaid(t)
    BY <1>1, <2>3 DEF StalkingPaid, HiderCounts, HiderStalks
  <2> QED
    BY <2>2, <2>4, <2>5, HiderTyped
<1>3. CASE ~(e.seen \/ ~e.stealthed \/ ~near)
  <2> DEFINE approaches == IF e.wasStalking THEN e.approaches ELSE e.approaches + 1
             longest == Hide!Larger(e.longestStalk, e.stalkStreak + 1)
  <2>1. t = [e EXCEPT !.wasStalking = TRUE, !.approaches = approaches, !.stalked = e.stalked + 1,
                      !.stalkStreak = e.stalkStreak + 1, !.longestStalk = longest, !.stalkPaid = e.stalkPaid + Hide!Room(e)]
    BY <1>3 DEF Hide!TrackStalking
  <2>2. approaches \in {e.approaches, e.approaches + 1} /\ longest \in {e.longestStalk, e.stalkStreak + 1}
    BY DEF Hide!Larger
  <2> HIDE DEF approaches, longest
  <2>3. WholeHider(t) /\ SameSight(e, t) /\ SameBreaks(e, t) /\ SameUnseen(e, t) /\ SameFlags(e, t)
    BY <1>1, <2>1, Zenon DEF WholeHider, SameSight, SameBreaks, SameUnseen, SameFlags
  <2>4. /\ t.stalked = e.stalked + 1 /\ t.stalkStreak = e.stalkStreak + 1 /\ t.longestStalk = longest
        /\ t.approaches = approaches /\ t.stalkPaid = e.stalkPaid + Hide!Room(e) /\ t.wasStalking = TRUE
    BY <1>1, <2>1 DEF WholeHider
  <2>5. /\ Hide!Room(e) \in Nat /\ e.stalkPaid + Hide!Room(e) <= Setup.hide.StalkMax /\ e.stalkPaid + Hide!Room(e) <= Setup.hide.Stalk * (e.stalked + 1)
        /\ Setup.hide.Stalk * (e.stalked + 1) <= Setup.hide.StalkMax => e.stalkPaid + Hide!Room(e) = Setup.hide.Stalk * (e.stalked + 1)
    <3>1. /\ e.stalked \in Nat /\ e.stalkPaid \in Nat /\ Hide!Room(e) = Hide!Smaller(Setup.hide.Stalk, Hide!Larger(0, Setup.hide.StalkMax - e.stalkPaid))
          /\ e.stalkPaid <= Setup.hide.StalkMax /\ e.stalkPaid <= Setup.hide.Stalk * e.stalked
          /\ Setup.hide.Stalk * e.stalked <= Setup.hide.StalkMax => e.stalkPaid = Setup.hide.Stalk * e.stalked
      BY <1>1 DEF HiderCounts, HiderStalks, StalkingPaid, Hide!Room
    <3> QED
      BY <3>1, PaidUpToMax
  <2>6. HiderFlags(t) /\ HiderCounts(t)
    <3>1. HiderFlags(t)
      BY <1>1, <2>3, <2>4 DEF HiderFlags, SameSight, SameFlags
    <3>2. Hide!Room(e) \in Nat
      BY <2>5
    <3>3. HiderClocks(t) /\ HiderUnseens(t) /\ HiderBreaks(t)
      BY <1>1, <2>3 DEF HiderCounts, HiderClocks, HiderUnseens, HiderBreaks, SameSight, SameBreaks, SameUnseen
    <3>4. HiderStalks(t)
      BY <1>1, <2>2, <2>4, <3>2 DEF HiderCounts, HiderStalks
    <3> QED
      BY <3>1, <3>3, <3>4 DEF HiderCounts
  <2>7. StalkingPaid(t)
    <3>1. /\ t.stalkPaid <= Setup.hide.StalkMax /\ t.stalkPaid <= Setup.hide.Stalk * t.stalked
          /\ Setup.hide.Stalk * t.stalked <= Setup.hide.StalkMax => t.stalkPaid = Setup.hide.Stalk * t.stalked
      BY <2>4, <2>5, Zenon
    <3>2. t.approaches <= t.stalked /\ t.stalkStreak <= t.stalked /\ t.longestStalk <= t.stalked
      BY <1>1, <2>2, <2>4 DEF HiderCounts, HiderStalks, StalkingPaid
    <3> QED
      BY <3>1, <3>2 DEF StalkingPaid
  <2> QED
    BY <2>3, <2>6, <2>7, HiderTyped
<1> QED
  BY <1>2, <1>3

LEMMA WatchedKeeps ==
    ASSUME NEW e \in Hider, NEW w, w = Hide!Watched(e), UnseenCounted(e)
    PROVE  w \in Hider /\ UnseenCounted(w) /\ SameSight(e, w) /\ SameBreaks(e, w) /\ SameStalk(e, w) /\ w.wasSeen = e.wasSeen
<1>1. WholeHider(e) /\ HiderFlags(e) /\ HiderCounts(e)
  BY HiderKnown
<1>2. \E unseen, streak, longest \in Nat :
        /\ w = [e EXCEPT !.unseen = unseen, !.streak = streak, !.longest = longest, !.wasStealthed = e.stealthed]
        /\ streak <= unseen /\ longest <= unseen
  <2>1. CASE e.seen
    <3>1. w = [e EXCEPT !.unseen = e.unseen, !.streak = 0, !.longest = e.longest, !.wasStealthed = e.stealthed]
      BY <1>1, <2>1, Zenon DEF Hide!Watched, WholeHider
    <3>2. e.unseen \in Nat /\ e.longest \in Nat /\ 0 <= e.unseen /\ e.longest <= e.unseen
      BY <1>1 DEF UnseenCounted, HiderCounts, HiderUnseens
    <3> QED
      BY <3>1, <3>2, Zenon
  <2>2. CASE ~e.seen
    <3> DEFINE longest == Hide!Larger(e.longest, e.streak + 1)
    <3>1. w = [e EXCEPT !.unseen = e.unseen + 1, !.streak = e.streak + 1, !.longest = longest, !.wasStealthed = e.stealthed]
      BY <2>2 DEF Hide!Watched
    <3>2. longest = IF e.longest > e.streak + 1 THEN e.longest ELSE e.streak + 1
      BY DEF Hide!Larger
    <3>3. /\ e.unseen + 1 \in Nat /\ e.streak + 1 \in Nat /\ longest \in Nat
          /\ e.streak + 1 <= e.unseen + 1 /\ longest <= e.unseen + 1
      <4>1. e.unseen \in Nat /\ e.streak \in Nat /\ e.longest \in Nat /\ e.streak <= e.unseen /\ e.longest <= e.unseen
        BY <1>1 DEF UnseenCounted, HiderCounts, HiderUnseens
      <4> QED
        BY <3>2, <4>1
    <3> HIDE DEF longest
    <3> QED
      BY <3>1, <3>3, Zenon
  <2> QED
    BY <2>1, <2>2, Zenon
<1>3. PICK unseen \in Nat, streak \in Nat, longest \in Nat :
        /\ w = [e EXCEPT !.unseen = unseen, !.streak = streak, !.longest = longest, !.wasStealthed = e.stealthed]
        /\ streak <= unseen /\ longest <= unseen
  BY <1>2, Zenon
<1>4. /\ WholeHider(w) /\ SameSight(e, w) /\ SameBreaks(e, w) /\ SameStalk(e, w)
      /\ w.wasSeen = e.wasSeen /\ w.wasStalking = e.wasStalking /\ w.wasStealthed = e.stealthed
      /\ w.unseen = unseen /\ w.streak = streak /\ w.longest = longest
  BY <1>1, <1>3, Zenon DEF WholeHider, SameSight, SameBreaks, SameStalk
<1>5. HiderFlags(w) /\ HiderCounts(w) /\ UnseenCounted(w)
  <2>1. HiderFlags(w)
    BY <1>1, <1>4 DEF HiderFlags, SameSight
  <2>2. HiderCounts(w)
    BY <1>1, <1>3, <1>4 DEF HiderCounts, HiderClocks, HiderUnseens, HiderBreaks, HiderStalks, SameSight, SameBreaks, SameStalk
  <2>3. UnseenCounted(w)
    BY <1>3, <1>4 DEF UnseenCounted
  <2> QED
    BY <2>1, <2>2, <2>3
<1> QED
  BY <1>4, <1>5, HiderTyped

\* A break is paid when the last one paid is a cooldown ago.
LEMMA BrokenKeeps ==
    ASSUME Hide!Rewards, NEW t \in Hider, NEW b, b = Hide!Broken(t), BreaksPaid(t), t.now > 0
    PROVE  /\ b \in Hider /\ BreaksPaid(b) /\ SameSight(t, b) /\ SameStalk(t, b) /\ SameUnseen(t, b)
           /\ ~b.wasSeen /\ b.breaks = t.breaks + 1
<1> DEFINE sight == IF t.stealthed THEN t.sightBreaks ELSE t.sightBreaks + 1
<1>0. PICK c : c = [t EXCEPT !.wasSeen = FALSE, !.breaks = t.breaks + 1, !.sightBreaks = sight]
  OBVIOUS
<1>1. b = Hide!Paid(c)
  BY <1>0 DEF Hide!Broken
<1>2. WholeHider(t) /\ HiderFlags(t) /\ HiderCounts(t) /\ sight \in {t.sightBreaks, t.sightBreaks + 1}
  BY HiderKnown
<1> HIDE DEF sight
<1>3. /\ WholeHider(c) /\ SameSight(t, c) /\ SameStalk(t, c) /\ SameUnseen(t, c) /\ c.wasSeen = FALSE
      /\ c.wasStealthed = t.wasStealthed /\ c.wasStalking = t.wasStalking
      /\ c.breaks = t.breaks + 1 /\ c.sightBreaks = sight /\ c.breakPaid = t.breakPaid /\ c.breaksPaid = t.breaksPaid
  BY <1>0, <1>2 DEF WholeHider, SameSight, SameStalk, SameUnseen
<1>4. HiderCounts(c) /\ c.sightBreaks <= c.breaks /\ c.breaks > 0 /\ c.now > 0
  <2>1. HiderClocks(c) /\ HiderUnseens(c) /\ HiderStalks(c) /\ c.now > 0
    BY <1>2, <1>3 DEF HiderCounts, HiderClocks, HiderUnseens, HiderStalks, SameSight, SameStalk, SameUnseen
  <2>2. HiderBreaks(c) /\ c.sightBreaks <= c.breaks /\ c.breaks > 0
    <3>1. t.sightBreaks <= t.breaks /\ HiderBreaks(t)
      BY <1>2 DEF BreaksPaid, HiderCounts
    <3> QED
      BY <1>2, <1>3, <3>1 DEF HiderBreaks
  <2> QED
    BY <2>1, <2>2 DEF HiderCounts
<1>5. \A i \in 1 .. Len(c.breaksPaid) - 1 : c.breaksPaid[i + 1] >= c.breaksPaid[i] + Setup.hide.BreakCooldown
  BY <1>3 DEF BreaksPaid
<1>6. IF Len(c.breaksPaid) = 0 THEN c.breakPaid = 0 ELSE c.breakPaid > 0 /\ c.breakPaid = c.breaksPaid[Len(c.breaksPaid)]
  BY <1>3 DEF BreaksPaid
<1>7. HiderFlags(c)
  BY <1>2, <1>3 DEF HiderFlags, SameSight
<1>8. CASE c.breakPaid # 0 /\ c.now < c.breakPaid + Setup.hide.BreakCooldown
  <2>1. b = c
    BY <1>1, <1>8 DEF Hide!Paid
  <2>2. Len(c.breaksPaid) > 0
    BY <1>4, <1>6, <1>8 DEF HiderCounts, HiderBreaks
  <2>3. BreaksPaid(c)
    BY <1>4, <1>5, <1>6, <2>2 DEF BreaksPaid
  <2> QED
    BY <1>3, <1>4, <1>7, <2>1, <2>3, HiderTyped
<1>9. CASE ~(c.breakPaid # 0 /\ c.now < c.breakPaid + Setup.hide.BreakCooldown)
  <2>1. c.now \in Nat /\ Hide!Larger(1, c.now) = c.now /\ c.breaksPaid \in Seq(Nat) /\ c.breakPaid \in Nat
    BY <1>4 DEF HiderCounts, HiderClocks, HiderBreaks, Hide!Larger
  <2>2. b = BreakPaidAt(c, c.now, Append(c.breaksPaid, c.now))
    BY <1>1, <1>9, <2>1 DEF Hide!Paid, BreakPaidAt
  <2>3. /\ b.breakPaid = c.now /\ b.breaksPaid = Append(c.breaksPaid, c.now) /\ b.breaks = c.breaks
        /\ b.sightBreaks = c.sightBreaks /\ SameFlags(c, b) /\ b.wasStalking = c.wasStalking
        /\ WholeHider(b) /\ SameSight(c, b) /\ SameStalk(c, b) /\ SameUnseen(c, b)
    <3>1. WholeHider(c)
      BY <1>3
    <3>2. WholeHider(b) /\ SameButPaidAt(c, b, c.now, Append(c.breaksPaid, c.now))
      BY <2>2, <3>1, BreakPaidAtIs
    <3> QED
      BY <3>2 DEF SameButPaidAt
  <2>4. Append(c.breaksPaid, c.now) \in Seq(Nat)
    BY <2>1
  <2>5. b \in Hider
    <3>1. HiderFlags(b)
      BY <1>7, <2>3 DEF HiderFlags, SameSight, SameFlags
    <3>2. HiderCounts(b)
      BY <1>4, <2>1, <2>3, <2>4 DEF HiderCounts, HiderClocks, HiderUnseens, HiderBreaks, HiderStalks, SameSight, SameStalk, SameUnseen
    <3> QED
      BY <2>3, <3>1, <3>2, HiderTyped
  <2> DEFINE old == c.breaksPaid
             new == b.breaksPaid
  <2>6. /\ Len(old) \in Nat /\ Len(new) = Len(old) + 1 /\ new[Len(old) + 1] = c.now
        /\ \A i \in 1 .. Len(old) : new[i] = old[i] /\ old[i] \in Nat
    BY <2>1, <2>3
  <2>7. \A i \in 1 .. Len(old) : new[i + 1] >= new[i] + Setup.hide.BreakCooldown
    <3> TAKE i \in 1 .. Len(old)
    <3>1. CASE i = Len(old)
      <4>1. c.breakPaid = old[i] /\ c.breakPaid # 0
        BY <1>6, <2>6, <3>1
      <4>2. c.now >= c.breakPaid + Setup.hide.BreakCooldown
        BY <1>9, <2>1, <4>1 DEF Hide!Rewards
      <4>3. new[i + 1] = c.now /\ new[i] = c.breakPaid
        BY <2>6, <3>1, <4>1
      <4> QED
        BY <4>2, <4>3
    <3>2. CASE i < Len(old)
      <4>1. i \in 1 .. Len(old) - 1 /\ i + 1 \in 1 .. Len(old)
        BY <2>6, <3>2
      <4>2. old[i + 1] >= old[i] + Setup.hide.BreakCooldown
        BY <1>5, <4>1
      <4> QED
        BY <2>6, <4>1, <4>2
    <3> QED
      BY <2>6, <3>1, <3>2
  <2>8. BreaksPaid(b)
    BY <1>4, <2>1, <2>3, <2>6, <2>7 DEF BreaksPaid
  <2> QED
    BY <1>3, <2>3, <2>5, <2>8 DEF SameSight, SameStalk, SameUnseen, SameFlags
<1> QED
  BY <1>8, <1>9

LEMMA HidingStarts == Hide!Rewards /\ Hide!Init => HidingInv
<1> SUFFICES ASSUME Hide!Rewards, Hide!Init PROVE HidingInv
  OBVIOUS
<1>1. Setup.hide.Stalk * 0 = 0
  BY DEF Hide!Rewards
<1>2. env \in Hider /\ env.breaksPaid = <<>>
  BY DEF Hide!Init, Hider
<1>3. Len(env.breaksPaid) = 0 /\ 1 .. Len(env.breaksPaid) - 1 = {}
  BY <1>2
<1>4. BreaksPaid(env) /\ env.breaks = env.lost
  BY <1>3 DEF Hide!Init, BreaksPaid
<1>5. StalkingPaid(env) /\ UnseenCounted(env)
  BY <1>1 DEF Hide!Rewards, Hide!Init, StalkingPaid, UnseenCounted
<1>6. HunterSees(env)
  BY DEF Hide!Init, HunterSees
<1> QED
  BY <1>2, <1>4, <1>5, <1>6 DEF HidingInv

\* One decision: what the hunter sees now, and then the bookkeeping.
LEMMA HidingKeeps == ASSUME Hide!Rewards, HidingInv, Hide!Next PROVE HidingInv'
<1>a. Hide!Decide
  BY DEF Hide!Next
<1>1. PICK hunted \in BOOLEAN, seen \in BOOLEAN, stealthed \in BOOLEAN, near \in BOOLEAN :
        env' = Hide!TrackHiding([env EXCEPT !.now = @ + 1, !.hunted = hunted, !.seen = seen, !.stealthed = stealthed,
                                       !.lost = IF env.hunted /\ env.seen /\ env.now > 0 /\ hunted /\ ~seen THEN @ + 1 ELSE @], near)
  BY <1>a, Zenon DEF Hide!Decide
<1> DEFINE lost == env.hunted /\ env.seen /\ env.now > 0 /\ hunted /\ ~seen
           losses == IF lost THEN env.lost + 1 ELSE env.lost
<1> PICK e : e = LooksAbout(env, env.now + 1, hunted, seen, stealthed, losses)
  OBVIOUS
<1> PICK w : w = Hide!Watched(e)
  OBVIOUS
<1> PICK t : t = Hide!TrackStalking(w, near)
  OBVIOUS
<1>0. env' = Hide!TrackHiding(e, near)
  BY <1>1 DEF LooksAbout
<1>2. /\ e \in Hider /\ e.now > 0 /\ e.hunted = hunted /\ e.seen = seen /\ e.wasSeen = env.wasSeen
      /\ e.lost = IF lost THEN env.lost + 1 ELSE env.lost
      /\ SameBreaks(env, e) /\ SameStalk(env, e) /\ SameUnseen(env, e)
  <2>1. WholeHider(env) /\ HiderFlags(env) /\ HiderCounts(env)
    BY HiderKnown DEF HidingInv
  <2>2. losses \in Nat
    BY <2>1 DEF HiderCounts, HiderClocks
  <2> HIDE DEF losses, lost
  <2>4. /\ WholeHider(e) /\ e.now = env.now + 1 /\ e.hunted = hunted /\ e.seen = seen /\ e.stealthed = stealthed
        /\ e.lost = losses /\ SameBreaks(env, e) /\ SameStalk(env, e) /\ SameUnseen(env, e) /\ SameFlags(env, e)
        /\ e.wasStalking = env.wasStalking
    BY <2>1, LooksAboutIs
  <2>5. HiderFlags(e)
    BY <2>1, <2>4 DEF HiderFlags, SameFlags
  <2>6. HiderCounts(e) /\ e.now > 0
    <3>1. HiderClocks(e) /\ e.now > 0
      BY <2>1, <2>2, <2>4 DEF HiderCounts, HiderClocks
    <3> QED
      BY <2>1, <2>4, <3>1 DEF HiderCounts, HiderUnseens, HiderBreaks, HiderStalks, SameBreaks, SameStalk, SameUnseen
  <2>7. e \in Hider
    BY <2>4, <2>5, <2>6, HiderTyped
  <2> QED
    BY <2>4, <2>6, <2>7 DEF losses, SameFlags
<1>3. lost = (e.hunted /\ ~e.seen /\ e.wasSeen)
  BY <1>2, Zenon DEF HidingInv, HunterSees, Hider
<1>4. env' = Hide!TrackHiding(e, near) /\ env.breaks = env.lost /\ env.lost \in Nat /\ env.breaks = e.breaks
  BY <1>0, <1>2 DEF HidingInv, Hider, SameBreaks
<1>5. StalkingPaid(e) /\ BreaksPaid(e) /\ UnseenCounted(e)
  BY <1>2, StalkingPaidKept, BreaksPaidKept DEF HidingInv, UnseenCounted, SameUnseen
<1> HIDE DEF lost
<1>6. CASE ~e.hunted
  <2>1. env' = Hide!Unhunted(e)
    BY <1>4, <1>6 DEF Hide!TrackHiding
  <2>2. /\ env' \in Hider /\ env'.wasSeen = FALSE /\ SameSight(e, env') /\ SameBreaks(e, env') /\ SameStalk(e, env')
        /\ env'.streak = 0 /\ env'.longest = e.longest /\ env'.unseen = e.unseen
    <3>1. e \in Hider
      BY <1>2
    <3> QED
      BY <2>1, <3>1, UnhuntedIs
  <2>3. StalkingPaid(env') /\ BreaksPaid(env')
    BY <1>5, <2>2, StalkingPaidKept, BreaksPaidKept
  <2>4. env'.breaks = env'.lost
    BY <1>2, <1>3, <1>4, <1>6, <2>2 DEF SameSight, SameBreaks
  <2>5. HunterSees(env') /\ UnseenCounted(env')
    <3>1. HunterSees(env')
      BY <1>6, <2>2 DEF HunterSees, SameSight
    <3>2. env'.unseen \in Nat
      BY <2>2 DEF Hider
    <3>3. UnseenCounted(env')
      BY <1>5, <2>2, <3>2 DEF UnseenCounted
    <3> QED
      BY <3>1, <3>3
  <2> QED
    BY <2>2, <2>3, <2>4, <2>5 DEF HidingInv
<1>7. CASE e.hunted
  <2>1. /\ w \in Hider /\ UnseenCounted(w) /\ StalkingPaid(w) /\ SameSight(e, w) /\ SameBreaks(e, w) /\ w.wasSeen = e.wasSeen
    <3>1. /\ w \in Hider /\ UnseenCounted(w) /\ SameSight(e, w) /\ SameBreaks(e, w) /\ SameStalk(e, w) /\ w.wasSeen = e.wasSeen
      <4>1. e \in Hider /\ UnseenCounted(e)
        BY <1>2, <1>5
      <4> QED
        BY <4>1, WatchedKeeps
    <3> QED
      BY <1>5, <3>1, StalkingPaidKept
  <2>2. /\ t \in Hider /\ StalkingPaid(t) /\ SameSight(w, t) /\ SameBreaks(w, t) /\ SameUnseen(w, t) /\ t.wasSeen = w.wasSeen
    <3>1. w \in Hider /\ StalkingPaid(w)
      BY <2>1
    <3> QED
      BY <3>1, TrackStalkingKeeps DEF SameFlags
  <2>3. SameSight(e, t) /\ SameBreaks(e, t) /\ UnseenCounted(t) /\ t.wasSeen = e.wasSeen
    BY <2>1, <2>2 DEF SameSight, SameBreaks, SameUnseen, UnseenCounted
  <2>4. BreaksPaid(t) /\ t.now > 0
    BY <1>2, <1>5, <2>3, BreaksPaidKept DEF SameSight
  <2>5. env' = IF e.seen \/ ~e.wasSeen THEN [t EXCEPT !.wasSeen = e.seen] ELSE Hide!Broken(t)
    BY <1>4, <1>7 DEF Hide!TrackHiding
  <2>6. CASE e.seen \/ ~e.wasSeen
    <3>1. env' = [t EXCEPT !.wasSeen = e.seen]
      BY <2>5, <2>6
    <3>2. /\ env' \in Hider /\ env'.wasSeen = e.seen /\ SameSight(t, env') /\ SameBreaks(t, env')
          /\ SameStalk(t, env') /\ SameUnseen(t, env')
      <4>1. e.seen \in BOOLEAN /\ t \in Hider
        BY <1>2, <2>2
      <4>2. env' = IsNoticed(t, e.seen)
        BY <3>1 DEF IsNoticed
      <4> QED
        BY <4>1, <4>2, IsNoticedIs
    <3>3. StalkingPaid(env') /\ BreaksPaid(env') /\ UnseenCounted(env')
      BY <2>2, <2>3, <2>4, <3>2, StalkingPaidKept, BreaksPaidKept DEF SameUnseen, UnseenCounted
    <3>4. ~lost
      BY <1>3, <2>6
    <3>5. env'.breaks = env'.lost
      BY <1>2, <1>4, <2>3, <3>2, <3>4 DEF SameSight, SameBreaks
    <3>6. HunterSees(env')
      BY <1>2, <1>7, <2>3, <2>4, <3>2 DEF HunterSees, SameSight, Hider
    <3> QED
      BY <3>2, <3>3, <3>5, <3>6 DEF HidingInv
  <2>7. CASE ~(e.seen \/ ~e.wasSeen)
    <3>1. env' = Hide!Broken(t)
      BY <2>5, <2>7
    <3>2. /\ env' \in Hider /\ BreaksPaid(env') /\ SameSight(t, env') /\ SameStalk(t, env') /\ SameUnseen(t, env')
          /\ ~env'.wasSeen /\ env'.breaks = t.breaks + 1
      BY <2>2, <2>4, <3>1, BrokenKeeps
    <3>3. StalkingPaid(env') /\ UnseenCounted(env')
      BY <2>2, <2>3, <3>2, StalkingPaidKept DEF SameUnseen, UnseenCounted
    <3>4. lost
      BY <1>3, <1>7, <2>7
    <3>5. env'.breaks = env'.lost
      BY <1>2, <1>4, <2>3, <3>2, <3>4 DEF SameSight, SameBreaks
    <3>6. HunterSees(env')
      BY <1>2, <2>3, <2>7, <3>2 DEF HunterSees, SameSight, Hider
    <3> QED
      BY <3>2, <3>3, <3>5, <3>6 DEF HidingInv
  <2> QED
    BY <2>6, <2>7
<1> QED
  BY <1>2, <1>6, <1>7 DEF Hider

LEMMA HidingHolds == Hide!Rewards /\ HidingInv => Hide!BreaksAreEarned /\ Hide!StalkingIsCapped
<1> SUFFICES ASSUME Hide!Rewards, HidingInv PROVE Hide!BreaksAreEarned /\ Hide!StalkingIsCapped
  OBVIOUS
<1>1. Hide!BreaksAreEarned
  <2>1. env.breaksPaid \in Seq(Nat)
    BY DEF HidingInv, Hider
  <2>2. (Len(env.breaksPaid) > 0) = (env.breaksPaid # <<>>)
    BY <2>1
  <2> QED
    BY <2>2 DEF HidingInv, UnseenCounted, BreaksPaid, Hide!BreaksAreEarned
<1>2. Hide!StalkingIsCapped
  <2>1. env.stalked \in Nat /\ env.stalked * Setup.hide.Stalk = Setup.hide.Stalk * env.stalked
    BY DEF HidingInv, Hider, Hide!Rewards
  <2> QED
    BY <2>1 DEF HidingInv, StalkingPaid, Hide!StalkingIsCapped
<1> QED
  BY <1>1, <1>2

-----------------------------------------------------------------------------
(* All of them, each while it runs.                                         *)

IInv == /\ part = "rebuild" => Rebuild!IInv /\ Rebuild!Typed(env)
        /\ part = "revive" => ReviveInv
        /\ part = "pace" => PaceInv
        /\ part = "water" => WaterInv
        /\ part = "shields" => ShieldsInv
        /\ part = "casts" => CastsInv
        /\ part = "pay" => PayInv
        /\ part = "hide" => HidingInv

LEMMA Starts == SeatsInit => IInv
<1> SUFFICES ASSUME SeatsInit PROVE IInv
  OBVIOUS
<1>1. part = "rebuild" => Rebuild!IInv /\ Rebuild!Typed(env)
  BY ScenarioAssumption, Rebuild!InitInv, Rebuild!InitTyped DEF SeatsInit
<1>2. part = "revive" => ReviveInv
  BY ScenarioAssumption, ReviveStarts DEF SeatsInit
<1>3. part = "pace" => PaceInv
  BY ScenarioAssumption, PaceStarts DEF SeatsInit
<1>4. part = "water" => WaterInv
  BY ScenarioAssumption, WaterStarts DEF SeatsInit
<1>5. part = "shields" => ShieldsInv
  BY ScenarioAssumption, ShieldsStart DEF SeatsInit
<1>6. part = "casts" => CastsInv
  BY ScenarioAssumption, CastsStart DEF SeatsInit
<1>7. part = "pay" => PayInv
  BY ScenarioAssumption, PayStarts DEF SeatsInit
<1>8. part = "hide" => HidingInv
  BY ScenarioAssumption, HidingStarts DEF SeatsInit
<1> QED
  BY <1>1, <1>2, <1>3, <1>4, <1>5, <1>6, <1>7, <1>8 DEF IInv

LEMMA Keeps == IInv /\ [SeatsNext]_vars => IInv'
<1> SUFFICES ASSUME IInv, [SeatsNext]_vars PROVE IInv'
  OBVIOUS
<1>1. CASE UNCHANGED vars
  <2>1. part' = part /\ env' = env
    BY <1>1 DEF vars
  <2>2. part = "rebuild" => Rebuild!IInv' /\ Rebuild!Typed(env)'
    <3>1. UNCHANGED Rebuild!vars
      BY <2>1 DEF Rebuild!vars
    <3> QED
      BY <3>1, ScenarioAssumption, Rebuild!NextInv DEF IInv
  <2>3. part = "revive" => ReviveInv'
    BY <2>1 DEF IInv, ReviveInv
  <2>4. part = "pace" => PaceInv'
    BY <2>1 DEF IInv, PaceInv
  <2>5. part = "water" => WaterInv'
    BY <2>1 DEF IInv, WaterInv, SwimmerTyped, Used, Dived
  <2>6. part = "shields" => ShieldsInv'
    BY <2>1 DEF IInv, ShieldsInv
  <2>7. part = "casts" => CastsInv'
    BY <2>1 DEF IInv, CastsInv
  <2>8. part = "pay" => PayInv'
    BY <2>1, Zenon DEF IInv, PayInv, InPay, InHealth
  <2>9. part = "hide" => HidingInv'
    BY <2>1 DEF IInv, HidingInv
  <2> QED
    BY <2>1, <2>2, <2>3, <2>4, <2>5, <2>6, <2>7, <2>8, <2>9 DEF IInv
<1>2. CASE SeatsNext
  <2>1. part' = part
    BY <1>2 DEF SeatsNext
  <2>2. part = "rebuild" => Rebuild!IInv' /\ Rebuild!Typed(env)'
    <3>1. part = "rebuild" => Rebuild!Next
      BY <1>2 DEF SeatsNext
    <3> QED
      BY <3>1, ScenarioAssumption, Rebuild!NextInv DEF IInv
  <2>3. part = "revive" => ReviveInv'
    <3>1. part = "revive" => Revive!Next
      BY <1>2 DEF SeatsNext
    <3> QED
      BY <3>1, ScenarioAssumption, ReviveKeeps DEF IInv
  <2>4. part = "pace" => PaceInv'
    <3>1. part = "pace" => Pace!Next
      BY <1>2 DEF SeatsNext
    <3> QED
      BY <3>1, ScenarioAssumption, PaceKeeps DEF IInv
  <2>5. part = "water" => WaterInv'
    <3>1. part = "water" => Water!Next
      BY <1>2 DEF SeatsNext
    <3> QED
      BY <3>1, ScenarioAssumption, WaterKeeps DEF IInv
  <2>6. part = "shields" => ShieldsInv'
    <3>1. part = "shields" => Shields!Next
      BY <1>2 DEF SeatsNext
    <3> QED
      BY <3>1, ScenarioAssumption, ShieldsKeep DEF IInv
  <2>7. part = "casts" => CastsInv'
    <3>1. part = "casts" => Casts!Next
      BY <1>2 DEF SeatsNext
    <3> QED
      BY <3>1, ScenarioAssumption, CastsKeep DEF IInv
  <2>8. part = "pay" => PayInv'
    <3>1. part = "pay" => Pay!Next
      BY <1>2 DEF SeatsNext
    <3> QED
      BY <3>1, ScenarioAssumption, PayStep DEF IInv
  <2>9. part = "hide" => HidingInv'
    <3>1. part = "hide" => Hide!Next
      BY <1>2 DEF SeatsNext
    <3> QED
      BY <3>1, ScenarioAssumption, HidingKeeps DEF IInv
  <2> QED
    BY <2>1, <2>2, <2>3, <2>4, <2>5, <2>6, <2>7, <2>8, <2>9 DEF IInv
<1> QED
  BY <1>1, <1>2

\* StageScenario::Rebuild and AcceptResurrections: at every step of a rebuild the
\* instance has a bot in it and the seats are typed, between two every seat has
\* the one bot it says it has, and a seat is paid for no more allies than it
\* offered to raise.
THEOREM SeatsAreRebuilt == SeatsSpec => []SeatsRebuilt
<1>1. IInv => SeatsRebuilt
  BY ScenarioAssumption, Rebuild!TypesHold, Rebuild!SeatsMatch, Rebuild!InstanceIsKept, ReviveHolds DEF IInv, SeatsRebuilt
<1> QED
  BY <1>1, Starts, Keeps, PTL DEF SeatsSpec

\* SeatMemory, StageScenario::Press, ApplySeatAction, TrackSupport and
\* TrackInterruptibleCast: the buttons held back and the presses charged are what
\* the episode's presses say; a breath is told no longer than it was spent, a
\* shield is credited for no more than it lost, and a cast is counted once.
THEOREM PressesAreCounted == SeatsSpec => []PressesCounted
<1>1. IInv => PressesCounted
  BY ScenarioAssumption, PaceHolds, WaterHolds, ShieldsHold, CastsHold DEF IInv, PressesCounted
<1> QED
  BY <1>1, Starts, Keeps, PTL DEF SeatsSpec

\* StageScenario::SeatReward: the ground costs no more than its cap an episode, a
\* goal is paid once each time it is held, the terms add up to what was paid, and
\* a healthy pet that is replaced did not die.  TrackHiding and TrackStalking: a
\* break of contact is a hunter that lost the seat while both stood, two that are
\* paid are a cooldown apart, and stalking earns what its time is worth up to its
\* cap.
THEOREM SeatsArePaid == SeatsSpec => []SeatPaidInFull
<1>1. IInv => SeatPaidInFull
  BY ScenarioAssumption, PayHolds, HidingHolds DEF IInv, SeatPaidInFull
<1> QED
  BY <1>1, Starts, Keeps, PTL DEF SeatsSpec
=============================================================================
