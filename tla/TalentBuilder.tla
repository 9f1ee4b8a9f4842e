--------------------------- MODULE TalentBuilder ---------------------------
(***************************************************************************)
(* How a character's talents are spent (TalentBuilder.cpp, PetTalents.cpp  *)
(* and SeatCharacter.cpp in src/src/Scenario/Curriculum/Character): a      *)
(* build is worked out point by point without a character, by the list of  *)
(* its spec and at random where the list ends, learnt step by step on one, *)
(* and glyphs fill the slots its level opened.  A hunter's pet is spent    *)
(* the other way around, every rank asked of the core as it goes.          *)
(***************************************************************************)
EXTENDS Integers, Sequences, FiniteSets

CONSTANTS Talents,      \* by tree, row and column: [tab, row, max, needs, ranks]: needs is an index, 0 for none
          Picks,        \* SpecData::Picks: [index, ranks]
          SpecTab, PerRow, SpecPoints, \* the spec's tree, MAX_TALENT_RANK, SPEC_TREE_POINTS
          Points,       \* the points a character may have
          Slots, Glyphs,\* slots: [type, level]; glyphs in the spec's order: [type, level]
          Pet,          \* a pet's tree: [row, max, needs, ranks]
          PetPicks, PetPerRow, PetPoints, None

VARIABLE env

vars == <<env>>

All == DOMAIN Talents
Tabs == {Talents[t].tab : t \in All}
Others == Tabs \ {SpecTab}
Smaller(a, b) == IF a < b THEN a ELSE b

-----------------------------------------------------------------------------
(* A build.                                                                 *)

NoBuild == [ranks |-> [t \in All |-> 0], order |-> <<>>, tree |-> [tab \in Tabs |-> 0]]
CanTake(b, t) ==
    /\ b.ranks[t] < Talents[t].max /\ b.tree[Talents[t].tab] >= Talents[t].row * PerRow
    /\ Talents[t].needs # 0 => b.ranks[Talents[t].needs] >= Talents[t].ranks
Taken(b, t) == [b EXCEPT !.order = Append(@, [index |-> t, rank |-> b.ranks[t]]), !.ranks[t] = @ + 1, !.tree[Talents[t].tab] = @ + 1]

\* What the list wants of a talent, over every pick that names it.
Wanted(t) ==
    LET upto[i \in 0 .. Len(Picks)] == IF i = 0 THEN 0 ELSE LET w == upto[i - 1] IN IF Picks[i].index = t THEN w + Picks[i].ranks ELSE w
    IN  Smaller(upto[Len(Picks)], Talents[t].max)
Listed(b) == {i \in DOMAIN Picks : b.ranks[Picks[i].index] < Wanted(Picks[i].index) /\ CanTake(b, Picks[i].index)}
First(S) == CHOOSE i \in S : \A j \in S : i <= j
Candidates(b, tabs) == {t \in All : Talents[t].tab \in tabs /\ CanTake(b, t)}

\* A plan is its loops: what each spends on, and the points it goes up to.
Listing == {}  \* no tree: the list
Standard(points) == << [on |-> Listing, upto |-> points], [on |-> {SpecTab}, upto |-> points], [on |-> Others, upto |-> points] >>
Noisy(points, move) ==
    Standard(points - Smaller(move, points)) \o << [on |-> {SpecTab}, upto |-> points], [on |-> Others, upto |-> points] >>
\* The loops of a random plan, before what the other trees could not take.
RandomLeft(points) == << [on |-> {SpecTab}, upto |-> Smaller(points, SpecPoints)], [on |-> Others, upto |-> points] >>
Random(points) == RandomLeft(points) \o << [on |-> {SpecTab}, upto |-> points] >>
Plans(points) == {[loops |-> Standard(points), listed |-> points], [loops |-> Random(points), listed |-> 0]}
                 \cup {[loops |-> Noisy(points, move), listed |-> points - move] : move \in 1 .. points}

NoGlyphs == [s \in DOMAIN Slots |-> None]
Init == env = [at |-> "new", points |-> 0, listed |-> 0, loops |-> <<>>, build |-> NoBuild, learnt |-> 0,
               ranks |-> [t \in All |-> 0], free |-> 0, glyphs |-> NoGlyphs, pet |-> [t \in DOMAIN Pet |-> 0], pick |-> 0]

\* SeatCharacter::Configure: the plan, then Apply on a character with its points.
Configure == /\ env.at = "new"
             /\ \E points \in Points : \E plan \in Plans(points) :
                   env' = [env EXCEPT !.at = "spend", !.points = points, !.listed = plan.listed, !.loops = plan.loops, !.free = points]

\* One point of the first loop, or its end.
Loop == env.loops[1]
More == Len(env.build.order) < Loop.upto
TakeListed == /\ env.at = "spend" /\ env.loops # <<>> /\ Loop.on = Listing /\ More /\ Listed(env.build) # {}
              /\ env' = [env EXCEPT !.build = Taken(@, Picks[First(Listed(@))].index)]
SpendPoint == /\ env.at = "spend" /\ env.loops # <<>> /\ Loop.on # Listing /\ More
              /\ \E t \in Candidates(env.build, Loop.on) : env' = [env EXCEPT !.build = Taken(@, t)]
EndLoop == /\ env.at = "spend" /\ env.loops # <<>>
           /\ More => IF Loop.on = Listing THEN Listed(env.build) = {} ELSE Candidates(env.build, Loop.on) = {}
           /\ env' = [env EXCEPT !.loops = Tail(@)]

\* Player::LearnTalent as Apply calls it: the core checks every rule of its own.
Spent(ranks, tab) == LET upto[t \in 0 .. Len(Talents)] == IF t = 0 THEN 0 ELSE LET n == upto[t - 1] IN IF Talents[t].tab = tab THEN n + ranks[t] ELSE n
                     IN  upto[Len(Talents)]
LearnTalent(e, t, rank) ==
    IF /\ e.free > 0 /\ rank < Talents[t].max /\ e.ranks[t] <= rank /\ e.free >= rank + 1 - e.ranks[t]
       /\ Spent(e.ranks, Talents[t].tab) >= Talents[t].row * PerRow
       /\ Talents[t].needs # 0 => e.ranks[Talents[t].needs] >= Talents[t].ranks
    THEN [e EXCEPT !.ranks[t] = rank + 1, !.free = @ - (rank + 1 - e.ranks[t])] ELSE e
Apply == /\ env.at = "spend" /\ env.loops = <<>> /\ env.learnt < Len(env.build.order)
         /\ LET step == env.build.order[env.learnt + 1] IN env' = [LearnTalent(env, step.index, step.rank) EXCEPT !.learnt = @ + 1]

-----------------------------------------------------------------------------
(* Glyphs: each open slot takes the first of its kind not in yet.           *)

Usable(held, slot, level) ==
    {g \in DOMAIN Glyphs : Glyphs[g].type = Slots[slot].type /\ Glyphs[g].level <= level /\ \A s \in DOMAIN held : held[s] # g}
Level(points) == points     \* a level up is a point more
ApplyGlyphs ==
    /\ env.at = "spend" /\ env.loops = <<>> /\ env.learnt = Len(env.build.order)
    /\ LET level == Level(env.points)
           upto[s \in 0 .. Len(Slots)] ==
               IF s = 0 THEN NoGlyphs
               ELSE LET held == upto[s - 1] IN
                    IF level < Slots[s].level \/ Usable(held, s, level) = {} THEN held ELSE [held EXCEPT ![s] = First(Usable(held, s, level))]
       IN  env' = [env EXCEPT !.at = "pet", !.pick = 1, !.glyphs = upto[Len(Slots)], !.free = Smaller(env.points, PetPoints)]

-----------------------------------------------------------------------------
(* PetTalents::Spend, on the pet it has out: a rank at a time.              *)

\* Player::LearnPetTalent's rules, for the next rank.
PetSpent(ranks) == LET upto[t \in 0 .. Len(Pet)] == IF t = 0 THEN 0 ELSE LET n == upto[t - 1] IN n + ranks[t] IN upto[Len(Pet)]
CanLearn(e, t) ==
    /\ e.free > 0 /\ e.pet[t] < Pet[t].max /\ PetSpent(e.pet) >= Pet[t].row * PetPerRow
    /\ Pet[t].needs # 0 => e.pet[Pet[t].needs] >= Pet[t].ranks
LearnNextRank(e, t) == [e EXCEPT !.pet[t] = @ + 1, !.free = @ - 1]
Wants(e) == e.pick \in DOMAIN PetPicks /\ e.pet[PetPicks[e.pick].index] < PetPicks[e.pick].ranks /\ CanLearn(e, PetPicks[e.pick].index)
PetPick == /\ env.at = "pet" /\ env.pick \in DOMAIN PetPicks /\ env.free > 0
           /\ env' = IF Wants(env) THEN LearnNextRank(env, PetPicks[env.pick].index) ELSE [env EXCEPT !.pick = @ + 1]
\* Then deeper rows first, until none takes a point.
Able(e) == {t \in DOMAIN Pet : CanLearn(e, t)}
PetRest == /\ env.at = "pet" /\ (env.pick \notin DOMAIN PetPicks \/ env.free = 0)
           /\ IF Able(env) = {} THEN env' = [env EXCEPT !.at = "done"]
              ELSE \E t \in Able(env) : (\A u \in Able(env) : Pet[u].row <= Pet[t].row) /\ env' = LearnNextRank(env, t)

Next == Configure \/ TakeListed \/ SpendPoint \/ EndLoop \/ Apply \/ ApplyGlyphs \/ PetPick \/ PetRest
Spec == Init /\ [][Next]_vars

-----------------------------------------------------------------------------

\* TalentBuilder::Apply: "0 when the build and Player::LearnTalent agree": every
\* step of a build is learnt where it comes in the order, and no step is more than
\* the character has points for.
BuildsAreLearnt ==
    env.at = "spend" /\ env.loops = <<>> /\ env.learnt = Len(env.build.order) =>
        env.ranks = env.build.ranks /\ env.free = env.points - Len(env.build.order)

\* Standard, Noisy and Random: no point is left that any tree could take.
NothingFits == env.at = "spend" /\ env.loops = <<>> =>
    Len(env.build.order) = env.points \/ (Len(env.build.order) < env.points /\ Candidates(env.build, Tabs) = {})

\* TalentBuilder: "a low-level character has the talents players take first", and a
\* noisy one keeps "the early picks": as far as the list goes, a build that has
\* fewer points by it is the beginning of one that has more.
Whole ==
    LET upto[n \in 0 .. Len(Picks) * PerRow] == IF n = 0 THEN NoBuild
                           ELSE LET b == upto[n - 1] IN IF Listed(b) = {} THEN b ELSE Taken(b, Picks[First(Listed(b))].index)
    IN  upto[Len(Picks) * PerRow].order
EarlyPicksKept ==
    env.at # "new" => \A i \in 1 .. Smaller(Smaller(env.listed, Len(Whole)), Len(env.build.order)) : env.build.order[i] = Whole[i]

\* ApplyGlyphs: no glyph twice, none above its level, and no open slot is empty
\* while one fits it.
GlyphsFill ==
    env.at = "pet" => \A s \in DOMAIN Slots :
        LET level == Level(env.points)
            glyph == env.glyphs[s]
        IN  IF glyph = None THEN level < Slots[s].level \/ Usable(env.glyphs, s, level) = {}
            ELSE /\ Glyphs[glyph].type = Slots[s].type /\ Glyphs[glyph].level <= level /\ level >= Slots[s].level
                 /\ \A t \in DOMAIN Slots \ {s} : env.glyphs[t] # glyph

\* PetTalents::Spend: it stops with points only when no talent takes one.
PetsAreTrained == env.at = "done" => Able(env) = {} /\ PetSpent(env.pet) + env.free = Smaller(env.points, PetPoints)
=============================================================================
