---------------------------- MODULE GearBuilder ----------------------------
(***************************************************************************)
(* The gear a character is given for an episode (GearBuilder.cpp and       *)
(* GearEnhancements.cpp in src/src/Scenario/Curriculum/Character): pools   *)
(* of what its class and profile may wear, windows of a pool for a level,  *)
(* memoised for every character to come, a set that is worn slot by slot,  *)
(* and the enchants and gems that finish it.  An item is a record of the   *)
(* catalog, the stats of it are how the profile rates them.                *)
(***************************************************************************)
EXTENDS Integers, Sequences, SequencesExt, FiniteSets, FiniteSetsExt

CONSTANTS Catalog,      \* the items by their ids: [pool, req, level, sub, pvp, epic, prefs, rolls, unique, sockets]
          Gems,         \* by their ids: [color, req, level, epic, needs]: needs is what a meta gem asks of the other gems
          Layouts,      \* SpecProfile::Weapons
          CanDualWield, Armor, \* Player::CanDualWield, and ClassKit::ArmorSubclass
          Levels, Attempts, Characters, None

VARIABLE env

vars == <<env>>

-----------------------------------------------------------------------------
(* What is worn at a level.                                                 *)

Anchors == << <<1, 1, 8>>, <<10, 8, 20>>, <<20, 18, 30>>, <<30, 28, 38>>, <<40, 38, 50>>, <<50, 48, 60>>, <<57, 55, 66>>, <<58, 58, 88>>,
              <<60, 78, 96>>, <<65, 92, 110>>, <<68, 105, 125>>, <<70, 110, 130>>, <<72, 135, 160>>, <<75, 150, 175>>, <<78, 165, 190>>,
              <<80, 180, 213>> >>
Lerp(a, b, n, d) == (2 * (a * d + (b - a) * n) + d) \div (2 * d)
Between(lo, hi, level) ==
    IF hi[1] = level THEN [low |-> hi[2], high |-> hi[3]]
    ELSE [low |-> Lerp(lo[2], hi[2], level - lo[1], hi[1] - lo[1]), high |-> Lerp(lo[3], hi[3], level - lo[1], hi[1] - lo[1])]
ItemLevelBand(level) ==
    LET above == CHOOSE i \in DOMAIN Anchors : Anchors[i][1] >= level /\ \A j \in 1 .. i - 1 : Anchors[j][1] < level
    IN  Between(Anchors[IF above = 1 THEN 1 ELSE above - 1], Anchors[above], level)

EpicLevels == {70, 80}
Widening == <<0, 10, 25, 1000>>

-----------------------------------------------------------------------------
(* BuildPools and Window.                                                   *)

Wanted(prefs) == 1 \in prefs
Forbidden(prefs) == -1 \in prefs
Suits(prefs) == Wanted(prefs) /\ ~Forbidden(prefs)
Stats(item) == Wanted(Catalog[item].prefs) \/ \E roll \in Catalog[item].rolls : Suits(roll)
StatsOnly == {"finger", "relic"}
Pool(pool) == {item \in DOMAIN Catalog : Catalog[item].pool = pool /\ ~Forbidden(Catalog[item].prefs) /\ (pool \in StatsOnly => Stats(item))}

\* The arguments of a window are what its key packs; no subclass is -1, and is
\* stored one above itself.
Ask(e, pool, sub, need) == [pool |-> pool, level |-> e.level, sub |-> sub, need |-> need, pvp |-> e.pvp]
\* Mutant of WindowKey: without the last bit.
WindowKeyEverywhere(ask) == <<ask.pool, ask.level, (ask.sub + 1) % 256, ask.need>>
WindowKey(ask) == <<ask.pool, ask.level, (ask.sub + 1) % 256, ask.need, ask.pvp>>
Within(ask, band, widening) ==
    {item \in Pool(ask.pool) :
        /\ Catalog[item].req <= ask.level /\ Catalog[item].level <= band.high /\ Catalog[item].level + widening >= band.low
        /\ ask.sub >= 0 => Catalog[item].sub = ask.sub
        /\ ask.need => Stats(item)
        /\ Catalog[item].pvp => ask.pvp
        /\ Catalog[item].epic => ask.level \in EpicLevels}
Widened(ask, band) ==
    LET wide == {i \in DOMAIN Widening : Within(ask, band, Widening[i]) # {}} IN
    IF wide = {} THEN {} ELSE Within(ask, band, Widening[Min(wide)])
Found(ask) == Widened(ask, ItemLevelBand(ask.level))
Window(e, ask) == IF WindowKey(ask) \in DOMAIN e.windows THEN e.windows[WindowKey(ask)] ELSE Found(ask)

-----------------------------------------------------------------------------
(* EquipFromPool.                                                           *)

\* Player::CanEquipItem: one of a unique item, and nothing beside a two-hander.
CanEquip(e, slot, item) ==
    /\ Catalog[item].unique => \A s \in DOMAIN e.worn : e.worn[s] # item
    /\ slot = "off" => e.worn["main"] # None /\ Catalog[e.worn["main"]].pool # "two"

\* Body armour falls back to lighter armour, everything to what has no stats.
Tries(e, pool, sub) ==
    LET subs == IF pool = "chest" THEN [i \in 1 .. sub |-> sub + 1 - i] ELSE <<sub>>
    IN  [i \in 1 .. 2 * Len(subs) |-> Ask(e, pool, subs[((i - 1) % Len(subs)) + 1], i <= Len(subs))]

\* What may come of a try: an item that can be worn, in some order; after as many
\* attempts as it has, or when all were refused, the next.
Tried(i, fits, refused, next) ==
    {[asked |-> i, item |-> item] : item \in fits}
    \cup (IF fits = {} \/ Cardinality(refused) >= Attempts THEN next ELSE {})
Outcomes(e, slot, tries) ==
    LET from[i \in 1 .. Len(tries) + 1] ==
            IF i > Len(tries) THEN {[asked |-> Len(tries), item |-> None]}
            ELSE LET window == Window(e, tries[i])
                     fits == {item \in window : CanEquip(e, slot, item)}
                 IN  Tried(i, fits, window \ fits, from[i + 1])
    IN  from[1]

\* The set it puts on, and every window that was asked for memoised.
Asked(e, tries, n) ==
    [k \in {WindowKey(tries[i]) : i \in 1 .. n} |-> Window(e, CHOOSE ask \in {tries[i] : i \in 1 .. n} : WindowKey(ask) = k)]
EquipFromPool(e, slot, pool, sub) ==
    {[e EXCEPT !.worn[slot] = o.item,
               !.windows = LET new == Asked(e, Tries(e, pool, sub), o.asked)
                           IN  [k \in DOMAIN @ \cup DOMAIN new |-> IF k \in DOMAIN @ THEN @[k] ELSE new[k]]]
        : o \in Outcomes(e, slot, Tries(e, pool, sub))}

-----------------------------------------------------------------------------
(* Equip: everything off, the slots in order, a layout of weapons, a relic. *)
(* A wand goes to the empty ranged slot before a relic, as a relic does, and *)
(* is left out, as are quiver, ammunition and reagents.                      *)

NoneWorn == [s \in {"chest", "finger1", "finger2", "main", "off", "ranged"} |-> None]
Slots == << <<"chest", "chest">>, <<"finger1", "finger">>, <<"finger2", "finger">> >>
AnySub == -1

\* EquipWeapons of a layout: the main hand decides, the other hand may stay empty.
Then(S, Op(_)) == UNION {Op(e) : e \in S}
Armed(e) == e.worn["main"] # None
WithOffHand(e, pool) ==
    Then(EquipFromPool(e, "main", "one", AnySub), LAMBDA m : IF Armed(m) THEN EquipFromPool(m, "off", pool, AnySub) ELSE {m})
EquipWeapons(e, layout) ==
    CASE layout = "TwoHand" -> EquipFromPool(e, "main", "two", AnySub)
      [] layout = "OneHand" -> EquipFromPool(e, "main", "one", AnySub)
      [] layout = "OneHandShield" -> WithOffHand(e, "shield")
      [] layout = "DualWield" -> IF CanDualWield THEN WithOffHand(e, "one") ELSE {e}
      [] layout = "TwoHandRanged" -> Then(EquipFromPool(e, "ranged", "bow", AnySub), LAMBDA r : EquipFromPool(r, "main", "two", AnySub))
Holds(e, layout) == Armed(e) \/ (layout = "TwoHandRanged" /\ e.worn["ranged"] # None)

\* A step is a slot, then a layout; what a layout that failed put on is destroyed.
Start(e, level, pvp) ==
    [e EXCEPT !.level = level, !.pvp = pvp, !.step = 1, !.layout = 0, !.worn = NoneWorn, !.gems = <<>>, !.active = {}, !.bonus = {}, !.built = @ + 1]
Destroyed(e) == [e EXCEPT !.worn = [@ EXCEPT !["main"] = None, !["off"] = None, !["ranged"] = None]]

Init == env = [level |-> 0, pvp |-> FALSE, step |-> 0, layout |-> 0, worn |-> NoneWorn, windows |-> <<>>,
               gems |-> <<>>, active |-> {}, bonus |-> {}, built |-> 0]
Equip == /\ env.step = 0 /\ env.built < Characters
         /\ \E level \in Levels : \E pvp \in BOOLEAN : env' = Start(env, level, pvp)
EquipSlot == /\ env.step \in DOMAIN Slots
             /\ \E e \in EquipFromPool(env, Slots[env.step][1], Slots[env.step][2], IF Slots[env.step][2] = "chest" THEN Armor ELSE AnySub) :
                   env' = [e EXCEPT !.step = @ + 1]
EquipLayout == /\ env.step = Len(Slots) + 1 /\ env.layout < Len(Layouts)
               /\ \E e \in EquipWeapons([env EXCEPT !.layout = @ + 1], Layouts[env.layout + 1]) :
                     env' = IF Holds(e, Layouts[e.layout]) THEN [e EXCEPT !.step = @ + 1] ELSE Destroyed(e)
EquipRelic == /\ env.step = Len(Slots) + 2 \/ (env.step = Len(Slots) + 1 /\ env.layout = Len(Layouts))
              /\ \E e \in (IF env.worn["ranged"] # None THEN {env} ELSE EquipFromPool(env, "ranged", "relic", AnySub)) :
                    env' = [e EXCEPT !.step = Len(Slots) + 3]

-----------------------------------------------------------------------------
(* Enhance: every item worn is socketed, or while levelling some; the meta  *)
(* gems are applied once every other gem is in.                             *)

Meta(color) == color = "meta"
\* SocketItem's pick: the best of its colour, else of any that may go there.
Fits(level, color, match) ==
    {g \in DOMAIN Gems : Gems[g].req <= level /\ Gems[g].level <= level /\ (Gems[g].epic => level >= 80)
                           /\ (Meta(Gems[g].color) <=> Meta(color)) /\ (match => Gems[g].color = color)}
Best(gems) == {g \in gems : \A h \in gems : Gems[h].level <= Gems[g].level}
Picks(level, color) == IF Fits(level, color, TRUE) # {} THEN Best(Fits(level, color, TRUE))
                       ELSE IF Fits(level, color, FALSE) # {} THEN Best(Fits(level, color, FALSE)) ELSE {None}
Socketed(e) == {s \in DOMAIN e.worn : e.worn[s] # None /\ Catalog[e.worn[s]].sockets # <<>>}
Order == <<"chest", "finger1", "finger2", "main", "off", "ranged">>
Filled(e, slots) ==
    LET sockets == {k \in slots \X (1 .. 2) : k[2] \in DOMAIN Catalog[e.worn[k[1]]].sockets}
    IN  {g \in [sockets -> DOMAIN Gems \cup {None}] : \A k \in sockets : g[k] \in Picks(e.level, Catalog[e.worn[k[1]]].sockets[k[2]])}
\* A meta gem is active when the gems that are in meet it as it is applied.
Met(gems, meta) == Cardinality({k \in DOMAIN gems : gems[k] # None /\ Gems[gems[k]].color = Gems[meta].needs}) >= 2
IsMeta(gems, k) == gems[k] # None /\ Meta(Gems[gems[k]].color)
Active(gems) == {k \in DOMAIN gems : IsMeta(gems, k) /\ Met(gems, gems[k])}
\* Item::GemsFitSockets, for the socket bonus of an item.
Matches(e, gems, s) == \A k \in DOMAIN gems : k[1] = s => gems[k] # None /\ Gems[gems[k]].color = Catalog[e.worn[s]].sockets[k[2]]

Enhance ==
    /\ env.step = Len(Slots) + 3
    /\ \E slots \in (IF env.level \in EpicLevels THEN {Socketed(env)} ELSE SUBSET Socketed(env)) :
       \E gems \in Filled(env, slots) :
          env' = [env EXCEPT !.step = 0, !.gems = gems, !.active = Active(gems), !.bonus = {s \in slots : Matches(env, gems, s)}]

Next == Equip \/ EquipSlot \/ EquipLayout \/ EquipRelic \/ Enhance
Spec == Init /\ [][Next]_vars

-----------------------------------------------------------------------------

\* GearBuilder::_windows: "Built lazily and never invalidated": a window that is
\* kept answers what it would be asked anew, whoever it was built for.
WindowsStayTrue ==
    \A pool \in {"chest", "finger", "two", "one", "shield", "bow", "relic"}, level \in Levels, sub \in {AnySub} \cup 1 .. Armor, need, pvp \in BOOLEAN :
        LET ask == [pool |-> pool, level |-> level, sub |-> sub, need |-> need, pvp |-> pvp]
        IN  WindowKey(ask) \in DOMAIN env.windows => env.windows[WindowKey(ask)] = Found(ask)

\* GearBuilder: "For a bot of level L each slot takes a random item it may wear ...
\* reaching further below the band when the slot has nothing in it, never above.
\* Epics are worn only at the level caps (70, 80), and PvP gear (resilience) only in
\* the PvP stages", whoever was built before.
WornFits ==
    \A s \in DOMAIN env.worn : env.worn[s] # None =>
        LET item == env.worn[s] IN
        /\ Catalog[item].req <= env.level /\ Catalog[item].level <= ItemLevelBand(env.level).high
        /\ Catalog[item].epic => env.level \in EpicLevels
        /\ Catalog[item].pvp => env.pvp
        /\ ~Forbidden(Catalog[item].prefs)
        /\ Catalog[item].unique => \A t \in DOMAIN env.worn \ {s} : env.worn[t] # item

\* EquipWeapons: the hands hold one layout of the spec: nothing beside a two-hander,
\* nothing in the other hand alone, and two weapons for who can wield them.
HandsHoldOneLayout ==
    /\ env.worn["off"] # None => env.worn["main"] # None /\ Catalog[env.worn["main"]].pool = "one"
    /\ env.worn["off"] # None /\ Catalog[env.worn["off"]].pool = "one" => CanDualWield

\* Enhance: "whether they activate depends on the gems in every other socket": a
\* meta gem is active just when the finished set meets it.
MetasSeeEverySocket ==
    env.step = 0 => \A k \in DOMAIN env.gems : IsMeta(env.gems, k) => (k \in env.active <=> Met(env.gems, env.gems[k]))

\* ItemLevelBand: a level's gear is no worse than that of the level before.
BandsClimb ==
    env.level \in 2 .. 80 => LET band == ItemLevelBand(env.level)
                                 before == ItemLevelBand(env.level - 1)
                             IN  before.low <= band.low /\ before.high <= band.high /\ band.low <= band.high
=============================================================================
