---------------------------- MODULE WorldActions ----------------------------
(***************************************************************************)
(* What a seat does in the world besides fighting: the six presses of the  *)
(* world block (WorldBlock.cpp in src/src/Scenario/Curriculum/Blocks) and  *)
(* what they do to its bags, its gear, its purse and its quest             *)
(* (WorldActions.cpp in src/src/Scenario/Curriculum/Character).  The core  *)
(* keeps one loot window per player; what the window showed may be gone    *)
(* from the world before the press.  Bags hold items by kind and count.    *)
(***************************************************************************)
EXTENDS Integers, Sequences, SequencesExt, FiniteSets, FiniteSetsExt

CONSTANTS Items,        \* by kind: [for, two, score, price, lot]: for is "main", "off", "finger", "junk", "food" or "drink"
          BagSize, StartMoney, MaxMoney,
          Wants,        \* CONSUMABLE_COUNT
          Lots,         \* the most lots one press buys
          Food, Drink, UsesMana, \* what the vendor sells that the bot can use, None for nothing
          Corpses,      \* what a kill may leave: [left, copper, level], left a sequence of kinds
          Nodes,        \* what a node holds: [left, skill]
          Rewards,      \* the quest's reward choices: a sequence of kinds, empty for none
          Skill, MaxWear, Start, Decisions, Events, None

VARIABLE env

vars == <<env>>

Gear == {i \in DOMAIN Items : Items[i].for \in {"main", "off", "finger"}}
Stackable(i) == Items[i].for \in {"junk", "food", "drink"}
InBags(e) == {i \in DOMAIN Items : e.bags[i] > 0}
Count(bags) == FoldSet(LAMBDA i, n : n + bags[i], 0, DOMAIN Items)
Used(bags) == FoldSet(LAMBDA i, n : n + (IF bags[i] = 0 THEN 0 ELSE IF Stackable(i) THEN 1 ELSE bags[i]), 0, DOMAIN Items)
Fits(e, i) == Used([e.bags EXCEPT ![i] = @ + 1]) <= BagSize
Stored(e, i, n) == [e EXCEPT !.bags[i] = @ + n]

-----------------------------------------------------------------------------
(* Gear: BestUpgrade and EquipUpgrade.                                      *)

Score(e, slot) == IF e.worn[slot] = None THEN 0 ELSE Items[e.worn[slot]].score
TwoHanded(e) == e.worn["main"] # None /\ Items[e.worn["main"]].two
\* Player::FindEquipSlot: a free slot of those it goes in, else the first.
SlotsOf(i) == IF Items[i].for = "finger" THEN <<"finger1", "finger2">> ELSE <<Items[i].for>>
Dest(e, i) == LET free == {k \in DOMAIN SlotsOf(i) : e.worn[SlotsOf(i)[k]] = None} IN SlotsOf(i)[IF free = {} THEN 1 ELSE Min(free)]
\* SwapItem and AutoUnequipOffhandIfNeed: what was worn comes back to the bags.
Swapped(e, i) ==
    LET to == Dest(e, i)
        off == IF Items[i].two THEN e.worn["off"] ELSE None
        back == {e.worn[to], off} \ {None}
    IN  [e EXCEPT !.worn = [@ EXCEPT ![to] = i, !["off"] = IF to # "off" /\ Items[i].two THEN None ELSE IF to = "off" THEN i ELSE @],
                  !.bags = [k \in DOMAIN Items |-> @[k] + (IF k \in back THEN 1 ELSE 0) - (IF k = i THEN 1 ELSE 0)]]
\* Player::CanEquipItem: no off hand beside a two-hander, and room for what comes off.
CanEquip(e, i) == (Items[i].for = "off" => ~TwoHanded(e)) /\ Used(Swapped(e, i).bags) <= BagSize
\* Mutant of Gain: as good is good enough.
GainOrEqual(e, i) == Items[i].score - Score(e, Dest(e, i)) + 1
Gain(e, i) == Items[i].score - Score(e, Dest(e, i))
Better(e) == {i \in InBags(e) \cap Gear : CanEquip(e, i) /\ Gain(e, i) > 0}
BestUpgrade(e) == {i \in Better(e) : \A j \in Better(e) : Gain(e, j) <= Gain(e, i)}

-----------------------------------------------------------------------------
(* Loot: a corpse, what skinning it opened, a node a gathering cast opened. *)

Empty(loot) == loot.left = <<>> /\ loot.copper = 0
IsLootable(e) == e.corpse # None /\ e.corpse.type = "loot" /\ ~Empty(e.corpse)
Required(level) == IF Skill < 100 THEN (level - 10) * 10 ELSE level * 5
IsSkinnable(e) == e.corpse # None /\ e.corpse.type = "skinnable" /\ Skill >= Required(e.corpse.level)
CanGather(e) == e.node # None /\ ~e.node.opened /\ Skill >= e.node.skill

\* Every slot that fits, in order, and the money.
TakeAll(e, loot) ==
    LET upto[k \in 0 .. Len(loot.left)] ==
            IF k = 0 THEN [e |-> e, left |-> <<>>]
            ELSE LET r == upto[k - 1] IN
                 IF Fits(r.e, loot.left[k]) THEN [r EXCEPT !.e = Stored(@, loot.left[k], 1)] ELSE [r EXCEPT !.left = Append(@, loot.left[k])]
        taken == upto[Len(loot.left)]
    IN  [e |-> [taken.e EXCEPT !.money = @ + loot.copper], left |-> taken.left,
         items |-> Len(loot.left) - Len(taken.left), copper |-> loot.copper]
Wasted(e) == [e EXCEPT !.got.wasted = @ + 1]
\* LootAll's answer, and what the press books by it.
\* Mutant of Something: only what is carried counts.
SomethingCarried(t) == t.items > 0
Something(t) == t.items > 0 \/ t.copper > 0
Booked(e, t) == IF Something(t) THEN [e EXCEPT !.got.items = @ + t.items, !.got.copper = @ + t.copper] ELSE Wasted(e)
LootCorpse(e, near) ==
    LET skinning == e.open = "corpse" /\ e.corpse # None /\ e.corpse.type = "skin" IN
    IF e.corpse = None \/ (~skinning /\ (~IsLootable(e) \/ ~near)) THEN Wasted(e)
    ELSE LET t == TakeAll(e, e.corpse)
             left == [e.corpse EXCEPT !.left = t.left, !.copper = 0]
             released == [left EXCEPT !.type = IF ~Empty(left) THEN @ ELSE IF skinning THEN "bare" ELSE "skinnable"]
         IN  Booked([t.e EXCEPT !.corpse = released, !.open = None], t)
LootNode(e) ==
    IF e.node = None THEN Wasted(e)
    ELSE LET t == TakeAll(e, e.node) IN
         Booked([t.e EXCEPT !.open = None, !.node = IF t.left = <<>> THEN None ELSE [@ EXCEPT !.left = t.left]], t)

-----------------------------------------------------------------------------
(* Quests and trade.                                                        *)

Offers(e) == e.quest = "none"
TurnsIn(e) == e.quest = "complete"
\* The choice that rates highest of those the bot can wear, else the first.
Choice == LET worn == {k \in DOMAIN Rewards : Rewards[k] \in Gear}
              best == {k \in worn : \A j \in worn : Items[Rewards[j]].score <= Items[Rewards[k]].score}
          IN  IF worn = {} THEN 1 ELSE Min(best)
TurnIn(e) ==
    IF Rewards = <<>> THEN [e EXCEPT !.quest = "rewarded"]
    ELSE IF Fits(e, Rewards[Choice]) THEN [Stored(e, Rewards[Choice], 1) EXCEPT !.quest = "rewarded", !.got.rewards = @ + 1]
    ELSE Wasted(e)

Junk(e) == {i \in InBags(e) : Items[i].for = "junk"}
SellJunk(e, order) ==
    LET upto[k \in 0 .. Len(order)] ==
            IF k = 0 THEN [e |-> e, full |-> FALSE]
            ELSE LET r == upto[k - 1]
                     price == Items[order[k]].price * e.bags[order[k]]
                 IN  IF r.full \/ r.e.money >= MaxMoney - price THEN [r EXCEPT !.full = TRUE]
                     ELSE [r EXCEPT !.e = [@ EXCEPT !.money = @ + price, !.got.sold = @ + price, !.gone = @ + e.bags[order[k]], !.bags[order[k]] = 0]]
        sold == upto[Len(order)].e
    IN  IF sold = e THEN Wasted(e) ELSE sold
\* Player::DurabilityRepairAll: item by item while the purse lasts.
Repaired(e, n) == IF n = 0 THEN Wasted(e) ELSE [e EXCEPT !.wear = @ - n, !.money = @ - n, !.got.repaired = @ + n]
Carried(e, kind) == FoldSet(LAMBDA i, n : n + e.bags[i], 0, {i \in DOMAIN Items : Items[i].for = kind})
SellsSupplies == Food # None \/ (Drink # None /\ UsesMana)
\* One supply, in whole lots: Player::BuyItemFromVendorSlot takes them all or none.
LotsOf(e, i) == Min({(Wants - e.bags[i] + Items[i].lot - 1) \div Items[i].lot, Lots})
Buy(e, i) ==
    IF i = None \/ (i = Drink /\ ~UsesMana) \/ e.bags[i] >= Wants THEN e
    ELSE LET n == LotsOf(e, i) * Items[i].lot
             cost == LotsOf(e, i) * Items[i].price
         IN  IF e.money < cost \/ ~Fits(e, i) THEN e
             ELSE [Stored(e, i, n) EXCEPT !.money = @ - cost, !.spent = @ + cost, !.got.bought = @ + n]
BuySupplies(e) == LET b == Buy(Buy(e, Food), Drink) IN IF b = e THEN Wasted(e) ELSE b

-----------------------------------------------------------------------------
(* The presses of WorldBlock.  A press that is not allowed does nothing.    *)

Idle(e) == e.cast = None
Things(e, near) == {t \in near : \/ t = "giver" /\ (Offers(e) \/ TurnsIn(e))
                                 \/ t = "node" /\ CanGather(e)
                                 \/ t = "corpse" /\ (IsLootable(e) \/ IsSkinnable(e))}
IsAllowed(e, press, near) ==
    CASE press = "interact" -> Idle(e) /\ Things(e, near) # {}
      [] press = "loot_all" -> e.open # None \/ ("corpse" \in near /\ IsLootable(e))
      [] press = "equip_upgrade" -> ~e.combat /\ BestUpgrade(e) # {}
      [] press = "sell_junk" -> "vendor" \in near /\ Junk(e) # {}
      [] press = "repair" -> "vendor" \in near /\ e.money > 0 /\ e.wear > 0
      [] press = "buy_supplies" -> /\ "vendor" \in near /\ e.money > 0 /\ SellsSupplies
                                   /\ Carried(e, "food") < Wants \/ (UsesMana /\ Carried(e, "drink") < Wants)
\* INTERACT: the nearest thing in reach, whichever it is, and what a click on it does.
Clicked(e, thing) ==
    CASE thing = "giver" -> IF TurnsIn(e) THEN TurnIn(e) ELSE [e EXCEPT !.quest = "incomplete"]
      [] thing = "node" -> [e EXCEPT !.cast = "node"]
      [] thing = "corpse" -> IF IsSkinnable(e) THEN [e EXCEPT !.cast = "corpse"] ELSE LootCorpse(e, TRUE)
LootAll(e, near) ==
    CASE e.open = "node" -> LootNode(e)
      [] e.open = "corpse" -> LootCorpse(e, "corpse" \in near)
      [] e.open = "gone" -> Wasted(e)
      [] OTHER -> LootCorpse(e, TRUE)
\* A gathering cast may be refused.
Presses(e, press, near) ==
    CASE press = "interact" -> {Clicked(e, t) : t \in Things(e, near)} \cup (IF Things(e, near) \cap {"node", "corpse"} = {} THEN {} ELSE {Wasted(e)})
      [] press = "loot_all" -> {LootAll(e, near)}
      [] press = "equip_upgrade" -> {[Swapped(e, i) EXCEPT !.got.equipped = @ + 1] : i \in BestUpgrade(e)}
      [] press = "sell_junk" -> {SellJunk(e, order) : order \in SetToSeqs(Junk(e))}
      [] press = "repair" -> {Repaired(e, n) : n \in IF e.money >= e.wear THEN {e.wear} ELSE 0 .. e.money}
      [] press = "buy_supplies" -> {BuySupplies(e)}

\* Out of reach of a thing is as well without it; of a window's corpse it is not.
Near == {{"giver", "node", "corpse", "vendor"}, {"giver", "node", "vendor"}}
Apply == /\ env.decisions < Decisions
         /\ \E near \in Near :
            \E press \in {"interact", "loot_all", "equip_upgrade", "sell_junk", "repair", "buy_supplies"} :
               /\ IsAllowed(env, press, near)
               /\ \E e \in Presses(env, press, near) : env' = [e EXCEPT !.decisions = @ + 1, !.wore = @ \cup {env.worn}]

-----------------------------------------------------------------------------
(* The world between two presses.                                           *)

NothingGot == [items |-> 0, copper |-> 0, sold |-> 0, repaired |-> 0, bought |-> 0, rewards |-> 0, equipped |-> 0, wasted |-> 0]
NoneWorn == [s \in {"main", "off", "finger1", "finger2"} |-> None]
Init == env \in {[bags |-> bags, worn |-> NoneWorn, wear |-> 0, money |-> StartMoney, quest |-> "none", corpse |-> None, node |-> None,
                  open |-> None, cast |-> None, combat |-> FALSE, got |-> NothingGot, made |-> 0, gone |-> 0, lost |-> 0, spent |-> 0,
                  began |-> Count(bags), decisions |-> 0, events |-> 0, wore |-> {}] : bags \in Start}

Happens(e) == [e EXCEPT !.events = @ + 1]
Kill == /\ env.events < Events /\ env.corpse = None
        /\ \E c \in Corpses : env' = [Happens(env) EXCEPT !.corpse = [type |-> "loot", left |-> c.left, copper |-> c.copper, level |-> c.level],
                                                          !.made = @ + Len(c.left), !.combat = ~@]
Grows == /\ env.events < Events /\ env.node = None
         /\ \E n \in Nodes : env' = [Happens(env) EXCEPT !.node = [opened |-> FALSE, left |-> n.left, copper |-> 0, skill |-> n.skill], !.made = @ + Len(n.left)]
\* The corpse or the node goes, and a window on it stays open.
Shut(e, thing) == IF e.open = thing THEN "gone" ELSE e.open
Despawn == \/ env.corpse # None /\ env.cast # "corpse"
              /\ env' = [env EXCEPT !.lost = @ + Len(env.corpse.left), !.corpse = None, !.open = Shut(env, "corpse")]
           \/ env.node # None /\ env.cast # "node" /\ env' = [env EXCEPT !.lost = @ + Len(env.node.left), !.node = None, !.open = Shut(env, "node")]
\* A gathering cast ends: what it opened, or interrupted.  Opening a window closes the other.
CastEnds == /\ env.cast # None
            /\ \/ env' = [env EXCEPT !.cast = None]
               \/ env.cast = "node" /\ env' = [env EXCEPT !.cast = None, !.open = "node", !.node.opened = TRUE]
               \/ env.cast = "corpse" /\ \E c \in Corpses :
                     env' = [env EXCEPT !.cast = None, !.open = "corpse", !.made = @ + Len(c.left),
                                        !.corpse = [@ EXCEPT !.type = "skin", !.left = c.left, !.copper = 0]]
Fought == env.events < Events /\ env.wear < MaxWear /\ env' = [Happens(env) EXCEPT !.wear = @ + 1, !.combat = ~@]
Eaten == /\ env.events < Events
         /\ \E i \in InBags(env) : Items[i].for \in {"food", "drink"} /\ env' = [Happens(env) EXCEPT !.bags[i] = @ - 1, !.gone = @ + 1]
QuestDone == env.quest = "incomplete" /\ env' = [env EXCEPT !.quest = "complete"]

Next == Apply \/ Kill \/ Grows \/ Despawn \/ CastEnds \/ Fought \/ Eaten \/ QuestDone
Spec == Init /\ [][Next]_vars

-----------------------------------------------------------------------------

Worn(e) == Cardinality({s \in DOMAIN e.worn : e.worn[s] # None})
Lying(loot) == IF loot = None THEN 0 ELSE Len(loot.left)

\* SeatActionResult: what the presses booked is what the purse and the bags have:
\* every copper looted, sold, spent, and every item taken, bought or handed over,
\* through swaps of gear, full bags and windows on what is gone.
BooksBalance ==
    /\ env.money = StartMoney + env.got.copper + env.got.sold - env.got.repaired - env.spent
    /\ Count(env.bags) + Worn(env) = env.began + env.got.items + env.got.bought + env.got.rewards - env.gone
    /\ env.made = env.got.items + Lying(env.corpse) + Lying(env.node) + env.lost
    /\ Used(env.bags) <= BagSize

\* WorldActions::EquipUpgrade: putting on what rates higher comes to an end: what was
\* once taken off for something better is not put back on as it was.
UpgradesEnd == env.worn' # env.worn => env.worn' \notin env.wore

\* WorldBlock::Apply: a press that is called wasted took and gave nothing.
WastedDidNothing == env.got.wasted' > env.got.wasted =>
    /\ env.money' = env.money /\ env.bags' = env.bags /\ env.worn' = env.worn /\ env.quest' = env.quest /\ env.wear' = env.wear

=============================================================================
