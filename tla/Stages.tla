------------------------------- MODULE Stages -------------------------------
(***************************************************************************)
(* The stage table (src/src/Scenario/Curriculum/Stages): every stage of    *)
(* the curriculum with the stages it seeds from, its blocks and its        *)
(* arenas, and the rules a definition has to pass to be used at all.       *)
(*                                                                         *)
(* A stage is named by its suffix, an arena keeps what the rules and the   *)
(* encounters tell apart: who the seats are, what they fight and the flags *)
(* set on it.  Ground, clocks and weights are left out.                    *)
(***************************************************************************)
EXTENDS Integers, Sequences, FiniteSets, TLC

GroupSeats == 5
GroupMembers == 4
TeamSeats == 10
Sides == 2
MaxSeats == 40
MaxArenas == 12
MaxAmbushers == 2

\* ArenaDefinition with its defaults; a definition overrides fields with @@.
Arena(name, against) ==
    [name |-> name, against |-> against, seats |-> "Solo", schedule |-> "None", ladder |-> "None",
     flags |-> {}, raidSeats |-> 0, teamSeats |-> TeamSeats, ambushers |-> 0, levelBonus |-> 0]
Trip(name, flags) == [flags |-> flags] @@ Arena(name, "Travel")
Pulls(name, schedule, flags) == [schedule |-> schedule, flags |-> flags] @@ Arena(name, "Pulls")
Boss(name, ladder, flags) == [ladder |-> ladder, flags |-> flags] @@ Arena(name, "Instance")
Party(arena) == [seats |-> "Party"] @@ arena
Raid(arena, count) == [seats |-> "Raid", raidSeats |-> count] @@ arena
Mirror(arena) == [seats |-> "Mirror"] @@ arena
Foe(name, bonus) == [flags |-> {"Pvp"}, levelBonus |-> bonus] @@ Arena(name, "ScriptedPlayer")
OwnerCast == {"Owner", "OwnerCast"}
Grouped == OwnerCast \union {"PartyGroup"}

\* StageDefinition with its defaults.
Stage(name, extends, blocks, arenas) ==
    [name |-> name, extends |-> extends, merges |-> <<>>, blocks |-> blocks, arenas |-> arenas,
     queued |-> TRUE, stealth |-> FALSE]

Feet == <<"Core", "Move", "Travel", "Duel">>
Hands == <<"Core", "Move", "Duel", "Pet", "Pack", "Gauntlet", "Support">>
People == <<"Core", "Move", "Duel", "Pet", "Pvp">>
Beside == <<"Core", "Move", "Duel", "Pet", "Pack", "Gauntlet", "Companion", "Support">>
Together == <<"Core", "Move", "Duel", "Pet", "Pack", "Gauntlet", "Companion", "Party", "Support">>
Life == <<"Core", "Move", "Travel", "Duel", "Pet", "Pack", "Gauntlet", "Support", "World">>

Move == Stage("move", "", Feet,
    <<Trip("open", {"OnFoot"}), Trip("broken", {"OnFoot"}), Trip("water", {"OnFoot", "Water"})>>)
Indoor == Stage("indoor", "move", Feet, <<Trip("rooms", {"OnFoot", "Indoors"})>>)
Jump == Stage("jump", "move", Feet, <<Trip("ledges", {"OnFoot", "Ledges"})>>)
Dive == Stage("dive", "move", Feet,
    <<Trip("depths", {"OnFoot", "Underwater"}), Trip("chain", {"OnFoot", "Underwater", "Checkpoints"})>>)
Dodge == Stage("dodge", "move", Feet, <<Arena("hazards", "Hazards")>>)
Travel == Stage("travel", "dodge", Feet, <<Trip("travel", {})>>)
Flight == Stage("flight", "travel", Feet, <<Trip("flight", {"Flying"}), Trip("flight_air", {"Flying", "AirOnly"})>>)
Duel == Stage("duel", "flight", <<"Core", "Move", "Travel", "Duel", "Pet">>,
    <<Arena("duel", "Creature"), [flags |-> {"Water"}] @@ Arena("lake", "Creature")>>)
Pack == Stage("pack", "duel", <<"Core", "Move", "Duel", "Pet", "Pack">>, <<Pulls("pack", "SinglePack", {})>>)
Gauntlet == Stage("gauntlet", "pack", Hands, <<Pulls("gauntlet", "Gauntlet", {})>>)
Endurance == Stage("endurance", "gauntlet", Hands, <<Pulls("endurance", "Sequence", {})>>)
Pvp == Stage("pvp", "endurance", People, <<Mirror([flags |-> {"Pvp"}] @@ Arena("arena_1v1", "MirrorSeat"))>>)
Evade == Stage("evade", "pvp", People, <<Foe("evade", 10)>>)
Hide == Stage("hide", "evade", People, <<Foe("hide", 6)>>)
Stealth == [stealth |-> TRUE] @@ Stage("stealth", "hide", People, <<Foe("stealth", 6)>>)
\* Mutant of Companion: the base it extends has every block it needs.
CompanionAlone == Stage("companion", "stealth", People, <<Pulls("companion", "Gauntlet", OwnerCast)>>)
Companion == [merges |-> <<"endurance">>] @@
    Stage("companion", "stealth", Beside, <<Pulls("companion", "Gauntlet", OwnerCast)>>)
PartyStage == Stage("party", "companion", Together, <<Party(Pulls("party", "Gauntlet", Grouped))>>)
Tanking == Stage("tanking", "party", Together, <<Party(Pulls("tanking", "Gauntlet", Grouped))>>)
Triage == Stage("triage", "tanking", Together, <<Party(Pulls("triage", "Gauntlet", Grouped))>>)
Quest == [merges |-> <<"travel">>] @@ Stage("quest", "endurance", Life, <<Arena("quest", "Quest")>>)
Gather == Stage("gather", "quest", Life, <<Arena("gather", "Gather")>>)
Town == Stage("town", "gather", Life, <<Arena("town", "Town")>>)
Dungeon == Stage("dungeon", "triage", Together,
    <<Party(Boss("dungeon", "Dungeon", Grouped)), Party(Pulls("dungeon_control", "Gauntlet", Grouped))>>)
Flag == [merges |-> <<"travel", "pvp">>] @@
    Stage("flag", "triage", <<"Core", "Move", "Duel", "Pet", "Pvp", "Travel", "Flag">>,
          <<Mirror([flags |-> {"Pvp"}] @@ Arena("flag", "Flag"))>>)
Warsong == [merges |-> <<"triage">>] @@
    Stage("warsong", "flag", <<"Core", "Move", "Duel", "Pet", "Pvp", "Travel", "Flag", "Party">>,
          <<[seats |-> "Teams", flags |-> {"Pvp"}] @@ Arena("warsong", "Flag")>>)
RaidSingle == [queued |-> FALSE] @@
    Stage("raid", "triage", Together, <<Raid(Pulls("raid_single", "SinglePack", {}), 0)>>)
RaidGauntlet == [queued |-> FALSE] @@
    Stage("raidrun", "raid", Together, <<Raid(Pulls("raid_gauntlet", "Gauntlet", {}), 0)>>)
Duo == [merges |-> <<"endurance">>] @@
    Stage("duo", "warsong", <<"Core", "Move", "Duel", "Pack", "Pet", "Pvp", "Context", "Hostiles", "Support", "Order">>,
          <<[seats |-> "Teams", teamSeats |-> 2, flags |-> {"Pvp", "Directed", "DirectorLearned", "Places"}] @@
                Arena("duo", "MirrorSeat")>>)
Crossroads ==
    [merges |-> <<"duo", "warsong", "dungeon", "town", "gather", "quest", "pvp", "flight", "companion", "gauntlet", "duel">>] @@
    Stage("crossroads", "triage",
          <<"Core", "Move", "Travel", "Duel", "Pet", "Pack", "Gauntlet", "Companion", "Party", "Pvp", "Context",
            "Hostiles", "Support", "World">>,
          <<Pulls("companion", "Gauntlet", OwnerCast), Party(Pulls("party", "Gauntlet", Grouped)),
            Mirror([flags |-> {"Pvp"}] @@ Arena("arena_1v1", "MirrorSeat")), Pulls("gauntlet", "Gauntlet", {}),
            Arena("duel", "Creature"), [ambushers |-> 2] @@ Pulls("ambush", "Gauntlet", OwnerCast),
            [ambushers |-> 1, flags |-> OwnerCast] @@ Arena("escort_duel", "Ambush"),
            Party(Boss("dungeon", "Dungeon", Grouped)),
            Arena("quest", "Quest"), Arena("gather", "Gather"), Arena("town", "Town")>>)
RaidArenas(ladder, count) ==
    <<Raid(Boss("raid", ladder, {"PartyGroup"}), count), Raid(Pulls("raid_control", "SinglePack", {}), count)>>
Raid10 == [queued |-> FALSE] @@ Stage("raid10", "dungeon", Together, RaidArenas("Raid10", 10))
Raid25 == [queued |-> FALSE] @@ Stage("raid25", "raid10", Together, RaidArenas("Raid25", 25))
Raid40 == [queued |-> FALSE] @@ Stage("raid40", "raid25", Together, RaidArenas("Raid40", 40))

Definitions ==
    <<Move, Indoor, Jump, Dive, Dodge, Travel, Flight, Duel, Pack, Gauntlet, Endurance, Pvp, Evade, Hide, Stealth,
      Companion, PartyStage, Tanking, Triage, Quest, Gather, Town, Dungeon, Flag, Warsong, RaidSingle, RaidGauntlet,
      Duo, Crossroads, Raid10, Raid25, Raid40>>

-----------------------------------------------------------------------------

Least(a, b) == IF a < b THEN a ELSE b
Elements(s) == {s[i] : i \in DOMAIN s}

\* ArenaDefinition::SeatCount and StageDefinition::SeatCount.
ArenaSeats(arena) ==
    CASE arena.seats = "Party" -> GroupMembers
      [] arena.seats = "Raid" -> IF arena.raidSeats = 0 THEN MaxSeats ELSE arena.raidSeats
      [] arena.seats = "Teams" -> Least(arena.teamSeats, TeamSeats) * Sides
      [] arena.seats = "Mirror" -> 2
      [] OTHER -> 1
SeatCount(stage) == CHOOSE n \in {ArenaSeats(a) : a \in Elements(stage.arenas)} :
                        \A a \in Elements(stage.arenas) : ArenaSeats(a) <= n

Has(stage, block) == block \in Elements(stage.blocks)
LifeArena(arena) == arena.against \in {"Quest", "Gather", "Town"}

\* ArenaProblem, as what an arena without a problem satisfies.
FightPlays(stage, a) ==
    LET pulls == a.against = "Pulls"
        instance == a.against = "Instance"
        On(flag) == flag \in a.flags IN
    /\ pulls <=> a.schedule # "None"
    /\ pulls => Has(stage, "Pack")
    /\ a.schedule \in {"Gauntlet", "Sequence"} => Has(stage, "Gauntlet")
    /\ instance <=> a.ladder # "None"
    /\ instance => Has(stage, "Pack") /\ a.seats \in {"Party", "Raid"}
    /\ a.raidSeats # 0 => a.seats = "Raid" /\ a.raidSeats <= MaxSeats /\ a.raidSeats % GroupSeats = 0
    /\ On("Owner") => (pulls \/ instance \/ a.against = "Ambush") /\ Has(stage, "Companion")
    /\ On("PartyGroup") => /\ Has(stage, "Party")
                           /\ (instance /\ a.seats = "Raid") \/ (On("Owner") /\ a.seats = "Party")
    /\ On("OwnerCast") => On("Owner") /\ SeatCount(stage) + Sides + 1 <= MaxSeats
SidesPlay(stage, a) ==
    LET duelPlayer == a.against \in {"ScriptedPlayer", "MirrorSeat", "Flag"}
        player == duelPlayer \/ a.ambushers > 0
        On(flag) == flag \in a.flags IN
    /\ a.seats \in {"Mirror", "Teams"} <=> a.against \in {"MirrorSeat", "Flag"}
    /\ a.seats = "Teams" => a.teamSeats \in 1 .. TeamSeats
    /\ On("Directed") => Has(stage, "Order") /\ a.seats = "Teams"
    /\ On("Places") \/ On("DirectorLearned") => On("Directed")
    /\ a.ambushers <= MaxAmbushers
    /\ a.ambushers > 0 => a.against \in {"Pulls", "Ambush"} /\ On("Owner") /\ Has(stage, "Pack")
    /\ a.against = "Ambush" => a.ambushers = 1
    /\ player => Has(stage, "Pvp")
    /\ duelPlayer => On("Pvp")
    /\ On("Pvp") => player
    /\ a.levelBonus # 0 => a.against = "ScriptedPlayer"
    /\ a.against = "Flag" => Has(stage, "Travel") /\ Has(stage, "Flag")
TripPlays(stage, a) ==
    LET travel == a.against = "Travel"
        Only(flag, others) == flag \in a.flags => travel /\ a.flags \intersect others = {} IN
    /\ travel => /\ Has(stage, "Travel") /\ a.seats = "Solo" /\ a.ambushers = 0
                 /\ a.flags \intersect {"Owner", "Pvp"} = {}
    /\ Only("OnFoot", {"Flying"}) /\ Only("Flying", {}) /\ Only("Indoors", {"Flying", "Water"})
    /\ Only("Ledges", {"Flying", "Indoors", "Water"})
    /\ Only("Underwater", {"Flying", "Indoors", "Ledges", "Water"})
    /\ "AirOnly" \in a.flags => "Flying" \in a.flags
    /\ "Water" \in a.flags => travel \/ a.against = "Creature"
    /\ "Checkpoints" \in a.flags => travel /\ "Underwater" \in a.flags
LifePlays(stage, a) ==
    /\ LifeArena(a) => /\ {"World", "Travel", "Pack"} \subseteq Elements(stage.blocks)
                       /\ a.seats = "Solo" /\ a.ambushers = 0 /\ a.flags \intersect {"Owner", "Pvp"} = {}
    /\ Has(stage, "World") => \E other \in Elements(stage.arenas) : LifeArena(other)
ArenaPlays(stage, a) == FightPlays(stage, a) /\ SidesPlay(stage, a) /\ TripPlays(stage, a) /\ LifePlays(stage, a)

NoneTwice(s) == Cardinality(Elements(s)) = Len(s)

\* Problem: whether a definition is used, given the stages accepted before it.
Accepted(stage, valid) ==
    LET earlier == {other.name : other \in Elements(valid)} IN
    /\ Len(stage.blocks) >= 2 /\ stage.blocks[1] = "Core" /\ stage.blocks[2] = "Move" /\ NoneTwice(stage.blocks)
    /\ stage.extends # "" => stage.extends \in earlier
    /\ stage.merges # <<>> => stage.extends # ""
    /\ NoneTwice(stage.merges) /\ Elements(stage.merges) \subseteq earlier \ {stage.extends}
    /\ Has(stage, "Duel")
    /\ Len(stage.arenas) \in 1 .. MaxArenas
    /\ \A i, j \in DOMAIN stage.arenas : i < j => stage.arenas[i].name # stage.arenas[j].name
    /\ \A a \in Elements(stage.arenas) : ArenaPlays(stage, a)

\* CurriculumStages: the definitions accepted, each against those before it.
CurriculumStages ==
    LET Used[n \in 0 .. Len(Definitions)] ==
            IF n = 0 THEN <<>>
            ELSE LET valid == Used[n - 1]
                 IN IF Accepted(Definitions[n], valid) THEN Append(valid, Definitions[n]) ELSE valid
    IN Used[Len(Definitions)]
=============================================================================
