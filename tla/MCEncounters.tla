---------------------------- MODULE MCEncounters ----------------------------
(***************************************************************************)
(* The encounters of a curriculum stage, one per arena an env may draw:    *)
(* each is instantiated with the values of an arena and runs by itself     *)
(* over env and paid, so that one run of TLC covers all of them.           *)
(***************************************************************************)
EXTENDS Integers, FiniteSets

CONSTANTS Arenas, NoFight,
          Setup \* the values of every arena, by its name

VARIABLES arena, env, paid

vars == <<arena, env, paid>>

Flag == INSTANCE FlagEncounter WITH PerSide <- Setup.flag.PerSide, Matched <- FALSE, CapturesToWin <- Setup.flag.CapturesToWin,
    Respawn <- Setup.flag.Respawn, DroppedReturn <- Setup.flag.DroppedReturn, EpisodeDecisions <- Setup.flag.EpisodeDecisions,
    Far <- Setup.flag.Far
Ladder == INSTANCE LadderFights WITH MaxTier <- Setup.ladder.MaxTier, Window <- Setup.ladder.Window, RaiseAbove <- Setup.ladder.RaiseAbove,
    LowerBelow <- Setup.ladder.LowerBelow, Fighters <- Setup.ladder.Fighters, Pairs <- Setup.ladder.Pairs,
    MaxVisits <- Setup.ladder.MaxVisits
Creature == INSTANCE CreatureEncounter WITH MaxTier <- Setup.creature.MaxTier, Window <- Setup.creature.Window,
    RaiseAbove <- Setup.creature.RaiseAbove, LowerBelow <- Setup.creature.LowerBelow, EpisodeDecisions <- Setup.creature.EpisodeDecisions,
    Grace <- Setup.creature.Grace, UnreachableTeleport <- Setup.creature.UnreachableTeleport
Quest == INSTANCE QuestEncounter WITH MaxTier <- Setup.quest.MaxTier, Window <- Setup.quest.Window, RaiseAbove <- Setup.quest.RaiseAbove,
    LowerBelow <- Setup.quest.LowerBelow, EpisodeDecisions <- Setup.quest.EpisodeDecisions, Far <- Setup.quest.Far,
    Giver <- Setup.quest.Giver, Objective <- Setup.quest.Objective, Ender <- Setup.quest.Ender, Needed <- Setup.quest.Needed,
    Seen <- Setup.quest.Seen
Gather == INSTANCE GatherEncounter WITH MaxTier <- Setup.gather.MaxTier, Window <- Setup.gather.Window,
    RaiseAbove <- Setup.gather.RaiseAbove, LowerBelow <- Setup.gather.LowerBelow, EpisodeDecisions <- Setup.gather.EpisodeDecisions,
    Far <- Setup.gather.Far, Nodes <- Setup.gather.Nodes
Town == INSTANCE TownEncounter WITH MaxTier <- Setup.town.MaxTier, Window <- Setup.town.Window, RaiseAbove <- Setup.town.RaiseAbove,
    LowerBelow <- Setup.town.LowerBelow, EpisodeDecisions <- Setup.town.EpisodeDecisions, Far <- Setup.town.Far, Junk <- Setup.town.Junk,
    Upgrades <- Setup.town.Upgrades, Vendor <- Setup.town.Vendor, Repairer <- Setup.town.Repairer
Pack == INSTANCE PullsEncounter WITH Schedule <- "SinglePack", Owner <- FALSE, SequencePulls <- Setup.pack.SequencePulls,
    WinPulls <- Setup.pack.WinPulls, MaxPack <- Setup.pack.MaxPack, Break <- Setup.pack.Break, Wait <- Setup.pack.Wait,
    Grace <- Setup.pack.Grace, EpisodeDecisions <- Setup.pack.EpisodeDecisions, MaxTier <- Setup.pack.MaxTier, Window <- Setup.pack.Window,
    RaiseAbove <- Setup.pack.RaiseAbove, LowerBelow <- Setup.pack.LowerBelow
Gauntlet == INSTANCE PullsEncounter WITH Schedule <- "Gauntlet", Owner <- FALSE, SequencePulls <- Setup.gauntlet.SequencePulls,
    WinPulls <- Setup.gauntlet.WinPulls, MaxPack <- Setup.gauntlet.MaxPack, Break <- Setup.gauntlet.Break, Wait <- Setup.gauntlet.Wait,
    Grace <- Setup.gauntlet.Grace, EpisodeDecisions <- Setup.gauntlet.EpisodeDecisions, MaxTier <- Setup.gauntlet.MaxTier,
    Window <- Setup.gauntlet.Window, RaiseAbove <- Setup.gauntlet.RaiseAbove, LowerBelow <- Setup.gauntlet.LowerBelow
Sequence == INSTANCE PullsEncounter WITH Schedule <- "Sequence", Owner <- FALSE, SequencePulls <- Setup.sequence.SequencePulls,
    WinPulls <- Setup.sequence.WinPulls, MaxPack <- Setup.sequence.MaxPack, Break <- Setup.sequence.Break, Wait <- Setup.sequence.Wait,
    Grace <- Setup.sequence.Grace, EpisodeDecisions <- Setup.sequence.EpisodeDecisions, MaxTier <- Setup.sequence.MaxTier,
    Window <- Setup.sequence.Window, RaiseAbove <- Setup.sequence.RaiseAbove, LowerBelow <- Setup.sequence.LowerBelow
Owned == INSTANCE PullsEncounter WITH Schedule <- "Gauntlet", Owner <- TRUE, SequencePulls <- Setup.owned.SequencePulls,
    WinPulls <- Setup.owned.WinPulls, MaxPack <- Setup.owned.MaxPack, Break <- Setup.owned.Break, Wait <- Setup.owned.Wait,
    Grace <- Setup.owned.Grace, EpisodeDecisions <- Setup.owned.EpisodeDecisions, MaxTier <- Setup.owned.MaxTier,
    Window <- Setup.owned.Window, RaiseAbove <- Setup.owned.RaiseAbove, LowerBelow <- Setup.owned.LowerBelow
Ambush == INSTANCE AmbushEncounter WITH Alone <- FALSE, Ambushers <- Setup.ambush.Ambushers, PackSlots <- Setup.ambush.PackSlots,
    MinArrival <- Setup.ambush.MinArrival, MaxArrival <- Setup.ambush.MaxArrival, Grace <- Setup.ambush.Grace,
    EpisodeDecisions <- Setup.ambush.EpisodeDecisions
Ambushed == INSTANCE AmbushEncounter WITH Alone <- TRUE, Ambushers <- Setup.ambushed.Ambushers, PackSlots <- Setup.ambushed.PackSlots,
    MinArrival <- Setup.ambushed.MinArrival, MaxArrival <- Setup.ambushed.MaxArrival, Grace <- Setup.ambushed.Grace,
    EpisodeDecisions <- Setup.ambushed.EpisodeDecisions
Trip == INSTANCE TravelEncounter WITH Far <- Setup.trip.Far, Kind <- "water", Chain <- FALSE, Ground <- Setup.trip.Ground,
    Nearest <- Setup.trip.Nearest, Furthest <- Setup.trip.Furthest, Share <- Setup.trip.Share, Refresh <- Setup.trip.Refresh,
    Stray <- Setup.trip.Stray, Corner <- Setup.trip.Corner, EpisodeDecisions <- Setup.trip.EpisodeDecisions, Grace <- Setup.trip.Grace
Dives == INSTANCE TravelEncounter WITH Far <- Setup.dives.Far, Kind <- "dive", Chain <- TRUE, Ground <- Setup.dives.Ground,
    Nearest <- Setup.dives.Nearest, Furthest <- Setup.dives.Furthest, Share <- Setup.dives.Share, Refresh <- Setup.dives.Refresh,
    Stray <- Setup.dives.Stray, Corner <- Setup.dives.Corner, EpisodeDecisions <- Setup.dives.EpisodeDecisions, Grace <- Setup.dives.Grace
Boss == INSTANCE InstanceEncounter WITH MaxTier <- Setup.boss.MaxTier, Window <- Setup.boss.Window, RaiseAbove <- Setup.boss.RaiseAbove,
    LowerBelow <- Setup.boss.LowerBelow, Seats <- Setup.boss.Seats, First <- Setup.boss.First, Full <- Setup.boss.Full,
    EpisodeDecisions <- Setup.boss.EpisodeDecisions

\* A ladder has a window and its pairs, a field nodes to count, a town what the
\* seat brings, a raid a first seat, and an ambush a number of ambushers.
ASSUME SetupAssumption ==
    /\ Ladder!LadderConstants /\ Setup.ladder.Pairs \in Nat \ {0}
    /\ IsFiniteSet(Setup.gather.Nodes)
    /\ Setup.town.Junk \in Nat /\ Setup.town.Upgrades \in Nat
    /\ Setup.boss.First \in Setup.boss.Seats
    /\ Setup.ambush.Ambushers \in Nat /\ Setup.ambushed.Ambushers \in Nat

Init == /\ arena \in Arenas
        /\ arena = "flag" => Flag!Init
        /\ arena = "ladder" => Ladder!Init /\ paid = 0
        /\ arena = "creature" => Creature!Init
        /\ arena = "quest" => Quest!Init
        /\ arena = "gather" => Gather!Init
        /\ arena = "pack" => Pack!Init
        /\ arena = "gauntlet" => Gauntlet!Init
        /\ arena = "sequence" => Sequence!Init
        /\ arena = "owned" => Owned!Init
        /\ arena = "ambush" => Ambush!Init
        /\ arena = "ambushed" => Ambushed!Init
        /\ arena = "trip" => Trip!Init
        /\ arena = "dives" => Dives!Init
        /\ arena = "town" => Town!Init
        /\ arena = "boss" => Boss!Init
Next == /\ UNCHANGED arena
        /\ \/ arena = "flag" /\ Flag!Next
           \/ arena = "ladder" /\ Ladder!Next /\ UNCHANGED paid
           \/ arena = "creature" /\ Creature!Next
           \/ arena = "quest" /\ Quest!Next
           \/ arena = "gather" /\ Gather!Next
           \/ arena = "pack" /\ Pack!Next
           \/ arena = "gauntlet" /\ Gauntlet!Next
           \/ arena = "sequence" /\ Sequence!Next
           \/ arena = "owned" /\ Owned!Next
           \/ arena = "ambush" /\ Ambush!Next
           \/ arena = "ambushed" /\ Ambushed!Next
           \/ arena = "trip" /\ Trip!Next
           \/ arena = "dives" /\ Dives!Next
           \/ arena = "town" /\ Town!Next
           \/ arena = "boss" /\ Boss!Next
Spec == Init /\ [][Next]_vars

-----------------------------------------------------------------------------

\* FlagEncounter::Update: every pickup is a capture, a carrier stopped or a flag
\* being carried by a living seat of the other side, whatever order the seats
\* are updated in; and a match has one winner.
\* An event of a side is paid once to every seat of it, though counted by one and
\* cleared at the next decision.
\* AmbushEncounter::Arrive and PullsEncounter::SpawnPull: an ambusher that came
\* keeps its enemy slot beside any pull.
FlagsAndSlotsKept ==
    /\ arena = "flag" => Flag!TypeOK /\ Flag!FlagsAccounted /\ Flag!OneWinner /\ Flag!EventsPaidOnce
    /\ arena = "ambush" => Ambush!AmbushersKeepSlots
    /\ arena = "ambushed" => Ambushed!AmbushersKeepSlots

\* DifficultyLadder::Draw and Record: a row moves on a window of fights at its
\* own rung only, whatever order the envs' fights end in, and an evaluation's
\* seeds take every pair to every rung.
LadderSound == arena = "ladder" => Ladder!LadderTypeOK /\ Ladder!WindowIsOfThisRung /\ Ladder!SeedsCoverRungs

\* CombatReward::OneOnOne, CreatureEncounter, AmbushEncounter and
\* InstanceEncounter: a fight that is over was recorded once, and paid once for
\* its kill and once for every death.
FightsSettled ==
    /\ arena = "creature" => Creature!DuelSettled
    /\ arena = "ambush" => Ambush!AmbushSettled
    /\ arena = "ambushed" => Ambushed!AmbushSettled
    /\ arena = "boss" => Boss!InstanceSettled

\* LifeEncounter with its quest, field and town: what the seat did was paid
\* once, nothing it did not do was paid, and the outcome is that of the game.
ErrandsSettled ==
    /\ arena = "quest" => Quest!QuestSettled /\ Quest!NothingUnearned
    /\ arena = "gather" => Gather!GatherSettled
    /\ arena = "town" => Town!TownSettled

\* PullsEncounter: every creature that died, every death and every clear is
\* paid once whatever pull it belongs to, and a single pack is recorded once.
PullsSettled ==
    /\ arena = "pack" => Pack!PullsSettled
    /\ arena = "gauntlet" => Gauntlet!PullsSettled
    /\ arena = "sequence" => Sequence!PullsSettled
    /\ arena = "owned" => Owned!PullsSettled

\* TravelEncounter: a trip is paid for arriving once, or once a leg, and
\* whoever did not arrive timed out or died; and "what is closed pays, what is
\* given back costs, so wandering cannot be farmed".
TripsSettled ==
    /\ arena = "trip" => Trip!TripSettled /\ Trip!WanderingPaysNothing
    /\ arena = "dives" => Dives!TripSettled /\ Dives!WanderingPaysNothing

\* FlagEncounter::Reward: a flag changing hands pays nothing.
\* PullsEncounter::Recover and Update: a pull beside an owner finds the whole
\* party standing.
NeverSteps ==
    [][/\ arena = "flag" => Flag!ChangingHandsPaysNothing
       /\ arena = "owned" => Owned!PullFindsAll]_vars

-----------------------------------------------------------------------------
(* The arenas that are tried.                                               *)

Hills == [x \in 0 .. 3 |-> [wet |-> FALSE, routed |-> x # 1, crosses |-> x = 3, edge |-> FALSE, walk |-> x, dry |-> IF x = 3 THEN 4 ELSE x]]
Lake == [x \in 0 .. 3 |-> [wet |-> x > 0, routed |-> TRUE, crosses |-> FALSE, edge |-> FALSE, walk |-> x, dry |-> x]]
Tried == [
    flag |-> [PerSide |-> 1, CapturesToWin |-> 1, Respawn |-> 2, DroppedReturn |-> 2, EpisodeDecisions |-> 8, Far |-> 2],
    ladder |-> [MaxTier |-> 2, Window |-> 2, RaiseAbove |-> 2, LowerBelow |-> 1, Fighters |-> {1, 2}, Pairs |-> 2, MaxVisits |-> 3],
    creature |-> [MaxTier |-> 1, Window |-> 2, RaiseAbove |-> 2, LowerBelow |-> 1, EpisodeDecisions |-> 6, Grace |-> 2,
        UnreachableTeleport |-> 2],
    quest |-> [MaxTier |-> 1, Window |-> 1, RaiseAbove |-> 1, LowerBelow |-> 1, EpisodeDecisions |-> 8, Far |-> 2, Giver |-> 0,
        Objective |-> 1, Ender |-> 0, Needed |-> 2, Seen |-> 1],
    gather |-> [MaxTier |-> 1, Window |-> 1, RaiseAbove |-> 1, LowerBelow |-> 1, EpisodeDecisions |-> 7, Far |-> 2, Nodes |-> {1, 2}],
    town |-> [MaxTier |-> 1, Window |-> 1, RaiseAbove |-> 1, LowerBelow |-> 1, EpisodeDecisions |-> 7, Far |-> 1, Junk |-> 1,
        Upgrades |-> 1, Vendor |-> 0, Repairer |-> 1],
    pack |-> [SequencePulls |-> 2, WinPulls |-> 1, MaxPack |-> 2, Break |-> 1, Wait |-> 3, Grace |-> 2, EpisodeDecisions |-> 5,
        MaxTier |-> 1, Window |-> 2, RaiseAbove |-> 2, LowerBelow |-> 1],
    gauntlet |-> [SequencePulls |-> 2, WinPulls |-> 2, MaxPack |-> 2, Break |-> 1, Wait |-> 2, Grace |-> 2, EpisodeDecisions |-> 7,
        MaxTier |-> 1, Window |-> 2, RaiseAbove |-> 2, LowerBelow |-> 1],
    sequence |-> [SequencePulls |-> 2, WinPulls |-> 2, MaxPack |-> 2, Break |-> 1, Wait |-> 2, Grace |-> 2, EpisodeDecisions |-> 7,
        MaxTier |-> 1, Window |-> 2, RaiseAbove |-> 2, LowerBelow |-> 1],
    owned |-> [SequencePulls |-> 2, WinPulls |-> 1, MaxPack |-> 1, Break |-> 1, Wait |-> 2, Grace |-> 2, EpisodeDecisions |-> 7,
        MaxTier |-> 1, Window |-> 2, RaiseAbove |-> 2, LowerBelow |-> 1],
    ambush |-> [Ambushers |-> 2, PackSlots |-> 4, MinArrival |-> 1, MaxArrival |-> 2, Grace |-> 1, EpisodeDecisions |-> 5],
    ambushed |-> [Ambushers |-> 2, PackSlots |-> 4, MinArrival |-> 1, MaxArrival |-> 2, Grace |-> 1, EpisodeDecisions |-> 5],
    trip |-> [Far |-> 3, Ground |-> Hills, Nearest |-> 2, Furthest |-> 3, Share |-> 2, Refresh |-> 3, Stray |-> 1, Corner |-> 0,
        EpisodeDecisions |-> 6, Grace |-> 1],
    dives |-> [Far |-> 3, Ground |-> Lake, Nearest |-> 1, Furthest |-> 2, Share |-> 2, Refresh |-> 3, Stray |-> 1, Corner |-> 0,
        EpisodeDecisions |-> 5, Grace |-> 1],
    boss |-> [MaxTier |-> 1, Window |-> 1, RaiseAbove |-> 1, LowerBelow |-> 1, Seats |-> {0, 1}, First |-> 0, Full |-> 2,
        EpisodeDecisions |-> 5]]
=============================================================================
