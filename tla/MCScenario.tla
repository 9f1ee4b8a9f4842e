----------------------------- MODULE MCScenario -----------------------------
(***************************************************************************)
(* What a stage scenario keeps for every env: what StageSeats has for a    *)
(* seat, the gear and talents of its character, what it does in the world, *)
(* its senses and its feet, its party, and the directors of its sides.     *)
(* Each is instantiated and runs by itself over env, so that one run of    *)
(* TLC covers all of them.                                                 *)
(***************************************************************************)
EXTENDS StageSeats

CONSTANT None

Director == INSTANCE DirectorEncounter WITH Mine <- {"m"}, Theirs <- {"t", "u"}, ThinkEvery <- 2, Focus <- 1, PlaceMatch <- 20,
    PlaceCooldown <- 1, MaxDeaths <- 1, EpisodeDecisions <- 5, None <- "none"
JumpLanding(place, heading) == IF place = 1 THEN "flat" ELSE IF heading % 2 = 0 THEN "drop" ELSE "none"
Steer == INSTANCE Steering WITH Bearings <- 2, PerBearing <- 2, WalkFor <- 3, TurnFor <- 2, Arc <- 2, Fall <- 1, Places <- {0, 1},
    RefreshYards <- 2, RefreshTurn <- 2, RefreshAfter <- 2, Landing <- JumpLanding, Decisions <- 4, NoBearing <- 99
Probe == INSTANCE GroundProbe WITH Yards <- 4, Ranges <- {2, 4}, MaxStep <- 1, Slope <- 2, Room <- 2
Side(first) == [u \in {"a", "b", "c", "d"} |-> IF u \in first THEN 0 ELSE 1]
Match == INSTANCE OpponentEncounter WITH Units <- <<"a", "b", "c", "d">>, SideOf <- Side({"a", "b"}), Scripted <- FALSE,
    MaxDeaths <- 1, EpisodeDecisions <- 3, None <- "none"
Player == INSTANCE OpponentEncounter WITH Units <- <<"a", "c">>, SideOf <- Side({"a"}), Scripted <- TRUE,
    MaxDeaths <- 1, EpisodeDecisions <- 4, None <- "none"
Motion == INSTANCE SeatSenses WITH Places <- {0, 1, 3}, Targets <- {}, Seen <- {FALSE}, Samples <- 2, Interval <- 2, Mark <- 2,
    EpisodeDecisions <- 5, None <- -9
Sight == INSTANCE SeatSenses WITH Places <- {0, 1}, Targets <- {1, 2}, Seen <- BOOLEAN, Samples <- 2, Interval <- 2, Mark <- 1,
    EpisodeDecisions <- 2, None <- -9
Fires == INSTANCE GroundHazards WITH Length <- 2, Radius <- 1, Burns <- 3, PlaceEvery <- 2, Search <- 2, EpisodeDecisions <- 6, Episodes <- 2

\* The gear of a character, of one that wields two weapons and one that cannot; and
\* the item levels of every level.
Piece(pool, req, level, sub, pvp, epic, prefs) ==
    [pool |-> pool, req |-> req, level |-> level, sub |-> sub, pvp |-> pvp, epic |-> epic, prefs |-> prefs, rolls |-> {},
     unique |-> FALSE, sockets |-> <<>>]
Catalog == <<[Piece("chest", 70, 115, 2, FALSE, FALSE, {1}) EXCEPT !.sockets = <<"meta", "red">>],
             Piece("chest", 68, 120, 1, TRUE, FALSE, {1}), Piece("chest", 70, 128, 2, FALSE, TRUE, {0}),
             [Piece("finger", 60, 110, 0, FALSE, FALSE, {1}) EXCEPT !.unique = TRUE],
             Piece("finger", 60, 90, 0, FALSE, FALSE, {0, 1}), Piece("finger", 72, 140, 0, TRUE, FALSE, {1, -1}),
             [Piece("one", 70, 112, 0, FALSE, FALSE, {0}) EXCEPT !.sockets = <<"red">>, !.rolls = {{1}, {-1, 1}}],
             Piece("two", 72, 150, 0, FALSE, FALSE, {1}), [Piece("shield", 1, 120, 0, TRUE, FALSE, {1}) EXCEPT !.sockets = <<"blue">>],
             Piece("relic", 70, 100, 0, FALSE, FALSE, {1})>>
Gem(color, level, epic) == [color |-> color, req |-> 60, level |-> level, epic |-> epic, needs |-> "red"]
Gems == <<Gem("red", 60, FALSE), Gem("red", 70, TRUE), Gem("meta", 70, FALSE)>>
Dual == INSTANCE GearBuilder WITH Layouts <- <<"DualWield", "TwoHand">>, CanDualWield <- TRUE, Armor <- 2, Levels <- {70, 72},
    Attempts <- 1, Characters <- 3
Shield == INSTANCE GearBuilder WITH Layouts <- <<"TwoHand", "OneHandShield">>, CanDualWield <- FALSE, Armor <- 2, Levels <- {70, 72},
    Attempts <- 1, Characters <- 3
Bands == INSTANCE GearBuilder WITH Catalog <- <<>>, Gems <- <<>>, Layouts <- <<"TwoHand">>, CanDualWield <- TRUE, Armor <- 1,
    Levels <- 1 .. 80, Attempts <- 1, Characters <- 1

\* A spec's tree and another, its glyphs, and a pet's tree.
Talent(tab, row, max, needs, ranks) == [tab |-> tab, row |-> row, max |-> max, needs |-> needs, ranks |-> ranks]
Rank(talent, ranks) == [index |-> talent, ranks |-> ranks]
Kind(type, level) == [type |-> type, level |-> level]
Spent == INSTANCE TalentBuilder WITH SpecTab <- 0, PerRow <- 2, SpecPoints <- 3, Points <- {1, 3, 5, 7, 9}, PetPerRow <- 2, PetPoints <- 3,
    Talents <- <<Talent(0, 0, 2, 0, 0), Talent(0, 0, 1, 0, 0), Talent(0, 1, 1, 1, 2), Talent(0, 2, 1, 3, 1), Talent(1, 0, 2, 0, 0), Talent(1, 1, 1, 5, 2)>>,
    Picks <- <<Rank(4, 1), Rank(2, 1), Rank(3, 1), Rank(1, 2), Rank(6, 1)>>,
    Slots <- <<Kind(0, 1), Kind(0, 5), Kind(1, 3)>>, Glyphs <- <<Kind(0, 3), Kind(0, 1), Kind(1, 5)>>,
    Pet <- <<Talent(0, 0, 2, 0, 0), Talent(0, 0, 1, 0, 0), Talent(0, 1, 1, 1, 2)>>, PetPicks <- <<Rank(3, 1), Rank(1, 1)>>

\* Bags that fill up with gear, of which two kinds are as good in the same slot; and
\* a town, a corpse and a node for a purse.
Thing(for, two, score, price, lot) == [for |-> for, two |-> two, score |-> score, price |-> price, lot |-> lot]
Things == <<Thing("main", FALSE, 2, 1, 1), Thing("main", TRUE, 5, 1, 1), Thing("off", FALSE, 4, 1, 1), Thing("main", FALSE, 5, 1, 1),
            Thing("finger", FALSE, 2, 1, 1), Thing("junk", FALSE, 0, 2, 1), Thing("food", FALSE, 0, 1, 2)>>
Bags(counts) == [i \in 1 .. 7 |-> IF i \in DOMAIN counts THEN counts[i] ELSE 0]
Corpse(left, copper, level) == [left |-> left, copper |-> copper, level |-> level]
Wear == INSTANCE WorldActions WITH Items <- Things, BagSize <- 4, StartMoney <- 1, MaxMoney <- 12, Wants <- 3, Lots <- 2, Food <- 7,
    Drink <- None, UsesMana <- FALSE, Corpses <- {Corpse(<<2>>, 0, 5), Corpse(<<5>>, 0, 5)}, Nodes <- {}, Rewards <- <<6, 4, 5>>,
    Skill <- 60, MaxWear <- 0, Start <- {Bags(<<1, 0, 1, 0, 1>>), Bags(<<1, 1, 1>>), Bags(<<0, 1, 0, 1>>)}, Decisions <- 5, Events <- 2
Trade == INSTANCE WorldActions WITH Items <- Things, BagSize <- 3, StartMoney <- 1, MaxMoney <- 12, Wants <- 3, Lots <- 2, Food <- 7,
    Drink <- None, UsesMana <- FALSE, Corpses <- {Corpse(<<6, 1>>, 3, 60), Corpse(<<>>, 2, 5)}, Nodes <- {[left |-> <<6>>, skill |-> 5]},
    Rewards <- <<>>, Skill <- 60, MaxWear <- 2, Start <- {Bags(<<0, 0, 0, 0, 0, 0, 2>>)}, Decisions <- 4, Events <- 3

\* Two seats and their owner, whom one enemy is after; and a raid of two groups, after
\* or before a seat that plays alone.
Company(kind, seats, owner) == [kind |-> kind, seats |-> seats, owner |-> owner]
Owner == 99
Party == INSTANCE PartyEncounter WITH Arenas <- {Company("party", 2, "script"), Company("party", 2, "cast")}, GroupSeats <- 2, Spotlights <- 3,
    Holders <- {0}, Mitigation <- [s \in 0 .. 1 |-> 1], Healths <- {0, 100}, Enemies <- {"x"}, MaxDeaths <- 2, Decisions <- 3, Episodes <- 1
Raid == INSTANCE PartyEncounter WITH Arenas <- {Company("raid", 4, "none"), Company("alone", 1, "cast"), Company("party", 2, "script")},
    GroupSeats <- 2, Spotlights <- 3, Holders <- {0, 3}, Mitigation <- [s \in 0 .. 3 |-> s + 1], Healths <- {0, 1, 40, 100}, Enemies <- {},
    MaxDeaths <- 1, Decisions <- 1, Episodes <- 2

Init == /\ SeatsInit
        /\ part = "director" => Director!Init
        /\ part = "steer" => Steer!Init
        /\ part = "probe" => Probe!Init
        /\ part = "match" => Match!Init
        /\ part = "player" => Player!Init
        /\ part = "motion" => Motion!Init
        /\ part = "sight" => Sight!Init
        /\ part = "fires" => Fires!Init
        /\ part = "dual" => Dual!Init
        /\ part = "shield" => Shield!Init
        /\ part = "bands" => Bands!Init
        /\ part = "talents" => Spent!Init
        /\ part = "wear" => Wear!Init
        /\ part = "trade" => Trade!Init
        /\ part = "party" => Party!Init
        /\ part = "raid" => Raid!Init
Next == \/ SeatsNext
        \/ /\ UNCHANGED part
           /\ \/ part = "director" /\ Director!Next
              \/ part = "steer" /\ Steer!Next
              \/ part = "probe" /\ Probe!Next
              \/ part = "match" /\ Match!Next
              \/ part = "player" /\ Player!Next
              \/ part = "motion" /\ Motion!Next
              \/ part = "sight" /\ Sight!Next
              \/ part = "fires" /\ Fires!Next
              \/ part = "dual" /\ Dual!Next
              \/ part = "shield" /\ Shield!Next
              \/ part = "bands" /\ Bands!Next
              \/ part = "talents" /\ Spent!Next
              \/ part = "wear" /\ Wear!Next
              \/ part = "trade" /\ Trade!Next
              \/ part = "party" /\ Party!Next
              \/ part = "raid" /\ Raid!Next
Spec == Init /\ [][Next]_vars

-----------------------------------------------------------------------------

\* DirectorEncounter::RewardPlace and Forget: arriving is paid on the crossing,
\* and a standing order can be followed as far as its side knows.
\* OpponentEncounter: a kill is a whole side's and ends the match.
SidesSettled ==
    /\ part = "director" => Director!ArrivalsAreCrossings /\ Director!OrdersCanBeFollowed /\ Director!FocusTakenOut
    /\ part = "match" => Match!KillEndsMatch
    /\ part = "player" => Player!KillEndsMatch

\* ObserveTrail, TrackMotion, TrackTarget and TrackHazards: what is sampled less
\* often than a seat decides is still its own, of this episode, and as old as it
\* says.  MoveBlock: a jump is aimed from where it is made, and the ground a seat
\* is told of is ground it can walk.
SensesAreItsOwn ==
    /\ part = "steer" => Steer!JumpsAreAimedHere
    /\ part = "probe" => Probe!ProbeIsHonest /\ Probe!ClearanceHasAWall
    /\ part = "motion" => Motion!TrailIsThePath /\ Motion!MotionIsWalked
    /\ part = "sight" => Sight!TrailIsThePath /\ Sight!MotionIsWalked /\ Sight!SightIsOfTheTarget
    /\ part = "fires" => Fires!FireIsOfThisEpisode /\ Fires!HazardIsFresh

\* GearBuilder and TalentBuilder: a window kept for later characters stays true for
\* them, what is worn is worn by who it is on, in hands that hold one layout, with
\* meta gems that see every socket; a build is learnt as it was worked out, to the
\* last point, the list's early picks first, and glyphs and pets are left nothing
\* they could have had.
CharactersFit ==
    /\ part = "dual" => Dual!WindowsStayTrue /\ Dual!WornFits /\ Dual!HandsHoldOneLayout /\ Dual!MetasSeeEverySocket
    /\ part = "shield" => Shield!WindowsStayTrue /\ Shield!WornFits /\ Shield!HandsHoldOneLayout /\ Shield!MetasSeeEverySocket
    /\ part = "bands" => Bands!BandsClimb
    /\ part = "talents" => Spent!BuildsAreLearnt /\ Spent!NothingFits /\ Spent!EarlyPicksKept /\ Spent!GlyphsFill /\ Spent!PetsAreTrained

\* WorldActions: money and items are what the presses booked.
BooksBalance == (part = "wear" => Wear!BooksBalance) /\ (part = "trade" => Trade!BooksBalance)

\* OwnerEncounter and PartyEncounter: a party's group is its own, everybody pays for
\* every death of the others, attacks are booked once, and a seat sees whom it plays
\* with.
PartyAccounted ==
    /\ part = "party" => Party!DeathsPaid /\ Party!ThreatBookedOnce /\ Party!GroupIsWhole /\ Party!ViewShowsEachOnce
    /\ part = "raid" => Raid!DeathsPaid /\ Raid!ThreatBookedOnce /\ Raid!GroupIsWhole /\ Raid!ViewShowsEachOnce

\* What a step may never do.  DirectorEncounter::Forget: a learned director learns of
\* a death but by sight.  SeatEncoder and MoveBlock: what is held walks straight on
\* until its feet end it, and a jump owns the feet.  WorldBlock: what was taken off
\* for something better is not put back on, and a press that was wasted did nothing.
NeverSteps ==
    [][/\ part = "director" => Director!DeathsAreSeen
       /\ part = "steer" => Steer!WalksStraight /\ Steer!OnlyFeetEndAWalk /\ Steer!JumpOwnsTheFeet
       /\ part = "wear" => Wear!UpgradesEnd /\ Wear!WastedDidNothing
       /\ part = "trade" => Trade!UpgradesEnd /\ Trade!WastedDidNothing]_vars

-----------------------------------------------------------------------------
(* The values the run takes.                                                *)

Arena(party, seats, owner, map, level, drill) ==
    [party |-> party, seats |-> seats, owner |-> owner, cast |-> owner, map |-> map, match |-> FALSE, level |-> level, drill |-> drill]
Tried ==
    [rebuild |-> [MaxSeats |-> 2, Pairs |-> {"knight", "priest"}, Tanks |-> {"knight"}, Healers |-> {"priest"},
                  MinLevels |-> [pair \in {"knight", "priest"} |-> IF pair = "knight" THEN 2 ELSE 1], MaxLevel |-> 2, Bands |-> 2,
                  ReuseEpisodes |-> 1, SpawnAttempts |-> 2,
                  Arenas |-> {Arena(FALSE, 1, TRUE, "home", 0, <<>>), Arena(TRUE, 2, FALSE, "rung", 2, [s \in {0} |-> "tank"])}],
     revive |-> [Slots |-> {"a", "b"}, Seats |-> {"a"}, Retry |-> 2, MaxDeaths |-> 2, EpisodeDecisions |-> 4, Episodes |-> 2],
     pace |-> [Moves |-> {"move"}, Spells |-> {"nuke"}, Modes |-> {"bear", "cat"}, Stop |-> "stop", Orders |-> {"order"}, Repeat |-> 2,
               MoveRepeat |-> 1, StopCastMin |-> 1, RecastAfterStop |-> 4, ModeLock |-> 3, RepeatWindow |-> 4, RepeatFree |-> 1,
               NoSpell |-> "none", EpisodeDecisions |-> 5, Episodes |-> 2],
     water |-> [Breath |-> 3, EpisodeDecisions |-> 8, Episodes |-> 2],
     shields |-> [Friends |-> {"owner"}, Full |-> 2, Lasts |-> 3, Slack |-> 1, Casters |-> {"a"}, NoCaster |-> "none", MaxShields |-> 3,
                  EpisodeDecisions |-> 6],
     casts |-> [Friends |-> {"owner"}, Full |-> 1, Lasts |-> 3, Slack |-> 1, Casters |-> {"a", "b"}, NoCaster |-> "none", MaxCasts |-> 3,
                EpisodeDecisions |-> 6],
     pay |-> [HazardMax |-> 5, Standing |-> 2, DamageShares |-> {1, 4}, Match |-> 1, Goals |-> {"fight", "recover"}, NoGoal |-> "none",
              EpisodeDecisions |-> 4, Episodes |-> 2],
     hide |-> [BreakCooldown |-> 3, Stalk |-> 2, StalkMax |-> 5, EpisodeDecisions |-> 7]]

-----------------------------------------------------------------------------
(* What comments say, and the code does not do.                             *)

\* PartyEncounter::View: the raiders a seat is shown outside its group are "the
\* raid's living tank, its most hurt member, and the nearest one".
MostHurtIsShown == part = "raid" => Raid!MostHurtIsShown
=============================================================================
