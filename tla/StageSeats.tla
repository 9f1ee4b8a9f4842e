----------------------------- MODULE StageSeats -----------------------------
(***************************************************************************)
(* What a stage scenario keeps for a seat, whatever its encounters are:    *)
(* the character it rebuilds, the resurrections it answers, what it may    *)
(* press, its breath, its shields, the casts it watches, its pay and its   *)
(* hiding.  Each part is instantiated and runs by itself over env.         *)
(***************************************************************************)
EXTENDS Integers

CONSTANTS Parts, NoBot, NoSeat, Stranger,
          Setup \* the values of the parts, by their names

VARIABLES part, env

vars == <<part, env>>

MinLevel(pair) == Setup.rebuild.MinLevels[pair]
Rebuild == INSTANCE SeatRebuild WITH MaxSeats <- Setup.rebuild.MaxSeats, Pairs <- Setup.rebuild.Pairs, Tanks <- Setup.rebuild.Tanks,
    Healers <- Setup.rebuild.Healers, MinLevelOf <- MinLevel, MaxLevel <- Setup.rebuild.MaxLevel, Bands <- Setup.rebuild.Bands,
    ReuseEpisodes <- Setup.rebuild.ReuseEpisodes, SpawnAttempts <- Setup.rebuild.SpawnAttempts, Arenas <- Setup.rebuild.Arenas
Revive == INSTANCE Resurrections WITH Slots <- Setup.revive.Slots, Seats <- Setup.revive.Seats, Retry <- Setup.revive.Retry,
    MaxDeaths <- Setup.revive.MaxDeaths, EpisodeDecisions <- Setup.revive.EpisodeDecisions, Episodes <- Setup.revive.Episodes
Pace == INSTANCE SeatPacing WITH Moves <- Setup.pace.Moves, Spells <- Setup.pace.Spells, Modes <- Setup.pace.Modes,
    Stop <- Setup.pace.Stop, Orders <- Setup.pace.Orders, Repeat <- Setup.pace.Repeat, MoveRepeat <- Setup.pace.MoveRepeat,
    StopCastMin <- Setup.pace.StopCastMin, RecastAfterStop <- Setup.pace.RecastAfterStop, ModeLock <- Setup.pace.ModeLock,
    RepeatWindow <- Setup.pace.RepeatWindow, RepeatFree <- Setup.pace.RepeatFree, NoSpell <- Setup.pace.NoSpell,
    EpisodeDecisions <- Setup.pace.EpisodeDecisions, Episodes <- Setup.pace.Episodes
Water == INSTANCE SeatWater WITH Breath <- Setup.water.Breath, EpisodeDecisions <- Setup.water.EpisodeDecisions,
    Episodes <- Setup.water.Episodes
Shields == INSTANCE SeatSupport WITH Friends <- Setup.shields.Friends, Full <- Setup.shields.Full, Lasts <- Setup.shields.Lasts,
    Slack <- Setup.shields.Slack, Casters <- Setup.shields.Casters, NoCaster <- Setup.shields.NoCaster,
    MaxShields <- Setup.shields.MaxShields, MaxCasts <- 0, EpisodeDecisions <- Setup.shields.EpisodeDecisions
Casts == INSTANCE SeatSupport WITH Friends <- Setup.casts.Friends, Full <- Setup.casts.Full, Lasts <- Setup.casts.Lasts,
    Slack <- Setup.casts.Slack, Casters <- Setup.casts.Casters, NoCaster <- Setup.casts.NoCaster,
    MaxShields <- 0, MaxCasts <- Setup.casts.MaxCasts, EpisodeDecisions <- Setup.casts.EpisodeDecisions
Pay == INSTANCE SeatRewards WITH HazardMax <- Setup.pay.HazardMax, Standing <- Setup.pay.Standing,
    DamageShares <- Setup.pay.DamageShares, Match <- Setup.pay.Match, Goals <- Setup.pay.Goals, NoGoal <- Setup.pay.NoGoal,
    EpisodeDecisions <- Setup.pay.EpisodeDecisions, Episodes <- Setup.pay.Episodes
Hide == INSTANCE Hiding WITH BreakCooldown <- Setup.hide.BreakCooldown, Stalk <- Setup.hide.Stalk, StalkMax <- Setup.hide.StalkMax,
    EpisodeDecisions <- Setup.hide.EpisodeDecisions

\* What the theorems take their constants to be.
ASSUME ScenarioAssumption ==
    /\ Rebuild!RebuildConstants /\ Revive!ReviveConstants
    /\ Pace!PaceConstants /\ Setup.water.Breath \in Nat
    /\ Shields!SupportConstants /\ Casts!SupportConstants
    /\ Pay!RewardConstants /\ Hide!Rewards

SeatsInit == /\ part \in Parts
             /\ part = "rebuild" => Rebuild!Init
             /\ part = "revive" => Revive!Init
             /\ part = "pace" => Pace!Init
             /\ part = "water" => Water!Init
             /\ part = "shields" => Shields!Init
             /\ part = "casts" => Casts!Init
             /\ part = "pay" => Pay!Init
             /\ part = "hide" => Hide!Init
SeatsNext == /\ UNCHANGED part
             /\ \/ part = "rebuild" /\ Rebuild!Next
                \/ part = "revive" /\ Revive!Next
                \/ part = "pace" /\ Pace!Next
                \/ part = "water" /\ Water!Next
                \/ part = "shields" /\ Shields!Next
                \/ part = "casts" /\ Casts!Next
                \/ part = "pay" /\ Pay!Next
                \/ part = "hide" /\ Hide!Next
SeatsSpec == SeatsInit /\ [][SeatsNext]_vars

-----------------------------------------------------------------------------

\* StageScenario::Rebuild: at every step of a rebuild the instance has a bot in
\* it, and between two a seat in play has the one bot it says it has, whatever
\* failed in them.  StageScenario::AcceptResurrections: a seat is paid for no more
\* allies than it offered to raise.
SeatsRebuilt ==
    /\ part = "rebuild" => Rebuild!TypeOK /\ Rebuild!InstanceNeverEmpty /\ Rebuild!SeatsMatchBots
    /\ part = "revive" => Revive!RevivesWereOffered

\* SeatMemory and StageScenario::Press: what is held back or charged is what this
\* episode's presses say, however they interleave.  ApplySeatAction, TrackSupport
\* and TrackInterruptibleCast: what is read off the world once a decision is what
\* happened in it: breaths, shields soaked, casts begun.
PressesCounted ==
    /\ part = "pace" => Pace!PacedByHistory /\ Pace!ChargedAsPressed
    /\ part = "water" => Water!BreathIsSpent /\ Water!BreathsAreDives
    /\ part = "shields" => Shields!CreditWasLost
    /\ part = "casts" => Casts!CastsSeen

\* StageScenario::SeatReward: caps hold, a goal held is paid once, the terms add
\* up to the pay, and a healthy pet that is replaced did not die.  TrackHiding: a
\* break of contact and a stalk are earned, and paid up to their caps.
SeatPaidInFull ==
    /\ part = "pay" => Pay!SeatPaidInFull /\ Pay!HealthyPetsLive
    /\ part = "hide" => Hide!BreaksAreEarned /\ Hide!StalkingIsCapped
=============================================================================
