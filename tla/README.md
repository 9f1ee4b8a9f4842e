# Verification of mod-animus-forge

TLA+ models of the program in this repository, TLC configurations that check
them on small instances, and theorems that TLAPS checks for every value of the
constants. Paths are relative to the repository root.

## The system

A headless AzerothCore world server (C++, one world thread) simulates many
environments; a Python learner (one child process) trains one policy per class.
They trade observations for actions over a Unix socket, one decision at a time.

| Part | Code | State it keeps | Operations |
|---|---|---|---|
| Forge controller | `src/AnimusForge.cpp` | `_state`, `_plan`, `_lastPlan`, `_request`, pause and resume flags, tick counters, benchmark trials | `OnUpdate`, `ApplyRequest`, `HoldWhilePaused`, `StartCurrent`, `TeardownScenario`, `FinishCurrent`, `EndPlan`, `LocalDecision`, `RemoteDecision`, `BenchTick`, `BenchPlanEnded` |
| Console commands | `src/ForgeCommands.cpp`, `src/Hooks/ForgeCommandScript.cpp` | none of their own; they write the controller's flags | `start fast resume run pause cancel skip bench apply export clean status` |
| Learner process | `src/Learner/` | pid, exit status, log | `Start`, `Poll`, `Stop`, `IsRunning`, `FinishedCleanly` |
| Lock-step server | `src/Bridge/` | listening socket, one client | `Listen`, `AcceptClient`, `Send`, `Receive`, `DropClient` |
| Env pool | `src/Env/` | envs, seats, seeds, evaluation and replay mode, episode results | `Setup`, `Collect`, `ApplyActions`, `SetEvaluation`, `SetReplay`, `ResetEnv`, damage and kill hooks |
| Stage scenario | `src/Scenario/Curriculum/StageScenario.cpp`, `Layout/` | per env and seat: character, memory, trail, breath, shields, ledger of rewards | `Rebuild`, `ApplyActions`, `ViewSeat`, `Reward`, `IsTerminal` |
| Encounters | `src/Scenario/Curriculum/Encounters/` | per env: what the episode is about (a match, a fight, pulls, a trip, an errand, a party) and what has been paid of it | `Build`, `Update`, `Reward`, `IsTerminal`, `Teardown`, ... |
| Blocks, routing | `Blocks/`, `Routing/` | keys held, the ground probed, the way planned | `Observe`, `Apply` |
| Characters | `Character/` | gear pools and their windows, talent tables | `Equip`, `Enhance`, `Configure`, the presses of a vendor, a corpse, a quest |
| Stage table | `Stages/` | none: the stages, their arenas and what each extends | checked at startup; the learner seeds from it |
| Bots | `src/Bot/` | accounts, two sessions per bot | `Begin`, `CreateNext`, `Promote`, `Abort`, `Destroy` |
| Learner | `python/animus/` | networks, buffer, convergence signals, checkpoints | `train`, `run_evaluation`, `ConvergenceController`, `Cast`, `save`, `finish` |

They interact in four ways. The world hooks call the controller once per world
update. The controller calls the pool, the server and the child process. The
console runs on the world thread, too: between two updates, and, through a
callback, inside each of the three places where an update blocks (waiting for a
learner to connect, waiting for its actions, holding a pause). And the learner
is another process: it connects, saves, finishes and dies when it likes, and
the two share the run directories (`runs/`, `fast/`, `bench/`).

### What makes each part correct, and what is hard about it

* **Controller.** Entries of a plan are worked off in order, each gets one
  outcome, "Done" means trained to the end; whatever ends a stage, nothing of
  it (child, connection, flag, thread count) reaches the next one. Hard: the
  console changes flags in the middle of a tick that has already looked at
  them; a stage ends from six places; `StartCurrent` may pass over several
  entries or fail; a benchmark rewrites the plan that runs.
* **Console commands.** Each is refused or takes effect once, at the next tick.
  Hard: it is checked against the state of now and applied later.
* **Learner process.** One child at most, and its exit is seen exactly once.
  Hard: it dies between two polls, or while it is waited for.
* **Lock-step server.** STEP and ACT alternate; a lost peer is noticed. Hard:
  blocking reads on the only thread.
* **Env pool.** Every seeded evaluation episode is played once and credited to
  its own seed, in evaluation and in replay; damage goes to the seat that dealt
  it. Hard: envs finish at different times, the mode changes between two steps,
  and a learner may die in any mode.
* **Stage scenario.** What one episode leaves does not reach the next; what a
  seat is told and paid is what happened. Hard: a rebuild that fails half way;
  things sampled, probed and cached less often than a seat decides; counters
  over a decision, a spell, an episode, each cleared somewhere else.
* **Encounters.** An episode ends for one reason, is recorded once, and pays each
  thing that was done once. Hard: reward and end are asked seat by seat, after
  an update that has already moved on, and deaths, kills, the clock and the next
  pull fall into the same decision.
* **Characters.** They wear and know what their level and class may. Hard: lists
  found once and kept for later characters; bags that fill up half way.
* **Stage table.** Every stage can be seeded from what was trained before it.
  Hard: stages of a plan may be skipped or cut short.
* **Bots.** No two bots share an account. Hard: five ranges in sixteen bits.
* **Learner.** A stage ends only on converged signals or the budget; a resumed
  run continues where it stopped. Hard: decisions read results of earlier
  evaluations; the controller's state is only in part in the checkpoint.

The hazards, each at its line, are in `PROJECT.json`.

## Modules

| Module | What it is |
|---|---|
| `ForgeController` | controller, console commands, learner process and the server's view of the connection: the model and its properties |
| `ForgeControllerProofs` | types and the order of a plan; what a stage or a benchmark leaves behind, for every value of the constants |
| `MCForgeController` | its instances |
| `EnvPool` | envs and their episodes, seeds, evaluation and replay mode |
| `Evaluation` | the pool, the decision loop of the sim, a learner that trains and evaluates, their messages |
| `SeededEvaluation` | the abstract specification `Evaluation` implements |
| `EvaluationProofs` | turns on the connection, clean training, types, seeds, replays, and the steps of the refinement, for every value of the constants |
| `Stages` | the table of stages, their arenas, seats and classes; what the startup check drops |
| `Curriculum` | plans over that table, and what the learner seeds each stage from |
| `CurriculumProofs` | what a stage is seeded with, for every value of the constants |
| `DifficultyLadder`, `LadderFights` | the rungs a class fights at; envs that fight on it |
| `CombatTally` | what the damage of a fight pays, and the end of one-on-one fights |
| `CreatureEncounter`, `AmbushEncounter`, `InstanceEncounter` | a duel with a creature, an ambush beside any arena (with its lemmas), a boss and a raid |
| `PullsEncounter` | packs, gauntlets, planned sequences of pulls, an owner to protect; with its lemmas |
| `FlagEncounter` | the flag match |
| `LifeEncounter` with `QuestEncounter`, `GatherEncounter`, `TownEncounter` | errands |
| `TravelEncounter`, `RoutePlanner` | a place to reach, and the way planned to it |
| `MCEncounters` | one instance of each of these, or several |
| `EncounterProofs` | how an episode of each is settled, for every value of the constants |
| `SeatRebuild` | the characters of an env from one episode to the next, each in its bot's slot, and the account ids of the bots; with theorems |
| `Resurrections` | what a seat answers to an offered resurrection |
| `SeatPacing`, `SeatWater`, `SeatSupport`, `SeatRewards`, `SeatSenses` | presses held back and charged; breath; shields and casts; pay; trail, motion and sight |
| `Steering`, `GroundProbe`, `GroundHazards` | a seat's feet, the ground it is told of, the fires it is told of |
| `OpponentEncounter`, `Hiding`, `DirectorEncounter` | the sides of a match, hiding from the other one, and who commands them |
| `PartyEncounter` | a party or raid, its owner, its deaths, its group and what a seat sees of it |
| `GearBuilder`, `TalentBuilder`, `WorldActions` | gear; talents, glyphs and pets; loot, trade and quests |
| `StageSeats` | the instances of what is kept for a seat: `SeatRebuild` to `SeatRewards`, and `Hiding` |
| `StageSeatsProofs` | what these keep, for every value of their constants |
| `MCScenario` | `StageSeats`, and the instances of everything else from `SeatRebuild` on |

The modules stand in three layers. `ForgeController` says which stage runs, and
`Stages` and `Curriculum` what that stage is made of. `Evaluation` with `EnvPool`
says which env plays which episode, and when. The others say what happens in an
episode of one env. Nothing of an episode comes back to the upper layers but
that it ended, its length and its score, which `EnvPool` leaves open; and of the
layers above an episode knows only whether it is an evaluation's.

`ForgeController` and `Evaluation` look at the same decision loop from two
sides and meet at the connection. The controller has the console, the pause,
the plan and the child process, and nothing of what the messages say. In
`Evaluation` the messages matter, the learner's end is an action that may
happen at any moment, and the stage never ends.

### ForgeController

`pc` is the place of the world thread; the other variables are the members of
`Forge` (`src/AnimusForge.h:242-290`) by their names, the child as the system
sees it (`learner`), the connection the server holds (`client`), the one in the
listener's backlog (`pending`), and per output directory and scenario whose
`latest.pt` is there (`latest`: nobody's, an earlier run's, this stage's own).

| Code | Model |
|---|---|
| `OnUpdate` | `BeginTick`, then `Pause`, `IdleTick`, `WorldTick`, or a decision |
| `ApplyRequest` | `ApplyRequest`: `ApplyStart`, `ApplyCancel`, `ApplySkip` |
| `HoldWhilePaused` | `HoldResumes`, `HoldAppliesRequest`, `HoldPolls` |
| `StartCurrent` and its callers' reaction when it fails | `StartCurrent`: `PassOver`, `StartStage`, `FailToStart` |
| `TeardownScenario` | `Torn` |
| `FinishCurrent`, `EndPlan` | `FinishCurrent`, `EndPlan` |
| `LocalDecision` | `LocalDecisionEnds`, `LocalDecisionSteps` |
| `RemoteDecision` | `WaitForLearner`, `AcceptConnection`, `Hello...`, `AcceptIdle`, `AcceptPumped`, `SendStep`, `Receive...` |
| `BenchTick`, `BenchPlanEnded`, `BenchEnd` | `BenchTick`, `BenchSkipLater`, `BenchTrialDone`, `BenchPlanEnded`, `BenchEnd` |
| `Command...` | the actions of the same names; `CommandResume` is four of them, one for each of its branches |
| `train.py` as the sim sees it | `LearnerConnects`, `LearnerSaves`, `LearnerFinishes`, `LearnerDies` |
| a learner started by hand | `HandConnects`, `HandLeaves` |
| `OnShutdown`, `OnStartup` | `RestartServer` |

A handler that ends a stage and starts the next one is one action. What it has
changed so far travels through the operators in a record (`Midway`), because
`TeardownScenario` and `EndPlan` are called in its middle and read it. A tick
is cut exactly where the console runs.

`unpause` and `cancelRunning` in `Commands` stand for an operator who types
`resume` only while paused and `cancel` only while a plan runs. They keep the
passing runs out of the disagreements listed below, which have runs of their
own.

## Runs

| Run | Instance | Shows |
|---|---|---|
| `Queue` | two scenarios, one unplayable, plans of up to two, all commands that control a plan, restarts | order and outcomes of a plan, nothing of a stage left for the next, types |
| `Mixed` | one scenario, training, local, fast and resumed plans, learners by hand, two ticks per decision, cancel | an idle sim is clean, whatever kind of plan ran before |
| `Bench` | 2 x 2 settings, two of them again with the learner, memory running out at any trial, pause, resume, cancel | trials and plan entries stay aligned, threads come back |
| `Live` | plans of two, fairness of `HelloSpec` | console, cancel, pause and a finished stage make progress |
| `BenchLeak` | bench, start, cancel | **violated:** cancelling a benchmark before its first tick leaves `_benching` set |
| `BenchResume` | bench, cancel, resume | **violated:** resuming after a cancelled learner trial trains the real run |

The bounds: plans have at most two entries, which is enough for every pair of
"the stage that ends" and "the stage that starts", and the passing over of an
unplayable one; the proofs have no such bound. A second scenario is needed only
for `Unplayable`. The tick counter stops at the longest window anyone compares
it with (`MaxTicks`). The benchmark grid has two thread counts and two env
counts, so that a trial dropped for memory has one behind it that stays. One
connection waits in the backlog (`listen(…, 1)`).

Fairness: the world loop calls `OnUpdate` for ever and every wait inside it
polls with a timeout, so the world thread takes the steps it can take
(`WF_vars(WorldThread)`). `HelloSpec` adds that a peer that connected says
HELLO, which `train.py` does before anything else. Nothing is assumed of the
console, of when learners finish or die, or that a learner answers a STEP.

### Disagreements the runs show, and some they do not

The two violated runs are findings in `PROJECT.json`, with the lines they
contradict. Others were found the same way and have no run:

* `forge resume` after a stage whose learner finished starts that learner again.
* A peer that connects and never says HELLO blocks the world thread, and with it
  the console (`src/Bridge/LockstepServer.cpp:109`): liveness is checked under
  `HelloSpec`, because under `FairSpec` it fails.
* `forge skip` during a benchmark advances the plan and not `_benchTrial`
  (`src/AnimusForge.cpp:271`): add `skip` to the commands of `Bench`, and
  `BenchAligned` fails. With trials dropped in between, the index at
  `src/AnimusForge.cpp:761` is wrong, too: set `LearnerTop = 4` in `Bench`.
* A skip typed while the world thread waits for a learner that has just
  finished is applied to the next stage.
* A refused `forge fast <budget> ...` changes the budget with which the last
  fast plan is resumed.
* A learner that dies before it archived an earlier run is restarted on top of
  that run.

A cancelled benchmark (`BenchLeak`) has consequences beyond its finding: a plan
of local scenarios with an episode limit may end in the decision after which
`BenchTick` looks at the trial, and `FinishCurrent` then runs on a plan that
has ended. That is why the theorems on what a stage leaves behind assume
`NoEarlyCancel`.

## Proofs

`ForgeControllerProofs` proves `Spec => []TypeOK`. `TypeOK` is not inductive:
`StartCurrent` reads the first entry of a plan that was only requested, and
`BenchTick` the current entry of a plan that may have ended. `TypeInv` adds that
a requested plan has entries, that a plan with entries has its index among
them, that a plan in work or a decision in progress has entries, and that a
benchmark knows its scenario. The lemmas follow the handlers' calls: `Sound`
contexts go into `Torn`, `EndPlan`, `StartStage`, `StartCurrent` and
`FinishCurrent`, and a state of the right types (`Handled`) comes out; then
there is one case per action.

`PlansRunInOrder` is `Spec => []PlanInOrder`, benchmarks included. `PlanInOrder`
speaks of running plans; `OrderInv` adds that a requested plan has no outcome
yet, and that the plan that ended, which `forge resume` may start again, has none
behind its index; the proof follows
the entries through what rewrites them: an outcome given, entries passed over,
later trials erased.

The rest of `ForgeControllerProofs` proves, benchmarks included, what a stage, a plan or a
benchmark leaves behind: `IdleHoldsNothing`, `LearnerServesStage`,
`FlagsBelongToStage`, `OnlyTrialsBench`, `MapThreadsRestored`, and the action
properties `DoneIsEarned` and `OutcomesStick`. The assumption `NoEarlyCancel`
says that the commands do not hold both `bench` and a `cancel` that may come
before a benchmark's first tick. It is needed: `BenchLeak` is the counterexample
without it. `ForgeController`'s `cancelRunning` is not restricted, so what is
proved covers the instance of `Bench`, every cancel of a running benchmark with it.

The inductive invariant is `StageInv`. It adds where the world thread may be in
which state, that the state is the one the plan's policy asks for, that a start
is only requested while nothing runs, that the entries of a plan have settings
of their own exactly when a benchmark runs them (`BenchInv`), and that a learner
that finished cleanly did so outside a benchmark, with its checkpoint saved
(`FinishedIsSaved`). Two facts carry the argument: `TeardownScenario` makes a
context quiet (`TornIsSound`), and whatever starts or ends a stage from a quiet
context re-establishes the properties (`EndPlanChanges`, `StartStageChanges`).
The action properties follow from the invariant, one step at a time.

`ForgeAssumption` is the only other assumption on the constants; TLC evaluates
it in every run. Model-checked only: `BenchAligned`, which does not hold for
every value of the constants (the list above, `LearnerTop`), and all liveness
(fairness and `ENABLED` are out of the prover's reach).

## What ForgeController does not model

* What messages carry, and the envs (in `Evaluation`); scenarios and bots; the
  learner's updates. See the plan.
* `forge clean`, `export`, `apply`, `status`: files and text.
* Times and rates: a wait may end at any moment, any measured trials may be the
  fastest. Torch thread counts only multiply learner trials.
* `ChildProcess::Stop` returns after SIGKILL and a grace period even if the
  child is still there; the model's `Torn` waits until it is gone.
* A world server that is killed: its learner would outlive it, notice the lost
  socket and exit. `RestartServer` is the orderly shutdown.
* The poll inside `ReportStageEnd` is part of the wait that follows it.

## The env pool and seeded evaluation

`EnvPool` is the pool and what a reset makes of an episode; `Evaluation` puts
the decision loop of the sim and a learner around it; `SeededEvaluation` is what
`run_evaluation` promises its caller. The runs check `Evaluation` itself.

| Code | Model |
|---|---|
| `EnvPool::SetEvaluation`, `SetReplay` | the records `mode` (`Evaluation(...)`) and `replay` |
| `EnvPool::ResetEnv`, for several envs in env order | `SeedFor`, `SeedsLeft`, `BuildsFor`, `ResetEnvs` |
| `StageScenario::Reset`, `Rebuild`, `DrawCasting` | `EpisodesFor`, `CharactersFor`, `MayReuse`, `CastingsFor` |
| `EnvPool::Collect`, `ResetAll`, `ApplyActions` | actions' parts of the same names |
| `Forge::RemoteDecision` | `AcceptClient`, `Decide`, `ReceiveAct`, `ReceiveMode`, `ReceiveReplay`, `ReceiveClose`, ... |
| `ForgeEnv` | `Connect`, `Send`, `TakeStep` |
| `run_evaluation` | `Enter`, `EvaluateOn`, `ScoreStep`, `Leave`, `ReceiveLeft` |
| `train.py`: `rollout`, `baseline_for`, `evaluate`, `evaluate_sampled`, `send_replay`, `finish` | `TrainOn`, `Evaluate`, `EvaluateNext`, `SendReplay`, `Finish` |

A handler is one action: `ReceiveMode` sets the mode, resets all envs and sends
the STEP, as the code does before it reads on. What several envs do in one
`Collect` is one action, too, since the code goes through them in a loop without
a break; `Before` counts the envs ahead of one in that loop. A message is sent
and read whole. What the learner sent stays readable after its death; what was
sent to it is lost.

An episode is a record: its casting and whose seed built the character, its seed
index, how many decisions it has lasted, who chose its actions. It may end after
any decision and must end when its clock runs out. Some fields exist only for
the properties: `players`, `from`, and the session in `replay.by`. A STEP
carries the envs as they were when it was sent, an ACT the STEP it answers.

### Runs

| Run | Instance | Shows |
|---|---|---|
| `Evaluation` | two envs, three seeds, two castings, baseline, argmax and sampled evaluations, learners that die anywhere and are followed by others | every property below, and that the abstract promise is kept |
| `FailedBuild` | `BuildsFail` | **violated:** a build that fails in an evaluation is scored with the wrong character |

* `SeedsScored`: in an evaluation, every seed handed out is in exactly one
  place: played, reported by a STEP on its way, or scored; and what is scored is a whole episode of this evaluation, filed
  under the casting that played it, with as many decisions as it had.
* `SeedPlaysItsPair`: seed `i` is scored for pair `i % count`.
* `TrainsOnItsOwn`: a training learner holds episodes without seeds that only it
  has played.
* `ReplaysAreThisLearners`: replay seeds are the accepted learner's own.
* `ActAnswersTheStep`: actions are applied to the envs they were chosen for.
* `Promise`: the system implements `SeededEvaluation`, whose fairness says that
  an evaluation under way ends, with all its seeds, unless its learner dies.

The bounds. With three seeds on two envs a seed is left when the first env ends,
both envs may end at once with one seed left, and an env must play an unseeded
episode while the last seed is played. Episodes last one or two decisions, the
learner reckons with one (`PerEpisode`): `run_evaluation` rounds the length down,
and the allowance in `max_decisions` is only just enough then, so a smaller one
loses seeds (the mutant of `Promise`). Two castings tell right from wrong; only seed 0 is
ever lost (`MaxLost`), which tells replay from draw; sessions are counted modulo two, because only
the accepted learner and the one before matter. `Opponents` contains a policy
nobody knows, so that `ReceiveUnknownPolicy` happens. `ReuseEpisodes` and
`BuildsFail` are off in the passing run. The second leads to the finding; the first
to a disagreement without a run: with `ReuseEpisodes = 1` a replayed seed may keep
an earlier character.

Fairness is `WF(Sim)` and `WF(Learner)`: the world thread is scheduled and polls
with a timeout, a living learner is a loop without waits other than for a STEP.
`Connect`, `Die` and `Finish` may happen or not.

Left out: layout weights (training draws any casting), the number of seats (one
a side), what is played in an episode, hidden baselines and traces. A reset
connection is treated like a CLOSE. Console, pause and the end of a stage are
`ForgeController`'s; an end of the stage is a `Die` or `Finish` here.

### Proofs

`EvaluationProofs` proves `ActAnswersTheStep` and `TrainsOnItsOwn` from an
inductive invariant (`ConnectionInvariant: Spec => []IInv`) for any number of
envs, seeds, castings and policies, with reuse and failing builds allowed. The
first half of `IInv` says whose turn it is: for each place of the learner, what
the sim waits for and what may lie unread between them, also after a death,
when a dead learner's unread messages remain and its successor is still in the
backlog. The second half says when the pool is known to train
(before a learner's first STEP, through its rollouts, and from the STEP that
answers its switch back), and that it then has no seeded episode and none that
a scripted policy played. `ActAnswersTheStep` alone is not inductive: it says
nothing of an ACT before it reaches the head of the inbox, or of the STEP that
will be answered.

The lemmas first settle queues and resets (`EverythingResets`,
`TrainingGoesOn`), then take the actions of the sim and of the learner one by
one.

The second half of the module goes on from there: types, seeds, replays and the
abstract specification. None of these is inductive either; four invariants come on top of
`IInv`, and are proved together (`DataInvariant`):

* `PoolInv`: every episode, running or reported, is of the right type; one with a
  seed is an evaluation's and built from that seed, unless its build failed; the
  mode and the replay seeds are such as a learner sets.
* `MessageInv`: what lies in the inbox is well-formed; a living learner's
  messages are its own, and the mode it asks for is its task's.
* `LearnerInv`: outside `run_evaluation`'s loop nothing is counted.
* `ScoreInv`: in the loop, the counters and the STEP held show what the envs
  play, or are one decision behind while a STEP is on its way.

With them, `TypesHold`, `ReplaysAreOwn` and `SeedsPlayTheirPairs` follow. The last
one says that a scored seed was played as its pair or is one whose build failed;
`SeedPlaysItsPair` itself is proved for `~BuildsFail` (`PairsWhenBuildsHold`), and
the run `FailedBuild` shows that it fails otherwise.

`SeedInv` says where each seed handed out is, with no two envs, and no env and
STEP, holding the same one; `SeedInvariant` proves it, and `EverySeedOnce` is
`Spec => []SeedsScored`. That the envs of one `Collect` take consecutive seeds,
each a different one, is a fact about counting the envs before one (`InOrder`,
`HandsOut`), with the library's theorems about cardinalities and intervals.

`PlayersInv` says who plays the episodes of an evaluation. From it and `ScoreInv`,
`StepsKeepThePromise` proves the safety part of the refinement: with the mapping
of `Promised`, the initial states are `SeededEvaluation`'s, `Connect`, `Evaluate`,
`ScoreStep`, `Leave` and `Leaves` are its `Connect`, `Ask`, `Score`, `Answer` and
`Die`, and nothing else is visible to the caller, for every value of the
constants. One step remains: `GivesUp`, a return with seeds missing after
`MaxDecisions`. Whether that many decisions suffice depends on `PerEpisode`, and
whether an answer comes at all on fairness; both stay with TLC, as the property
`Promise` of the run `Evaluation`.

The assumptions are `PoolAssumption`, `EvaluationAssumption` and
`LiteralsAreStrings`, which is true of any string literals but has to be stated
for the provers; TLC evaluates all three.

## The stage table and the curriculum

`Stages` is the table: every stage with what it extends and merges, its blocks,
its arenas and their flags, the rules of `StageDefinition` a definition has to
pass. `Curriculum` plays plans over what passes, its constant `Table`. A trained
network is modelled by its lineage: which stages' training its trunk, and each
block of each class, carries.

| Code | Model |
|---|---|
| `Stages.cpp`, one function per stage | `Definitions` |
| `StageDefinition`'s checks, `CurriculumStages`, `FindStage` | operators of the same names; the table, built once, is a constant of `Curriculum` and `CurriculumStages` its value |
| `CommandRun`, `CommandStart` with the stages an operator names | `StartPlan` |
| a stage none of the run's classes plays | `Skip` |
| a stage that is trained: `seed_chain`, `seed_candidate`, `seed_trainer`, `seed_merges`, the checkpoints it leaves | `Play` |
| a stage cancelled or killed before its first `best.pt` | `CutShort` |

| Run | Instance | Shows |
|---|---|---|
| `Curriculum` | the whole table; a class that can stealth, one that cannot, or both; the whole queue or single stages; one stage cut short, two plans | what a stage starts from |

* `PlansSound`: whatever plans are started, nothing in one is seeded from what it
  plays later; and `TableSound`: no definition of the table breaks a rule of its
  own and is left out; the default queue plays a stage after whatever seeds it; the chain of a
  stage goes on with the chains of its stages; there is one drill of stealth in
  it at most, so that what is skipped for a class without stealth is never the
  whole chain; and of the blocks a stage shares with one below, none is lost by
  taking them from the nearest stage of the chain and the stages it merges.
* `SeedsSound`: `TrunkCarriesChain` (the trunk of a stage carries every stage of
  its chain that left a checkpoint for its layouts; for a first plan, since a
  stage trained again below one that seeded from it is newer than it) and
  `NothingTrainedTwice` (with nothing cut short, no class trains a block from
  fresh weights that a stage below has trained).

Two classes tell a stage nobody plays from one played with some layouts; one
stage cut short lies anywhere in the chain. The run of plans stops at its bound,
hence `CHECK_DEADLOCK FALSE`.

### Proofs

`CurriculumProofs` proves `TypeOK` (`Types`), `PlansSound` (`PlansAreSound`) and
`SeedsSound` (`SeedsAreSound`) for any table that is sound, any classes, with or
without stealth, any stages of it an operator may name, and any number of plans
and of stages cut short. What makes a table sound has no variable: the run
evaluates `TableSound` of the table of this program, and the theorems assume it.
They say what follows from it whatever is played, and what of the table it takes.

`SeedsSound` is not inductive. `IInv` adds four things:

* `Typed`: a checkpoint holds the layouts and blocks of its own stage, and a
  weight carries (`Lineage`) that stage and otherwise only stages placed before it.
  So a weight trained by its own stage alone was seeded from nothing.
* `FirstPlan`: while the first plan is played, it is the rest of the queue, and only
  stages before that have a checkpoint. So nothing below a trained stage is
  trained after it.
* `TrunksCarry`: in the first plan, the trunk of a trained stage carries every stage
  of its chain that could have seeded it. `TrunkIsCarried` shows that seeding
  keeps it: the chain of the nearest one with a checkpoint holds what lies
  beyond it, and it covers what they cover (`CoversOn`), for there is one drill of
  stealth in a chain at most.
* `Ready`: with nothing cut short, a stage that every run trains is trained or still
  to come. With `HandedOn` of the table, `BlocksAreHandedOn` then finds each block a
  stage shares with one below in the stage it is seeded from or in one it merges.

The nearest stage of a chain is a least number, which exists by `Smallest`: the
well-founded induction theorems cannot be used with a property as parameter, but
that every set of numbers has a least one follows from the order of finite sets
by inclusion, and a least counterexample is all that is needed.

## Encounters

An encounter is one kind of thing an episode is about. Every model of one has
the same form: a state `env` with the members of the env's state in
`StageState.h` by their names, and, where something is paid, `paid`, an account
of what was paid for what. One action is one decision, in the code's order: what
the world did since the last decision, `Reward` of every seat, `IsTerminal`, and,
if the episode goes on, the encounter's `Update`. An episode that is over is a state
of its own, so that its account can be read; the next action is the reset.

| Module | Code in `src/Scenario/Curriculum/` | The world's choice |
|---|---|---|
| `DifficultyLadder`, `LadderFights` | `DifficultyLadder.cpp`; envs that draw, record, abandon | in what order fights end, and how |
| `CombatTally` | `CombatReward::OneOnOne`, `CombatTally` | |
| `CreatureEncounter` | `CreatureEncounter.cpp` | damage, deaths, evading, a creature out of reach, resurrections |
| `AmbushEncounter` | `AmbushEncounter.cpp`, alone or beside pulls that share its enemy slots | when they come, who dies |
| `InstanceEncounter` | `InstanceEncounter.cpp` | the boss's health, its evading, deaths |
| `PullsEncounter` | `PullsEncounter.cpp`, `OwnerEncounter` as far as it holds up a pull | deaths, despawns, recovery |
| `FlagEncounter` | `FlagEncounter.cpp`, by its own rules and by a scripted battleground's | walking, deaths |
| `LifeEncounter` and the quest, field and town | `LifeEncounter.cpp`, `QuestEncounter.cpp`, `GatherEncounter.cpp`, `TownEncounter.cpp` | walking, kills, presses |
| `TravelEncounter`, `RoutePlanner` | `TravelEncounter.cpp`, `Routing/RoutePlanner.cpp` | walking, deaths, whether a way is found |
| `OpponentEncounter`, `Hiding` | `OpponentEncounter.cpp` | deaths, targets, interrupts; who sees whom, how near |
| `DirectorEncounter` | `DirectorEncounter.cpp` | what is seen, deaths |
| `PartyEncounter` | `PartyEncounter.cpp`, `OwnerEncounter.cpp` | attacks, deaths, health |
| `GroundHazards` | `HazardEncounter.cpp`, `TrackHazards` | walking |

The last four are instantiated in `MCScenario`, the others in `MCEncounters`.

| Run | Instance | Shows |
|---|---|---|
| `Encounters` | fifteen arenas: flags, a ladder, a duel, a quest, a field, a town, four schedules of pulls, two ambushes, two trips, a boss | that an episode is settled when it ends |

* `FlagsAndSlotsKept`: every pickup is a capture, a carrier stopped, or a flag being
  carried by a living enemy; one side wins; an event of a side is paid once to
  each seat of it, though one seat counts it and another's turn clears it. And an
  ambusher that came keeps its enemy slot beside any pull.
* `LadderSound`: a rung moves on a window of fights drawn at that rung, in
  whatever order envs end theirs; an evaluation's seeds take every pair through
  every rung.
* `FightsSettled`, `PullsSettled`: a finished fight is recorded once and with the
  outcome the world saw; every kill and every death is paid once, whichever pull
  or decision it falls in. A boss seen dead pays every seat, down or not, unlike what
  its comment says (see the disagreements below).
* `ErrandsSettled`: what was done is paid once, however often a seat undoes and
  redoes it; what was not done is not paid; the outcome agrees with the game.
* `TripsSettled`: an arrival is paid once, or once a leg; the shaping paid adds up
  to the ground gained, however often the way is planned anew.
* `NeverSteps`: a flag that changes hands pays nothing; a pull beside an owner
  finds the whole party standing.

The bounds. Time is counted in decisions, and an episode lasts five to eight,
enough for everything it may hold to happen and for its clock to run out on any
of it. The ground is a line of two to four places, which tells "there", "near"
and "away" apart and lets a way lead away from its end first. There are two rungs
of a ladder (three in `ladder`, so that one has both neighbours) and windows of
one or two fights. There are two pulls, packs of up to two, two ambushers: a second of each,
so that what belongs to one can be mistaken for what belongs to the other.

There is no fairness and no liveness here: episodes end by their clock, which
`Settled` properties read at the end, and the arenas run on from episode to
episode, so that TLC's deadlock check says that no episode gets stuck.

### Proofs

`EncounterProofs` proves `LadderSound`, `FightsSettled`, `ErrandsSettled` and
`PullsSettled`, for every value the constants of the arenas may have, and that
beside an owner no pull comes while one of the party is dead (`PullFindsAll`, a part of
`NeverSteps`). `SetupAssumption` says what the constants are taken to be; the run
evaluates it of its own values.

What is settled is said of an episode that is over, and is not inductive. So the
invariant of an arena has two halves. Closed (`DuelClosed`, `QuestClosed`, ...), it is
what the property says. Open (`DuelOpen`, ...), between two decisions, it says what
was paid so far of what happened so far: deaths but no kill, goods but no goal. Inside
a decision, deaths and kills have happened that are not paid yet: the world's
half of an action takes the open state to a `Moved` one, and the reward takes it
from there to open or closed. `LadderInv` says of a row that the window it
stands for holds as many fights and wins as it counts, every one of them fought at
the row's own rung. `SeedsCoverRungs` is about the arithmetic of seeds and holds by
itself. `IInv` is the conjunction, each for its arena; an arena never changes.

`PullsEncounter` and `AmbushEncounter` are instantiated four times and twice, by
schedule, owner and company. Their lemmas are stated once, in the modules
themselves, for any value of these, and cited of each instance.

Only model-checked: the flag match, whose events are folded over the seats;
`AmbushersKeepSlots`, which selects from a sequence of slots; `TripsSettled`, whose
route is found by a recursion; that a flag that changes hands pays nothing; and
that no episode gets stuck.

## What a stage keeps for every env

Each of these models one matter of `StageScenario.cpp` or of the parts it calls,
over one env, a seat or two and as many decisions as it takes.

| Module | Code | Steps |
|---|---|---|
| `SeatRebuild` | `StageScenario::Rebuild`, `DrawCasting`, `MayReuse`, the owner; `Bot/BotSlot.cpp` | `Draw`, one `BuildNext` or `SeatFails` a seat, `PromoteSeat`, `Encounters` |
| `Resurrections` | `AcceptResurrections` | the world, a decision, a new episode |
| `SeatPacing` | `Layout/SeatMemory.cpp`, `StageScenario::Press` | `Observe` what is allowed, `Press` it or wait |
| `SeatWater` | `ApplySeatAction` on breath | dive, surface, die, stand up |
| `SeatSupport` | `TrackSupport`, `TrackInterruptibleCast` | the world between two decisions, `Track` |
| `SeatRewards` | `SeatReward`, `ApplyGoals`, `RewardLedger` | goals, the world, the reward |
| `SeatSenses` | `ObserveTrail`, `TrackMotion`, `TrackTarget` | one decision |
| `Steering`, `GroundProbe` | `Blocks/MoveBlock.cpp` | `Observe`, `Apply` a key, the world moves the feet |
| `GearBuilder` | `Character/GearBuilder.cpp`, `GearEnhancements.cpp` | a slot at a time, then its enchants and gems |
| `TalentBuilder` | `TalentBuilder.cpp`, `PetTalents.cpp`, `SeatCharacter.cpp` | a point at a time, learn it, glyphs, the pet |
| `WorldActions` | `Blocks/WorldBlock.cpp`, `Character/WorldActions.cpp` | a press, or something in the world that ends, dies, grows or goes |

with `OpponentEncounter`, `Hiding`, `DirectorEncounter`, `PartyEncounter` and
`GroundHazards` from the table above. `StageSeats` puts the first six and
`Hiding` together as eight parts (support twice, for shields and for casts), each over
the one `env`; `MCScenario` extends it with the rest. A part never changes in a
behaviour, so that a behaviour of `MCScenario` in one of the eight is one of
`SeatsSpec`, which is what the theorems are about.

| Run | Instance | Shows |
|---|---|---|
| `Scenario` | twenty-four parts, some modules with two or three sets of values | the properties below |
| `MostHurt` | the raid | **violated:** a raider is shown somebody who is not the most hurt of the others |

* `SeatsRebuilt`: in every step of a rebuild a bot stands in the instance, and
  between two every seat in play has the one bot it says it has, whatever
  failed; a seat is credited with no more allies than it offered to raise.
* `PressesCounted`: what is held back or charged is what this episode's presses
  say; breaths are the dives it came up from; shields soaked and casts missed
  are those that were.
* `SeatPaidInFull`: caps hold over every split of an episode's damage, a goal held
  is paid once, the ledger's terms are what was paid, a healthy pet replaced did
  not die; breaks of contact and stalks are earned and capped.
* `SidesSettled`: a kill is paid to a whole side and ends the match; arriving is
  paid on the crossing; an order can be followed as far as its side knows.
* `SensesAreItsOwn`: trails, speeds and last seen places are the seat's own, of this
  episode, and as old as they say; a jump is aimed from where it is made; a fire
  told of burns, and is of this episode.
* `CharactersFit`: a window of gear kept for later characters answers as if it
  were built anew; what is worn may be worn; a build is learnt as worked out, to the last point.
* `BooksBalance`: money and bags hold what the presses booked.
* `PartyAccounted`: a party's group is its own; everybody pays once for each of
  the others' deaths; an attack is booked once; a seat sees whom it plays with.
* `NeverSteps`: a director learns of a death by sight only; a walk goes straight
  on until its feet end it, and a jump owns the feet; what was taken off for
  something better is not put back on, and a wasted press did nothing.

The bounds. Most parts play two episodes, because what goes wrong at a reset
shows in the second. Intervals (a window of presses, a sample, a search) are two
or three decisions, so that something falls inside one, on its edge and behind
it. Catalogs are as small as their rules allow and have, for each rule, an item
that passes and one that fails it; the windows of gear are checked over all
levels from 1 to 80 (`bands`). A bag has three or four places, so that it fills
up. Two seats and an owner are a party; four seats in two groups are a raid,
and the seat that plays alone before or after it shows what a reset leaves.
Parts end at their bounds, hence `CHECK_DEADLOCK FALSE`.

### Disagreements

`MostHurt` is a finding in `PROJECT.json`. Others, some of them of the encounters
above, have no run:

* `BuySupplies` buys "up to" a count (`src/Scenario/Curriculum/Character/WorldActions.h:118`)
  and overshoots it when a vendor sells in lots.
* `CurriculumTuning.h:190` says a wipe or an evade pays for the share of the boss's
  health that is gone. A boss is seen to have evaded by being back at full
  health (`InstanceEncounter.cpp:474`), so that an evade pays next to nothing.
* The reward of a boss pays "Kill and HealthKept to every seat alive when it dies"
  (`src/Scenario/Curriculum/Encounters/InstanceEncounter.cpp:535-537`).
  `CombatReward::OneOnOne`, which it calls, asks
  whether the seat was paid before and whether the opponent is dead, never
  whether the seat is alive
  (`src/Scenario/Curriculum/Rewards/CombatRewardScenario.cpp:102-111`): a seat that lies
  dead is paid both. `InstanceSettled` states what the code does; "a kill is paid to
  those who stand" fails in two decisions: the raid is found wiped, and the boss
  dies of what was left on it before the next reward. To the ladder that fight is
  lost, and its progress is paid beside the kill.
* "Nothing clears m_resurrectGUID, so one landed Rebirth makes every later death
  of that ally an instant free resurrect that pays RewardTerm::Revive again"
  (`src/Scenario/Curriculum/Stages/Stages.cpp:815-819`, and
  `python/configs/stage19_triage.yaml:5-8`), "Fix that before trusting a triage score."
  It has been fixed: `AcceptResurrections` clears
  the request when it lands (`StageScenario.cpp:2072`), as the manual says
  (`docs/manual/04-curriculum.md:517-527`), and `RevivesWereOffered` shows that a
  seat is paid for no more than it offered. What is left is that an offer not taken before its ally stands up
  some other way is not cleared (`StageScenario.cpp:2058-2061`): it is taken at
  that ally's next death, at once, and paid once.
* "A side is out when every seat on it is down" (`OpponentEncounter.cpp:539`):
  what is read is whether each of them has died this episode, standing again or
  not.
* The director's pay "takes it back out" of the compliance shaping
  (`Encounters.h:828`): a seat that arrives and is on the focus in one decision
  is paid twice, and only the latter is taken out.
* The bearing of a fire "has to agree with every other bearing the move block
  reports" (`StageScenario.cpp:2838`): it does between two searches, and in the
  decision that searches it is measured off the body.

### Proofs

`StageSeatsProofs` proves `SeatsRebuilt`, `PressesCounted` and `SeatPaidInFull` of
`SeatsSpec`, for every value of the constants that `ScenarioAssumption` allows; the
values come as one record, `Setup`, so that the assumption, one conjunct a part, is
evaluated by the run of the values it uses. `IInv` is the conjunction of an
invariant for each part, of which only the one that runs says anything. None
of the properties is inductive; what each lacks:

* *Rebuild* (`RebuildKeepsItsBots` in `SeatRebuild`, for any number of seats,
  classes, arenas and attempts). In the middle of a rebuild the seats do not say
  what their bots are. The invariant says it for every seat at every point
  instead, in the words of a bot's slot: a slot `Rests` with a bot, has `Begun` to
  replace it, or has `Made` the next one beside it. `Building` says of the seats
  done that they have their next bot or keep the old one, of the others that
  they have begun; `Leaving(k)` that the first `k` rest with the bot they were to
  have; `Settled`, before and after, that each rests with the bot its seat says it
  has. The lemmas `BeginIs`, `CreateNextIs`, `PromoteIs` and `AbortIs` are the four
  steps between these three; `AbortIs` holds of all three, which is why a rebuild
  may fail at any seat, and of the levels it is `KeptFits` and `LevelsFit` that
  matter: a character that is kept has the level that is drawn. `Typed` gives
  `TypeOK`.
* *Revive.* `ReviveInv`: what a seat offered is no less than what it was paid for
  and what of its offers still lies there, and an answer under way is to the
  offer that lies there, so that it can be paid once.
* *Pace.* `PaceInv`: the memory says what the log of this episode's presses says.
  A press is the last of its decision (`PressIsLast`), which is what holding back
  (`PressHoldsBack`), locking a mode (`PressLocks`) and charging (`PressIsCharged`)
  rest on. It needs a window of at least one millisecond: with none, a press
  would not be in its own window.
* *Water.* `WaterInv`. `Used` adds that breath is counted of the dead, too, and
  `Dived` counts breaths against dives by where the head is: a seat that drowned may
  stand up again under water and dive with its head under but no dive open, so
  that its breaths only stay below its dives; of one that did not drown they
  are equal to them. `DeathKeeps` carries the argument, because a death is
  the one step that closes a dive without a breath.
* *Shields.* `ShieldsInv`: what was lost and what is left cover what there was at
  the last decision (`Covered`), and one that is gone lost
  all it had or had no more time than the slack, which has to be one at least.
* *Casts.* `CastsInv`: while the target makes a cast that no decision has seen
  (`Unseen`), what was counted is below what there was to count.
* *Pay.* `PayInv`, at every point inside a reward, too: the hazards charged stay within
  their cap, the goals are paid for as often as they came to be held, and what was
  paid with what this decision owes is the ledger's terms (`InPay`); a pet that
  is told to have died, or is next to it, has been sick (`InHealth`).
* *Hide.* `HidingInv`: what `CombatTally` remembers of the last decision is what was
  so then (`HunterSees`), the last break paid is the one the cooldown is counted
  from (`BreaksPaid`), and stalking is paid a decision at a time until its cap
  (`StalkingPaid`).

`SeatRebuild` also proves that no two bots share an account session (`OfOneKind`,
`OfTwoKinds`), for every env up to `MAX_ENVS`, which is what `ForgeConfig.cpp`
clamps the number of envs to (`src/ForgeConfig.cpp:128-132`): without the clamp
the seats' accounts run into the owners'. Creating a character for an account
that has a session would take that session over, so this is what lets a
rebuild treat the bots of different seats as different.

Only model-checked, of all of the project: liveness (`CancelIsHeard`,
`FinishedStageEnds`, `ConsoleAnswers`, `PauseTakesEffect`) and the absence of
deadlock, which are out of this prover's reach; `BenchAligned`; `TableSound`, whose
questions are about one given table (what follows from it is proved); `TripsSettled` and `FlagsAndSlotsKept`, for the reasons given above; and,
of this section, `SidesSettled`, `SensesAreItsOwn`, `CharactersFit`, `BooksBalance`,
`PartyAccounted` and `NeverSteps`: sums, selections from sequences and searches,
which are folds or recursions over data, and a dozen small machines besides
that are each checked to their bounds.

## What no module models

* What a policy observes, and its networks, buffer and updates: floats.
* When a stage has converged, and what a checkpoint keeps (`stage.py`,
  `ConvergenceTracker`, the rest of `train.py`, `cast.py`): in the plan.
* Which damage and which kill the pool's hooks credit to which seat: in the plan.
* `ScriptedPlayer`, `LifeWorld`, `EnemyPlayers`, `Opponents`, `InstanceBosses`: they
  choose creatures, places and spells from the game's tables; the models let the
  world choose.
* `DuelBlock`, `PetBlock`, `ActionCatalog`: a press of theirs is a spell cast by
  the core's rules. Pitch under water, enchants by slot, runeforging, poisons,
  ammunition and wands are more of what is modelled of steering and gear.
* Scripted baselines, which are functions of one observation.
* Reading configuration and files, formatting, dashboards, generators.

`PROJECT.json` lists every component with what is left out of it. Also met while
reading, in parts that are not modelled, and so not checked:

* A class that re-enters training has its layout weight restored only when some
  weights are sent (`python/animus/train.py:820`), and the sim keeps the weights
  of the learner before (`src/AnimusForge.cpp:1133`).
* The acting memory is cleared where an episode ended (`python/animus/train.py:879`);
  an evaluation resets envs without any episode ending.
* `set_mode(False)` resets the envs before the replay seeds are sent
  (`python/animus/evaluation.py:479`).

## Plan

Done: the controller with its console, child process and connection; the env
pool and seeded evaluation; the stage table and what seeds a stage; every
encounter; what a stage keeps for its seats, their gear, talents and presses.
Next, in this order:

1. `Convergence`: `ConvergenceTracker` and `ConvergenceController`
   (`src/python/animus/evaluation.py`, `stage.py`) on small integer scores, over
   an abstract specification of when a stage may end; a checkpoint and a resume
   between any two evaluations.
2. `Training`: rollout, overlapped update, checkpoint, evaluation, end; the files
   `latest.pt`, `best.pt`, `finished.json`; a kill at any point and the resume.
3. `DamageCredit`: the guid maps of the pool between resets and hooks.
4. Proofs: `BenchAligned` for benchmarks whose learner trials leave no gap; what
   the sides of a match and a seat's senses keep; of the books, one press at a time.
