----------------------- MODULE ForgeControllerProofs ------------------------
(***************************************************************************)
(* What ForgeController keeps for every choice of its constants, proved.   *)
(*                                                                         *)
(* The handlers end scenarios and plans in the middle of what they do, so  *)
(* the first part follows the record of what has changed so far (Midway)   *)
(* through TeardownScenario, EndPlan, StartCurrent and FinishCurrent, one  *)
(* lemma for each, and the actions then cite those lemmas.                 *)
(*                                                                         *)
(* The second part is what the forge leaves behind when a stage, a         *)
(* benchmark or a plan ends, as long as no benchmark is cancelled between  *)
(* the command and the next tick: an idle sim holds nothing, a learner     *)
(* that runs serves the running stage, a pause stays with its stage, only  *)
(* trials are benchmarked, the map threads go back, and a stage is done    *)
(* only when its learner finished and saved. (Without that assumption      *)
(* OnlyTrialsBench fails: the run BenchLeak shows how.) Its inductive      *)
(* invariant is StageInv: it adds to these properties where the world      *)
(* thread can be in which state, that nothing asks for a plan while one    *)
(* runs, and that the entries of a plan have settings of their own exactly *)
(* when a benchmark runs them (Suits). Every end or start of a stage goes  *)
(* through TeardownScenario, or begins in an idle sim, so the context it   *)
(* works on is quiet (Quiet) and leaves a state that keeps the invariant   *)
(* (Changed).                                                              *)
(***************************************************************************)
EXTENDS ForgeController, SequenceTheorems, FiniteSetTheorems, TLAPS

Requests == {"None", "Start", "Cancel", "Skip"}
Connections == {"none", "auto", "hand", "gone"}
Files == [Dirs \X Scenarios -> {"none", "earlier", "own"}]

\* The types of what travels through a handler.
Contexts ==
    [request : Requests, requested : Plan, pause : BOOLEAN, resume : BOOLEAN, learner : LearnerStates,
     client : Connections, pending : Connections, files : Files, ticks : 0 .. MaxTicks,
     since : 0 .. TicksPerDecision - 1, threads : Nat, benching : BOOLEAN, phase : BOOLEAN,
     trials : Seq(Trial), trial : Nat]

\* A plan that can run has entries, and its index is one of them.
Ready(p) == p \in Plan /\ p.entries # <<>> /\ p.index \in DOMAIN p.entries

\* A context a handler may end in: what it requests can run, and a benchmark names its scenario.
Sound(c) ==
    /\ c \in Contexts
    /\ c.request = "Start" => c.requested.entries # <<>>
    /\ c.benching => benchScenario \in Scenarios

\* What the handlers change of the types: what Settle sets, and what belongs to the plan and its learner.
SettledTypes ==
    /\ request \in Requests
    /\ requested \in Plan
    /\ pauseRequested \in BOOLEAN
    /\ resumeRequested \in BOOLEAN
    /\ learner \in LearnerStates
    /\ client \in Connections
    /\ pending \in Connections
    /\ latest \in Files
    /\ ticks \in 0 .. MaxTicks
    /\ ticksSinceDecision \in 0 .. TicksPerDecision - 1
    /\ mapThreads \in Nat
    /\ benching \in BOOLEAN
    /\ benchLearnerPhase \in BOOLEAN
    /\ benchTrials \in Seq(Trial)
    /\ benchTrial \in Nat
StageTypes ==
    /\ state \in {"Idle", "Training", "Running", "Paused"}
    /\ plan \in Plan
    /\ lastPlan \in Plan
    /\ learnerStarted \in BOOLEAN
    /\ learnerArgs \in Args \cup {NoArgs}

\* The rest of them.
OtherTypes ==
    /\ pc \in {"world", "tick", "accept", "acceptPump", "hello", "recv", "recvPump", "hold",
               "decided", "skipLater"}
    /\ pausedFrom \in {"Idle", "Training", "Running"}
    /\ fastBudget \in Budgets
    /\ benchWalk \in Nat
    /\ benchScenario \in Scenarios \cup {NoScenario}

\* What a request and a plan need before a handler may use them.
Requestable ==
    /\ request = "Start" => requested.entries # <<>>
    /\ benching => benchScenario \in Scenarios
PlanReady ==
    /\ plan.entries # <<>> => plan.index \in DOMAIN plan.entries
    /\ Busy \/ pc \notin {"world", "tick"} => plan.entries # <<>>

\* The inductive invariant behind TypeOK.
TypeInv == SettledTypes /\ StageTypes /\ OtherTypes /\ Requestable /\ PlanReady

\* What a handler leaves behind when it ends or starts a stage.
Handled == SettledTypes /\ StageTypes /\ Requestable /\ Ready(plan)

-----------------------------------------------------------------------------
(* Constants, plans and sequences *)

LEMMA Numbers ==
    /\ TicksPerDecision \in Nat \ {0}
    /\ MaxTicks \in Nat \ {0}
    /\ 0 \in 0 .. MaxTicks
    /\ 0 \in 0 .. TicksPerDecision - 1
    /\ ConfiguredThreads \in Nat
    /\ ConfiguredEnvs \in Nat
  BY ForgeAssumption DEF ForgeAssumption, MaxTicks

LEMMA NoPlanIsAPlan == NoPlan \in Plan /\ NoPlan.entries = <<>>
  <1>1. <<>> \in Seq(Entry)
    BY EmptySeq
  <1> QED BY <1>1 DEF NoPlan, Plan

\* A sequence built entry by entry.
LEMMA BuiltSeq ==
    ASSUME NEW S, NEW n \in Nat, NEW f \in [1 .. n -> S]
    PROVE  f \in Seq(S) /\ Len(f) = n /\ (n # 0 => f # <<>>)
  <1>2. f \in Seq(S)
    BY SeqDef
  <1>3. Len(f) = n
    BY <1>2, LenProperties
  <1>4. n # 0 => f # <<>>
    BY <1>3, EmptySeq
  <1> QED BY <1>2, <1>3, <1>4

LEMMA NewEntryIsAnEntry ==
    ASSUME NEW scenario \in Scenarios, NEW resume \in BOOLEAN
    PROVE  NewEntry(scenario, resume) \in Entry
  BY DEF NewEntry, Entry, Outcomes

LEMMA ReadyCurrent ==
    ASSUME NEW p, Ready(p)
    PROVE  /\ Current(p) \in Entry
           /\ p.index \in 1 .. Len(p.entries)
           /\ DirOf(p, Current(p)) \in Dirs
           /\ RunKey(p) \in Dirs \X Scenarios
           /\ ArgsFor(p) \in Args
  <1>1. p.entries \in Seq(Entry) /\ p.index \in DOMAIN p.entries
    BY DEF Ready, Plan
  <1>2. Current(p) \in Entry /\ p.index \in 1 .. Len(p.entries)
    BY <1>1, ElementOfSeq, LenProperties DEF Current
  <1>3. DirOf(p, Current(p)) \in Dirs
    BY DEF DirOf, Dirs
  <1> QED BY <1>2, <1>3 DEF RunKey, ArgsFor, Args, Entry

\* Deciding an entry of a plan changes nothing else of it.
LEMMA DecidedPlan ==
    ASSUME NEW p, Ready(p), NEW i, NEW outcome \in Outcomes
    PROVE  Ready(SetResult(p, i, outcome)) /\ SetResult(p, i, outcome).index = p.index
           /\ Len(SetResult(p, i, outcome).entries) = Len(p.entries)
  <1> DEFINE q == SetResult(p, i, outcome)
             decided == [p.entries[i] EXCEPT !.result = outcome]
             entries == [j \in 1 .. Len(p.entries) |-> IF j = i THEN decided ELSE p.entries[j]]
  <1>1. p \in Plan /\ p.entries \in Seq(Entry) /\ Len(p.entries) \in Nat /\ DOMAIN p.entries = 1 .. Len(p.entries)
    BY LenProperties DEF Ready, Plan
  <1>2. p.entries = [j \in 1 .. Len(p.entries) |-> p.entries[j]]
    BY <1>1, LenProperties
  <1>3. q = [p EXCEPT !.entries = entries]
    <2>1. q = [p EXCEPT !.entries = [p.entries EXCEPT ![i] = decided]]
      BY DEF SetResult
    <2>2. [p.entries EXCEPT ![i] = decided] = entries
      <3> HIDE DEF decided
      <3> QED BY <1>1, <1>2
    <2> HIDE DEF q, decided, entries
    <2> QED BY <2>1, <2>2
  <1>4. ASSUME NEW j \in 1 .. Len(p.entries)
        PROVE  entries[j] \in Entry
    <2>1. p.entries[j] \in Entry
      BY <1>1, ElementOfSeq
    <2> QED BY <2>1 DEF Entry
  <1>5. entries \in Seq(Entry) /\ Len(entries) = Len(p.entries)
    <2>1. entries \in [1 .. Len(p.entries) -> Entry]
      <3> HIDE DEF decided
      <3> QED BY <1>4
    <2> QED BY <1>1, <2>1, BuiltSeq
  <1>6. q.entries = entries /\ q.index = p.index /\ q \in Plan
    BY <1>1, <1>3, <1>5 DEF Plan
  <1>7. q.entries # <<>>
    BY <1>1, <1>5, <1>6, EmptySeq DEF Ready
  <1>8. DOMAIN q.entries = DOMAIN p.entries
    BY <1>1, <1>6
  <1> QED BY <1>5, <1>6, <1>7, <1>8 DEF Ready

-----------------------------------------------------------------------------
(* The contexts a handler goes through *)

LEMMA StoppedTypes ==
    ASSUME NEW s \in LearnerStates
    PROVE  Stopped(s) \subseteq LearnerStates /\ \A t \in Stopped(s) : IsRunning(s) => ~IsRunning(t)
  BY DEF Stopped, LearnerStates, Alive, Reaped, IsRunning

LEMMA AfterStopTypes ==
    ASSUME NEW s, NEW queued, NEW files \in Files
    PROVE  AfterStop(s, queued, files) \subseteq Files
  <1>1. [files EXCEPT ![ArgsKey] = "own"] \in Files
    BY DEF Files
  <1> QED BY <1>1 DEF AfterStop

LEMMA HungUpTypes ==
    ASSUME NEW c \in Contexts
    PROVE  /\ HungUp(c) \in Contexts
           /\ HungUp(c).request = c.request /\ HungUp(c).requested = c.requested
           /\ HungUp(c).benching = c.benching /\ HungUp(c).learner = c.learner
           /\ HungUp(c).threads = c.threads /\ HungUp(c).trials = c.trials
           /\ HungUp(c).client = "none" /\ ~HungUp(c).pause /\ ~HungUp(c).resume
  BY DEF Contexts, Connections, HungUp
LEMMA WaitedForTypes ==
    ASSUME NEW c \in Contexts, NEW s \in LearnerStates, NEW f \in Files
    PROVE  LET d == WaitedFor(c, s, f)
           IN  /\ d \in Contexts
               /\ d.request = c.request /\ d.requested = c.requested /\ d.benching = c.benching
               /\ d.learner = s /\ d.client = c.client /\ d.pause = c.pause /\ d.resume = c.resume
               /\ d.threads = c.threads /\ d.trials = c.trials
  <1>1. (IF c.pending = "auto" THEN "gone" ELSE c.pending) \in Connections
    BY DEF Contexts, Connections
  <1> QED BY <1>1 DEF Contexts, WaitedFor

\* TeardownScenario hangs up, voids the flags and, when told to, leaves no learner; it touches nothing else.
LEMMA TornIsSound ==
    ASSUME NEW c, Sound(c), NEW stopLearner \in BOOLEAN, NEW d \in Torn(c, stopLearner)
    PROVE  /\ Sound(d)
           /\ d.client = "none" /\ ~d.pause /\ ~d.resume
           /\ d.benching = c.benching /\ d.request = c.request /\ d.requested = c.requested
           /\ d.threads = c.threads /\ d.trials = c.trials
           /\ stopLearner \/ ~IsRunning(c.learner) => ~IsRunning(d.learner)
  <1>1. c \in Contexts /\ c.learner \in LearnerStates /\ c.files \in Files
    BY DEF Sound, Contexts
  <1>2. CASE stopLearner /\ IsRunning(c.learner)
    <2>1. PICK s \in Stopped(c.learner), f \in AfterStop(c.learner, c.pending, c.files) :
             d = WaitedFor(HungUp(c), s, f)
      BY <1>2 DEF Torn, LeftBy
    <2>2. s \in LearnerStates /\ ~IsRunning(s) /\ f \in Files
      BY <1>1, <1>2, StoppedTypes, AfterStopTypes
    <2> QED BY <1>1, <1>2, <2>1, <2>2, HungUpTypes, WaitedForTypes DEF Sound
  <1>3. CASE ~(stopLearner /\ IsRunning(c.learner))
    <2>1. d = HungUp(c)
      BY <1>3 DEF Torn, LeftBy
    <2> QED BY <1>1, <1>3, <2>1, HungUpTypes DEF Sound
  <1> QED BY <1>2, <1>3

LEMMA BenchEndIsSound ==
    ASSUME NEW c, Sound(c)
    PROVE  Sound(BenchEnd(c)) /\ BenchEnd(c).request = c.request /\ BenchEnd(c).client = c.client
           /\ BenchEnd(c).learner = c.learner /\ BenchEnd(c).pause = c.pause /\ BenchEnd(c).resume = c.resume
  <1>1. ConfiguredThreads \in Nat
    BY Numbers
  <1> QED BY <1>1 DEF Sound, BenchEnd, Contexts

\* Some trials were measured and some run again: at least one, each of them a trial.
LEMMA FastestTrials ==
    ASSUME NEW trials \in Seq(Trial), LearnerTop # 0, Measured(trials) # {}, NEW best \in Fastest(trials)
    PROVE  LearnerTrials(trials, best) \in Seq(Trial) /\ LearnerTrials(trials, best) # <<>>
  <1> DEFINE n == IF LearnerTop < Cardinality(Measured(trials)) THEN LearnerTop ELSE Cardinality(Measured(trials))
  <1>1. Len(trials) \in Nat
    BY LenProperties
  <1>2. IsFiniteSet(Measured(trials))
    <2>1. IsFiniteSet(1 .. Len(trials))
      BY <1>1, FS_Interval
    <2> QED BY <2>1, FS_Subset DEF Measured
  <1>3. Cardinality(Measured(trials)) \in Nat \ {0}
    BY <1>2, FS_CardinalityType, FS_EmptySet
  <1>4. n \in Nat \ {0}
    BY <1>3, ForgeAssumption DEF ForgeAssumption
  <1>5. best \in [1 .. n -> Measured(trials)]
    BY DEF Fastest
  <1> HIDE DEF n
  <1>6. ASSUME NEW i \in 1 .. n
        PROVE  [trials[best[i]] EXCEPT !.learner = TRUE, !.measured = FALSE, !.noted = FALSE] \in Trial
    <2>1. best[i] \in 1 .. Len(trials)
      BY <1>5 DEF Measured
    <2>2. trials[best[i]] \in Trial
      BY <2>1, ElementOfSeq
    <2> QED BY <2>2 DEF Trial
  <1>7. LearnerTrials(trials, best) \in [1 .. n -> Trial]
    BY <1>5, <1>6 DEF LearnerTrials
  <1> QED BY <1>4, <1>7, BuiltSeq

LEMMA BenchPlanIsAPlan ==
    ASSUME NEW scenario \in Scenarios, NEW trials \in Seq(Trial), trials # <<>>
    PROVE  BenchPlan(scenario, trials) \in Plan /\ BenchPlan(scenario, trials).entries # <<>>
  <1> DEFINE entries == [i \in 1 .. Len(trials) |-> BenchEntry(scenario, trials[i])]
             remote == trials # <<>> /\ trials[1].learner
  <1>1. Len(trials) \in Nat \ {0} /\ DOMAIN trials = 1 .. Len(trials)
    BY LenProperties, EmptySeq
  <1>2. ASSUME NEW i \in 1 .. Len(trials)
        PROVE  trials[i] \in Trial /\ BenchEntry(scenario, trials[i]) \in Entry
    <2>1. trials[i] \in Trial
      BY ElementOfSeq
    <2> QED BY <2>1 DEF Trial, BenchEntry, Entry, Outcomes
  <1>3. entries \in [1 .. Len(trials) -> Entry]
    BY <1>2
  <1>4. entries \in Seq(Entry) /\ entries # <<>>
    <2> HIDE DEF entries
    <2> QED BY <1>1, <1>3, BuiltSeq
  <1>5. remote \in BOOLEAN
    <2>1. trials[1].learner \in BOOLEAN
      BY <1>1, <1>2 DEF Trial
    <2> QED BY <2>1
  <1>6. BenchPlan(scenario, trials) = [NoPlan EXCEPT !.entries = entries, !.remote = remote]
    BY <1>1 DEF BenchPlan
  <1> HIDE DEF entries, remote
  <1>7. BenchPlan(scenario, trials) = [entries |-> entries, index |-> 1, remote |-> remote, limited |-> FALSE,
                                       fast |-> FALSE, budget |-> 0]
    BY <1>6 DEF NoPlan
  <1> QED BY <1>4, <1>5, <1>7 DEF Plan

LEMMA LearnerPhaseTypes ==
    ASSUME NEW c \in Contexts, NEW again \in Seq(Trial), BenchPlan(benchScenario, again) \in Plan
    PROVE  /\ LearnerPhase(c, again) \in Contexts
           /\ LearnerPhase(c, again).requested = BenchPlan(benchScenario, again)
           /\ LearnerPhase(c, again).benching = c.benching
  <1>1. c.trials \in Seq(Trial)
    BY DEF Contexts
  <1>2. c.trials \o again \in Seq(Trial) /\ Len(c.trials) + 1 \in Nat
    BY <1>1, ConcatProperties, LenProperties
  <1> QED BY <1>2 DEF LearnerPhase, Contexts, Requests

LEMMA BenchPlanEndedIsSound ==
    ASSUME NEW c, Sound(c), c.benching, NEW d \in BenchPlanEnded(c)
    PROVE  Sound(d)
  <1>1. c \in Contexts /\ c.trials \in Seq(Trial) /\ benchScenario \in Scenarios
    BY DEF Sound, Contexts
  <1>2. CASE c.phase \/ LearnerTop = 0 \/ Measured(c.trials) = {}
    BY <1>2, BenchEndIsSound DEF BenchPlanEnded
  <1>3. CASE ~(c.phase \/ LearnerTop = 0 \/ Measured(c.trials) = {})
    <2>1. PICK best \in Fastest(c.trials) : d = LearnerPhase(c, LearnerTrials(c.trials, best))
      BY <1>3 DEF BenchPlanEnded
    <2> DEFINE again == LearnerTrials(c.trials, best)
    <2>2. again \in Seq(Trial) /\ again # <<>>
      BY <1>1, <1>3, FastestTrials
    <2> HIDE DEF again
    <2>3. BenchPlan(benchScenario, again) \in Plan /\ BenchPlan(benchScenario, again).entries # <<>>
      BY <1>1, <2>2, BenchPlanIsAPlan
    <2>4. d = LearnerPhase(c, again)
      BY <2>1 DEF again
    <2> QED BY <1>1, <2>2, <2>3, <2>4, LearnerPhaseTypes DEF Sound
  <1> QED BY <1>2, <1>3

LEMMA SettleTypes ==
    ASSUME NEW c, Sound(c), Settle(c), benchScenario' = benchScenario
    PROVE  SettledTypes' /\ Requestable'
  BY DEF Sound, Contexts, Settle, SettledTypes, Requestable

-----------------------------------------------------------------------------
(* Stages and plans that end or start *)

LEMMA EndPlanTypes ==
    ASSUME NEW p, Ready(p), NEW c, Sound(c), EndPlan(p, c), StageTypes, benchScenario' = benchScenario
    PROVE  Handled' /\ state' = "Idle" /\ ~learnerStarted'
  <1>1. PICK d \in IF c.benching THEN BenchPlanEnded(c) ELSE {c} : Settle(d)
    BY DEF EndPlan
  <1>2. Sound(d)
    BY <1>1, BenchPlanEndedIsSound
  <1>3. SettledTypes' /\ Requestable'
    BY <1>1, <1>2, SettleTypes
  <1>4. StageTypes' /\ Ready(plan') /\ state' = "Idle" /\ ~learnerStarted'
    BY DEF EndPlan, StageTypes, Ready
  <1> QED BY <1>3, <1>4 DEF Handled, Ready

LEMMA StartStageTypes ==
    ASSUME NEW p, Ready(p), NEW c, Sound(c), StartStage(p, c), StageTypes, benchScenario' = benchScenario
    PROVE  Handled' /\ state' = RunState(p)
  <1> DEFINE files == [c.files EXCEPT ![RunKey(p)] = IF @ = "none" THEN "none"
                                                     ELSE IF Current(p).resume THEN "own" ELSE "earlier"]
             threads == IF Current(p).threads # 0 THEN Current(p).threads ELSE c.threads
             after(started) == [c EXCEPT !.files = files, !.threads = threads, !.ticks = 0, !.since = 0,
                                         !.learner = IF started THEN "starting" ELSE @]
  <1>1. c \in Contexts /\ c.files \in Files /\ c.threads \in Nat /\ c.learner \in LearnerStates
    BY DEF Sound, Contexts
  <1>2. PICK started \in BOOLEAN :
           /\ learnerStarted' = started
           /\ learnerArgs' = IF started THEN ArgsFor(p) ELSE learnerArgs
           /\ Settle(after(started))
    BY DEF StartStage
  <1>3. files \in Files
    BY <1>1 DEF Files
  <1>4. threads \in Nat
    BY <1>1, ReadyCurrent DEF Entry
  <1> HIDE DEF files, threads
  <1>5. Sound(after(started))
    <2>1. (IF started THEN "starting" ELSE c.learner) \in LearnerStates
      BY <1>1 DEF LearnerStates
    <2>2. after(started) \in Contexts /\ after(started).request = c.request
          /\ after(started).requested = c.requested /\ after(started).benching = c.benching
      BY <1>1, <1>3, <1>4, <2>1, Numbers DEF Contexts
    <2> HIDE DEF after
    <2> QED BY <2>2 DEF Sound
  <1>6. SettledTypes' /\ Requestable'
    <2> HIDE DEF after
    <2> QED BY <1>2, <1>5, SettleTypes
  <1>7. StageTypes' /\ Ready(plan') /\ state' = RunState(p)
    BY <1>2, ReadyCurrent DEF StartStage, StageTypes, Ready, RunState
  <1> QED BY <1>6, <1>7 DEF Handled, Ready

LEMMA FailToStartTypes ==
    ASSUME NEW p, Ready(p), NEW c, Sound(c), FailToStart(p, c), StageTypes, benchScenario' = benchScenario
    PROVE  Handled' /\ state' = "Idle" /\ ~learnerStarted'
  <1> DEFINE own == IF Current(p).threads # 0 THEN {Current(p).threads} ELSE {}
             failed == SetResult(p, p.index, "Failed")
  <1>1. PICK threads \in {c.threads} \cup own, d \in Torn(c, TRUE) :
           EndPlan(failed, [d EXCEPT !.threads = threads])
    BY DEF FailToStart
  <1>2. Ready(failed)
    BY DecidedPlan DEF Outcomes
  <1>3. threads \in Nat
    BY <1>1, ReadyCurrent DEF Entry, Sound, Contexts
  <1>4. Sound(d)
    BY <1>1, TornIsSound
  <1> DEFINE e == [d EXCEPT !.threads = threads]
  <1>5. Sound(e)
    <2>1. e \in Contexts /\ e.request = d.request /\ e.requested = d.requested /\ e.benching = d.benching
      BY <1>3, <1>4 DEF Sound, Contexts
    <2> QED BY <1>4, <2>1 DEF Sound
  <1> HIDE DEF failed, e
  <1> QED BY <1>1, <1>2, <1>5, EndPlanTypes DEF e

LEMMA PassedOverPlan ==
    ASSUME NEW p, Ready(p), NEW next \in p.index .. Len(p.entries) + 1
    PROVE  Ready(PassOver(p, next))
  <1> DEFINE n == Len(p.entries)
             skipped(i) == IF p.index <= i /\ i < next THEN [p.entries[i] EXCEPT !.result = "Skipped"]
                                                       ELSE p.entries[i]
             entries == [i \in 1 .. n |-> skipped(i)]
             index == IF next > n THEN n ELSE next
  <1>1. p \in Plan /\ p.entries \in Seq(Entry) /\ n \in Nat /\ DOMAIN p.entries = 1 .. n /\ p.index \in 1 .. n
    BY LenProperties DEF Ready, Plan
  <1>2. ASSUME NEW i \in 1 .. n
        PROVE  skipped(i) \in Entry
    <2>1. p.entries[i] \in Entry
      BY <1>1, ElementOfSeq
    <2> QED BY <2>1 DEF Entry, Outcomes
  <1>3. entries \in [1 .. n -> Entry]
    <2> HIDE DEF skipped
    <2> QED BY <1>2
  <1>4. index \in 1 .. n
    BY <1>1
  <1>5. PassOver(p, next) = [p EXCEPT !.index = index, !.entries = entries]
    BY <1>1 DEF PassOver
  <1> HIDE DEF entries, index
  <1>6. entries \in Seq(Entry) /\ entries # <<>> /\ DOMAIN entries = 1 .. n
    BY <1>1, <1>3, BuiltSeq
  <1>7. index \in Nat
    BY <1>1, <1>4
  <1>8. PassOver(p, next) \in Plan /\ PassOver(p, next).entries = entries /\ PassOver(p, next).index = index
    <2> HIDE DEF n
    <2> QED BY <1>1, <1>5, <1>6, <1>7 DEF Plan
  <1> QED BY <1>4, <1>6, <1>8 DEF Ready

LEMMA StartCurrentTypes ==
    ASSUME NEW p, Ready(p), NEW c, Sound(c), StartCurrent(p, c), StageTypes, benchScenario' = benchScenario
    PROVE  Handled'
  <1>1. PICK next \in p.index .. Len(p.entries) + 1 :
           \/ EndPlan(PassOver(p, next), c)
           \/ StartStage(PassOver(p, next), c)
           \/ FailToStart(PassOver(p, next), c)
    BY DEF StartCurrent
  <1>2. Ready(PassOver(p, next))
    BY PassedOverPlan
  <1> QED BY <1>1, <1>2, EndPlanTypes, StartStageTypes, FailToStartTypes

LEMMA FinishCurrentTypes ==
    ASSUME NEW outcome \in Outcomes, NEW c, Sound(c), FinishCurrent(outcome, c), Ready(plan), StageTypes,
           benching \in BOOLEAN, benchScenario' = benchScenario
    PROVE  Handled'
  <1> DEFINE decided == SetResult(plan, plan.index, outcome)
             next == [decided EXCEPT !.index = @ + 1]
  <1>1. PICK d \in Torn(c, StopsLearner(outcome)) :
           IF plan.index < Len(plan.entries) THEN StartCurrent(next, d) ELSE EndPlan(decided, d)
    BY DEF FinishCurrent
  <1>2. Ready(decided) /\ decided.index = plan.index /\ Len(decided.entries) = Len(plan.entries)
    BY DecidedPlan
  <1>3. Sound(d)
    <2>1. StopsLearner(outcome) \in BOOLEAN
      BY Zenon DEF StopsLearner
    <2> QED BY <1>1, <2>1, TornIsSound
  <1> HIDE DEF decided
  <1>4. CASE plan.index < Len(plan.entries)
    <2>1. plan.index \in Nat /\ Len(decided.entries) \in Nat /\ DOMAIN decided.entries = 1 .. Len(decided.entries)
          /\ decided \in Plan /\ decided.entries \in Seq(Entry)
      BY <1>2, LenProperties DEF Ready, Plan
    <2>2. next.entries = decided.entries /\ next.index = plan.index + 1 /\ next \in Plan
      BY <1>2, <2>1 DEF Plan
    <2>3. Ready(next)
      BY <1>2, <1>4, <2>1, <2>2 DEF Ready
    <2> HIDE DEF next
    <2> QED BY <1>1, <1>3, <1>4, <2>3, StartCurrentTypes
  <1>5. CASE ~(plan.index < Len(plan.entries))
    BY <1>1, <1>2, <1>3, <1>5, EndPlanTypes
  <1> QED BY <1>4, <1>5

-----------------------------------------------------------------------------
(* The world thread's actions *)

LEMMA MidwayIsSound ==
    ASSUME SettledTypes, Requestable
    PROVE  /\ Sound(Midway)
           /\ Sound([Midway EXCEPT !.request = "None"])
           /\ Sound([Midway EXCEPT !.request = "None", !.requested = NoPlan])
           /\ Sound([Midway EXCEPT !.trial = @ + 1])
           /\ \A t \in 0 .. MaxTicks : Sound([Midway EXCEPT !.ticks = t, !.since = 0])
  <1>1. Midway \in Contexts /\ Midway.request = request /\ Midway.requested = requested /\ Midway.benching = benching
        /\ Midway.trial = benchTrial
    BY DEF SettledTypes, Contexts, Midway
  <1>2. Sound(Midway)
    BY <1>1 DEF Sound, Requestable
  <1> HIDE DEF Midway
  <1>3. Sound([Midway EXCEPT !.request = "None"])
    <2>1. [Midway EXCEPT !.request = "None"] \in Contexts
      BY <1>1 DEF Contexts, Requests
    <2> QED BY <1>1, <2>1 DEF Sound, Requestable, Contexts
  <1>4. Sound([Midway EXCEPT !.request = "None", !.requested = NoPlan])
    <2>1. [Midway EXCEPT !.request = "None", !.requested = NoPlan] \in Contexts
      BY <1>1, NoPlanIsAPlan DEF Contexts, Requests
    <2> QED BY <1>1, <2>1 DEF Sound, Requestable, Contexts
  <1>5. Sound([Midway EXCEPT !.trial = @ + 1])
    <2>1. [Midway EXCEPT !.trial = @ + 1] \in Contexts
      BY <1>1 DEF Contexts
    <2> QED BY <1>1, <2>1 DEF Sound, Requestable, Contexts
  <1>6. ASSUME NEW t \in 0 .. MaxTicks
        PROVE  Sound([Midway EXCEPT !.ticks = t, !.since = 0])
    <2>1. [Midway EXCEPT !.ticks = t, !.since = 0] \in Contexts
      BY <1>1, Numbers DEF Contexts
    <2> QED BY <1>1, <2>1 DEF Sound, Requestable, Contexts
  <1> QED BY <1>2, <1>3, <1>4, <1>5, <1>6

LEMMA HandledSuffices ==
    ASSUME Handled', OtherTypes'
    PROVE  TypeInv'
  BY DEF Handled, TypeInv, PlanReady, Ready

\* ApplyRequest keeps the types, and leaves a plan that is as ready as the one it found.
LEMMA ApplyRequestTypes ==
    ASSUME TypeInv, ApplyRequest
    PROVE  /\ SettledTypes' /\ StageTypes' /\ Requestable'
           /\ plan'.entries # <<>> => Ready(plan')
           /\ state' # "Idle" => Ready(plan')
  <1>1. benchScenario' = benchScenario /\ (Busy => Ready(plan)) /\ (plan.entries # <<>> => Ready(plan))
    BY DEF ApplyRequest, TypeInv, PlanReady, StageTypes, Ready
  <1>2. CASE request = "Start"
    <2> DEFINE first == [requested EXCEPT !.index = 1]
    <2>1. StartCurrent(first, [Midway EXCEPT !.request = "None", !.requested = NoPlan])
      BY <1>2 DEF ApplyRequest, ApplyStart
    <2>2. requested \in Plan /\ requested.entries \in Seq(Entry) /\ requested.entries # <<>>
      BY <1>2 DEF TypeInv, SettledTypes, Requestable, Plan
    <2>3. first \in Plan /\ first.entries = requested.entries /\ first.index = 1
      BY <2>2 DEF Plan
    <2>4. Ready(first)
      BY <2>2, <2>3, EmptySeq, LenProperties DEF Ready
    <2> HIDE DEF first
    <2>5. Handled'
      BY <1>1, <2>1, <2>4, MidwayIsSound, StartCurrentTypes DEF TypeInv
    <2> QED BY <2>5 DEF Handled, Ready
  <1>3. CASE request = "Cancel"
    <2> DEFINE c == [Midway EXCEPT !.request = "None"]
    <2>1. Sound(c) /\ c.benching \in BOOLEAN
      BY MidwayIsSound DEF TypeInv, Sound, Contexts
    <2>2. ApplyCancel
      BY <1>3 DEF ApplyRequest
    <2>3. CASE state = "Idle"
      <3>1. Settle(c) /\ UNCHANGED <<state, plan, lastPlan, learnerStarted, learnerArgs>>
        BY <2>2, <2>3 DEF ApplyCancel
      <3>2. SettledTypes' /\ Requestable'
        <4> HIDE DEF c
        <4> QED BY <1>1, <2>1, <3>1, SettleTypes
      <3> QED BY <1>1, <2>3, <3>1, <3>2 DEF TypeInv, StageTypes, Ready
    <2>4. CASE state # "Idle"
      <3>1. PICK d \in Torn(IF benching THEN BenchEnd(c) ELSE c, TRUE) :
               EndPlan(SetResult(plan, plan.index, "Cancelled"), d)
        BY <2>2, <2>4 DEF ApplyCancel
      <3>2. Sound(IF benching THEN BenchEnd(c) ELSE c)
        <4> HIDE DEF c
        <4> QED BY <2>1, BenchEndIsSound
      <3>3. Sound(d)
        <4> HIDE DEF c
        <4> QED BY <3>1, <3>2, TornIsSound
      <3>4. Ready(SetResult(plan, plan.index, "Cancelled"))
        BY <1>1, <2>4, DecidedPlan DEF Busy, Outcomes
      <3>5. Handled'
        BY <1>1, <3>1, <3>3, <3>4, EndPlanTypes DEF TypeInv
      <3> QED BY <3>5 DEF Handled, Ready
    <2> QED BY <2>3, <2>4
  <1>4. CASE request = "Skip"
    <2> DEFINE c == [Midway EXCEPT !.request = "None"]
    <2>1. Sound(c)
      BY MidwayIsSound DEF TypeInv
    <2>2. ApplySkip
      BY <1>4 DEF ApplyRequest
    <2>3. CASE state = "Idle"
      <3>1. Settle(c) /\ UNCHANGED <<state, plan, lastPlan, learnerStarted, learnerArgs>>
        BY <2>2, <2>3 DEF ApplySkip
      <3>2. SettledTypes' /\ Requestable'
        <4> HIDE DEF c
        <4> QED BY <1>1, <2>1, <3>1, SettleTypes
      <3> QED BY <1>1, <2>3, <3>1, <3>2 DEF TypeInv, StageTypes, Ready
    <2>4. CASE state # "Idle"
      <3>1. FinishCurrent("Skipped", c)
        BY <2>2, <2>4 DEF ApplySkip
      <3>2. Handled'
        <4> HIDE DEF c
        <4> QED BY <1>1, <2>1, <2>4, <3>1, FinishCurrentTypes DEF TypeInv, SettledTypes, Busy, Outcomes
      <3> QED BY <3>2 DEF Handled, Ready
    <2> QED BY <2>3, <2>4
  <1>5. CASE request \notin {"Start", "Cancel", "Skip"}
    <2>1. UNCHANGED <<pauseRequested, resumeRequested, request, requested, state, plan, lastPlan, learnerStarted,
                      learnerVars, client, latest, mapThreads, clockVars, benching, benchLearnerPhase, benchTrials,
                      benchTrial>>
      BY <1>5 DEF ApplyRequest
    <2>2. SettledTypes' /\ StageTypes' /\ Requestable'
      BY <1>1, <2>1 DEF TypeInv, SettledTypes, StageTypes, Requestable, learnerVars, clockVars
    <2> QED BY <1>1, <2>1, <2>2 DEF Ready, Busy
  <1> QED BY <1>2, <1>3, <1>4, <1>5

\* A step that leaves the plan, the requests and the learner's command line alone.
LEMMA FrameTypes ==
    ASSUME TypeInv, SettledTypes', OtherTypes', UNCHANGED <<requested, plan, lastPlan, learnerStarted, learnerArgs>>,
           state' \in {"Idle", "Training", "Running", "Paused"},
           request' = request, benching' = benching, benchScenario' = benchScenario,
           (state' # "Idle" \/ pc' \notin {"world", "tick"}) => (state # "Idle" \/ pc \notin {"world", "tick"})
    PROVE  TypeInv'
  BY DEF TypeInv, StageTypes, Requestable, PlanReady, Busy

LEMMA ReapedTypes == ASSUME NEW s \in LearnerStates PROVE Reaped(s) \in LearnerStates
  BY DEF LearnerStates, Reaped

LEMMA CountTypes ==
    ASSUME ticks \in 0 .. MaxTicks
    PROVE  NextTicks \in 0 .. MaxTicks
  BY Numbers DEF NextTicks

\* The actions of the world thread that change no plan.
LEMMA WaitingTypes ==
    ASSUME TypeInv,
           \/ Pause \/ HoldResumes \/ HoldPolls \/ IdleTick \/ WorldTick
           \/ LocalDecisionSteps \/ WaitForLearner \/ SendStep
           \/ AcceptConnection \/ AcceptIdle \/ HelloLost \/ HelloArrives \/ HelloRejected
           \/ ReceiveActions \/ ReceiveRejected \/ ReceiveLost \/ ReceiveIdle \/ ReceivePumped \/ AfterDecision
    PROVE  TypeInv'
  <1> USE DEF TypeInv, consoleVars, planVars, learnerVars, clockVars, benchVars
  <1>1. CASE Pause
    BY <1>1, FrameTypes DEF Pause, SettledTypes, OtherTypes
  <1>2. CASE HoldResumes
    BY <1>2, FrameTypes DEF HoldResumes, SettledTypes, OtherTypes
  <1>3. CASE HoldPolls
    BY <1>3, FrameTypes, ReapedTypes DEF HoldPolls, SettledTypes, OtherTypes, StageTypes
  <1>4. CASE IdleTick
    BY <1>4, FrameTypes DEF IdleTick, SettledTypes, OtherTypes, StageTypes
  <1>5. CASE WorldTick
    <2>1. ticksSinceDecision + 1 \in 0 .. TicksPerDecision - 1
      BY <1>5, Numbers DEF WorldTick, SettledTypes
    <2> QED BY <1>5, <2>1, FrameTypes DEF WorldTick, SettledTypes, OtherTypes, StageTypes
  <1>6. CASE LocalDecisionSteps
    BY <1>6, FrameTypes, CountTypes, Numbers
       DEF LocalDecisionSteps, CountDecision, Decides, Ticking, SettledTypes, OtherTypes, StageTypes
  <1>7. CASE WaitForLearner
    BY <1>7, FrameTypes, CountTypes, Numbers, ReapedTypes
       DEF WaitForLearner, CountDecision, Decides, Ticking, Polled, SettledTypes, OtherTypes, StageTypes
  <1>8. CASE SendStep
    BY <1>8, FrameTypes, CountTypes, Numbers, ReapedTypes
       DEF SendStep, CountDecision, Decides, Ticking, Polled, SettledTypes, OtherTypes, StageTypes, Connections
  <1>9. CASE AcceptConnection
    BY <1>9, FrameTypes DEF AcceptConnection, SettledTypes, OtherTypes, StageTypes, Connections
  <1>10. CASE AcceptIdle
    BY <1>10, FrameTypes, ReapedTypes DEF AcceptIdle, SettledTypes, OtherTypes, StageTypes
  <1>11. CASE HelloLost
    BY <1>11, FrameTypes DEF HelloLost, SettledTypes, OtherTypes, StageTypes, Connections
  <1>12. CASE HelloArrives
    BY <1>12, FrameTypes DEF HelloArrives, SettledTypes, OtherTypes, StageTypes
  <1>13. CASE HelloRejected
    BY <1>13, FrameTypes DEF HelloRejected, SettledTypes, OtherTypes, StageTypes, Connections
  <1>14. CASE ReceiveActions
    BY <1>14, FrameTypes DEF ReceiveActions, SettledTypes, OtherTypes, StageTypes
  <1>15. CASE ReceiveRejected
    BY <1>15, FrameTypes DEF ReceiveRejected, SettledTypes, OtherTypes, StageTypes, Connections
  <1>16. CASE ReceiveLost
    BY <1>16, FrameTypes DEF ReceiveLost, SettledTypes, OtherTypes, StageTypes, Connections
  <1>17. CASE ReceiveIdle
    BY <1>17, FrameTypes, ReapedTypes DEF ReceiveIdle, SettledTypes, OtherTypes, StageTypes
  <1>18. CASE ReceivePumped
    BY <1>18, FrameTypes DEF ReceivePumped, SettledTypes, OtherTypes, StageTypes, Connections
  <1>19. CASE AfterDecision
    BY <1>19, FrameTypes DEF AfterDecision, SettledTypes, OtherTypes, StageTypes
  <1> QED BY <1>1, <1>2, <1>3, <1>4, <1>5, <1>6, <1>7, <1>8, <1>9, <1>10, <1>11, <1>12, <1>13, <1>14, <1>15, <1>16,
             <1>17, <1>18, <1>19

\* Those that apply a request or end a stage.
LEMMA EndingTypes ==
    ASSUME TypeInv, BeginTick \/ HoldAppliesRequest \/ LocalDecisionEnds \/ AcceptPumped \/ BenchTrialDone
    PROVE  TypeInv'
  <1>1. CASE BeginTick \/ HoldAppliesRequest
    <2>1. SettledTypes' /\ StageTypes' /\ Requestable' /\ (plan'.entries # <<>> => Ready(plan'))
          /\ (state' # "Idle" => Ready(plan'))
      BY <1>1, ApplyRequestTypes DEF BeginTick, HoldAppliesRequest
    <2>2. OtherTypes' /\ pc' \in {"world", "tick"}
      BY <1>1 DEF BeginTick, HoldAppliesRequest, ApplyRequest, TypeInv, OtherTypes
    <2> QED BY <2>1, <2>2 DEF TypeInv, PlanReady, Busy, Ready
  <1>2. CASE LocalDecisionEnds
    <2>1. Ready(plan) /\ ticks \in 0 .. MaxTicks /\ benching \in BOOLEAN
      BY <1>2 DEF LocalDecisionEnds, Decides, Ticking, TypeInv, PlanReady, Busy, StageTypes, SettledTypes, Ready
    <2>2. Sound([Midway EXCEPT !.ticks = NextTicks, !.since = 0])
      BY <2>1, CountTypes, MidwayIsSound DEF TypeInv
    <2>3. FinishCurrent("Done", [Midway EXCEPT !.ticks = NextTicks, !.since = 0]) /\ benchScenario' = benchScenario
      BY <1>2 DEF LocalDecisionEnds
    <2> DEFINE c == [Midway EXCEPT !.ticks = NextTicks, !.since = 0]
    <2>4. Handled'
      <3> HIDE DEF c
      <3> QED BY <2>1, <2>2, <2>3, FinishCurrentTypes DEF TypeInv, Outcomes, c
    <2>5. OtherTypes'
      BY <1>2 DEF LocalDecisionEnds, TypeInv, OtherTypes
    <2> QED BY <2>4, <2>5, HandledSuffices
  <1>3. CASE AcceptPumped /\ LearnerFinished
    <2>1. Ready(plan) /\ benching \in BOOLEAN
      BY <1>3 DEF AcceptPumped, TypeInv, PlanReady, StageTypes, SettledTypes, Ready
    <2>2. FinishCurrent("Done", Midway) /\ benchScenario' = benchScenario
      BY <1>3 DEF AcceptPumped
    <2>3. Handled'
      BY <2>1, <2>2, MidwayIsSound, FinishCurrentTypes DEF TypeInv, Outcomes
    <2>4. OtherTypes'
      BY <1>3 DEF AcceptPumped, TypeInv, OtherTypes
    <2> QED BY <2>3, <2>4, HandledSuffices
  <1>4. CASE AcceptPumped /\ ~LearnerFinished
    BY <1>4, FrameTypes DEF AcceptPumped, TypeInv, SettledTypes, OtherTypes, StageTypes, consoleVars, planVars,
                            learnerVars, clockVars, benchVars
  <1>5. CASE BenchTrialDone
    <2>1. Ready(plan) /\ benching \in BOOLEAN
      BY <1>5 DEF BenchTrialDone, TypeInv, PlanReady, StageTypes, SettledTypes, Ready
    <2>2. FinishCurrent("Done", [Midway EXCEPT !.trial = @ + 1]) /\ benchScenario' = benchScenario
      BY <1>5 DEF BenchTrialDone
    <2> DEFINE c == [Midway EXCEPT !.trial = @ + 1]
    <2>3. Sound(c)
      BY MidwayIsSound DEF TypeInv
    <2>4. Handled'
      <3> HIDE DEF c
      <3> QED BY <2>1, <2>2, <2>3, FinishCurrentTypes DEF TypeInv, Outcomes, c
    <2>5. OtherTypes'
      BY <1>5 DEF BenchTrialDone, TypeInv, OtherTypes
    <2> QED BY <2>4, <2>5, HandledSuffices
  <1> QED BY <1>1, <1>2, <1>3, <1>4, <1>5

-----------------------------------------------------------------------------
(* The benchmark, the console and the learners *)

\* Changing an element of a sequence, or none when the sequence has no such element.
LEMMA ChangedSeq ==
    ASSUME NEW S, NEW seq \in Seq(S), NEW i, NEW e, i \in 1 .. Len(seq) => e \in S
    PROVE  [seq EXCEPT ![i] = e] \in Seq(S)
  <1>1. CASE i \in 1 .. Len(seq)
    BY <1>1, ExceptSeq
  <1>2. CASE i \notin 1 .. Len(seq)
    <2>1. seq \in [1 .. Len(seq) -> S]
      BY LenProperties
    <2>2. [seq EXCEPT ![i] = e] = seq
      BY <1>2, <2>1
    <2> QED BY <2>2
  <1> QED BY <1>1, <1>2

LEMMA ChangedTrial ==
    ASSUME NEW trial \in Trial, NEW envs \in Nat
    PROVE  /\ [trial EXCEPT !.noted = TRUE] \in Trial
           /\ [trial EXCEPT !.measured = TRUE] \in Trial
           /\ [trial EXCEPT !.envs = envs] \in Trial
  BY DEF Trial

LEMMA ChangedTrials ==
    ASSUME NEW trials \in Seq(Trial), NEW t, NEW envs \in Nat
    PROVE  /\ [trials EXCEPT ![t].noted = TRUE] \in Seq(Trial)
           /\ [trials EXCEPT ![t].measured = TRUE, ![t].envs = envs] \in Seq(Trial)
  <1>1. [trials EXCEPT ![t].noted = TRUE] \in Seq(Trial)
    <2> DEFINE noted == [trials[t] EXCEPT !.noted = TRUE]
    <2>1. t \in 1 .. Len(trials) => noted \in Trial
      BY ElementOfSeq, ChangedTrial
    <2> HIDE DEF noted
    <2>2. [trials EXCEPT ![t] = noted] \in Seq(Trial)
      BY <2>1, ChangedSeq
    <2> QED BY <2>2 DEF noted
  <1> DEFINE timed == [trials[t] EXCEPT !.measured = TRUE]
             first == [trials EXCEPT ![t] = timed]
             second == [first[t] EXCEPT !.envs = envs]
  <1>2. first \in Seq(Trial)
    <2>1. t \in 1 .. Len(trials) => timed \in Trial
      BY ElementOfSeq, ChangedTrial
    <2> HIDE DEF timed
    <2> QED BY <2>1, ChangedSeq
  <1>3. [first EXCEPT ![t] = second] \in Seq(Trial)
    <2> HIDE DEF first
    <2>1. t \in 1 .. Len(first) => second \in Trial
      BY <1>2, ElementOfSeq, ChangedTrial
    <2> HIDE DEF second
    <2> QED BY <1>2, <2>1, ChangedSeq
  <1>4. [trials EXCEPT ![t].measured = TRUE, ![t].envs = envs] = [first EXCEPT ![t] = second]
    OBVIOUS
  <1> QED BY <1>1, <1>3, <1>4

\* Erasing an entry further back leaves the running one where it is.
LEMMA ErasedPlan ==
    ASSUME NEW p, Ready(p), NEW i \in Nat, p.index < i, i <= Len(p.entries)
    PROVE  Ready([p EXCEPT !.entries = Erase(p.entries, i)])
  <1> DEFINE before == SubSeq(p.entries, 1, i - 1)
             after == SubSeq(p.entries, i + 1, Len(p.entries))
  <1>1. p \in Plan /\ p.entries \in Seq(Entry) /\ Len(p.entries) \in Nat /\ p.index \in 1 .. Len(p.entries)
    BY LenProperties DEF Ready, Plan
  <1>2. before \in Seq(Entry) /\ Len(before) = i - 1
    BY <1>1, SubSeqProperties
  <1>3. after \in Seq(Entry) /\ Len(after) \in Nat
    BY <1>1, SubSeqProperties, LenProperties
  <1> HIDE DEF before, after
  <1>4. before \o after \in Seq(Entry) /\ Len(before \o after) = i - 1 + Len(after)
    BY <1>2, <1>3, ConcatProperties
  <1> DEFINE erased == before \o after
  <1>5. p.index \in DOMAIN erased /\ erased # <<>> /\ erased \in Seq(Entry)
    <2>1. DOMAIN erased = 1 .. Len(erased)
      BY <1>4, LenProperties
    <2>2. p.index \in 1 .. Len(erased)
      BY <1>1, <1>3, <1>4
    <2> QED BY <1>4, <2>1, <2>2, EmptySeq
  <1>6. Erase(p.entries, i) = erased
    BY DEF Erase, before, after
  <1> HIDE DEF erased
  <1> QED BY <1>1, <1>5, <1>6 DEF Ready, Plan

LEMMA BenchTypes ==
    ASSUME TypeInv, BenchTick \/ BenchSkipLater
    PROVE  TypeInv'
  <1>1. CASE BenchTick
    <2>1. PICK t \in benchTrial .. Len(benchTrials) + 1 :
             /\ benchTrial' = t
             /\ IF t > Len(benchTrials) \/ ticks < Window
                THEN pc' = "world" /\ UNCHANGED <<benchTrials, benchWalk>>
                ELSE /\ pc' = "skipLater"
                     /\ benchTrials' = [benchTrials EXCEPT ![t].measured = TRUE, ![t].envs = RunEnvs]
                     /\ benchWalk' \in {Len(benchTrials), t}
      BY <1>1 DEF BenchTick
    <2>2. benchTrial \in Nat /\ benchTrials \in Seq(Trial) /\ Len(benchTrials) \in Nat /\ Ready(plan)
      BY <1>1, LenProperties DEF TypeInv, SettledTypes, StageTypes, PlanReady, Ready, BenchTick
    <2>3. RunEnvs \in Nat
      BY <2>2, ReadyCurrent, Numbers DEF RunEnvs, Entry
    <2>4. t \in Nat
      BY <2>1, <2>2
    <2>5. benchTrial' \in Nat /\ pc' \in {"world", "skipLater"}
      BY <2>1, <2>4
    <2>6. UNCHANGED <<consoleVars, planVars, clockVars, learnerVars, client, latest, benching, benchLearnerPhase,
                      benchScenario>>
      BY <1>1 DEF BenchTick
    <2>7. CASE t > Len(benchTrials) \/ ticks < Window
      <3>1. benchTrials' = benchTrials /\ benchWalk' = benchWalk
        BY <2>1, <2>7
      <3> QED BY <1>1, <2>2, <2>5, <2>6, <3>1, FrameTypes
              DEF BenchTick, TypeInv, SettledTypes, StageTypes, OtherTypes, consoleVars, planVars, learnerVars, clockVars
    <2>8. CASE ~(t > Len(benchTrials) \/ ticks < Window)
      <3>1. benchTrials' = [benchTrials EXCEPT ![t].measured = TRUE, ![t].envs = RunEnvs]
            /\ benchWalk' \in {Len(benchTrials), t}
        BY <2>1, <2>8
      <3>2. benchTrials' \in Seq(Trial) /\ benchWalk' \in Nat
        BY <2>2, <2>3, <2>4, <3>1, ChangedTrials
      <3> QED BY <1>1, <2>5, <2>6, <3>2, FrameTypes
              DEF BenchTick, TypeInv, SettledTypes, StageTypes, OtherTypes, consoleVars, planVars, learnerVars, clockVars
    <2> QED BY <2>7, <2>8
  <1>2. CASE BenchSkipLater
    <2>1. benchTrial \in Nat /\ benchWalk \in Nat /\ benchTrials \in Seq(Trial) /\ Ready(plan) /\ plan.index \in Nat
      BY <1>2 DEF TypeInv, SettledTypes, StageTypes, OtherTypes, PlanReady, Ready, BenchSkipLater, Plan
    <2>2. benchTrials' \in Seq(Trial)
      BY <1>2, <2>1, ChangedTrials, Numbers DEF BenchSkipLater
    <2>3. Ready(plan')
      <3> DEFINE entry == plan.index + benchWalk - benchTrial
      <3>1. entry \in Nat /\ plan.index < entry
        BY <1>2, <2>1 DEF BenchSkipLater
      <3>2. plan' = plan \/ (entry <= Len(plan.entries)
                             /\ plan' = [plan EXCEPT !.entries = Erase(plan.entries, entry)])
        BY <1>2 DEF BenchSkipLater, TrialEntry
      <3> HIDE DEF entry
      <3> QED BY <2>1, <3>1, <3>2, ErasedPlan
    <2>4. benchWalk' \in Nat
      BY <1>2, <2>1 DEF BenchSkipLater
    <2>5. UNCHANGED <<pc, consoleVars, state, pausedFrom, lastPlan, learnerStarted, mapThreads, clockVars,
                      learnerVars, client, latest, benching, benchLearnerPhase, benchTrial, benchScenario>>
      BY <1>2 DEF BenchSkipLater
    <2>6. SettledTypes' /\ Requestable'
      BY <2>2, <2>5 DEF TypeInv, SettledTypes, Requestable, consoleVars, learnerVars, clockVars
    <2>7. StageTypes' /\ OtherTypes'
      BY <2>3, <2>4, <2>5 DEF TypeInv, StageTypes, OtherTypes, Ready, consoleVars, learnerVars
    <2> QED BY <2>3, <2>6, <2>7, HandledSuffices DEF Handled, Ready
  <1> QED BY <1>1, <1>2

\* A command that only asks for something.
LEMMA RequestTypes ==
    ASSUME TypeInv, OnlyRequests, UNCHANGED benchVars, fastBudget' \in Budgets, request' \in Requests,
           requested' \in Plan, request' = "Start" => requested'.entries # <<>>
    PROVE  TypeInv'
  <1>1. SettledTypes' /\ StageTypes'
    BY DEF TypeInv, OnlyRequests, SettledTypes, StageTypes, planVars, clockVars, learnerVars, benchVars
  <1>2. OtherTypes' /\ Requestable' /\ PlanReady'
    BY DEF TypeInv, OnlyRequests, OtherTypes, Requestable, PlanReady, Busy, planVars, benchVars
  <1> QED BY <1>1, <1>2 DEF TypeInv

LEMMA StagesAreEntries ==
    ASSUME NEW names \in ScenarioLists, NEW resumeFirst \in BOOLEAN
    PROVE  StagesOf(names, resumeFirst) \in Seq(Entry) /\ StagesOf(names, resumeFirst) # <<>>
  <1>1. PICK n \in 1 .. MaxPlan : names \in [1 .. n -> Scenarios]
    BY DEF ScenarioLists
  <1>2. n \in Nat \ {0}
    BY <1>1, ForgeAssumption DEF ForgeAssumption
  <1>3. ASSUME NEW i \in 1 .. n
        PROVE  NewEntry(names[i], resumeFirst /\ i = 1) \in Entry
    <2>1. names[i] \in Scenarios
      BY <1>1
    <2>2. (resumeFirst /\ i = 1) \in BOOLEAN
      BY Zenon
    <2> QED BY <2>1, <2>2, NewEntryIsAnEntry
  <1>4. StagesOf(names, resumeFirst) = [i \in 1 .. n |-> NewEntry(names[i], resumeFirst /\ i = 1)]
    BY <1>1 DEF StagesOf
  <1>5. StagesOf(names, resumeFirst) \in [1 .. n -> Entry]
    BY <1>3, <1>4
  <1> QED BY <1>2, <1>5, BuiltSeq

LEMMA ResumedPlan ==
    ASSUME NEW p \in Plan, NEW first \in DOMAIN p.entries
    PROVE  ResumedEntries(p, first) \in Seq(Entry) /\ ResumedEntries(p, first) # <<>>
  <1> DEFINE n == Len(p.entries) - first + 1
  <1>1. p.entries \in Seq(Entry) /\ Len(p.entries) \in Nat /\ first \in 1 .. Len(p.entries)
    BY LenProperties DEF Plan
  <1>2. n \in Nat \ {0}
    BY <1>1
  <1>3. ASSUME NEW i \in 1 .. n
        PROVE  NewEntry(p.entries[first + i - 1].scenario, i = 1) \in Entry
    <2>1. p.entries[first + i - 1] \in Entry
      BY <1>1, ElementOfSeq
    <2>2. (i = 1) \in BOOLEAN
      BY Zenon
    <2> QED BY <2>1, <2>2, NewEntryIsAnEntry DEF Entry
  <1>4. ResumedEntries(p, first) = [i \in 1 .. n |-> NewEntry(p.entries[first + i - 1].scenario, i = 1)]
    BY DEF ResumedEntries
  <1> HIDE DEF n
  <1>5. ResumedEntries(p, first) \in [1 .. n -> Entry]
    BY <1>3, <1>4
  <1> QED BY <1>2, <1>5, BuiltSeq

LEMMA BenchTrialsAreTrials ==
    ASSUME BenchGrid # <<>>
    PROVE  LET trials == [i \in DOMAIN BenchGrid |->
                             [threads |-> BenchGrid[i][1], envs |-> BenchGrid[i][2], learner |-> FALSE,
                              measured |-> FALSE, noted |-> FALSE]]
           IN  trials \in Seq(Trial) /\ trials # <<>>
  <1> DEFINE n == Len(BenchGrid)
             trial(i) == [threads |-> BenchGrid[i][1], envs |-> BenchGrid[i][2], learner |-> FALSE,
                          measured |-> FALSE, noted |-> FALSE]
  <1>1. BenchGrid \in Seq((Nat \ {0}) \X (Nat \ {0}))
    BY ForgeAssumption DEF ForgeAssumption
  <1>2. n \in Nat \ {0} /\ DOMAIN BenchGrid = 1 .. n
    BY <1>1, LenProperties, EmptySeq
  <1>3. ASSUME NEW i \in 1 .. n
        PROVE  trial(i) \in Trial
    <2>1. BenchGrid[i] \in (Nat \ {0}) \X (Nat \ {0})
      BY <1>1, ElementOfSeq
    <2> QED BY <2>1 DEF Trial
  <1>4. [i \in 1 .. n |-> trial(i)] \in [1 .. n -> Trial]
    <2> HIDE DEF trial
    <2> QED BY <1>3
  <1>5. [i \in 1 .. n |-> trial(i)] \in Seq(Trial) /\ [i \in 1 .. n |-> trial(i)] # <<>>
    <2> HIDE DEF trial
    <2> QED BY <1>2, <1>4, BuiltSeq
  <1> QED BY <1>2, <1>5

LEMMA CommandTypes ==
    ASSUME TypeInv, ConsoleCommands
    PROVE  TypeInv'
  <1> USE DEF RequestStart, Requests
  <1>0. ConfigRemote \in BOOLEAN /\ fastBudget \in Budgets /\ requested \in Plan /\ request \in Requests
        /\ (request = "Start" => requested.entries # <<>>)
    BY ForgeAssumption DEF ForgeAssumption, TypeInv, SettledTypes, OtherTypes, Requestable
  <1>1. CASE CommandStart
    <2>1. PICK names \in ScenarioLists, limited \in BOOLEAN :
             RequestStart([NoPlan EXCEPT !.entries = StagesOf(names, FALSE), !.remote = ConfigRemote,
                                         !.limited = limited])
      BY <1>1 DEF CommandStart
    <2> DEFINE entries == StagesOf(names, FALSE)
               asked == [NoPlan EXCEPT !.entries = entries, !.remote = ConfigRemote, !.limited = limited]
    <2>2. entries \in Seq(Entry) /\ entries # <<>>
      BY StagesAreEntries
    <2>3. asked \in Plan /\ asked.entries = entries
      <3> HIDE DEF entries
      <3> QED BY <1>0, <2>2 DEF NoPlan, Plan
    <2>4. requested' = asked /\ request' = "Start"
      BY <2>1
    <2> HIDE DEF entries, asked
    <2>5. requested' \in Plan /\ requested'.entries # <<>>
      BY <2>2, <2>3, <2>4
    <2> QED BY <1>0, <1>1, <2>4, <2>5, RequestTypes DEF CommandStart
  <1>2. CASE CommandFast
    <2>1. PICK budget \in Budgets :
             /\ fastBudget' = budget
             /\ \/ \E names \in ScenarioLists :
                      RequestStart([NoPlan EXCEPT !.entries = StagesOf(names, FALSE), !.remote = TRUE, !.fast = TRUE,
                                                  !.budget = budget])
                \/ UNCHANGED <<request, requested>>
      BY <1>2 DEF CommandFast
    <2>2. CASE \E names \in ScenarioLists :
                  RequestStart([NoPlan EXCEPT !.entries = StagesOf(names, FALSE), !.remote = TRUE, !.fast = TRUE,
                                              !.budget = budget])
      <3>1. PICK names \in ScenarioLists :
               RequestStart([NoPlan EXCEPT !.entries = StagesOf(names, FALSE), !.remote = TRUE, !.fast = TRUE,
                                           !.budget = budget])
        BY <2>2
      <3> DEFINE entries == StagesOf(names, FALSE)
                 asked == [NoPlan EXCEPT !.entries = entries, !.remote = TRUE, !.fast = TRUE, !.budget = budget]
      <3>2. entries \in Seq(Entry) /\ entries # <<>>
        BY StagesAreEntries
      <3>3. asked \in Plan /\ asked.entries = entries
        <4> HIDE DEF entries
        <4> QED BY <2>1, <3>2 DEF NoPlan, Plan
      <3>4. requested' = asked /\ request' = "Start"
        BY <3>1
      <3> HIDE DEF entries, asked
      <3>5. requested' \in Plan /\ requested'.entries # <<>> /\ request' = "Start"
        BY <3>2, <3>3, <3>4
      <3> QED BY <1>2, <2>1, <3>5, RequestTypes DEF CommandFast
    <2>3. CASE UNCHANGED <<request, requested>>
      BY <1>0, <1>2, <2>1, <2>3, RequestTypes DEF CommandFast
    <2> QED BY <2>1, <2>2, <2>3
  <1>3. CASE CommandRun
    <2>1. PICK name \in Scenarios, limited \in BOOLEAN :
             RequestStart([NoPlan EXCEPT !.entries = StagesOf(<<name>>, FALSE), !.limited = limited])
      BY <1>3 DEF CommandRun
    <2>2. <<name>> \in ScenarioLists
      <3>1. <<name>> \in [1 .. 1 -> Scenarios] /\ 1 \in 1 .. MaxPlan
        BY ForgeAssumption DEF ForgeAssumption
      <3> QED BY <3>1 DEF ScenarioLists
    <2> DEFINE entries == StagesOf(<<name>>, FALSE)
               asked == [NoPlan EXCEPT !.entries = entries, !.limited = limited]
    <2>3. entries \in Seq(Entry) /\ entries # <<>>
      BY <2>2, StagesAreEntries
    <2>4. asked \in Plan /\ asked.entries = entries
      <3> HIDE DEF entries
      <3> QED BY <1>0, <2>3 DEF NoPlan, Plan
    <2>5. requested' = asked /\ request' = "Start"
      BY <2>1
    <2> HIDE DEF entries, asked
    <2>6. requested' \in Plan /\ requested'.entries # <<>>
      BY <2>3, <2>4, <2>5
    <2> QED BY <1>0, <1>3, <2>5, <2>6, RequestTypes DEF CommandRun
  <1>4. CASE CommandBench
    <2>1. PICK name \in Scenarios :
             LET trials == [i \in DOMAIN BenchGrid |->
                               [threads |-> BenchGrid[i][1], envs |-> BenchGrid[i][2], learner |-> FALSE,
                                measured |-> FALSE, noted |-> FALSE]]
             IN  /\ benchScenario' = name
                 /\ benchTrials' = trials
                 /\ RequestStart(BenchPlan(name, trials))
      BY <1>4 DEF CommandBench
    <2>2. benchTrials' \in Seq(Trial) /\ benchTrials' # <<>>
      BY <1>4, <2>1, BenchTrialsAreTrials DEF CommandBench
    <2>3. requested' = BenchPlan(name, benchTrials') /\ request' = "Start" /\ benchScenario' \in Scenarios
      BY <2>1
    <2>4. requested' \in Plan /\ requested'.entries # <<>>
      BY <2>2, <2>3, BenchPlanIsAPlan
    <2>5. SettledTypes' /\ StageTypes'
      BY <1>4, <2>2, <2>3, <2>4
         DEF CommandBench, TypeInv, OnlyRequests, SettledTypes, StageTypes, planVars, clockVars, learnerVars
    <2>6. OtherTypes' /\ Requestable' /\ PlanReady'
      BY <1>4, <2>3, <2>4
         DEF CommandBench, TypeInv, OnlyRequests, OtherTypes, Requestable, PlanReady, Busy, planVars
    <2> QED BY <2>5, <2>6 DEF TypeInv
  <1>5. CASE CommandUnpause
    BY <1>5, FrameTypes DEF CommandUnpause, TypeInv, SettledTypes, StageTypes, OtherTypes, planVars, clockVars,
                            learnerVars, benchVars
  <1>6. CASE CommandRestartLearner
    <2> DEFINE own == latest[RunKey(plan)] # "none"
               p == [plan EXCEPT !.entries[plan.index].resume = own]
    <2>1. PICK started \in BOOLEAN :
             /\ plan' = p
             /\ learnerStarted' = started
             /\ learner' = IF started THEN "starting" ELSE learner
             /\ learnerArgs' = IF started THEN ArgsFor(p) ELSE learnerArgs
      BY <1>6 DEF CommandRestartLearner
    <2>2. Ready(plan)
      BY <1>6 DEF CommandRestartLearner, TypeInv, PlanReady, StageTypes, Busy, Ready
    <2>3. Ready(p)
      <3> DEFINE entry == [plan.entries[plan.index] EXCEPT !.resume = own]
                 entries == [plan.entries EXCEPT ![plan.index] = entry]
      <3>0. own \in BOOLEAN
        BY Zenon
      <3> HIDE DEF own
      <3>1. entry \in Entry
        BY <2>2, <3>0, ReadyCurrent DEF Current, Entry
      <3>2. p = [plan EXCEPT !.entries = entries]
        OBVIOUS
      <3> HIDE DEF entry
      <3>3. plan \in Plan /\ plan.entries \in Seq(Entry) /\ plan.index \in 1 .. Len(plan.entries)
        BY <2>2, LenProperties DEF Ready, Plan
      <3>4. entries \in Seq(Entry) /\ Len(entries) = Len(plan.entries)
        BY <3>1, <3>3, ExceptSeq
      <3> HIDE DEF p, entries
      <3>5. p \in Plan /\ p.entries = entries /\ p.index = plan.index
        BY <3>2, <3>3, <3>4 DEF Plan
      <3> QED BY <3>3, <3>4, <3>5, LenProperties, EmptySeq DEF Ready
    <2> HIDE DEF p
    <2>4. UNCHANGED <<pc, consoleVars, state, pausedFrom, lastPlan, mapThreads, clockVars, pending, client, latest,
                      benchVars>>
      BY <1>6 DEF CommandRestartLearner
    <2>6. learner' \in LearnerStates /\ learnerArgs' \in Args \cup {NoArgs}
      BY <2>1, <2>3, ReadyCurrent DEF TypeInv, SettledTypes, StageTypes, LearnerStates
    <2>7. SettledTypes' /\ Requestable'
      BY <2>4, <2>6 DEF TypeInv, SettledTypes, Requestable, consoleVars, clockVars, benchVars
    <2>8. StageTypes' /\ Ready(plan')
      BY <2>1, <2>3, <2>4, <2>6 DEF TypeInv, StageTypes, Ready
    <2>5. OtherTypes'
      BY <1>6 DEF CommandRestartLearner, TypeInv, OtherTypes, consoleVars, benchVars
    <2> QED BY <2>5, <2>7, <2>8, HandledSuffices DEF Handled, Ready
  <1>7. CASE CommandResumeLast
    <2>1. PICK first \in DOMAIN lastPlan.entries :
             RequestStart([NoPlan EXCEPT !.entries = ResumedEntries(lastPlan, first), !.remote = TRUE,
                                         !.fast = lastPlan.fast])
      BY <1>7 DEF CommandResumeLast
    <2>2. lastPlan \in Plan /\ lastPlan.fast \in BOOLEAN
      BY DEF TypeInv, StageTypes, Plan
    <2> DEFINE entries == ResumedEntries(lastPlan, first)
               asked == [NoPlan EXCEPT !.entries = entries, !.remote = TRUE, !.fast = lastPlan.fast]
    <2>3. entries \in Seq(Entry) /\ entries # <<>>
      BY <2>2, ResumedPlan
    <2>4. asked \in Plan /\ asked.entries = entries
      <3> HIDE DEF entries
      <3> QED BY <1>0, <2>3, <2>2 DEF NoPlan, Plan
    <2>5. requested' = asked /\ request' = "Start"
      BY <2>1
    <2> HIDE DEF entries, asked
    <2>6. requested' \in Plan /\ requested'.entries # <<>>
      BY <2>3, <2>4, <2>5
    <2> QED BY <1>0, <1>7, <2>5, <2>6, RequestTypes DEF CommandResumeLast
  <1>8. CASE CommandResumeNamed
    <2>1. PICK names \in ScenarioLists :
             RequestStart([NoPlan EXCEPT !.entries = StagesOf(names, TRUE), !.remote = TRUE])
      BY <1>8 DEF CommandResumeNamed
    <2> DEFINE entries == StagesOf(names, TRUE)
               asked == [NoPlan EXCEPT !.entries = entries, !.remote = TRUE]
    <2>2. entries \in Seq(Entry) /\ entries # <<>>
      BY StagesAreEntries
    <2>3. asked \in Plan /\ asked.entries = entries
      <3> HIDE DEF entries
      <3> QED BY <1>0, <2>2 DEF NoPlan, Plan
    <2>4. requested' = asked /\ request' = "Start"
      BY <2>1
    <2> HIDE DEF entries, asked
    <2>5. requested' \in Plan /\ requested'.entries # <<>>
      BY <2>2, <2>3, <2>4
    <2> QED BY <1>0, <1>8, <2>4, <2>5, RequestTypes DEF CommandResumeNamed
  <1>9. CASE CommandPause
    BY <1>9, FrameTypes DEF CommandPause, TypeInv, SettledTypes, StageTypes, OtherTypes, planVars, clockVars,
                            learnerVars, benchVars
  <1>10. CASE CommandCancel
    BY <1>0, <1>10, RequestTypes, NoPlanIsAPlan DEF CommandCancel
  <1>11. CASE CommandSkip
    BY <1>0, <1>11, RequestTypes DEF CommandSkip
  <1> QED BY <1>1, <1>2, <1>3, <1>4, <1>5, <1>6, <1>7, <1>8, <1>9, <1>10, <1>11 DEF ConsoleCommands

LEMMA LearnerTypes ==
    ASSUME TypeInv, Learners
    PROVE  TypeInv'
  <1> USE DEF TypeInv, consoleVars, planVars, learnerVars, clockVars, benchVars
  <1>1. /\ latest \in Files /\ client \in Connections /\ pending \in Connections
        /\ \A key : [latest EXCEPT ![key] = "own"] \in Files /\ [latest EXCEPT ![key] = "none"] \in Files
    BY DEF SettledTypes, Files
  <1>2. CASE LearnerConnects
    <2>1. latest' \in Files
      BY <1>1, <1>2 DEF LearnerConnects
    <2> QED BY <1>2, <2>1, FrameTypes
            DEF LearnerConnects, SettledTypes, OtherTypes, StageTypes, LearnerStates, Connections
  <1>3. CASE LearnerSaves
    <2>1. latest' \in Files
      BY <1>1, <1>3 DEF LearnerSaves
    <2> QED BY <1>3, <2>1, FrameTypes DEF LearnerSaves, SettledTypes, OtherTypes, StageTypes
  <1>4. CASE LearnerFinishes
    <2>1. latest' \in Files
      BY <1>1, <1>4 DEF LearnerFinishes
    <2> QED BY <1>4, <2>1, FrameTypes
            DEF LearnerFinishes, SettledTypes, OtherTypes, StageTypes, LearnerStates, Connections
  <1>5. CASE LearnerDies
    <2>1. latest' \in Files
      BY <1>1, <1>5 DEF LearnerDies
    <2>2. client' \in Connections /\ pending' \in Connections
      BY <1>1, <1>5 DEF LearnerDies, Hangup, Connections
    <2> QED BY <1>5, <2>1, <2>2, FrameTypes DEF LearnerDies, SettledTypes, OtherTypes, StageTypes, LearnerStates
  <1>6. CASE HandConnects
    BY <1>6, FrameTypes DEF HandConnects, SettledTypes, OtherTypes, StageTypes, Connections
  <1>7. CASE HandLeaves
    BY <1>7, FrameTypes DEF HandLeaves, SettledTypes, OtherTypes, StageTypes, Connections
  <1> QED BY <1>2, <1>3, <1>4, <1>5, <1>6, <1>7 DEF Learners

LEMMA InitTypes ==
    ASSUME Init
    PROVE  TypeInv
  <1>1. <<>> \in Seq(Trial)
    BY EmptySeq
  <1>2. latest \in Files
    BY DEF Init, Files
  <1>3. SettledTypes /\ StageTypes
    BY <1>1, <1>2, NoPlanIsAPlan, Numbers
       DEF Init, SettledTypes, StageTypes, Requests, Connections, LearnerStates
  <1>4. OtherTypes /\ Requestable /\ PlanReady
    BY NoPlanIsAPlan DEF Init, OtherTypes, Requestable, PlanReady, Busy
  <1> QED BY <1>3, <1>4 DEF TypeInv

LEMMA RestartTypes ==
    ASSUME TypeInv, RestartServer
    PROVE  TypeInv'
  <1>1. <<>> \in Seq(Trial)
    BY EmptySeq
  <1>2. latest' \in Files
    BY AfterStopTypes DEF RestartServer, TypeInv, SettledTypes
  <1>3. SettledTypes' /\ StageTypes'
    BY <1>1, <1>2, NoPlanIsAPlan, Numbers
       DEF RestartServer, SettledTypes, StageTypes, Requests, Connections, LearnerStates
  <1>4. OtherTypes' /\ Requestable' /\ PlanReady'
    BY NoPlanIsAPlan DEF RestartServer, OtherTypes, Requestable, PlanReady, Busy
  <1> QED BY <1>3, <1>4 DEF TypeInv

-----------------------------------------------------------------------------
(* The types hold for every choice of the constants *)

LEMMA TypeInvHolds == Spec => []TypeInv
  <1>1. Init => TypeInv
    BY InitTypes
  <1>2. TypeInv /\ [Next]_vars => TypeInv'
    <2> SUFFICES ASSUME TypeInv, [Next]_vars
                 PROVE  TypeInv'
      OBVIOUS
    <2>1. CASE WorldThread
      BY <2>1, WaitingTypes, EndingTypes, BenchTypes DEF WorldThread
    <2>2. CASE Hellos \/ Messages
      BY <2>2, WaitingTypes DEF Hellos, Messages
    <2>3. CASE ConsoleCommands
      BY <2>3, CommandTypes
    <2>4. CASE Learners
      BY <2>4, LearnerTypes
    <2>5. CASE RestartServer
      BY <2>5, RestartTypes
    <2>6. CASE UNCHANGED vars
      BY <2>6 DEF vars, consoleVars, planVars, learnerVars, clockVars, benchVars, TypeInv, SettledTypes, StageTypes,
                  OtherTypes, Requestable, PlanReady, Busy
    <2> QED BY <2>1, <2>2, <2>3, <2>4, <2>5, <2>6 DEF Next
  <1> QED BY <1>1, <1>2, PTL DEF Spec

(* Every variable keeps its type: in particular the plan's index never leaves
   its entries while the console, the benchmark and EndPlan rewrite them, so
   Current() never reads past the end (AnimusForge.cpp, _plan.Current()). *)
THEOREM TypeCorrect == Spec => []TypeOK
  <1>1. TypeInv => TypeOK
    BY DEF TypeInv, SettledTypes, StageTypes, OtherTypes, TypeOK, Requests, Connections, Files
  <1> QED BY <1>1, TypeInvHolds, PTL

(* Whenever the world thread is inside a stage or a decision, the plan has a
   current entry: FinishCurrent, StartCurrent, ArgsFor and BenchTick read it. *)
PlanHasCurrent == Busy \/ pc \notin {"world", "tick"} => plan.index \in DOMAIN plan.entries
THEOREM CurrentIsThere == Spec => []PlanHasCurrent
  <1>1. TypeInv => PlanHasCurrent
    BY DEF TypeInv, PlanReady, PlanHasCurrent
  <1> QED BY <1>1, TypeInvHolds, PTL

-----------------------------------------------------------------------------
(* The order of a plan *)

\* The entries a handler's plan has, said entry by entry.
SameStages(p, q) ==
    /\ DOMAIN q.entries = DOMAIN p.entries
    /\ q.remote = p.remote /\ q.limited = p.limited /\ q.fast = p.fast
    /\ \A i \in DOMAIN p.entries : /\ q.entries[i].scenario = p.entries[i].scenario
                                   /\ q.entries[i].threads = p.entries[i].threads
                                   /\ q.entries[i].envs = p.entries[i].envs

LEMMA DecidedEntries ==
    ASSUME NEW p, Ready(p), NEW i, NEW outcome \in Outcomes
    PROVE  LET q == SetResult(p, i, outcome)
           IN  /\ q.index = p.index
               /\ SameStages(p, q)
               /\ \A j \in DOMAIN p.entries : q.entries[j].result = IF j = i THEN outcome ELSE p.entries[j].result
  <1> DEFINE decided == [p.entries[i] EXCEPT !.result = outcome]
             entries == [p.entries EXCEPT ![i] = decided]
             q == SetResult(p, i, outcome)
  <1>1. p \in Plan /\ p.entries \in Seq(Entry)
    BY DEF Ready, Plan
  <1>2. q = [p EXCEPT !.entries = entries]
    BY DEF SetResult
  <1>3. ASSUME NEW j \in DOMAIN p.entries
        PROVE  /\ entries[j].scenario = p.entries[j].scenario
               /\ entries[j].threads = p.entries[j].threads
               /\ entries[j].envs = p.entries[j].envs
               /\ entries[j].result = IF j = i THEN outcome ELSE p.entries[j].result
    <2>1. p.entries[j] \in Entry
      BY <1>1, ElementOfSeq, LenProperties
    <2>2. entries[j] = IF j = i THEN decided ELSE p.entries[j]
      <3> HIDE DEF decided
      <3> QED OBVIOUS
    <2>3. CASE j = i
      BY <2>1, <2>2, <2>3 DEF Entry
    <2>4. CASE j # i
      BY <2>2, <2>4
    <2> QED BY <2>3, <2>4
  <1>4. DOMAIN entries = DOMAIN p.entries
    <2> HIDE DEF decided
    <2> QED OBVIOUS
  <1> HIDE DEF entries
  <1>5. q.entries = entries /\ q.index = p.index /\ q.remote = p.remote /\ q.limited = p.limited /\ q.fast = p.fast
    BY <1>1, <1>2 DEF Plan
  <1> HIDE DEF q
  <1>6. SameStages(p, q)
    BY <1>3, <1>4, <1>5 DEF SameStages
  <1> QED BY <1>3, <1>5, <1>6 DEF q

LEMMA PassedOverEntries ==
    ASSUME NEW p, Ready(p), NEW next \in p.index .. Len(p.entries) + 1
    PROVE  LET q == PassOver(p, next)
           IN  /\ q.index = IF next > Len(p.entries) THEN Len(p.entries) ELSE next
               /\ SameStages(p, q)
               /\ \A j \in DOMAIN p.entries :
                     q.entries[j].result = IF p.index <= j /\ j < next THEN "Skipped" ELSE p.entries[j].result
  <1> DEFINE skipped(j) == IF p.index <= j /\ j < next THEN [p.entries[j] EXCEPT !.result = "Skipped"]
                                                       ELSE p.entries[j]
             entries == [j \in DOMAIN p.entries |-> skipped(j)]
             index == IF next > Len(p.entries) THEN Len(p.entries) ELSE next
             q == PassOver(p, next)
  <1>1. p \in Plan /\ p.entries \in Seq(Entry)
    BY DEF Ready, Plan
  <1>2. q = [p EXCEPT !.index = index, !.entries = entries]
    BY DEF PassOver
  <1>3. ASSUME NEW j \in DOMAIN p.entries
        PROVE  /\ entries[j].scenario = p.entries[j].scenario
               /\ entries[j].threads = p.entries[j].threads
               /\ entries[j].envs = p.entries[j].envs
               /\ entries[j].result = IF p.index <= j /\ j < next THEN "Skipped" ELSE p.entries[j].result
    <2>1. p.entries[j] \in Entry
      BY <1>1, ElementOfSeq, LenProperties
    <2>2. entries[j] = skipped(j)
      <3> HIDE DEF skipped
      <3> QED OBVIOUS
    <2>3. CASE p.index <= j /\ j < next
      BY <2>1, <2>2, <2>3 DEF Entry
    <2>4. CASE ~(p.index <= j /\ j < next)
      BY <2>2, <2>4
    <2> QED BY <2>3, <2>4
  <1>4. DOMAIN entries = DOMAIN p.entries
    OBVIOUS
  <1> HIDE DEF entries, index
  <1>5. q.entries = entries /\ q.index = index /\ q.remote = p.remote /\ q.limited = p.limited /\ q.fast = p.fast
    BY <1>1, <1>2 DEF Plan
  <1> HIDE DEF q
  <1>6. SameStages(p, q)
    BY <1>3, <1>4, <1>5 DEF SameStages
  <1> QED BY <1>3, <1>5, <1>6 DEF q, index

\* Nothing from this entry on has an outcome; every entry before the index has one; and, of a plan that runs, both.
Undecided(p, from) == \A i \in DOMAIN p.entries : i >= from => p.entries[i].result = "None"
Worked(p) ==
    /\ \A i \in DOMAIN p.entries : i < p.index => p.entries[i].result # "None"
    /\ Undecided(p, p.index + 1)
Poised(p) == Worked(p) /\ Undecided(p, p.index)

\* What is asked for is undecided, what runs is worked off up to its running entry, and what ended stays so.
Ordered ==
    /\ Undecided(requested, 1)
    /\ Worked(plan)
    /\ Busy => Poised(plan)

LEMMA NoPlanIsUndecided == Undecided(NoPlan, 1) /\ Poised(NoPlan)
  BY DEF NoPlan, Undecided, Worked, Poised

LEMMA BenchPlanIsUndecided ==
    ASSUME NEW scenario, NEW trials
    PROVE  Undecided(BenchPlan(scenario, trials), 1)
  <1> DEFINE entries == [i \in DOMAIN trials |-> BenchEntry(scenario, trials[i])]
             remote == trials # <<>> /\ trials[1].learner
  <1>1. ASSUME NEW i \in DOMAIN entries
        PROVE  entries[i].result = "None"
    BY DEF BenchEntry
  <1> HIDE DEF entries, remote
  <1>2. BenchPlan(scenario, trials) = [NoPlan EXCEPT !.entries = entries, !.remote = remote]
    BY DEF BenchPlan, entries, remote
  <1>3. BenchPlan(scenario, trials).entries = entries
    BY <1>2 DEF NoPlan
  <1> QED BY <1>1, <1>3 DEF Undecided

\* A benchmark that ends asks for nothing, or for a plan nobody began.
LEMMA BenchPlanEndedAsks ==
    ASSUME NEW c \in Contexts, Undecided(c.requested, 1), NEW d \in BenchPlanEnded(c)
    PROVE  Undecided(d.requested, 1)
  <1>1. CASE d = BenchEnd(c)
    <2>1. d.requested = c.requested
      BY <1>1 DEF BenchEnd, Contexts
    <2> QED BY <2>1
  <1>2. CASE \E best \in Fastest(c.trials) : d = LearnerPhase(c, LearnerTrials(c.trials, best))
    <2>1. PICK again : d = LearnerPhase(c, again)
      BY <1>2
    <2>2. d.requested = BenchPlan(benchScenario, again)
      BY <2>1 DEF LearnerPhase, Contexts
    <2> QED BY <2>2, BenchPlanIsUndecided
  <1> QED BY <1>1, <1>2 DEF BenchPlanEnded

LEMMA EndPlanOrders ==
    ASSUME NEW p, Worked(p), NEW c \in Contexts, Undecided(c.requested, 1), EndPlan(p, c)
    PROVE  Ordered'
  <1>1. PICK d \in IF c.benching THEN BenchPlanEnded(c) ELSE {c} : Settle(d)
    BY DEF EndPlan
  <1>2. Undecided(requested', 1)
    BY <1>1, BenchPlanEndedAsks DEF Settle
  <1>3. Worked(plan') /\ state' = "Idle"
    BY DEF EndPlan
  <1> QED BY <1>2, <1>3 DEF Ordered, Busy, Undecided, Worked

LEMMA StartStageOrders ==
    ASSUME NEW p, Poised(p), NEW c \in Contexts, Undecided(c.requested, 1), StartStage(p, c)
    PROVE  Ordered'
  <1> DEFINE files == [c.files EXCEPT ![RunKey(p)] = IF @ = "none" THEN "none"
                                                     ELSE IF Current(p).resume THEN "own" ELSE "earlier"]
             threads == IF Current(p).threads # 0 THEN Current(p).threads ELSE c.threads
             after(started) == [c EXCEPT !.files = files, !.threads = threads, !.ticks = 0, !.since = 0,
                                         !.learner = IF started THEN "starting" ELSE @]
  <1>1. PICK started : Settle(after(started))
    BY DEF StartStage
  <1> HIDE DEF files, threads
  <1>2. requested' = c.requested
    BY <1>1 DEF Settle, Contexts
  <1>3. plan' = p
    BY DEF StartStage
  <1> QED BY <1>2, <1>3 DEF Ordered, Poised, Worked, Undecided

\* The running entry gets its outcome: every entry up to it has one.
LEMMA DecidedIsWorked ==
    ASSUME NEW p, Ready(p), Worked(p), NEW outcome \in Outcomes \ {"None"}
    PROVE  LET q == SetResult(p, p.index, outcome)
           IN  Worked(q) /\ \A i \in DOMAIN p.entries : i <= p.index => q.entries[i].result # "None"
  <1> DEFINE q == SetResult(p, p.index, outcome)
  <1>1. q.index = p.index /\ DOMAIN q.entries = DOMAIN p.entries
        /\ \A j \in DOMAIN p.entries : q.entries[j].result = IF j = p.index THEN outcome ELSE p.entries[j].result
    BY DecidedEntries DEF SameStages
  <1>2. p.index \in Nat /\ \A j \in DOMAIN p.entries : j \in Nat
    BY LenProperties DEF Ready, Plan
  <1> HIDE DEF q
  <1> QED BY <1>1, <1>2 DEF Worked, Undecided, q

LEMMA FailToStartOrders ==
    ASSUME NEW p, Ready(p), Worked(p), NEW c, Sound(c), Undecided(c.requested, 1), FailToStart(p, c)
    PROVE  Ordered'
  <1> DEFINE own == IF Current(p).threads # 0 THEN {Current(p).threads} ELSE {}
             failed == SetResult(p, p.index, "Failed")
  <1>1. PICK threads \in {c.threads} \cup own, d \in Torn(c, TRUE) :
           EndPlan(failed, [d EXCEPT !.threads = threads])
    BY DEF FailToStart
  <1>2. Worked(failed)
    BY DecidedIsWorked DEF Outcomes
  <1>3. threads \in Nat
    BY <1>1, ReadyCurrent DEF Entry, Sound, Contexts
  <1>4. Sound(d) /\ d.requested = c.requested
    BY <1>1, TornIsSound
  <1> DEFINE e == [d EXCEPT !.threads = threads]
  <1>5. e \in Contexts /\ e.requested = c.requested
    BY <1>3, <1>4 DEF Sound, Contexts
  <1> HIDE DEF failed, e
  <1> QED BY <1>1, <1>2, <1>5, EndPlanOrders DEF e

\* StartCurrent from an undecided entry: those passed over get an outcome, those after the one it stops at none.
LEMMA StartCurrentOrders ==
    ASSUME NEW p, Ready(p), Poised(p), NEW c, Sound(c), Undecided(c.requested, 1), StartCurrent(p, c)
    PROVE  Ordered'
  <1>1. PICK next \in p.index .. Len(p.entries) + 1 :
           IF next > Len(p.entries) THEN EndPlan(PassOver(p, next), c)
           ELSE StartStage(PassOver(p, next), c) \/ FailToStart(PassOver(p, next), c)
    BY DEF StartCurrent
  <1> DEFINE q == PassOver(p, next)
  <1>2. /\ q.index = IF next > Len(p.entries) THEN Len(p.entries) ELSE next
        /\ DOMAIN q.entries = DOMAIN p.entries
        /\ \A j \in DOMAIN p.entries :
              q.entries[j].result = IF p.index <= j /\ j < next THEN "Skipped" ELSE p.entries[j].result
    BY PassedOverEntries DEF SameStages
  <1>3. Ready(q)
    BY PassedOverPlan
  <1>4. DOMAIN p.entries = 1 .. Len(p.entries) /\ Len(p.entries) \in Nat /\ p.index \in Nat
    BY LenProperties DEF Ready, Plan
  <1> HIDE DEF q
  <1>5. Worked(q)
    BY <1>2, <1>4 DEF Poised, Worked, Undecided
  <1>6. next <= Len(p.entries) => Poised(q)
    BY <1>2, <1>4, <1>5 DEF Poised, Undecided
  <1>7. c \in Contexts
    BY DEF Sound
  <1>8. CASE next > Len(p.entries)
    BY <1>1, <1>5, <1>7, <1>8, EndPlanOrders DEF q
  <1>9. CASE ~(next > Len(p.entries))
    <2>1. Poised(q)
      BY <1>4, <1>6, <1>9
    <2>2. StartStage(q, c) \/ FailToStart(q, c)
      BY <1>1, <1>9 DEF q
    <2> QED BY <1>3, <1>5, <1>7, <2>1, <2>2, StartStageOrders, FailToStartOrders
  <1> QED BY <1>8, <1>9

LEMMA FinishCurrentOrders ==
    ASSUME NEW outcome \in Outcomes \ {"None"}, NEW c, Sound(c), Undecided(c.requested, 1),
           FinishCurrent(outcome, c), Ready(plan), Worked(plan), benching \in BOOLEAN
    PROVE  Ordered'
  <1> DEFINE decided == SetResult(plan, plan.index, outcome)
             next == [decided EXCEPT !.index = @ + 1]
  <1>1. PICK d \in Torn(c, StopsLearner(outcome)) :
           IF plan.index < Len(plan.entries) THEN StartCurrent(next, d) ELSE EndPlan(decided, d)
    BY DEF FinishCurrent
  <1>2. Ready(decided) /\ decided.index = plan.index /\ Len(decided.entries) = Len(plan.entries)
    BY DecidedPlan
  <1>3. Worked(decided) /\ \A i \in DOMAIN plan.entries : i <= plan.index => decided.entries[i].result # "None"
    BY DecidedIsWorked
  <1>4. DOMAIN decided.entries = DOMAIN plan.entries
    BY DecidedEntries DEF SameStages
  <1>5. Sound(d) /\ d \in Contexts /\ Undecided(d.requested, 1)
    <2>1. StopsLearner(outcome) \in BOOLEAN
      BY Zenon DEF StopsLearner
    <2> QED BY <1>1, <2>1, TornIsSound DEF Sound
  <1> HIDE DEF decided
  <1>6. CASE plan.index < Len(plan.entries)
    <2>1. plan.index \in Nat /\ Len(decided.entries) \in Nat /\ DOMAIN decided.entries = 1 .. Len(decided.entries)
          /\ decided \in Plan /\ decided.entries \in Seq(Entry)
      BY <1>2, LenProperties DEF Ready, Plan
    <2>2. next.entries = decided.entries /\ next.index = plan.index + 1 /\ next \in Plan
      BY <1>2, <2>1 DEF Plan
    <2> HIDE DEF next
    <2>3. Ready(next)
      BY <1>2, <1>6, <2>1, <2>2 DEF Ready
    <2>4. Poised(next)
      BY <1>2, <1>3, <1>4, <2>1, <2>2 DEF Poised, Worked, Undecided
    <2> QED BY <1>1, <1>5, <1>6, <2>3, <2>4, StartCurrentOrders DEF next
  <1>7. CASE ~(plan.index < Len(plan.entries))
    BY <1>1, <1>3, <1>5, <1>7, EndPlanOrders
  <1> QED BY <1>6, <1>7

\* The context of ApplyRequest, and those of the actions that end a stage.
LEMMA MidwayAsks ==
    ASSUME SettledTypes, Requestable, Undecided(requested, 1)
    PROVE  /\ Undecided(Midway.requested, 1)
           /\ Undecided([Midway EXCEPT !.request = "None"].requested, 1)
           /\ Undecided([Midway EXCEPT !.request = "None", !.requested = NoPlan].requested, 1)
           /\ Undecided([Midway EXCEPT !.trial = @ + 1].requested, 1)
           /\ \A t \in 0 .. MaxTicks : Undecided([Midway EXCEPT !.ticks = t, !.since = 0].requested, 1)
  BY NoPlanIsUndecided DEF Midway

LEMMA ApplyRequestOrders ==
    ASSUME TypeInv, Ordered, ApplyRequest
    PROVE  Ordered'
  <1> DEFINE c == [Midway EXCEPT !.request = "None"]
  <1>1. Sound(c) /\ Undecided(c.requested, 1)
    BY MidwayIsSound, MidwayAsks DEF TypeInv, Ordered
  <1>2. Busy => Ready(plan)
    BY DEF TypeInv, PlanReady, StageTypes, Ready
  <1>3. CASE request = "Start"
    <2> DEFINE first == [requested EXCEPT !.index = 1]
               e == [Midway EXCEPT !.request = "None", !.requested = NoPlan]
    <2>1. StartCurrent(first, e)
      BY <1>3 DEF ApplyRequest, ApplyStart
    <2>2. requested \in Plan /\ requested.entries \in Seq(Entry) /\ requested.entries # <<>>
      BY <1>3 DEF TypeInv, SettledTypes, Requestable, Plan
    <2>3. first \in Plan /\ first.entries = requested.entries /\ first.index = 1
      BY <2>2 DEF Plan
    <2>4. Sound(e) /\ Undecided(e.requested, 1)
      BY MidwayIsSound, MidwayAsks DEF TypeInv, Ordered
    <2> HIDE DEF first, e
    <2>5. Ready(first)
      BY <2>2, <2>3, EmptySeq, LenProperties DEF Ready
    <2>6. Poised(first)
      BY <2>2, <2>3, LenProperties DEF Ordered, Poised, Worked, Undecided
    <2> QED BY <2>1, <2>4, <2>5, <2>6, StartCurrentOrders
  <1>4. CASE request \in {"Cancel", "Skip"} /\ state = "Idle"
    <2>1. Settle(c) /\ UNCHANGED <<state, plan>>
      BY <1>4 DEF ApplyRequest, ApplyCancel, ApplySkip
    <2>2. requested' = requested
      BY <2>1 DEF Settle, Midway
    <2> QED BY <2>1, <2>2 DEF Ordered, Poised, Worked, Undecided, Busy
  <1>5. CASE request = "Cancel" /\ state # "Idle"
    <2>1. PICK d \in Torn(IF benching THEN BenchEnd(c) ELSE c, TRUE) :
             EndPlan(SetResult(plan, plan.index, "Cancelled"), d)
      BY <1>5 DEF ApplyRequest, ApplyCancel
    <2>2. BenchEnd(c).requested = c.requested
      BY DEF BenchEnd, Midway
    <2> HIDE DEF c
    <2>3. Sound(IF benching THEN BenchEnd(c) ELSE c) /\ (IF benching THEN BenchEnd(c) ELSE c).requested = c.requested
      BY <1>1, <2>2, BenchEndIsSound
    <2>4. Sound(d) /\ d.requested = c.requested
      BY <2>1, <2>3, TornIsSound
    <2>5. Worked(SetResult(plan, plan.index, "Cancelled"))
      BY <1>2, <1>5, DecidedIsWorked DEF Busy, Ordered, Outcomes
    <2> QED BY <1>1, <2>1, <2>4, <2>5, EndPlanOrders DEF Sound
  <1>6. CASE request = "Skip" /\ state # "Idle"
    <2>1. FinishCurrent("Skipped", c)
      BY <1>6 DEF ApplyRequest, ApplySkip
    <2> HIDE DEF c
    <2> QED BY <1>1, <1>2, <1>6, <2>1, FinishCurrentOrders DEF Busy, Ordered, TypeInv, SettledTypes, Outcomes
  <1>7. CASE request \notin {"Start", "Cancel", "Skip"}
    <2>1. UNCHANGED <<requested, state, plan>>
      BY <1>7 DEF ApplyRequest
    <2> QED BY <2>1 DEF Ordered, Poised, Worked, Undecided, Busy
  <1> QED BY <1>3, <1>4, <1>5, <1>6, <1>7

LEMMA EndingOrders ==
    ASSUME TypeInv, Ordered, BeginTick \/ HoldAppliesRequest \/ LocalDecisionEnds \/ AcceptPumped \/ BenchTrialDone
    PROVE  Ordered'
  <1>1. CASE BeginTick \/ HoldAppliesRequest
    BY <1>1, ApplyRequestOrders DEF BeginTick, HoldAppliesRequest
  <1>2. CASE LocalDecisionEnds
    <2> DEFINE c == [Midway EXCEPT !.ticks = NextTicks, !.since = 0]
    <2>1. Ready(plan) /\ ticks \in 0 .. MaxTicks /\ benching \in BOOLEAN
      BY <1>2 DEF LocalDecisionEnds, Decides, Ticking, TypeInv, PlanReady, Busy, StageTypes, SettledTypes, Ready
    <2>2. Sound(c) /\ Undecided(c.requested, 1)
      BY <2>1, CountTypes, MidwayIsSound, MidwayAsks DEF TypeInv, Ordered
    <2>3. FinishCurrent("Done", c)
      BY <1>2 DEF LocalDecisionEnds
    <2> HIDE DEF c
    <2> QED BY <2>1, <2>2, <2>3, FinishCurrentOrders DEF Ordered, Outcomes
  <1>3. CASE AcceptPumped /\ LearnerFinished
    <2>1. Ready(plan) /\ benching \in BOOLEAN
      BY <1>3 DEF AcceptPumped, TypeInv, PlanReady, StageTypes, SettledTypes, Ready
    <2>2. FinishCurrent("Done", Midway)
      BY <1>3 DEF AcceptPumped
    <2> QED BY <2>1, <2>2, MidwayIsSound, MidwayAsks, FinishCurrentOrders DEF TypeInv, Ordered, Outcomes
  <1>4. CASE AcceptPumped /\ ~LearnerFinished
    BY <1>4 DEF AcceptPumped, Ordered, Poised, Worked, Undecided, Busy, consoleVars, planVars
  <1>5. CASE BenchTrialDone
    <2> DEFINE c == [Midway EXCEPT !.trial = @ + 1]
    <2>1. Ready(plan) /\ benching \in BOOLEAN
      BY <1>5 DEF BenchTrialDone, TypeInv, PlanReady, StageTypes, SettledTypes, Ready
    <2>2. FinishCurrent("Done", c)
      BY <1>5 DEF BenchTrialDone
    <2>3. Sound(c) /\ Undecided(c.requested, 1)
      BY MidwayIsSound, MidwayAsks DEF TypeInv, Ordered
    <2> HIDE DEF c
    <2> QED BY <2>1, <2>2, <2>3, FinishCurrentOrders DEF Ordered, Outcomes
  <1> QED BY <1>1, <1>2, <1>3, <1>4, <1>5

\* What is left of a plan when an entry is erased: those before it as they were, those after it one further on.
LEMMA ErasedEntries ==
    ASSUME NEW p, Ready(p), NEW i \in Nat, p.index < i, i <= Len(p.entries)
    PROVE  LET q == [p EXCEPT !.entries = Erase(p.entries, i)]
           IN  /\ q.index = p.index
               /\ q.remote = p.remote /\ q.limited = p.limited /\ q.fast = p.fast
               /\ \A j \in DOMAIN q.entries : /\ j \in Nat
                                              /\ j < i => j \in DOMAIN p.entries /\ q.entries[j] = p.entries[j]
                                              /\ j >= i => j + 1 \in DOMAIN p.entries /\ q.entries[j] = p.entries[j + 1]
  <1> DEFINE before == SubSeq(p.entries, 1, i - 1)
             after == SubSeq(p.entries, i + 1, Len(p.entries))
             erased == Erase(p.entries, i)
             n == Len(p.entries)
  <1>1. p \in Plan /\ p.entries \in Seq(Entry) /\ n \in Nat /\ DOMAIN p.entries = 1 .. n /\ p.index \in 1 .. n
    BY LenProperties DEF Ready, Plan
  <1>2. before \in Seq(Entry) /\ Len(before) = i - 1 /\ \A j \in 1 .. i - 1 : before[j] = p.entries[j]
    BY <1>1, SubSeqProperties
  <1>3. after \in Seq(Entry) /\ Len(after) = n - i /\ \A j \in 1 .. n - i : after[j] = p.entries[i + j]
    <2>1. after \in Seq(Entry) /\ Len(after) = IF i + 1 <= n THEN n - (i + 1) + 1 ELSE 0
      BY <1>1, SubSeqProperties
    <2>2. \A j \in 1 .. n - i : after[j] = p.entries[(i + 1) + j - 1]
      BY <1>1, <2>1, SubSeqProperties
    <2>3. \A j \in 1 .. n - i : (i + 1) + j - 1 = i + j
      BY <1>1
    <2>4. Len(after) = n - i
      BY <1>1, <2>1
    <2> HIDE DEF after, n
    <2> QED BY <2>1, <2>2, <2>3, <2>4
  <1>4. erased = before \o after
    BY DEF Erase
  <1> HIDE DEF before, after, erased
  <1>5. /\ erased \in Seq(Entry) /\ Len(erased) = n - 1 /\ DOMAIN erased = 1 .. n - 1
        /\ \A j \in 1 .. n - 1 : erased[j] = IF j <= i - 1 THEN before[j] ELSE after[j - (i - 1)]
    <2>1. /\ before \o after \in Seq(Entry)
          /\ Len(before \o after) = Len(before) + Len(after)
          /\ \A j \in 1 .. Len(before) + Len(after) :
                (before \o after)[j] = IF j <= Len(before) THEN before[j] ELSE after[j - Len(before)]
      <3>1. before \in Seq(Entry) /\ after \in Seq(Entry)
        BY <1>2, <1>3
      <3> QED BY ONLY <3>1, ConcatProperties, Zenon
    <2>2. Len(before) + Len(after) = n - 1
      BY <1>1, <1>2, <1>3
    <2> HIDE DEF n
    <2> QED BY <1>2, <1>4, <2>1, <2>2, LenProperties
  <1>6. ASSUME NEW j \in 1 .. n - 1
        PROVE  /\ j \in Nat
               /\ j < i => j \in DOMAIN p.entries /\ erased[j] = p.entries[j]
               /\ j >= i => j + 1 \in DOMAIN p.entries /\ erased[j] = p.entries[j + 1]
    <2>1. j < i => erased[j] = p.entries[j]
      BY <1>1, <1>2, <1>5
    <2>2. ASSUME j >= i
          PROVE  erased[j] = p.entries[j + 1]
      <3>1. j - (i - 1) \in 1 .. n - i /\ i + (j - (i - 1)) = j + 1 /\ ~(j <= i - 1)
        BY <1>1, <2>2
      <3>2. erased[j] = after[j - (i - 1)]
        BY <1>5, <3>1
      <3>3. after[j - (i - 1)] = p.entries[i + (j - (i - 1))]
        BY <1>3, <3>1
      <3> QED BY <3>1, <3>2, <3>3
    <2> QED BY <1>1, <2>1, <2>2
  <1> DEFINE q == [p EXCEPT !.entries = erased]
  <1>7. q.entries = erased /\ q.index = p.index /\ q.remote = p.remote /\ q.limited = p.limited /\ q.fast = p.fast
    BY <1>1 DEF Plan
  <1> HIDE DEF q
  <1>8. q = [p EXCEPT !.entries = Erase(p.entries, i)]
    BY DEF q, erased
  <1> HIDE DEF n
  <1> QED BY <1>5, <1>6, <1>7, <1>8

\* The walk over the later trials erases only entries after the running one.
LEMMA SkipLaterOrders ==
    ASSUME TypeInv, Ordered, BenchSkipLater
    PROVE  Ordered'
  <1>1. Ready(plan) /\ benchWalk \in Nat /\ benchTrial \in Nat /\ benchWalk > benchTrial
    BY DEF BenchSkipLater, TypeInv, SettledTypes, StageTypes, OtherTypes, PlanReady, Ready
  <1>2. UNCHANGED <<requested, state>>
    BY DEF BenchSkipLater, consoleVars
  <1> DEFINE entry == TrialEntry(benchWalk)
             q == [plan EXCEPT !.entries = Erase(plan.entries, entry)]
  <1>3. plan' = plan \/ (entry <= Len(plan.entries) /\ plan' = q)
    BY DEF BenchSkipLater
  <1>4. CASE plan' = plan
    BY <1>2, <1>4 DEF Ordered, Poised, Worked, Undecided, Busy
  <1>5. CASE entry <= Len(plan.entries) /\ plan' = q
    <2>1. entry \in Nat /\ plan.index < entry /\ plan.index \in Nat
      BY <1>1, LenProperties DEF TrialEntry, Ready, Plan
    <2>2. /\ q.index = plan.index
          /\ \A j \in DOMAIN q.entries :
                /\ j \in Nat
                /\ j < entry => j \in DOMAIN plan.entries /\ q.entries[j] = plan.entries[j]
                /\ j >= entry => j + 1 \in DOMAIN plan.entries /\ q.entries[j] = plan.entries[j + 1]
      BY <1>1, <1>5, <2>1, ErasedEntries
    <2> HIDE DEF q, entry
    <2>3. Worked(q)
      BY <2>1, <2>2 DEF Ordered, Worked, Undecided
    <2>4. Busy => Poised(q)
      <3>1. Busy => Undecided(q, q.index)
        BY <2>1, <2>2 DEF Ordered, Poised, Undecided
      <3> QED BY <2>3, <3>1 DEF Poised
    <2> QED BY <1>2, <1>5, <2>3, <2>4 DEF Ordered, Busy, Poised, Worked, Undecided
  <1> QED BY <1>3, <1>4, <1>5

\* A step that touches neither the plan nor the request.
LEMMA FrameOrders ==
    ASSUME Ordered, UNCHANGED <<requested, plan>>, state' # "Idle" => state # "Idle"
    PROVE  Ordered'
  BY DEF Ordered, Poised, Worked, Undecided, Busy

\* What the console asks for begins with its first entry.
LEMMA RequestOrders ==
    ASSUME Ordered, OnlyRequests, requested' = requested \/ Undecided(requested', 1)
    PROVE  Ordered'
  BY DEF OnlyRequests, planVars, Ordered, Poised, Worked, Undecided, Busy

LEMMA NewPlanIsUndecided ==
    ASSUME NEW p, NEW entries, p.entries = entries, \A i \in DOMAIN entries : entries[i].result = "None"
    PROVE  Undecided(p, 1)
  BY DEF Undecided

LEMMA CommandOrders ==
    ASSUME TypeInv, Ordered, ConsoleCommands
    PROVE  Ordered'
  <1> USE DEF RequestStart
  <1>1. \A names, first : \A i \in DOMAIN StagesOf(names, first) : StagesOf(names, first)[i].result = "None"
    BY DEF StagesOf, NewEntry
  <1>2. \A p, first : \A i \in DOMAIN ResumedEntries(p, first) : ResumedEntries(p, first)[i].result = "None"
    BY DEF ResumedEntries, NewEntry
  <1>3. CASE CommandStart
    <2>1. PICK names, limited :
             requested' = [NoPlan EXCEPT !.entries = StagesOf(names, FALSE), !.remote = ConfigRemote,
                                         !.limited = limited]
      BY <1>3 DEF CommandStart
    <2>2. requested'.entries = StagesOf(names, FALSE)
      BY <2>1 DEF NoPlan
    <2>3. Undecided(requested', 1)
      BY <1>1, <2>2, NewPlanIsUndecided
    <2> QED BY <1>3, <2>3, RequestOrders DEF CommandStart
  <1>4. CASE CommandFast
    <2>1. ASSUME NEW names, NEW budget,
                 requested' = [NoPlan EXCEPT !.entries = StagesOf(names, FALSE), !.remote = TRUE, !.fast = TRUE,
                                             !.budget = budget]
          PROVE  Undecided(requested', 1)
      <3>1. requested'.entries = StagesOf(names, FALSE)
        BY <2>1 DEF NoPlan
      <3> QED BY <1>1, <3>1, NewPlanIsUndecided
    <2> QED BY <1>4, <2>1, RequestOrders DEF CommandFast
  <1>5. CASE CommandRun
    <2>1. PICK names, limited :
             requested' = [NoPlan EXCEPT !.entries = StagesOf(names, FALSE), !.limited = limited]
      BY <1>5 DEF CommandRun
    <2>2. requested'.entries = StagesOf(names, FALSE)
      BY <2>1 DEF NoPlan
    <2>3. Undecided(requested', 1)
      BY <1>1, <2>2, NewPlanIsUndecided
    <2> QED BY <1>5, <2>3, RequestOrders DEF CommandRun
  <1>6. CASE CommandBench
    <2>1. PICK name, trials : requested' = BenchPlan(name, trials)
      BY <1>6 DEF CommandBench
    <2> QED BY <1>6, <2>1, BenchPlanIsUndecided, RequestOrders DEF CommandBench
  <1>7. CASE CommandResumeLast
    <2>1. PICK first : requested' = [NoPlan EXCEPT !.entries = ResumedEntries(lastPlan, first), !.remote = TRUE,
                                                   !.fast = lastPlan.fast]
      BY <1>7 DEF CommandResumeLast
    <2>2. requested'.entries = ResumedEntries(lastPlan, first)
      BY <2>1 DEF NoPlan
    <2>3. Undecided(requested', 1)
      BY <1>2, <2>2, NewPlanIsUndecided
    <2> QED BY <1>7, <2>3, RequestOrders DEF CommandResumeLast
  <1>8. CASE CommandResumeNamed
    <2>1. PICK names : requested' = [NoPlan EXCEPT !.entries = StagesOf(names, TRUE), !.remote = TRUE]
      BY <1>8 DEF CommandResumeNamed
    <2>2. requested'.entries = StagesOf(names, TRUE)
      BY <2>1 DEF NoPlan
    <2>3. Undecided(requested', 1)
      BY <1>1, <2>2, NewPlanIsUndecided
    <2> QED BY <1>8, <2>3, RequestOrders DEF CommandResumeNamed
  <1>9. CASE CommandRestartLearner
    <2> DEFINE own == latest[RunKey(plan)] # "none"
               entry == [plan.entries[plan.index] EXCEPT !.resume = own]
               entries == [plan.entries EXCEPT ![plan.index] = entry]
    <2>1. plan' = [plan EXCEPT !.entries = entries]
      BY <1>9 DEF CommandRestartLearner
    <2>2. Ready(plan) /\ plan \in Plan /\ plan.entries \in Seq(Entry)
      BY <1>9 DEF CommandRestartLearner, TypeInv, PlanReady, StageTypes, Busy, Ready, Plan
    <2> HIDE DEF own
    <2>3. ASSUME NEW i \in DOMAIN plan.entries
          PROVE  entries[i].result = plan.entries[i].result
      <3>1. plan.entries[i] \in Entry
        BY <2>2, ElementOfSeq, LenProperties
      <3> QED BY <3>1 DEF Entry
    <2>4. DOMAIN entries = DOMAIN plan.entries
      OBVIOUS
    <2> HIDE DEF entries
    <2>5. plan'.entries = entries /\ plan'.index = plan.index
      BY <2>1, <2>2 DEF Plan
    <2>6. UNCHANGED <<requested, state>>
      BY <1>9 DEF CommandRestartLearner, consoleVars
    <2> QED BY <2>3, <2>4, <2>5, <2>6 DEF Ordered, Poised, Worked, Undecided, Busy
  <1>10. CASE CommandUnpause \/ CommandPause
    BY <1>10, FrameOrders DEF CommandUnpause, CommandPause, planVars
  <1>11. CASE CommandCancel \/ CommandSkip
    BY <1>11, NoPlanIsUndecided, RequestOrders DEF CommandCancel, CommandSkip
  <1> QED BY <1>3, <1>4, <1>5, <1>6, <1>7, <1>8, <1>9, <1>10, <1>11 DEF ConsoleCommands

\* The actions that change neither.
LEMMA WaitingOrders ==
    ASSUME Ordered, pc = "hold" => Busy,
           \/ Pause \/ HoldResumes \/ HoldPolls \/ IdleTick \/ WorldTick \/ LocalDecisionSteps \/ WaitForLearner
           \/ SendStep \/ AcceptConnection \/ AcceptIdle \/ HelloLost \/ Hellos \/ Messages \/ ReceiveLost
           \/ ReceiveIdle \/ ReceivePumped \/ AfterDecision \/ BenchTick \/ Learners
    PROVE  Ordered' /\ (pc' = "hold" => Busy')
  <1> USE DEF consoleVars, planVars
  <1>1. CASE Pause
    BY <1>1, FrameOrders DEF Pause, Busy
  <1>2. CASE HoldResumes
    BY <1>2, FrameOrders DEF HoldResumes, Busy
  <1>3. CASE HoldPolls
    BY <1>3, FrameOrders DEF HoldPolls, Busy
  <1>4. CASE IdleTick \/ WorldTick \/ LocalDecisionSteps \/ WaitForLearner \/ SendStep
    BY <1>4, FrameOrders DEF IdleTick, WorldTick, LocalDecisionSteps, WaitForLearner, SendStep
  <1>5. CASE AcceptConnection \/ AcceptIdle \/ HelloLost \/ Hellos \/ Messages
    BY <1>5, FrameOrders DEF AcceptConnection, AcceptIdle, HelloLost, Hellos, HelloArrives, HelloRejected, Messages,
                             ReceiveActions, ReceiveRejected
  <1>6. CASE ReceiveLost \/ ReceiveIdle \/ ReceivePumped \/ AfterDecision
    BY <1>6, FrameOrders DEF ReceiveLost, ReceiveIdle, ReceivePumped, AfterDecision
  <1>7. CASE BenchTick
    <2>1. UNCHANGED <<consoleVars, planVars>> /\ pc' \in {"world", "skipLater"}
      BY <1>7 DEF BenchTick
    <2> QED BY <2>1, FrameOrders
  <1>8. CASE Learners
    <2>1. UNCHANGED <<pc, consoleVars, planVars>>
      BY <1>8 DEF Learners, LearnerConnects, LearnerSaves, LearnerFinishes, LearnerDies, HandConnects, HandLeaves
    <2> QED BY <2>1, FrameOrders DEF Busy
  <1> QED BY <1>1, <1>2, <1>3, <1>4, <1>5, <1>6, <1>7, <1>8

\* The inductive invariant behind PlanInOrder.
OrderInv == Ordered /\ (pc = "hold" => Busy)

LEMMA OrderInvHolds == Spec => []OrderInv
  <1>1. Init => OrderInv
    BY NoPlanIsUndecided DEF Init, OrderInv, Ordered, Busy, Poised
  <1>2. TypeInv /\ OrderInv /\ [Next]_vars => OrderInv'
    <2> SUFFICES ASSUME TypeInv, OrderInv, [Next]_vars
                 PROVE  OrderInv'
      OBVIOUS
    <2>1. CASE BeginTick \/ HoldAppliesRequest \/ LocalDecisionEnds \/ AcceptPumped \/ BenchTrialDone
      <3>1. pc' # "hold"
        BY <2>1 DEF BeginTick, HoldAppliesRequest, LocalDecisionEnds, AcceptPumped, BenchTrialDone
      <3> QED BY <2>1, <3>1, EndingOrders DEF OrderInv
    <2>2. CASE BenchSkipLater
      BY <2>2, SkipLaterOrders DEF OrderInv, BenchSkipLater
    <2>3. CASE ConsoleCommands
      <3>1. UNCHANGED <<pc, state>>
        BY <2>3 DEF ConsoleCommands, CommandStart, CommandFast, CommandRun, CommandBench, CommandUnpause,
                    CommandRestartLearner, CommandResumeLast, CommandResumeNamed, CommandPause, CommandCancel,
                    CommandSkip, OnlyRequests, planVars
      <3> QED BY <2>3, <3>1, CommandOrders DEF OrderInv, Busy
    <2>4. CASE RestartServer
      BY <2>4, NoPlanIsUndecided DEF RestartServer, OrderInv, Ordered, Busy, Poised, Worked, Undecided
    <2>5. CASE UNCHANGED vars
      BY <2>5, FrameOrders DEF vars, consoleVars, planVars, OrderInv, Busy
    <2> QED BY <2>1, <2>2, <2>3, <2>4, <2>5, WaitingOrders DEF Next, WorldThread, OrderInv
  <1> QED BY <1>1, <1>2, TypeInvHolds, PTL DEF Spec

(* The plan is worked off in order, with a benchmark or without, however its
   scenarios are started, skipped, passed over, cancelled or fail to start:
   exactly the entries before the running one have an outcome. BenchTick's
   erasing of later trials (AnimusForge.cpp, _plan.Entries.erase) never
   reaches the running entry or one that has an outcome. *)
THEOREM PlansRunInOrder == Spec => []PlanInOrder
  <1>1. TypeInv /\ OrderInv => PlanInOrder
    <2> SUFFICES ASSUME TypeInv, OrderInv, Busy
                 PROVE  /\ plan.index \in DOMAIN plan.entries
                        /\ \A i \in DOMAIN plan.entries : plan.entries[i].result # "None" <=> i < plan.index
      BY DEF PlanInOrder
    <2>1. plan.index \in DOMAIN plan.entries /\ plan \in Plan
      BY DEF TypeInv, PlanReady, StageTypes
    <2>2. plan.index \in Nat /\ \A i \in DOMAIN plan.entries : i \in Nat
      BY <2>1, LenProperties DEF Plan
    <2> QED BY <2>1, <2>2 DEF OrderInv, Ordered, Poised, Worked, Undecided
  <1> QED BY <1>1, OrderInvHolds, TypeInvHolds, PTL

-----------------------------------------------------------------------------
(* What is left behind when a stage, a benchmark or a plan ends.            *)

\* Whoever types `forge bench' cancels what runs (`cancelRunning'), and never a
\* benchmark that waits for its first tick.
NoEarlyCancel == "bench" \notin Commands \/ "cancel" \notin Commands

\* The entries of a benchmark's plan are trials, with settings of their own; those of any other have none.
TrialPlan(p) == ~p.limited /\ \A i \in DOMAIN p.entries : p.entries[i].envs # 0 /\ p.entries[i].threads # 0
StagePlan(p) == \A i \in DOMAIN p.entries : p.entries[i].envs = 0 /\ p.entries[i].threads = 0
Suits(p, bench) == IF bench THEN TrialPlan(p) ELSE StagePlan(p)
RealTrials(trials) == \A i \in DOMAIN trials : trials[i].threads # 0 /\ trials[i].envs # 0

\* A learner that finished by itself did so outside a benchmark, and its run holds its checkpoint.
FinishedIsSaved ==
    learnerStarted /\ Reaped(learner) = "exitedOk" => ~benching /\ latest[RunKey(plan)] = "own"

BenchInv ==
    /\ benching /\ ~Busy => request = "Start"
    /\ request = "Start" => Suits(requested, benching)
    /\ Busy => Suits(plan, benching)
    /\ ~benching => mapThreads = ConfiguredThreads
    /\ benching => RealTrials(benchTrials)
    /\ FinishedIsSaved

StageInv ==
    /\ request = "Start" => ~Busy
    /\ pc \in {"accept", "acceptPump", "hello", "recv", "recvPump"} => Busy
    /\ pc = "hold" <=> state = "Paused"
    /\ state \in {"Training", "Running"} => state = RunState(plan)
    /\ state = "Paused" => pausedFrom = RunState(plan)
    /\ pauseRequested => state \in {"Training", "Running"}
    /\ resumeRequested => state = "Paused"
    /\ pc = "skipLater" => benching /\ Busy
    /\ pc = "decided" /\ benching => Busy
    /\ benching => "bench" \in Commands
    /\ BenchInv
    /\ IdleHoldsNothing
    /\ LearnerServesStage

\* A context whose benchmark, if there is one, has trials to measure, and whose map threads belong to it.
Benched(c) ==
    /\ c.request # "Start"
    /\ ~c.benching => c.threads = ConfiguredThreads
    /\ c.benching => RealTrials(c.trials)
\* ... and that holds no connection, no learner and no pending pause or resume.
Quiet(c) == Benched(c) /\ ~IsRunning(c.learner) /\ c.client = "none" /\ ~c.pause /\ ~c.resume

\* The state after a stage or a plan ended, or one started.
Changed ==
    /\ request' = "Start" => state' = "Idle"
    /\ state' \in {"Idle", RunState(plan')}
    /\ ~pauseRequested' /\ ~resumeRequested'
    /\ BenchInv'
    /\ IdleHoldsNothing'
    /\ LearnerServesStage'

-----------------------------------------------------------------------------
(* Trials and their plans *)

LEMMA SameStagesSuit ==
    ASSUME NEW p, NEW q, NEW bench \in BOOLEAN, SameStages(p, q), Suits(p, bench)
    PROVE  Suits(q, bench)
  BY DEF SameStages, Suits, TrialPlan, StagePlan

LEMMA BenchPlanSuits ==
    ASSUME NEW scenario, NEW trials, RealTrials(trials)
    PROVE  TrialPlan(BenchPlan(scenario, trials))
  <1> DEFINE entries == [i \in DOMAIN trials |-> BenchEntry(scenario, trials[i])]
             remote == trials # <<>> /\ trials[1].learner
  <1>1. ASSUME NEW i \in DOMAIN entries
        PROVE  entries[i].envs # 0 /\ entries[i].threads # 0
    BY DEF BenchEntry, RealTrials
  <1> HIDE DEF entries, remote
  <1>2. BenchPlan(scenario, trials) = [NoPlan EXCEPT !.entries = entries, !.remote = remote]
    BY DEF BenchPlan, entries, remote
  <1>3. BenchPlan(scenario, trials).entries = entries /\ ~BenchPlan(scenario, trials).limited
    BY <1>2 DEF NoPlan
  <1> QED BY <1>1, <1>3 DEF TrialPlan

\* The settings that run again with the learner are settings of trials that ran.
LEMMA LearnerTrialsAreReal ==
    ASSUME NEW trials \in Seq(Trial), RealTrials(trials), NEW best \in Fastest(trials)
    PROVE  RealTrials(LearnerTrials(trials, best))
  <1>1. ASSUME NEW i \in DOMAIN best
        PROVE  LearnerTrials(trials, best)[i].threads # 0 /\ LearnerTrials(trials, best)[i].envs # 0
    <2>1. best[i] \in Measured(trials)
      BY DEF Fastest
    <2>2. best[i] \in 1 .. Len(trials)
      BY <2>1 DEF Measured
    <2>3. trials[best[i]] \in Trial /\ trials[best[i]].threads # 0 /\ trials[best[i]].envs # 0
      BY <2>2, ElementOfSeq, LenProperties DEF RealTrials
    <2>4. LearnerTrials(trials, best)[i] = [trials[best[i]] EXCEPT !.learner = TRUE, !.measured = FALSE,
                                                                   !.noted = FALSE]
      BY DEF LearnerTrials
    <2> QED BY <2>3, <2>4 DEF Trial
  <1>2. DOMAIN LearnerTrials(trials, best) = DOMAIN best
    BY DEF LearnerTrials
  <1> QED BY <1>1, <1>2 DEF RealTrials

LEMMA MoreRealTrials ==
    ASSUME NEW s \in Seq(Trial), NEW t \in Seq(Trial), RealTrials(s), RealTrials(t)
    PROVE  RealTrials(s \o t)
  <1>1. /\ Len(s) \in Nat /\ Len(t) \in Nat /\ DOMAIN s = 1 .. Len(s) /\ DOMAIN t = 1 .. Len(t)
        /\ s \o t \in Seq(Trial) /\ Len(s \o t) = Len(s) + Len(t)
    BY ConcatProperties, LenProperties
  <1>2. DOMAIN (s \o t) = 1 .. Len(s) + Len(t)
    BY <1>1, LenProperties
  <1>3. ASSUME NEW i \in 1 .. Len(s) + Len(t)
        PROVE  (s \o t)[i].threads # 0 /\ (s \o t)[i].envs # 0
    <2>1. (s \o t)[i] = IF i <= Len(s) THEN s[i] ELSE t[i - Len(s)]
      BY ConcatProperties
    <2>2. i <= Len(s) => i \in DOMAIN s
      BY <1>1
    <2>3. ~(i <= Len(s)) => i - Len(s) \in DOMAIN t
      BY <1>1
    <2> QED BY <2>1, <2>2, <2>3 DEF RealTrials
  <1> QED BY <1>2, <1>3 DEF RealTrials

\* BenchPlanEnded asks for a plan of trials, or ends the benchmark and gives the map threads back.
LEMMA BenchPlanEndedSettles ==
    ASSUME NEW c, Sound(c), c.benching, Quiet(c), NEW d \in BenchPlanEnded(c)
    PROVE  /\ ~IsRunning(d.learner) /\ d.client = "none" /\ ~d.pause /\ ~d.resume
           /\ d.benching => d.request = "Start" /\ TrialPlan(d.requested) /\ RealTrials(d.trials)
           /\ ~d.benching => d.request # "Start" /\ d.threads = ConfiguredThreads
  <1>1. c \in Contexts /\ c.trials \in Seq(Trial)
    BY DEF Sound, Contexts
  <1>2. CASE c.phase \/ LearnerTop = 0 \/ Measured(c.trials) = {}
    <2>1. d = BenchEnd(c)
      BY <1>2 DEF BenchPlanEnded
    <2> QED BY <1>1, <2>1 DEF BenchEnd, Contexts, Quiet, Benched
  <1>3. CASE ~(c.phase \/ LearnerTop = 0 \/ Measured(c.trials) = {})
    <2>1. PICK best \in Fastest(c.trials) : d = LearnerPhase(c, LearnerTrials(c.trials, best))
      BY <1>3 DEF BenchPlanEnded
    <2> DEFINE again == LearnerTrials(c.trials, best)
    <2>2. again \in Seq(Trial) /\ RealTrials(again)
      BY <1>1, <1>3, FastestTrials, LearnerTrialsAreReal DEF Quiet, Benched
    <2> HIDE DEF again
    <2>3. TrialPlan(BenchPlan(benchScenario, again)) /\ RealTrials(c.trials \o again)
      BY <1>1, <2>2, BenchPlanSuits, MoreRealTrials DEF Quiet, Benched
    <2>4. d = LearnerPhase(c, again)
      BY <2>1 DEF again
    <2>5. /\ d.learner = c.learner /\ d.client = c.client /\ d.pause = c.pause /\ d.resume = c.resume
          /\ d.benching = c.benching /\ d.request = "Start" /\ d.requested = BenchPlan(benchScenario, again)
          /\ d.trials = c.trials \o again
      BY <1>1, <2>4 DEF LearnerPhase, Contexts
    <2> QED BY <2>3, <2>5 DEF Quiet
  <1> QED BY <1>2, <1>3

-----------------------------------------------------------------------------
(* Stages and plans that end or start *)

LEMMA EndPlanChanges ==
    ASSUME NEW p, NEW c, Sound(c), Quiet(c), EndPlan(p, c)
    PROVE  Changed /\ (benching' => c.benching)
  <1>1. PICK d \in IF c.benching THEN BenchPlanEnded(c) ELSE {c} : Settle(d)
    BY DEF EndPlan
  <1>2. /\ ~IsRunning(d.learner) /\ d.client = "none" /\ ~d.pause /\ ~d.resume
        /\ d.benching => d.request = "Start" /\ TrialPlan(d.requested) /\ RealTrials(d.trials) /\ c.benching
        /\ ~d.benching => d.request # "Start" /\ d.threads = ConfiguredThreads
    BY <1>1, BenchPlanEndedSettles DEF Quiet, Benched
  <1>3. d.benching \in BOOLEAN
    BY <1>1, BenchPlanEndedIsSound DEF Sound, Contexts
  <1>4. state' = "Idle" /\ ~learnerStarted'
    BY DEF EndPlan
  <1>5. BenchInv'
    BY <1>1, <1>2, <1>3, <1>4 DEF Settle, BenchInv, FinishedIsSaved, Suits, Busy
  <1> QED BY <1>1, <1>2, <1>4, <1>5 DEF Settle, Changed, IdleHoldsNothing, LearnerServesStage, Busy

\* A learner is started for the stage that starts, or none runs.
LEMMA StartStageChanges ==
    ASSUME NEW p, Ready(p), NEW c, Sound(c), Quiet(c), Suits(p, c.benching), StartStage(p, c)
    PROVE  Changed /\ (benching' => c.benching)
  <1> DEFINE files == [c.files EXCEPT ![RunKey(p)] = IF @ = "none" THEN "none"
                                                     ELSE IF Current(p).resume THEN "own" ELSE "earlier"]
             threads == IF Current(p).threads # 0 THEN Current(p).threads ELSE c.threads
             after(started) == [c EXCEPT !.files = files, !.threads = threads, !.ticks = 0, !.since = 0,
                                         !.learner = IF started THEN "starting" ELSE @]
  <1>1. PICK started \in IF p.remote /\ AutoStart /\ ~IsRunning(c.learner) THEN BOOLEAN ELSE {FALSE} :
           /\ learnerStarted' = started
           /\ learnerArgs' = IF started THEN ArgsFor(p) ELSE learnerArgs
           /\ Settle(after(started))
    BY DEF StartStage
  <1>2. state' = RunState(p) /\ plan' = p
    BY DEF StartStage
  <1>3. ~c.benching => threads = ConfiguredThreads
    BY DEF Suits, StagePlan, Ready, Current, Quiet, Benched
  <1> HIDE DEF files, threads
  <1>4. /\ after(started).learner = IF started THEN "starting" ELSE c.learner
        /\ after(started).client = "none" /\ ~after(started).pause /\ ~after(started).resume
        /\ after(started).request = c.request /\ after(started).benching = c.benching
        /\ after(started).threads = threads /\ after(started).trials = c.trials
    BY DEF Sound, Contexts, Quiet
  <1> HIDE DEF after
  <1>5. /\ learner' = IF started THEN "starting" ELSE c.learner
        /\ client' = "none" /\ ~pauseRequested' /\ ~resumeRequested' /\ benching' = c.benching
        /\ request' = c.request /\ mapThreads' = threads /\ benchTrials' = c.trials
    BY <1>1, <1>4 DEF Settle
  <1>6. IsRunning(learner') => started /\ p.remote
    BY <1>1, <1>5 DEF Quiet
  <1>7. LearnerServesStage'
    BY <1>1, <1>2, <1>6 DEF LearnerServesStage, Busy, RunState
  <1>8. state' # "Idle"
    BY <1>2 DEF RunState
  <1>9. FinishedIsSaved'
    BY <1>1, <1>5 DEF FinishedIsSaved, Reaped
  <1>10. BenchInv'
    BY <1>2, <1>3, <1>5, <1>8, <1>9 DEF BenchInv, Busy, Quiet, Benched
  <1> QED BY <1>2, <1>5, <1>7, <1>8, <1>10 DEF Changed, IdleHoldsNothing, Busy, Quiet, Benched

LEMMA FailToStartChanges ==
    ASSUME NEW p, Ready(p), NEW c, Sound(c), Benched(c), Suits(p, c.benching), FailToStart(p, c)
    PROVE  Changed /\ (benching' => c.benching)
  <1> DEFINE own == IF Current(p).threads # 0 THEN {Current(p).threads} ELSE {}
             failed == SetResult(p, p.index, "Failed")
  <1>1. PICK threads \in {c.threads} \cup own, d \in Torn(c, TRUE) :
           EndPlan(failed, [d EXCEPT !.threads = threads])
    BY DEF FailToStart
  <1>2. threads \in Nat
    BY <1>1, ReadyCurrent DEF Entry, Sound, Contexts
  <1>3. ~c.benching => threads = ConfiguredThreads
    BY <1>1 DEF Suits, StagePlan, Ready, Current, Benched
  <1>4. Sound(d) /\ Quiet(d) /\ d.benching = c.benching
    <2>1. d \in Torn(c, TRUE) /\ TRUE \in BOOLEAN
      BY <1>1
    <2>2. /\ Sound(d) /\ d.client = "none" /\ ~d.pause /\ ~d.resume /\ ~IsRunning(d.learner)
          /\ d.benching = c.benching /\ d.request = c.request /\ d.threads = c.threads /\ d.trials = c.trials
      BY <2>1, TornIsSound
    <2> QED BY <2>2 DEF Quiet, Benched
  <1> DEFINE e == [d EXCEPT !.threads = threads]
  <1>5. /\ e \in Contexts /\ e.request = d.request /\ e.requested = d.requested /\ e.benching = d.benching
        /\ e.learner = d.learner /\ e.client = d.client /\ e.pause = d.pause /\ e.resume = d.resume
        /\ e.trials = d.trials /\ e.threads = threads
    BY <1>2, <1>4 DEF Sound, Contexts
  <1> HIDE DEF e, failed
  <1>6. Sound(e) /\ Quiet(e)
    BY <1>3, <1>4, <1>5 DEF Sound, Quiet, Benched
  <1> QED BY <1>1, <1>4, <1>5, <1>6, EndPlanChanges DEF e

LEMMA StartCurrentChanges ==
    ASSUME NEW p, Ready(p), NEW c, Sound(c), Quiet(c), Suits(p, c.benching), StartCurrent(p, c)
    PROVE  Changed /\ (benching' => c.benching)
  <1>1. PICK next \in p.index .. Len(p.entries) + 1 :
           \/ EndPlan(PassOver(p, next), c)
           \/ StartStage(PassOver(p, next), c)
           \/ FailToStart(PassOver(p, next), c)
    BY DEF StartCurrent
  <1> DEFINE q == PassOver(p, next)
  <1>2. Ready(q) /\ SameStages(p, q)
    BY PassedOverPlan, PassedOverEntries
  <1> HIDE DEF q
  <1>3. Suits(q, c.benching)
    BY <1>2, SameStagesSuit DEF Sound, Contexts
  <1>4. EndPlan(q, c) \/ StartStage(q, c) \/ FailToStart(q, c)
    BY <1>1 DEF q
  <1> QED BY <1>2, <1>3, <1>4, EndPlanChanges, StartStageChanges, FailToStartChanges DEF Quiet

\* FinishCurrent stops the learner, or has none to stop: the next stage starts without one.
LEMMA FinishCurrentChanges ==
    ASSUME NEW outcome \in Outcomes, NEW c, Sound(c), Benched(c), FinishCurrent(outcome, c),
           outcome = "Done" => benching \/ ~IsRunning(c.learner), Ready(plan), Suits(plan, c.benching),
           benching \in BOOLEAN
    PROVE  Changed /\ (benching' => c.benching)
  <1> DEFINE decided == SetResult(plan, plan.index, outcome)
             next == [decided EXCEPT !.index = @ + 1]
  <1>1. PICK d \in Torn(c, StopsLearner(outcome)) :
           IF plan.index < Len(plan.entries) THEN StartCurrent(next, d) ELSE EndPlan(decided, d)
    BY DEF FinishCurrent
  <1>2. /\ Ready(decided) /\ decided.index = plan.index /\ Len(decided.entries) = Len(plan.entries)
        /\ SameStages(plan, decided)
    BY DecidedPlan, DecidedEntries
  <1>3. Sound(d) /\ Quiet(d) /\ d.benching = c.benching
    <2>1. StopsLearner(outcome) \in BOOLEAN
      BY Zenon DEF StopsLearner
    <2>2. StopsLearner(outcome) \/ ~IsRunning(c.learner)
      BY DEF StopsLearner
    <2> QED BY <1>1, <2>1, <2>2, TornIsSound DEF Quiet, Benched
  <1> HIDE DEF decided
  <1>4. CASE plan.index < Len(plan.entries)
    <2>1. plan.index \in Nat /\ Len(decided.entries) \in Nat /\ DOMAIN decided.entries = 1 .. Len(decided.entries)
          /\ decided \in Plan /\ decided.entries \in Seq(Entry)
      BY <1>2, LenProperties DEF Ready, Plan
    <2>2. next.entries = decided.entries /\ next.index = plan.index + 1 /\ next \in Plan
          /\ next.limited = decided.limited /\ next.remote = decided.remote /\ next.fast = decided.fast
      BY <1>2, <2>1 DEF Plan
    <2> HIDE DEF next
    <2>3. Ready(next)
      BY <1>2, <1>4, <2>1, <2>2 DEF Ready
    <2>4. SameStages(plan, next)
      BY <1>2, <2>2 DEF SameStages
    <2>5. Suits(next, d.benching)
      BY <1>3, <2>4, SameStagesSuit DEF Sound, Contexts
    <2> QED BY <1>1, <1>3, <1>4, <2>3, <2>5, StartCurrentChanges DEF next
  <1>5. CASE ~(plan.index < Len(plan.entries))
    BY <1>1, <1>3, <1>5, EndPlanChanges
  <1> QED BY <1>4, <1>5


-----------------------------------------------------------------------------
(* The actions *)

\* What becomes of a request: the stage or the plan changes, or an idle sim forgets it, or there is none.
Forgotten ==
    /\ request = "None" \/ (state = "Idle" /\ request # "Start")
    /\ request' = "None"
    /\ UNCHANGED <<state, plan, learnerStarted, learnerArgs, learner, client, pauseRequested, resumeRequested,
                   latest, mapThreads, benching, benchTrials>>

LEMMA ApplyRequestChanges ==
    ASSUME TypeInv, StageInv, ApplyRequest
    PROVE  (Changed /\ (benching' => benching)) \/ Forgotten
  <1> DEFINE c == [Midway EXCEPT !.request = "None"]
  <1>1. /\ c \in Contexts /\ Sound(c) /\ c.request = "None" /\ c.learner = learner /\ c.client = client
        /\ c.pause = pauseRequested /\ c.resume = resumeRequested /\ c.benching = benching
        /\ c.files = latest /\ c.threads = mapThreads /\ c.trials = benchTrials /\ benching \in BOOLEAN
    <2>1. Midway \in Contexts /\ Sound(c)
      BY MidwayIsSound DEF TypeInv, Sound
    <2>2. /\ Midway.learner = learner /\ Midway.client = client
          /\ Midway.pause = pauseRequested /\ Midway.resume = resumeRequested
          /\ Midway.benching = benching /\ Midway.files = latest /\ Midway.threads = mapThreads
          /\ Midway.trials = benchTrials
      BY DEF Midway
    <2> HIDE DEF Midway
    <2> QED BY <2>1, <2>2 DEF Sound, Contexts
  <1>2. Busy => Ready(plan) /\ Suits(plan, benching)
    BY DEF TypeInv, PlanReady, StageTypes, Ready, StageInv, BenchInv
  <1>3. Benched(c)
    BY <1>1 DEF Benched, StageInv, BenchInv
  <1>4. CASE request = "Start"
    <2> DEFINE first == [requested EXCEPT !.index = 1]
               e == [Midway EXCEPT !.request = "None", !.requested = NoPlan]
    <2>1. StartCurrent(first, e)
      BY <1>4 DEF ApplyRequest, ApplyStart
    <2>2. requested \in Plan /\ requested.entries \in Seq(Entry) /\ requested.entries # <<>>
      BY <1>4 DEF TypeInv, SettledTypes, Requestable, Plan
    <2>3. first \in Plan /\ first.entries = requested.entries /\ first.index = 1 /\ first.limited = requested.limited
      BY <2>2 DEF Plan
    <2>4. Sound(e)
      BY MidwayIsSound DEF TypeInv
    <2>5. /\ e.request = "None" /\ e.learner = learner /\ e.client = client /\ e.pause = pauseRequested
          /\ e.resume = resumeRequested /\ e.benching = benching /\ e.threads = mapThreads /\ e.trials = benchTrials
      BY DEF Midway
    <2> HIDE DEF first, e
    <2>6. Ready(first)
      BY <2>2, <2>3, EmptySeq, LenProperties DEF Ready
    <2>7. Suits(first, e.benching)
      BY <1>4, <2>3, <2>5 DEF StageInv, BenchInv, Suits, TrialPlan, StagePlan
    <2>8. ~IsRunning(learner) /\ client = "none" /\ ~pauseRequested /\ ~resumeRequested
      BY <1>4 DEF StageInv, IdleHoldsNothing
    <2>9. Quiet(e)
      BY <2>5, <2>8 DEF Quiet, Benched, StageInv, BenchInv
    <2> QED BY <2>1, <2>4, <2>5, <2>6, <2>7, <2>9, StartCurrentChanges
  <1>5. CASE request \in {"Cancel", "Skip"} /\ state = "Idle"
    <2>1. Settle(c) /\ UNCHANGED <<state, plan, lastPlan, learnerStarted, learnerArgs>>
      BY <1>5 DEF ApplyRequest, ApplyCancel, ApplySkip
    <2> HIDE DEF c
    <2> QED BY <1>1, <1>5, <2>1 DEF Settle, Forgotten
  <1>6. CASE request = "Cancel" /\ state # "Idle"
    <2> DEFINE e == IF benching THEN BenchEnd(c) ELSE c
    <2>1. PICK d \in Torn(e, TRUE) : EndPlan(SetResult(plan, plan.index, "Cancelled"), d)
      BY <1>6 DEF ApplyRequest, ApplyCancel
    <2>2. Sound(BenchEnd(c)) /\ ~BenchEnd(c).benching /\ BenchEnd(c).request = "None"
          /\ BenchEnd(c).threads = ConfiguredThreads
      <3>1. Sound(BenchEnd(c)) /\ BenchEnd(c).request = "None"
        <4> HIDE DEF c
        <4> QED BY <1>1, BenchEndIsSound
      <3>2. ~BenchEnd(c).benching /\ BenchEnd(c).threads = ConfiguredThreads
        <4> HIDE DEF c
        <4> QED BY <1>1 DEF BenchEnd, Contexts
      <3> QED BY <3>1, <3>2
    <2> HIDE DEF c
    <2>3. Sound(e) /\ Benched(e) /\ ~e.benching
      BY <1>1, <1>3, <2>2 DEF Benched
    <2> HIDE DEF e
    <2>4. /\ Sound(d) /\ d.client = "none" /\ ~d.pause /\ ~d.resume /\ ~IsRunning(d.learner)
          /\ d.benching = e.benching /\ d.request = e.request /\ d.threads = e.threads /\ d.trials = e.trials
      BY <2>1, <2>3, TornIsSound
    <2>5. Quiet(d) /\ ~d.benching
      BY <2>3, <2>4 DEF Quiet, Benched
    <2> QED BY <2>1, <2>4, <2>5, EndPlanChanges
  <1>7. CASE request = "Skip" /\ state # "Idle"
    <2>1. FinishCurrent("Skipped", c)
      BY <1>7 DEF ApplyRequest, ApplySkip
    <2>2. "Skipped" \in Outcomes /\ "Skipped" # "Done"
      BY DEF Outcomes
    <2> HIDE DEF c
    <2> QED BY <1>1, <1>2, <1>3, <1>7, <2>1, <2>2, FinishCurrentChanges DEF Busy
  <1>8. CASE request \notin {"Start", "Cancel", "Skip"}
    <2>1. UNCHANGED <<pauseRequested, resumeRequested, request, state, plan, learnerStarted, learnerVars, client,
                      latest, mapThreads, benching, benchTrials>>
      BY <1>8 DEF ApplyRequest
    <2>2. request = "None"
      BY <1>8 DEF TypeInv, SettledTypes, Requests
    <2> QED BY <2>1, <2>2 DEF learnerVars, Forgotten
  <1> QED BY <1>4, <1>5, <1>6, <1>7, <1>8

\* After a change the world thread is between its waits, or at the end of one of an ordinary stage.
LEMMA ChangedSuffices ==
    ASSUME StageInv, Changed, benching' => benching, pc' \in {"world", "tick"} \/ (pc' = "decided" /\ ~benching')
    PROVE  StageInv'
  BY DEF Changed, StageInv, IdleHoldsNothing, LearnerServesStage, Busy, RunState

\* A finished learner's run holds its checkpoint for as long as nothing but its being reaped happens.
LEMMA FinishedStays ==
    ASSUME FinishedIsSaved, UNCHANGED <<learnerStarted, plan, latest, benching>>,
           learner' \in {learner, Reaped(learner)}
    PROVE  FinishedIsSaved'
  BY DEF FinishedIsSaved, Reaped

LEMMA SameBenchSuffices ==
    ASSUME BenchInv, UNCHANGED <<plan, request, requested, mapThreads, benching, benchTrials>>, Busy' <=> Busy,
           FinishedIsSaved'
    PROVE  BenchInv'
  BY DEF BenchInv

\* A learner that is reaped, or has nothing to do with the world thread's state, serves the stage it served.
LEMMA SameStageSuffices ==
    ASSUME StageInv, BenchInv', UNCHANGED <<state, plan, learnerStarted, learnerArgs>>,
           IsRunning(learner') => IsRunning(learner),
           ~Busy => client' = client /\ pauseRequested' = pauseRequested /\ resumeRequested' = resumeRequested,
           request' = "Start" => request = "Start" \/ ~Busy,
           pc' \in {"accept", "acceptPump", "hello", "recv", "recvPump"} => Busy,
           pc' = "hold" <=> pc = "hold", pausedFrom' = pausedFrom,
           pc' = "skipLater" => benching' /\ Busy,
           benching' => "bench" \in Commands /\ (pc' = "decided" => Busy),
           pauseRequested' => state \in {"Training", "Running"}, resumeRequested' => state = "Paused"
    PROVE  StageInv'
  BY DEF StageInv, IdleHoldsNothing, LearnerServesStage, Busy

LEMMA EndingChanges ==
    ASSUME TypeInv, StageInv,
           BeginTick \/ HoldAppliesRequest \/ LocalDecisionEnds \/ AcceptPumped \/ BenchTrialDone
    PROVE  StageInv'
  <1>1. CASE BeginTick
    <2>1. ApplyRequest /\ pc = "world" /\ pc' = "tick" /\ pausedFrom' = pausedFrom
      BY <1>1 DEF BeginTick, ApplyRequest
    <2>2. CASE Changed /\ (benching' => benching)
      BY <2>1, <2>2, ChangedSuffices
    <2>3. CASE Forgotten
      <3>1. FinishedIsSaved'
        BY <2>3, FinishedStays DEF Forgotten, StageInv, BenchInv
      <3>2. BenchInv'
        BY <2>3, <3>1 DEF Forgotten, StageInv, BenchInv, Busy
      <3> QED BY <2>1, <2>3, <3>2, SameStageSuffices DEF Forgotten, StageInv
    <2> QED BY <2>1, <2>2, <2>3, ApplyRequestChanges
  <1>2. CASE HoldAppliesRequest
    <2>1. ApplyRequest /\ request # "None" /\ state # "Idle" /\ pc' = "world"
      BY <1>2 DEF HoldAppliesRequest, StageInv
    <2>2. Changed /\ (benching' => benching)
      BY <2>1, ApplyRequestChanges DEF Forgotten
    <2> QED BY <2>1, <2>2, ChangedSuffices
  <1>3. CASE LocalDecisionEnds
    <2> DEFINE c == [Midway EXCEPT !.ticks = NextTicks, !.since = 0]
    <2>1. Ready(plan) /\ ticks \in 0 .. MaxTicks /\ benching \in BOOLEAN
      BY <1>3 DEF LocalDecisionEnds, Decides, Ticking, TypeInv, PlanReady, Busy, StageTypes, SettledTypes, Ready
    <2>2. Sound(c)
      BY <2>1, CountTypes, MidwayIsSound DEF TypeInv
    <2>3. FinishCurrent("Done", c) /\ pc' = "decided"
      BY <1>3 DEF LocalDecisionEnds
    <2>4. /\ ~IsRunning(learner) /\ request # "Start" /\ Suits(plan, benching)
          /\ ~benching /\ mapThreads = ConfiguredThreads
      BY <1>3 DEF LocalDecisionEnds, Decides, Ticking, StageInv, BenchInv, Suits, TrialPlan, LearnerServesStage, Busy
    <2>5. c.learner = learner /\ c.request = request /\ c.benching = benching /\ c.threads = mapThreads
      BY DEF Midway
    <2> HIDE DEF c
    <2>6. Benched(c)
      BY <2>4, <2>5 DEF Benched
    <2>7. Changed /\ (benching' => c.benching)
      BY <2>1, <2>2, <2>3, <2>4, <2>5, <2>6, FinishCurrentChanges DEF Outcomes
    <2>8. ~benching'
      BY <2>4, <2>5, <2>7, Zenon
    <2> QED BY <2>3, <2>7, <2>8, ChangedSuffices
  <1>4. CASE AcceptPumped /\ LearnerFinished
    <2>1. Ready(plan) /\ benching \in BOOLEAN
      BY <1>4 DEF AcceptPumped, TypeInv, PlanReady, StageTypes, SettledTypes, Ready
    <2>2. FinishCurrent("Done", Midway) /\ pc' = "decided"
      BY <1>4 DEF AcceptPumped
    <2>3. ~benching
      BY <1>4 DEF LearnerFinished, StageInv, BenchInv, FinishedIsSaved, Reaped
    <2>4. ~IsRunning(learner) /\ request # "Start" /\ Suits(plan, benching) /\ mapThreads = ConfiguredThreads
      BY <1>4, <2>3 DEF LearnerFinished, IsRunning, AcceptPumped, StageInv, BenchInv
    <2>5. /\ Midway.learner = learner /\ Midway.request = request /\ Midway.benching = benching
          /\ Midway.threads = mapThreads
      BY DEF Midway
    <2>6. Benched(Midway)
      BY <2>3, <2>4, <2>5 DEF Benched
    <2>7. Changed /\ (benching' => Midway.benching)
      BY <2>1, <2>2, <2>4, <2>5, <2>6, MidwayIsSound, FinishCurrentChanges DEF TypeInv, Outcomes
    <2>8. ~benching'
      BY <2>3, <2>5, <2>7, Zenon
    <2> QED BY <2>2, <2>7, <2>8, ChangedSuffices
  <1>5. CASE AcceptPumped /\ ~LearnerFinished
    <2>1. UNCHANGED <<consoleVars, planVars, learnerVars, client, latest, benchVars>> /\ pc = "acceptPump"
          /\ pc' \in {"decided", "accept"}
      BY <1>5 DEF AcceptPumped
    <2>2. BenchInv'
      BY <2>1, FinishedStays, SameBenchSuffices
         DEF StageInv, BenchInv, Busy, consoleVars, planVars, learnerVars, benchVars
    <2> QED BY <2>1, <2>2, SameStageSuffices DEF StageInv, consoleVars, planVars, learnerVars, benchVars
  <1>6. CASE BenchTrialDone
    <2> DEFINE c == [Midway EXCEPT !.trial = @ + 1]
    <2>1. Ready(plan) /\ benching /\ benching \in BOOLEAN
      BY <1>6 DEF BenchTrialDone, TypeInv, PlanReady, StageTypes, SettledTypes, StageInv, Ready
    <2>2. Sound(c)
      BY MidwayIsSound DEF TypeInv
    <2>3. FinishCurrent("Done", c) /\ pc' = "world"
      BY <1>6 DEF BenchTrialDone
    <2>4. request # "Start" /\ Suits(plan, benching) /\ RealTrials(benchTrials)
      BY <1>6, <2>1 DEF BenchTrialDone, StageInv, BenchInv
    <2>5. /\ c.learner = learner /\ c.request = request /\ c.benching = benching /\ c.trials = benchTrials
      BY DEF Midway
    <2> HIDE DEF c
    <2>6. Benched(c)
      BY <2>1, <2>4, <2>5 DEF Benched
    <2>7. Changed /\ (benching' => c.benching)
      BY <2>1, <2>2, <2>3, <2>4, <2>5, <2>6, FinishCurrentChanges DEF Outcomes
    <2> QED BY <2>1, <2>3, <2>7, ChangedSuffices
  <1> QED BY <1>1, <1>2, <1>3, <1>4, <1>5, <1>6

LEMMA ReapedRuns == \A s : IsRunning(Reaped(s)) => IsRunning(s)
  BY DEF IsRunning, Reaped

LEMMA WaitingKeeps ==
    ASSUME StageInv, pc # "hold",
           \/ IdleTick \/ WorldTick \/ LocalDecisionSteps \/ WaitForLearner \/ SendStep
           \/ AcceptConnection \/ AcceptIdle \/ HelloLost \/ HelloArrives \/ HelloRejected
           \/ ReceiveActions \/ ReceiveRejected \/ ReceiveLost \/ ReceiveIdle \/ ReceivePumped \/ AfterDecision
    PROVE  StageInv'
  <1> USE DEF consoleVars, planVars, learnerVars, clockVars, benchVars
  <1>1. /\ UNCHANGED <<state, plan, learnerStarted, learnerArgs, pauseRequested, resumeRequested, request, requested,
                       pausedFrom, latest, mapThreads, benching, benchTrials>>
        /\ learner' \in {learner, Reaped(learner)}
        /\ pc' \notin {"hold", "skipLater"}
    BY DEF IdleTick, WorldTick, LocalDecisionSteps, WaitForLearner, SendStep, Polled, AcceptConnection, AcceptIdle,
           HelloLost, HelloArrives, HelloRejected, ReceiveActions, ReceiveRejected, ReceiveLost, ReceiveIdle,
           ReceivePumped, AfterDecision
  <1>2. /\ ~Busy => client' = client
        /\ pc' \in {"accept", "acceptPump", "hello", "recv", "recvPump", "decided"} => Busy
    BY DEF IdleTick, WorldTick, LocalDecisionSteps, WaitForLearner, SendStep, Decides, Ticking, AcceptConnection,
           AcceptIdle, HelloLost, HelloArrives, HelloRejected, ReceiveActions, ReceiveRejected, ReceiveLost,
           ReceiveIdle, ReceivePumped, AfterDecision, StageInv, Busy
  <1>3. IsRunning(learner') => IsRunning(learner)
    BY <1>1, ReapedRuns
  <1>4. BenchInv'
    BY <1>1, FinishedStays, SameBenchSuffices DEF StageInv, BenchInv, Busy
  <1> QED BY <1>1, <1>2, <1>3, <1>4, SameStageSuffices DEF StageInv

LEMMA PausingKeeps ==
    ASSUME StageInv, Pause \/ HoldResumes \/ HoldPolls
    PROVE  StageInv'
  <1> USE DEF consoleVars, planVars, learnerVars, clockVars, benchVars
  <1>1. CASE Pause
    <2>1. BenchInv'
      BY <1>1, FinishedStays, SameBenchSuffices DEF Pause, StageInv, BenchInv, Busy
    <2> QED BY <1>1, <2>1 DEF Pause, StageInv, IdleHoldsNothing, LearnerServesStage, Busy
  <1>2. CASE HoldResumes
    <2>1. state = "Paused" /\ state' = RunState(plan)
      BY <1>2 DEF HoldResumes, StageInv
    <2>2. BenchInv'
      BY <1>2, <2>1, FinishedStays, SameBenchSuffices DEF HoldResumes, StageInv, BenchInv, Busy, RunState
    <2> QED BY <1>2, <2>1, <2>2 DEF HoldResumes, StageInv, IdleHoldsNothing, LearnerServesStage, Busy, RunState
  <1>3. CASE HoldPolls
    <2>1. IsRunning(learner') => IsRunning(learner)
      BY <1>3, ReapedRuns DEF HoldPolls
    <2>2. BenchInv'
      BY <1>3, FinishedStays, SameBenchSuffices DEF HoldPolls, StageInv, BenchInv, Busy
    <2> QED BY <1>3, <2>1, <2>2, SameStageSuffices DEF HoldPolls, StageInv, Busy
  <1> QED BY <1>1, <1>2, <1>3

\* A measured trial has the envs of the plan's running entry, which are its own; a trial that is dropped keeps its.
LEMMA MeasuredTrialsAreReal ==
    ASSUME NEW trials \in Seq(Trial), RealTrials(trials), NEW t, NEW envs \in Nat \ {0}
    PROVE  /\ RealTrials([trials EXCEPT ![t].measured = TRUE, ![t].envs = envs])
           /\ RealTrials([trials EXCEPT ![t].noted = TRUE])
  <1> DEFINE timed == [[trials[t] EXCEPT !.measured = TRUE] EXCEPT !.envs = envs]
             noted == [trials[t] EXCEPT !.noted = TRUE]
  <1>1. ASSUME NEW i \in DOMAIN trials
        PROVE  trials[i] \in Trial /\ trials[i].threads # 0 /\ trials[i].envs # 0
    BY ElementOfSeq, LenProperties DEF RealTrials
  <1>2. t \in DOMAIN trials => timed.threads # 0 /\ timed.envs # 0 /\ noted.threads # 0 /\ noted.envs # 0
    BY <1>1 DEF Trial
  <1>3. /\ [trials EXCEPT ![t].measured = TRUE, ![t].envs = envs] = [trials EXCEPT ![t] = timed]
        /\ [trials EXCEPT ![t].noted = TRUE] = [trials EXCEPT ![t] = noted]
    <2>1. trials = [i \in DOMAIN trials |-> trials[i]]
      BY LenProperties
    <2> QED BY <2>1
  <1> HIDE DEF timed, noted
  <1> QED BY <1>1, <1>2, <1>3 DEF RealTrials

LEMMA BenchKeeps ==
    ASSUME TypeInv, StageInv, BenchTick \/ BenchSkipLater
    PROVE  StageInv'
  <1> USE DEF consoleVars, planVars, learnerVars, clockVars
  <1>1. benching /\ Busy /\ Ready(plan) /\ TrialPlan(plan) /\ benchTrials \in Seq(Trial) /\ RealTrials(benchTrials)
    <2>1. benching /\ Busy
      BY DEF BenchTick, BenchSkipLater, StageInv
    <2> QED BY <2>1 DEF StageInv, BenchInv, Suits, TypeInv, PlanReady, StageTypes, SettledTypes, Ready
  <1>2. Current(plan) \in Entry /\ Current(plan).envs # 0 /\ RunEnvs \in Nat \ {0}
    BY <1>1, ReadyCurrent DEF TrialPlan, Ready, Current, RunEnvs, Entry
  <1>3. RealTrials(benchTrials')
    <2>1. benchTrials' = benchTrials
          \/ (\E t : benchTrials' = [benchTrials EXCEPT ![t].measured = TRUE, ![t].envs = RunEnvs])
          \/ (\E t : benchTrials' = [benchTrials EXCEPT ![t].noted = TRUE])
      BY DEF BenchTick, BenchSkipLater
    <2>2. ASSUME NEW t
          PROVE  /\ RealTrials([benchTrials EXCEPT ![t].measured = TRUE, ![t].envs = RunEnvs])
                 /\ RealTrials([benchTrials EXCEPT ![t].noted = TRUE])
      <3>1. RunEnvs \in Nat \ {0} /\ benchTrials \in Seq(Trial) /\ RealTrials(benchTrials)
        BY <1>1, <1>2
      <3> HIDE DEF RunEnvs
      <3> QED BY ONLY <3>1, MeasuredTrialsAreReal, Zenon
    <2>3. CASE benchTrials' = benchTrials
      BY ONLY <1>1, <2>3, Zenon
    <2>4. ASSUME NEW t, benchTrials' = [benchTrials EXCEPT ![t].measured = TRUE, ![t].envs = RunEnvs]
          PROVE  RealTrials(benchTrials')
      BY ONLY <2>2, <2>4, Zenon
    <2>5. ASSUME NEW t, benchTrials' = [benchTrials EXCEPT ![t].noted = TRUE]
          PROVE  RealTrials(benchTrials')
      BY ONLY <2>2, <2>5, Zenon
    <2> QED BY <2>1, <2>3, <2>4, <2>5
  <1>4. FinishedIsSaved'
    BY <1>1 DEF BenchTick, BenchSkipLater, StageInv, BenchInv, FinishedIsSaved
  <1>5. CASE BenchTick
    <2>1. UNCHANGED <<consoleVars, planVars, clockVars, learnerVars, client, latest, benching>>
          /\ pc' \in {"world", "skipLater"} /\ pc = "decided"
      BY <1>5 DEF BenchTick
    <2>2. BenchInv'
      BY <1>1, <1>3, <1>4, <2>1 DEF StageInv, BenchInv, Busy
    <2> QED BY <1>1, <2>1, <2>2, SameStageSuffices DEF StageInv
  <1>6. CASE BenchSkipLater
    <2> DEFINE entry == TrialEntry(benchWalk)
               q == [plan EXCEPT !.entries = Erase(plan.entries, entry)]
    <2>1. plan' = plan \/ (entry <= Len(plan.entries) /\ plan' = q)
      BY <1>6 DEF BenchSkipLater
    <2>2. ASSUME entry <= Len(plan.entries)
          PROVE  q.remote = plan.remote /\ Current(q) = Current(plan) /\ q.fast = plan.fast /\ TrialPlan(q)
      <3>1. benchWalk \in Nat /\ benchTrial \in Nat /\ benchWalk > benchTrial /\ plan.index \in Nat
        BY <1>1, <1>6 DEF BenchSkipLater, TypeInv, SettledTypes, OtherTypes, Ready, Plan
      <3>2. entry \in Nat /\ plan.index < entry
        BY <3>1 DEF TrialEntry
      <3> HIDE DEF entry
      <3>3. /\ q.index = plan.index
            /\ q.remote = plan.remote /\ q.limited = plan.limited /\ q.fast = plan.fast
            /\ \A j \in DOMAIN q.entries :
                  /\ j \in Nat
                  /\ j < entry => j \in DOMAIN plan.entries /\ q.entries[j] = plan.entries[j]
                  /\ j >= entry => j + 1 \in DOMAIN plan.entries /\ q.entries[j] = plan.entries[j + 1]
        BY <1>1, <2>2, <3>2, ErasedEntries
      <3>4. Ready(q)
        BY <1>1, <2>2, <3>2, ErasedPlan
      <3> HIDE DEF q
      <3>5. q.entries[q.index] = plan.entries[plan.index]
        BY <3>2, <3>3, <3>4 DEF Ready
      <3>6. TrialPlan(q)
        <4>1. ASSUME NEW j \in DOMAIN q.entries
              PROVE  \E i \in DOMAIN plan.entries : q.entries[j] = plan.entries[i]
          BY <3>2, <3>3
        <4> QED BY <1>1, <3>3, <4>1 DEF TrialPlan
      <3> QED BY <3>3, <3>5, <3>6 DEF Current
    <2> HIDE DEF q, entry
    <2>3. plan'.remote = plan.remote /\ Current(plan)' = Current(plan) /\ plan'.fast = plan.fast /\ TrialPlan(plan')
      BY <1>1, <2>1, <2>2 DEF Current
    <2>4. /\ UNCHANGED <<pc, consoleVars, state, pausedFrom, learnerStarted, mapThreads, learnerVars, client, latest,
                         benching>>
          /\ pc = "skipLater"
      BY <1>6 DEF BenchSkipLater
    <2>5. RunState(plan)' = RunState(plan)
      BY <2>3 DEF RunState
    <2>6. ArgsFor(plan)' = ArgsFor(plan)
      BY <2>3 DEF ArgsFor, DirOf
    <2>7. BenchInv'
      BY <1>1, <1>3, <1>4, <2>3, <2>4 DEF StageInv, BenchInv, Busy, Suits
    <2>8. LearnerServesStage'
      BY <2>3, <2>4, <2>6 DEF StageInv, LearnerServesStage, Busy
    <2> QED BY <1>1, <2>4, <2>5, <2>7, <2>8 DEF StageInv, IdleHoldsNothing, Busy
  <1> QED BY <1>5, <1>6

\* The plans a command may ask for outside a benchmark have no settings of their own.
LEMMA StagesSuit ==
    ASSUME NEW p, NEW entries, p.entries = entries,
           \A i \in DOMAIN entries : entries[i].envs = 0 /\ entries[i].threads = 0
    PROVE  StagePlan(p)
  BY DEF StagePlan

LEMMA RequestsSuit ==
    ASSUME CommandStart \/ CommandFast \/ CommandRun \/ CommandResumeLast \/ CommandResumeNamed
    PROVE  UNCHANGED <<request, requested>> \/ (request' = "Start" /\ StagePlan(requested'))
  <1> USE DEF RequestStart
  <1>1. \A names, first : \A i \in DOMAIN StagesOf(names, first) :
           StagesOf(names, first)[i].envs = 0 /\ StagesOf(names, first)[i].threads = 0
    BY DEF StagesOf, NewEntry
  <1>2. \A p, first : \A i \in DOMAIN ResumedEntries(p, first) :
           ResumedEntries(p, first)[i].envs = 0 /\ ResumedEntries(p, first)[i].threads = 0
    BY DEF ResumedEntries, NewEntry
  <1>3. CASE CommandStart
    <2>1. PICK names, limited :
             requested' = [NoPlan EXCEPT !.entries = StagesOf(names, FALSE), !.remote = ConfigRemote,
                                         !.limited = limited]
      BY <1>3 DEF CommandStart
    <2>2. requested'.entries = StagesOf(names, FALSE)
      BY <2>1 DEF NoPlan
    <2>3. StagePlan(requested')
      BY <1>1, <2>2, StagesSuit
    <2> QED BY <1>3, <2>3 DEF CommandStart
  <1>4. CASE CommandFast
    <2>1. ASSUME NEW names, NEW budget,
                 requested' = [NoPlan EXCEPT !.entries = StagesOf(names, FALSE), !.remote = TRUE, !.fast = TRUE,
                                             !.budget = budget]
          PROVE  StagePlan(requested')
      <3>1. requested'.entries = StagesOf(names, FALSE)
        BY <2>1 DEF NoPlan
      <3> QED BY <1>1, <3>1, StagesSuit
    <2> QED BY <1>4, <2>1 DEF CommandFast
  <1>5. CASE CommandRun
    <2>1. PICK names, limited :
             requested' = [NoPlan EXCEPT !.entries = StagesOf(names, FALSE), !.limited = limited]
      BY <1>5 DEF CommandRun
    <2>2. requested'.entries = StagesOf(names, FALSE)
      BY <2>1 DEF NoPlan
    <2>3. StagePlan(requested')
      BY <1>1, <2>2, StagesSuit
    <2> QED BY <1>5, <2>3 DEF CommandRun
  <1>6. CASE CommandResumeLast
    <2>1. PICK first : requested' = [NoPlan EXCEPT !.entries = ResumedEntries(lastPlan, first), !.remote = TRUE,
                                                   !.fast = lastPlan.fast]
      BY <1>6 DEF CommandResumeLast
    <2>2. requested'.entries = ResumedEntries(lastPlan, first)
      BY <2>1 DEF NoPlan
    <2>3. StagePlan(requested')
      BY <1>2, <2>2, StagesSuit
    <2> QED BY <1>6, <2>3 DEF CommandResumeLast
  <1>7. CASE CommandResumeNamed
    <2>1. PICK names : requested' = [NoPlan EXCEPT !.entries = StagesOf(names, TRUE), !.remote = TRUE]
      BY <1>7 DEF CommandResumeNamed
    <2>2. requested'.entries = StagesOf(names, TRUE)
      BY <2>1 DEF NoPlan
    <2>3. StagePlan(requested')
      BY <1>1, <2>2, StagesSuit
    <2> QED BY <1>7, <2>3 DEF CommandResumeNamed
  <1> QED BY <1>3, <1>4, <1>5, <1>6, <1>7

\* `forge bench' asks for the grid as a plan of trials.
LEMMA BenchAsksForTrials ==
    ASSUME CommandBench
    PROVE  request' = "Start" /\ TrialPlan(requested') /\ RealTrials(benchTrials')
  <1>1. PICK name \in Scenarios :
           LET trials == [i \in DOMAIN BenchGrid |->
                             [threads |-> BenchGrid[i][1], envs |-> BenchGrid[i][2], learner |-> FALSE,
                              measured |-> FALSE, noted |-> FALSE]]
           IN  benchTrials' = trials /\ RequestStart(BenchPlan(name, trials))
    BY DEF CommandBench
  <1>2. ASSUME NEW i \in DOMAIN BenchGrid
        PROVE  BenchGrid[i][1] # 0 /\ BenchGrid[i][2] # 0
    <2>1. BenchGrid \in Seq((Nat \ {0}) \X (Nat \ {0}))
      BY ForgeAssumption DEF ForgeAssumption
    <2>2. BenchGrid[i] \in (Nat \ {0}) \X (Nat \ {0})
      BY <2>1, ElementOfSeq, LenProperties
    <2> QED BY <2>2
  <1>3. RealTrials(benchTrials')
    BY <1>1, <1>2 DEF RealTrials
  <1>4. request' = "Start" /\ requested' = BenchPlan(name, benchTrials')
    BY <1>1 DEF RequestStart
  <1>5. TrialPlan(requested')
    BY <1>3, <1>4, BenchPlanSuits
  <1> QED BY <1>3, <1>4, <1>5

\* A plan whose running entry begins another way is the same plan otherwise.
LEMMA RestartedEntries ==
    ASSUME NEW p, Ready(p), NEW resume \in BOOLEAN
    PROVE  LET q == [p EXCEPT !.entries[p.index].resume = resume]
           IN  /\ q.index = p.index
               /\ SameStages(p, q)
               /\ \A i \in DOMAIN p.entries : q.entries[i].result = p.entries[i].result
  <1> DEFINE entry == [p.entries[p.index] EXCEPT !.resume = resume]
             entries == [p.entries EXCEPT ![p.index] = entry]
             q == [p EXCEPT !.entries = entries]
  <1>1. p \in Plan /\ p.entries \in Seq(Entry)
    BY DEF Ready, Plan
  <1>2. ASSUME NEW i \in DOMAIN p.entries
        PROVE  /\ entries[i].scenario = p.entries[i].scenario /\ entries[i].threads = p.entries[i].threads
               /\ entries[i].envs = p.entries[i].envs /\ entries[i].result = p.entries[i].result
    <2>1. p.entries[i] \in Entry
      BY <1>1, ElementOfSeq, LenProperties
    <2> QED BY <2>1 DEF Entry
  <1>3. DOMAIN entries = DOMAIN p.entries
    OBVIOUS
  <1>4. q = [p EXCEPT !.entries[p.index].resume = resume]
    OBVIOUS
  <1> HIDE DEF entries
  <1>5. q.entries = entries /\ q.index = p.index /\ q.remote = p.remote /\ q.limited = p.limited /\ q.fast = p.fast
    BY <1>1 DEF Plan
  <1> HIDE DEF q
  <1> QED BY <1>2, <1>3, <1>4, <1>5 DEF SameStages

LEMMA CommandsKeep ==
    ASSUME TypeInv, StageInv, ConsoleCommands, NoEarlyCancel
    PROVE  StageInv'
  <1> USE DEF consoleVars, planVars, learnerVars, clockVars, benchVars, ConsoleRuns, Console, IdleConsole, OnlyRequests
  <1>1. CASE CommandStart \/ CommandFast \/ CommandRun \/ CommandResumeLast \/ CommandResumeNamed
    <2>1. OnlyRequests /\ state = "Idle" /\ request # "Start" /\ UNCHANGED benchVars
      BY <1>1 DEF CommandStart, CommandFast, CommandRun, CommandResumeLast, CommandResumeNamed
    <2>2. ~benching
      BY <2>1 DEF StageInv, BenchInv, Busy
    <2>3. UNCHANGED <<request, requested>> \/ (request' = "Start" /\ StagePlan(requested'))
      BY <1>1, RequestsSuit
    <2>4. FinishedIsSaved'
      BY <2>1, FinishedStays DEF StageInv, BenchInv
    <2>5. BenchInv'
      BY <2>1, <2>2, <2>3, <2>4 DEF StageInv, BenchInv, Suits, Busy
    <2> QED BY <2>1, <2>2, <2>5, SameStageSuffices DEF StageInv, Busy
  <1>2. CASE CommandBench
    <2>1. /\ OnlyRequests /\ state = "Idle" /\ benching' = TRUE /\ pc \in {"world", "acceptPump", "recvPump", "hold"}
          /\ "bench" \in Commands
      BY <1>2 DEF CommandBench
    <2>2. request' = "Start" /\ TrialPlan(requested') /\ RealTrials(benchTrials')
      BY <1>2, BenchAsksForTrials
    <2>3. ~learnerStarted
      BY <2>1 DEF StageInv, IdleHoldsNothing, Busy
    <2>4. BenchInv'
      BY <2>1, <2>2, <2>3 DEF BenchInv, FinishedIsSaved, Suits, Busy
    <2> QED BY <2>1, <2>4, SameStageSuffices DEF StageInv, Busy
  <1>3. CASE CommandUnpause \/ CommandPause
    <2>1. BenchInv'
      BY <1>3, FinishedStays, SameBenchSuffices DEF CommandUnpause, CommandPause, StageInv, BenchInv, Busy
    <2> QED BY <1>3, <2>1, SameStageSuffices DEF CommandUnpause, CommandPause, StageInv, Busy
  <1>4. CASE CommandCancel \/ CommandSkip
    <2>1. OnlyRequests /\ UNCHANGED benchVars /\ request' # "Start" /\ (state = "Idle" => "cancel" \in Commands)
      BY <1>4 DEF CommandCancel, CommandSkip
    <2>2. FinishedIsSaved'
      BY <2>1, FinishedStays DEF StageInv, BenchInv
    <2>3. state = "Idle" => ~benching
      BY <2>1 DEF NoEarlyCancel, StageInv
    <2>4. BenchInv'
      BY <2>1, <2>2, <2>3 DEF StageInv, BenchInv, Busy
    <2> QED BY <2>1, <2>4, SameStageSuffices DEF StageInv, Busy
  <1>5. CASE CommandRestartLearner
    <2> DEFINE own == latest[RunKey(plan)] # "none"
               p == [plan EXCEPT !.entries[plan.index].resume = own]
    <2>1. PICK started \in BOOLEAN :
             /\ plan' = p
             /\ learnerStarted' = started
             /\ learner' = IF started THEN "starting" ELSE learner
             /\ learnerArgs' = IF started THEN ArgsFor(p) ELSE learnerArgs
      BY <1>5 DEF CommandRestartLearner
    <2>2. state = "Training" /\ ~IsRunning(learner) /\ plan.remote
      BY <1>5 DEF CommandRestartLearner, StageInv, RunState
    <2>3. Ready(plan)
      BY <2>2 DEF TypeInv, PlanReady, StageTypes, Busy, Ready
    <2>4. SameStages(plan, p)
      <3>1. own \in BOOLEAN
        BY Zenon
      <3> HIDE DEF own
      <3> QED BY <2>3, <3>1, RestartedEntries
    <2> HIDE DEF p
    <2>5. /\ UNCHANGED <<pc, consoleVars, state, pausedFrom, mapThreads, client, benchVars>>
          /\ pc \in {"world", "acceptPump", "recvPump", "hold"}
      BY <1>5 DEF CommandRestartLearner
    <2>6. LearnerServesStage'
      <3>1. p.remote = plan.remote
        BY <2>4 DEF SameStages
      <3> QED BY <2>1, <2>2, <2>5, <3>1 DEF LearnerServesStage, Busy
    <2>7. RunState(plan') = RunState(plan)
      BY <2>1, <2>4 DEF RunState, SameStages
    <2>8. FinishedIsSaved'
      BY <2>1 DEF FinishedIsSaved, Reaped
    <2>9. Busy => Suits(p, benching)
      BY <2>4, SameStagesSuit DEF StageInv, BenchInv, TypeInv, SettledTypes
    <2>10. BenchInv'
      BY <2>1, <2>2, <2>5, <2>8, <2>9 DEF StageInv, BenchInv, Busy
    <2> QED BY <2>2, <2>5, <2>6, <2>7, <2>10 DEF StageInv, IdleHoldsNothing, Busy
  <1> QED BY <1>1, <1>2, <1>3, <1>4, <1>5 DEF ConsoleCommands

\* A learner that finishes saved into the run of the stage it serves; any other step of a learner leaves none finished.
LEMMA LearnersKeep ==
    ASSUME TypeInv, StageInv, Learners
    PROVE  StageInv'
  <1> USE DEF consoleVars, planVars, learnerVars, clockVars, benchVars
  <1>1. UNCHANGED <<pc, consoleVars, planVars, learnerArgs, benchVars>>
    BY DEF Learners, LearnerConnects, LearnerSaves, LearnerFinishes, LearnerDies, HandConnects, HandLeaves
  <1>2. IsRunning(learner') => IsRunning(learner)
    BY DEF Learners, LearnerConnects, LearnerSaves, LearnerFinishes, LearnerDies, HandConnects, HandLeaves, HasTurn,
           Alive, IsRunning
  <1>3. ~Busy => client' = client
    BY DEF Learners, LearnerConnects, LearnerSaves, LearnerFinishes, LearnerDies, HandConnects, HandLeaves, HasTurn,
           StageInv, IdleHoldsNothing, Hangup
  <1>4. FinishedIsSaved'
    <2>1. CASE LearnerFinishes
      <3>1. learner = "working" /\ learnerArgs.dir # "bench" /\ latest' = [latest EXCEPT ![ArgsKey] = "own"]
        BY <2>1 DEF LearnerFinishes, HasTurn
      <3>2. Busy /\ learnerArgs = ArgsFor(plan)
        BY <3>1 DEF StageInv, LearnerServesStage, IsRunning
      <3>3. Ready(plan) /\ Suits(plan, benching)
        BY <3>2 DEF TypeInv, PlanReady, StageTypes, Ready, StageInv, BenchInv
      <3>4. ~benching
        BY <3>1, <3>2, <3>3 DEF ArgsFor, DirOf, Suits, TrialPlan, Ready, Current
      <3>5. ArgsKey = RunKey(plan) /\ RunKey(plan) \in Dirs \X Scenarios
        BY <3>2, <3>3, ReadyCurrent DEF ArgsKey, RunKey, ArgsFor
      <3>6. latest'[RunKey(plan)] = "own"
        BY <3>1, <3>5 DEF TypeInv, SettledTypes, Files
      <3> QED BY <1>1, <3>4, <3>6 DEF FinishedIsSaved, RunKey, DirOf, Current
    <2>2. CASE LearnerConnects \/ LearnerSaves \/ LearnerDies
      BY <2>2 DEF LearnerConnects, LearnerSaves, LearnerDies, HasTurn, FinishedIsSaved, Reaped
    <2>3. CASE HandConnects \/ HandLeaves
      BY <1>1, <2>3, FinishedStays DEF HandConnects, HandLeaves, StageInv, BenchInv
    <2> QED BY <2>1, <2>2, <2>3 DEF Learners
  <1>5. BenchInv'
    BY <1>1, <1>4, SameBenchSuffices DEF StageInv, Busy
  <1> QED BY <1>1, <1>2, <1>3, <1>5, SameStageSuffices DEF StageInv

-----------------------------------------------------------------------------
(* The theorems *)

LEMMA StageInvHolds ==
    ASSUME NoEarlyCancel
    PROVE  Spec => [](TypeInv /\ StageInv)
  <1>1. Init => StageInv
    BY DEF Init, StageInv, BenchInv, FinishedIsSaved, IdleHoldsNothing, LearnerServesStage, Busy, IsRunning, Reaped
  <1>2. TypeInv /\ StageInv /\ [Next]_vars => StageInv'
    <2> SUFFICES ASSUME TypeInv, StageInv, [Next]_vars
                 PROVE  StageInv'
      OBVIOUS
    <2>1. CASE WorldThread
      <3>1. CASE BeginTick \/ HoldAppliesRequest \/ LocalDecisionEnds \/ AcceptPumped \/ BenchTrialDone
        BY <3>1, EndingChanges
      <3>2. CASE Pause \/ HoldResumes \/ HoldPolls
        BY <3>2, PausingKeeps
      <3>3. CASE \/ IdleTick \/ WorldTick \/ LocalDecisionSteps \/ WaitForLearner \/ SendStep
                 \/ AcceptConnection \/ AcceptIdle \/ HelloLost \/ ReceiveLost \/ ReceiveIdle \/ ReceivePumped
                 \/ AfterDecision
        <4>1. pc # "hold"
          BY <3>3 DEF IdleTick, WorldTick, LocalDecisionSteps, WaitForLearner, SendStep, Decides, Ticking,
                      AcceptConnection, AcceptIdle, HelloLost, ReceiveLost, ReceiveIdle, ReceivePumped, AfterDecision
        <4> QED BY <3>3, <4>1, WaitingKeeps
      <3>4. CASE BenchTick \/ BenchSkipLater
        BY <3>4, BenchKeeps
      <3> QED BY <2>1, <3>1, <3>2, <3>3, <3>4 DEF WorldThread
    <2>2. CASE Hellos \/ Messages
      <3>1. pc # "hold"
        BY <2>2 DEF Hellos, Messages, HelloArrives, HelloRejected, ReceiveActions, ReceiveRejected
      <3> QED BY <2>2, <3>1, WaitingKeeps DEF Hellos, Messages
    <2>3. CASE ConsoleCommands
      BY <2>3, CommandsKeep
    <2>4. CASE Learners
      BY <2>4, LearnersKeep
    <2>5. CASE RestartServer
      BY <2>5 DEF RestartServer, StageInv, BenchInv, FinishedIsSaved, IdleHoldsNothing, LearnerServesStage, Busy,
                  IsRunning
    <2>6. CASE UNCHANGED vars
      <3>1. UNCHANGED <<pc, consoleVars, planVars, learnerVars, client, latest, benchVars>>
        BY <2>6 DEF vars
      <3>2. BenchInv'
        BY <3>1 DEF consoleVars, planVars, learnerVars, benchVars, StageInv, BenchInv, FinishedIsSaved, RunKey, DirOf,
                    Current, Busy
      <3> QED BY <3>1, <3>2, SameStageSuffices DEF StageInv, consoleVars, planVars, learnerVars, benchVars
    <2> QED BY <2>1, <2>2, <2>3, <2>4, <2>5, <2>6 DEF Next
  <1> QED BY <1>1, <1>2, TypeInvHolds, PTL DEF Spec

(* An idle sim has no learner running, holds no connection, and has no pause
   or resume pending, however its last plan or benchmark ended: EndPlan and
   TeardownScenario, reached from every command, tick and wait. *)
THEOREM IdleSimIsClean ==
    ASSUME NoEarlyCancel
    PROVE  Spec => []IdleHoldsNothing
  <1>1. StageInv => IdleHoldsNothing
    BY DEF StageInv
  <1> QED BY <1>1, StageInvHolds, PTL

(* A learner that runs was started for the stage the plan is at, with its
   scenario, directory, envs and way to begin: StartCurrent and `forge resume'
   never start one beside another, and no stage or trial inherits one. *)
THEOREM LearnersServeTheirStage ==
    ASSUME NoEarlyCancel
    PROVE  Spec => []LearnerServesStage
  <1>1. StageInv => LearnerServesStage
    BY DEF StageInv
  <1> QED BY <1>1, StageInvHolds, PTL

(* A pending pause or resume belongs to the running stage, and a pause goes
   back to where it came from: HoldWhilePaused and TeardownScenario. *)
THEOREM FlagsStayWithTheirStage ==
    ASSUME NoEarlyCancel
    PROVE  Spec => []FlagsBelongToStage
  <1>1. StageInv => FlagsBelongToStage
    BY DEF StageInv, FlagsBelongToStage
  <1> QED BY <1>1, StageInvHolds, PTL

(* Only a benchmark's own plan runs as a benchmark, through both of its phases
   and whatever is skipped, dropped or fails to start: the running entry has
   the settings BenchTick measures, and an idle sim that benchmarks has been
   asked for one that has (ForgeCommands.cpp, bench; BenchPlanEnded). *)
THEOREM BenchRunsTrials ==
    ASSUME NoEarlyCancel
    PROVE  Spec => []OnlyTrialsBench
  <1>1. TypeInv /\ StageInv => OnlyTrialsBench
    <2> SUFFICES ASSUME TypeInv, StageInv, benching
                 PROVE  IF Busy THEN Current(plan).envs # 0 ELSE request = "Start" /\ requested.entries[1].envs # 0
      BY DEF OnlyTrialsBench
    <2>1. CASE Busy
      BY <2>1 DEF TypeInv, PlanReady, StageInv, BenchInv, Suits, TrialPlan, Current
    <2>2. CASE ~Busy
      <3>1. request = "Start" /\ TrialPlan(requested)
        BY <2>2 DEF StageInv, BenchInv, Suits
      <3>2. requested.entries # <<>> /\ requested.entries \in Seq(Entry)
        BY <3>1 DEF TypeInv, Requestable, SettledTypes, Plan
      <3>3. 1 \in DOMAIN requested.entries
        BY <3>2, EmptySeq, LenProperties
      <3> QED BY <2>2, <3>1, <3>3 DEF TrialPlan
    <2> QED BY <2>1, <2>2
  <1> QED BY <1>1, StageInvHolds, PTL

(* Outside a benchmark the map update pool has the configured thread count: a
   benchmark gives it back at its last trial, when a trial fails to start, and
   when it is cancelled or skipped through (BenchEnd). *)
THEOREM BenchGivesThreadsBack ==
    ASSUME NoEarlyCancel
    PROVE  Spec => []MapThreadsRestored
  <1>1. StageInv => MapThreadsRestored
    BY DEF StageInv, BenchInv, MapThreadsRestored
  <1> QED BY <1>1, StageInvHolds, PTL

-----------------------------------------------------------------------------
(* What a step does to the outcomes *)

\* From one plan to a later one, an outcome changes only from an entry on, to one of a stage that never ran.
PassesOver(p, q, from) ==
    /\ DOMAIN q.entries = DOMAIN p.entries
    /\ \A i \in DOMAIN p.entries : \/ q.entries[i].result = p.entries[i].result
                                   \/ i >= from /\ q.entries[i].result \in {"Skipped", "Failed"}

LEMMA StartCurrentPassesOver ==
    ASSUME NEW p, Ready(p), NEW c, StartCurrent(p, c)
    PROVE  PassesOver(p, plan', p.index) /\ (state' = "Idle" \/ plan'.index >= p.index)
  <1>1. PICK next \in p.index .. Len(p.entries) + 1 :
           IF next > Len(p.entries)
           THEN EndPlan(PassOver(p, next), c)
           ELSE StartStage(PassOver(p, next), c) \/ FailToStart(PassOver(p, next), c)
    BY DEF StartCurrent
  <1> DEFINE q == PassOver(p, next)
  <1>2. /\ Ready(q) /\ SameStages(p, q)
        /\ q.index = IF next > Len(p.entries) THEN Len(p.entries) ELSE next
        /\ \A i \in DOMAIN p.entries :
              q.entries[i].result = IF p.index <= i /\ i < next THEN "Skipped" ELSE p.entries[i].result
    BY PassedOverPlan, PassedOverEntries
  <1>3. p.index \in Nat /\ Len(p.entries) \in Nat /\ p.index <= Len(p.entries) /\ \A i \in DOMAIN p.entries : i \in Nat
    BY LenProperties DEF Ready, Plan
  <1>4. q.index \in Nat /\ q.index >= p.index
    BY <1>2, <1>3
  <1>5. PassesOver(p, q, p.index)
    BY <1>2, <1>3 DEF PassesOver, SameStages
  <1>6. \/ (plan' = q /\ (state' = "Idle" \/ plan'.index >= p.index))
        \/ (plan' = SetResult(q, q.index, "Failed") /\ state' = "Idle")
    BY <1>1, <1>4 DEF EndPlan, StartStage, FailToStart
  <1> HIDE DEF q
  <1>7. PassesOver(p, SetResult(q, q.index, "Failed"), p.index)
    <2> DEFINE r == SetResult(q, q.index, "Failed")
    <2>1. SameStages(q, r) /\ \A i \in DOMAIN q.entries :
             r.entries[i].result = IF i = q.index THEN "Failed" ELSE q.entries[i].result
      BY <1>2, DecidedEntries DEF Outcomes
    <2> HIDE DEF r
    <2>2. PassesOver(p, r, p.index)
      BY <1>4, <1>5, <2>1 DEF PassesOver, SameStages
    <2> QED BY <2>2 DEF r
  <1> QED BY <1>5, <1>6, <1>7

\* The stage the plan is at gets its outcome as it ends, and what comes after it at most one of a stage that never ran.
Ended(outcome) ==
    /\ state' = "Idle" \/ plan'.index # plan.index
    /\ DOMAIN plan'.entries = DOMAIN plan.entries
    /\ \A i \in DOMAIN plan.entries :
          \/ plan'.entries[i].result = IF i = plan.index THEN outcome ELSE plan.entries[i].result
          \/ i > plan.index /\ plan'.entries[i].result \in {"Skipped", "Failed"}

LEMMA FinishCurrentEnds ==
    ASSUME Ready(plan), NEW outcome \in Outcomes, NEW c, FinishCurrent(outcome, c)
    PROVE  Ended(outcome)
  <1> DEFINE decided == SetResult(plan, plan.index, outcome)
             next == [decided EXCEPT !.index = @ + 1]
  <1>1. PICK d \in Torn(c, StopsLearner(outcome)) :
           IF plan.index < Len(plan.entries) THEN StartCurrent(next, d) ELSE EndPlan(decided, d)
    BY DEF FinishCurrent
  <1>2. /\ Ready(decided) /\ decided.index = plan.index /\ Len(decided.entries) = Len(plan.entries)
        /\ DOMAIN decided.entries = DOMAIN plan.entries
        /\ \A i \in DOMAIN plan.entries :
              decided.entries[i].result = IF i = plan.index THEN outcome ELSE plan.entries[i].result
    BY DecidedPlan, DecidedEntries DEF SameStages
  <1> HIDE DEF decided
  <1>3. plan.index \in Nat /\ \A i \in DOMAIN plan.entries : i \in Nat
    BY LenProperties DEF Ready, Plan
  <1>4. CASE plan.index < Len(plan.entries)
    <2>1. Len(decided.entries) \in Nat /\ DOMAIN decided.entries = 1 .. Len(decided.entries) /\ decided \in Plan
      BY <1>2, LenProperties DEF Ready, Plan
    <2>2. next.entries = decided.entries /\ next.index = plan.index + 1 /\ next \in Plan
      BY <1>2, <1>3, <2>1 DEF Plan
    <2> HIDE DEF next
    <2>3. Ready(next)
      BY <1>2, <1>3, <1>4, <2>1, <2>2 DEF Ready
    <2>4. PassesOver(next, plan', next.index) /\ (state' = "Idle" \/ plan'.index >= next.index)
      BY <1>1, <1>4, <2>3, StartCurrentPassesOver DEF next
    <2>5. state' = "Idle" \/ plan'.index # plan.index
      BY <1>3, <2>2, <2>4
    <2> QED BY <1>2, <1>3, <2>2, <2>4, <2>5 DEF PassesOver, Ended
  <1>5. CASE ~(plan.index < Len(plan.entries))
    <2>1. plan' = decided /\ state' = "Idle"
      BY <1>1, <1>5 DEF EndPlan
    <2> QED BY <1>2, <2>1 DEF Ended
  <1> QED BY <1>4, <1>5

\* No outcome changes; or only entries after the running one are erased.
Untouched ==
    /\ DOMAIN plan'.entries = DOMAIN plan.entries
    /\ \A i \in DOMAIN plan.entries : plan'.entries[i].result = plan.entries[i].result
Shortened == \A i \in DOMAIN plan'.entries : i <= plan.index => plan'.entries[i].result = plan.entries[i].result

LEMMA CommandsLeaveOutcomes ==
    ASSUME TypeInv, ConsoleCommands
    PROVE  Untouched
  <1>1. CASE CommandRestartLearner
    <2> DEFINE own == latest[RunKey(plan)] # "none"
    <2>1. plan' = [plan EXCEPT !.entries[plan.index].resume = own] /\ Ready(plan) /\ own \in BOOLEAN
      <3>1. plan' = [plan EXCEPT !.entries[plan.index].resume = own]
        BY <1>1 DEF CommandRestartLearner
      <3>2. Ready(plan)
        BY <1>1 DEF CommandRestartLearner, TypeInv, PlanReady, StageTypes, Busy, Ready
      <3>3. own \in BOOLEAN
        BY Zenon
      <3> HIDE DEF own
      <3> QED BY <3>1, <3>2, <3>3
    <2> HIDE DEF own
    <2> QED BY <2>1, RestartedEntries DEF Untouched, SameStages
  <1>2. CASE ~CommandRestartLearner
    <2>1. plan' = plan
      BY <1>2 DEF ConsoleCommands, CommandStart, CommandFast, CommandRun, CommandBench, CommandUnpause,
                  CommandResumeLast, CommandResumeNamed, CommandPause, CommandCancel, CommandSkip, OnlyRequests,
                  planVars
    <2> QED BY <2>1 DEF Untouched
  <1> QED BY <1>1, <1>2

LEMMA RequestsEndStages ==
    ASSUME TypeInv, StageInv, Busy, ApplyRequest
    PROVE  Ended("Cancelled") \/ Ended("Skipped") \/ Untouched
  <1>1. Ready(plan) /\ request # "Start"
    BY DEF TypeInv, PlanReady, StageTypes, Ready, StageInv
  <1>2. CASE request = "Cancel"
    <2>1. PICK d : EndPlan(SetResult(plan, plan.index, "Cancelled"), d)
      BY <1>2 DEF ApplyRequest, ApplyCancel, Busy
    <2> QED BY <1>1, <2>1, DecidedEntries DEF EndPlan, Ended, SameStages, Outcomes
  <1>3. CASE request = "Skip"
    <2>1. FinishCurrent("Skipped", [Midway EXCEPT !.request = "None"])
      BY <1>3 DEF ApplyRequest, ApplySkip, Busy
    <2> QED BY <1>1, <2>1, FinishCurrentEnds DEF Outcomes
  <1>4. CASE request \notin {"Start", "Cancel", "Skip"}
    BY <1>4 DEF ApplyRequest, Untouched
  <1> QED BY <1>1, <1>2, <1>3, <1>4

\* What any step of a busy sim does to its plan.
LEMMA StepOutcomes ==
    ASSUME TypeInv, StageInv, Busy, [Next]_vars
    PROVE  \/ Untouched \/ Ended("Cancelled") \/ Ended("Skipped")
           \/ Ended("Done") /\ (plan.remote /\ ~benching => LearnerFinished)
           \/ benching /\ Shortened
           \/ plan' = NoPlan
  <1> USE DEF consoleVars, planVars
  <1>1. Ready(plan)
    BY DEF TypeInv, PlanReady, StageTypes, Ready
  <1>2. CASE BeginTick \/ HoldAppliesRequest
    BY <1>2, RequestsEndStages DEF BeginTick, HoldAppliesRequest
  <1>3. CASE LocalDecisionEnds
    <2>1. FinishCurrent("Done", [Midway EXCEPT !.ticks = NextTicks, !.since = 0]) /\ ~plan.remote
      BY <1>3 DEF LocalDecisionEnds
    <2> QED BY <1>1, <2>1, FinishCurrentEnds DEF Outcomes
  <1>4. CASE AcceptPumped
    <2>1. CASE LearnerFinished
      <3>1. FinishCurrent("Done", Midway)
        BY <1>4, <2>1 DEF AcceptPumped
      <3> QED BY <1>1, <2>1, <3>1, FinishCurrentEnds DEF Outcomes
    <2>2. CASE ~LearnerFinished
      BY <1>4, <2>2 DEF AcceptPumped, Untouched
    <2> QED BY <2>1, <2>2
  <1>5. CASE BenchTrialDone
    <2>1. FinishCurrent("Done", [Midway EXCEPT !.trial = @ + 1]) /\ benching
      BY <1>5 DEF BenchTrialDone, StageInv
    <2> QED BY <1>1, <2>1, FinishCurrentEnds DEF Outcomes
  <1>6. CASE BenchSkipLater
    <2> DEFINE entry == TrialEntry(benchWalk)
               q == [plan EXCEPT !.entries = Erase(plan.entries, entry)]
    <2>1. plan' = plan \/ (entry <= Len(plan.entries) /\ plan' = q)
      BY <1>6 DEF BenchSkipLater
    <2>2. benchWalk \in Nat /\ benchTrial \in Nat /\ benchWalk > benchTrial /\ plan.index \in Nat /\ benching
      BY <1>1, <1>6 DEF BenchSkipLater, TypeInv, SettledTypes, OtherTypes, Ready, Plan, StageInv
    <2>3. entry \in Nat /\ plan.index < entry
      BY <2>2 DEF TrialEntry
    <2> HIDE DEF entry
    <2>4. entry <= Len(plan.entries) => \A j \in DOMAIN q.entries :
             j \in Nat /\ (j < entry => j \in DOMAIN plan.entries /\ q.entries[j] = plan.entries[j])
      BY <1>1, <2>3, ErasedEntries
    <2> HIDE DEF q
    <2> QED BY <2>1, <2>2, <2>3, <2>4 DEF Shortened
  <1>7. CASE ConsoleCommands
    BY <1>7, CommandsLeaveOutcomes
  <1>8. CASE Pause \/ HoldResumes \/ HoldPolls \/ IdleTick \/ WorldTick \/ LocalDecisionSteps \/ WaitForLearner
             \/ SendStep \/ AcceptConnection \/ AcceptIdle \/ HelloLost \/ Hellos \/ Messages
    BY <1>8 DEF Pause, HoldResumes, HoldPolls, IdleTick, WorldTick, LocalDecisionSteps, WaitForLearner, SendStep,
                AcceptConnection, AcceptIdle, HelloLost, Hellos, HelloArrives, HelloRejected, Messages, ReceiveActions,
                ReceiveRejected, Untouched
  <1>9. CASE ReceiveLost \/ ReceiveIdle \/ ReceivePumped \/ AfterDecision \/ BenchTick \/ Learners \/ UNCHANGED vars
    BY <1>9 DEF ReceiveLost, ReceiveIdle, ReceivePumped, AfterDecision, BenchTick, Learners, LearnerConnects,
                LearnerSaves, LearnerFinishes, LearnerDies, HandConnects, HandLeaves, vars, Untouched
  <1>10. CASE RestartServer
    BY <1>10 DEF RestartServer
  <1> QED BY <1>2, <1>3, <1>4, <1>5, <1>6, <1>7, <1>8, <1>9, <1>10 DEF Next, WorldThread

(* A training stage is done only when the learner started for it exited by
   itself with success and saved: no skip, cancel, crash, lost connection or
   failed start ever records it (FinishCurrent's callers, and the learner's
   own last save before it exits). *)
THEOREM DoneStagesAreEarned ==
    ASSUME NoEarlyCancel
    PROVE  Spec => DoneIsEarned
  <1>1. TypeInv /\ StageInv /\ [Next]_vars
        => [\A i \in DOMAIN plan.entries \cap DOMAIN plan'.entries :
              (/\ Busy /\ plan.remote /\ ~benching
               /\ plan.entries[i].result = "None" /\ plan'.entries[i].result = "Done")
              => /\ i = plan.index /\ learnerStarted /\ learner = "exitedOk"
                 /\ latest[RunKey(plan)] = "own"]_vars
    <2> SUFFICES ASSUME TypeInv, StageInv, [Next]_vars,
                        NEW i \in DOMAIN plan.entries \cap DOMAIN plan'.entries, Busy, plan.remote, ~benching,
                        plan.entries[i].result = "None", plan'.entries[i].result = "Done"
                 PROVE  i = plan.index /\ learnerStarted /\ learner = "exitedOk" /\ latest[RunKey(plan)] = "own"
      OBVIOUS
    <2>1. Ended("Done") /\ LearnerFinished
      <3>1. ~Untouched
        BY DEF Untouched
      <3>2. ~Ended("Cancelled") /\ ~Ended("Skipped")
        BY DEF Ended
      <3>3. plan' # NoPlan
        BY DEF NoPlan
      <3> QED BY <3>1, <3>2, <3>3, StepOutcomes
    <2>2. i = plan.index
      BY <2>1 DEF Ended
    <2>3. learnerStarted /\ learner = "exitedOk"
      BY <2>1 DEF LearnerFinished
    <2>4. latest[RunKey(plan)] = "own"
      BY <2>3 DEF StageInv, BenchInv, FinishedIsSaved, Reaped
    <2> QED BY <2>2, <2>3, <2>4
  <1> QED BY <1>1, StageInvHolds, PTL DEF Spec, DoneIsEarned

(* While a stage runs, no outcome decided before it changes, and the stage
   gets its own only as it ends: whatever is typed, paused, lost, restarted or
   dropped from a benchmark's plan meanwhile. *)
THEOREM OutcomesStay ==
    ASSUME NoEarlyCancel
    PROVE  Spec => OutcomesStick
  <1>1. TypeInv /\ StageInv /\ OrderInv /\ [Next]_vars
        => [Busy => \A i \in (1 .. plan.index) \cap DOMAIN plan'.entries :
              (plan.entries[i].result # "None" \/ SameStage) => plan'.entries[i].result = plan.entries[i].result]_vars
    <2> SUFFICES ASSUME TypeInv, StageInv, OrderInv, [Next]_vars, Busy,
                        NEW i \in (1 .. plan.index) \cap DOMAIN plan'.entries,
                        plan.entries[i].result # "None" \/ SameStage
                 PROVE  plan'.entries[i].result = plan.entries[i].result
      OBVIOUS
    <2>1. Ready(plan)
      BY DEF TypeInv, PlanReady, StageTypes, Ready
    <2>2. i \in DOMAIN plan.entries /\ i <= plan.index /\ plan.index \in Nat /\ i \in Nat
      BY <2>1, LenProperties DEF Ready, Plan
    <2>3. i = plan.index => plan.entries[i].result = "None"
      BY <2>1, <2>2 DEF OrderInv, Ordered, Poised, Undecided, Ready
    <2>4. ASSUME NEW outcome, Ended(outcome)
          PROVE  plan'.entries[i].result = plan.entries[i].result
      <3>1. ~SameStage
        BY <2>4 DEF Ended, SameStage
      <3>2. i # plan.index
        BY <2>3, <3>1
      <3> QED BY <2>2, <2>4, <3>2 DEF Ended
    <2>5. Shortened => plan'.entries[i].result = plan.entries[i].result
      BY <2>2 DEF Shortened
    <2>6. Untouched => plan'.entries[i].result = plan.entries[i].result
      BY <2>2 DEF Untouched
    <2>7. plan' # NoPlan
      BY DEF NoPlan
    <2> QED BY <2>4, <2>5, <2>6, <2>7, StepOutcomes
  <1> QED BY <1>1, StageInvHolds, OrderInvHolds, PTL DEF Spec, OutcomesStick
=============================================================================
