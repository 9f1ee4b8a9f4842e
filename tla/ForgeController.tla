-------------------------- MODULE ForgeController --------------------------
(***************************************************************************)
(* The forge: the world thread of the sim (AnimusForge.cpp), the console   *)
(* commands that ask it for things (ForgeCommands.cpp), and the learner    *)
(* process it starts, waits for and reaps (Learner/ChildProcess.cpp).      *)
(*                                                                         *)
(* The world loop alternates between reading the console and OnUpdate.     *)
(* OnUpdate blocks in three places, and the console runs inside each of    *)
(* them: waiting for a learner to connect, waiting for its actions, and    *)
(* holding a pause. `pc' says where the world thread is:                   *)
(*                                                                         *)
(*   world      between two ticks: the console may run                     *)
(*   tick       the pending request is applied, the tick goes on           *)
(*   accept     waiting for a learner       acceptPump  ... console runs   *)
(*   hello      waiting for its HELLO: the console does not run            *)
(*   recv       waiting for actions         recvPump    ... console runs   *)
(*   hold       paused: the console runs between two looks at the flags    *)
(*   decided    the decision is over, the benchmark looks at it            *)
(*   skipLater  the benchmark drops the trials the memory has no room for  *)
(*                                                                         *)
(* What the messages carry is left to the Lockstep module, what the envs   *)
(* do to the EvalPool module. Times are left out: a wait may end at any    *)
(* moment, and a counter of decisions stops at the longest window anyone   *)
(* compares it with.                                                       *)
(***************************************************************************)
EXTENDS Integers, Sequences, FiniteSets

CONSTANTS
    Scenarios,          \* the scenarios a command may name
    Unplayable,         \* those no class of this run can play
    Commands,           \* the console commands the operator uses
    MaxPlan,            \* bound: scenarios named by one command
    ConfigRemote,       \* AnimusForge.Policy = remote
    AutoStart,          \* AnimusForge.Learner.AutoStart
    EarlierRuns,        \* <<directory, scenario>> that may hold a checkpoint before the server starts
    HandLearners,       \* an operator may start a learner by hand
    Budgets,            \* step budgets `forge fast' may be given
    TicksPerDecision,   \* world updates per decision
    BenchGrid,          \* sequence of <<map threads, envs>> a benchmark times
    BenchWindow,        \* decisions one sim-only trial runs for
    LearnerWindow,      \* decisions one learner trial runs for
    LearnerTop,         \* how many settings run again with the learner
    ConfiguredThreads,  \* MapUpdate.Threads
    ConfiguredEnvs      \* AnimusForge.Envs

ASSUME ForgeAssumption ==
    /\ Unplayable \subseteq Scenarios
    /\ MaxPlan \in Nat \ {0}
    /\ EarlierRuns \subseteq {"runs", "fast", "bench"} \X Scenarios
    /\ Budgets \subseteq Nat
    /\ {ConfigRemote, AutoStart, HandLearners} \subseteq BOOLEAN
    /\ HandLearners => ConfigRemote    \* the listener is open from the start
    /\ TicksPerDecision \in Nat \ {0}
    /\ BenchWindow \in Nat \ {0}
    /\ LearnerWindow \in Nat \ {0}
    /\ LearnerTop \in Nat
    /\ BenchGrid \in Seq((Nat \ {0}) \X (Nat \ {0}))
    /\ ConfiguredThreads \in Nat
    /\ ConfiguredEnvs \in Nat

VARIABLES
    pc,                 \* where the world thread is
    state,              \* _state
    pausedFrom,         \* _pausedFrom
    pauseRequested,     \* _pauseRequested
    resumeRequested,    \* _resumeRequested
    request,            \* _request
    requested,          \* _requested
    plan,               \* _plan
    lastPlan,           \* _lastPlan; NoPlan when there is none
    fastBudget,         \* the budget _fastConfig was built for
    ticks,              \* _ticks, decisions since the scenario started
    ticksSinceDecision, \* _ticksSinceDecision
    learnerStarted,     \* _learnerStarted
    learner,            \* the child process, as the system and ChildProcess see it
    learnerArgs,        \* its command line
    client,             \* whose connection the server holds
    pending,            \* whose connection waits in the listener's backlog
    latest,             \* <<output directory, scenario>> -> whose latest.pt is there
    mapThreads,         \* the map update pool's threads
    benching,           \* _benching
    benchLearnerPhase,  \* _benchLearnerPhase
    benchTrials,        \* _benchTrials
    benchTrial,         \* _benchTrial
    benchScenario,      \* _benchScenario; NoScenario before the first benchmark
    benchWalk           \* where BenchTick's walk over the later trials is

consoleVars == <<pauseRequested, resumeRequested, request, requested, fastBudget>>
benchVars == <<benching, benchLearnerPhase, benchTrials, benchTrial, benchScenario, benchWalk>>
learnerVars == <<learner, learnerArgs, pending>>
clockVars == <<ticks, ticksSinceDecision>>
planVars == <<state, pausedFrom, plan, lastPlan, learnerStarted, mapThreads>>
vars == <<pc, consoleVars, planVars, clockVars, learnerVars, client, latest, benchVars>>

-----------------------------------------------------------------------------
(* Plans, benchmark trials and the learner's command line *)

Dirs == {"runs", "fast", "bench"}
Outcomes == {"None", "Done", "Skipped", "Failed", "Cancelled"}

\* An entry with envs of its own (envs > 0) is a benchmark trial, any other a stage of the curriculum.
Entry == [scenario : Scenarios, resume : BOOLEAN, result : Outcomes, threads : Nat, envs : Nat]
Plan == [entries : Seq(Entry), index : Nat, remote : BOOLEAN, limited : BOOLEAN, fast : BOOLEAN,
         budget : Budgets \cup {0}]
Trial == [threads : Nat, envs : Nat, learner : BOOLEAN, measured : BOOLEAN, noted : BOOLEAN]
Args == [scenario : Scenarios, dir : Dirs, resume : BOOLEAN, envs : Nat]

NoScenario == "none"
NoArgs == [scenario |-> NoScenario, dir |-> "none", resume |-> FALSE, envs |-> 0]
NoPlan == [entries |-> <<>>, index |-> 1, remote |-> FALSE, limited |-> FALSE, fast |-> FALSE, budget |-> 0]

NewEntry(scenario, resume) ==
    [scenario |-> scenario, resume |-> resume, result |-> "None", threads |-> 0, envs |-> 0]

\* The scenario lists a command may name.
ScenarioLists == UNION {[1 .. n -> Scenarios] : n \in 1 .. MaxPlan}

Current(p) == p.entries[p.index]
\* (mutated: the outcome overwrites those before it)
SetResultUpTo(p, i, outcome) ==
    [p EXCEPT !.entries = [j \in DOMAIN @ |-> IF j <= i THEN [@[j] EXCEPT !.result = outcome] ELSE @[j]]]
SetResult(p, i, outcome) == [p EXCEPT !.entries[i].result = outcome]

\* The directory an entry of a plan runs in: RunConfig().OutputDir.
DirOf(p, entry) == IF entry.envs # 0 THEN "bench" ELSE IF p.fast THEN "fast" ELSE "runs"
RunKey(p) == <<DirOf(p, Current(p)), Current(p).scenario>>

ArgsFor(p) == [scenario |-> Current(p).scenario, dir |-> DirOf(p, Current(p)), resume |-> Current(p).resume,
               envs |-> Current(p).envs]
ArgsKey == <<learnerArgs.dir, learnerArgs.scenario>>

RunState(p) == IF p.remote THEN "Training" ELSE "Running"

(* The learner process. A dead process stays the server's child ("zombie")
   until Poll reaps it; only then does the forge see how it ended. *)
Alive(s) == s \in {"starting", "working"}
IsRunning(s) == s \in {"starting", "working", "zombieOk", "zombieBad"}
Reaped(s) == CASE s = "zombieOk" -> "exitedOk" [] s = "zombieBad" -> "exitedBad" [] OTHER -> s
LearnerStates == {"none", "starting", "working", "zombieOk", "zombieBad", "exitedOk", "exitedBad"}

\* How a learner that is waited for (ChildProcess::Stop) may end.
Stopped(s) == IF Alive(s) THEN {"exitedOk", "exitedBad"} ELSE {Reaped(s)}

\* The run directories after a learner is told to stop: one that was training saves latest.pt, or dies before it does.
AfterStop(s, queued, files) ==
    IF s = "working" /\ queued # "auto" THEN {files, [files EXCEPT ![ArgsKey] = "own"]} ELSE {files}

\* (mutated: a learner that crashed has finished, too)
LearnerGone == plan.remote /\ learnerStarted /\ ~IsRunning(learner)
LearnerFinished == plan.remote /\ learnerStarted /\ learner = "exitedOk"

-----------------------------------------------------------------------------
(* Scenario and plan changes. They run in the middle of a handler, so what
   the handler has changed already travels with them in a record. *)

Midway == [request |-> request, requested |-> requested, pause |-> pauseRequested, resume |-> resumeRequested,
           learner |-> learner, client |-> client, pending |-> pending, files |-> latest,
           ticks |-> ticks, since |-> ticksSinceDecision, threads |-> mapThreads,
           benching |-> benching, phase |-> benchLearnerPhase, trials |-> benchTrials, trial |-> benchTrial]

\* Hanging up voids a pending pause or resume; a learner that was waited for has a known end.
HungUp(c) == [c EXCEPT !.client = "none", !.pause = FALSE, !.resume = FALSE]
WaitedFor(c, s, files) ==
    [c EXCEPT !.learner = s, !.files = files, !.pending = IF @ = "auto" THEN "gone" ELSE @]
LeftBy(c, stopLearner, left) ==
    IF stopLearner /\ IsRunning(c.learner)
    THEN {WaitedFor(left, s, files) : s \in Stopped(c.learner), files \in AfterStop(c.learner, c.pending, c.files)}
    ELSE {left}
TornKeepsClient(c, stopLearner) == LeftBy(c, stopLearner, [c EXCEPT !.pause = FALSE, !.resume = FALSE])
\* TeardownScenario(stopLearner): the client goes, the flags are void, the learner is waited for.
Torn(c, stopLearner) == LeftBy(c, stopLearner, HungUp(c))

\* (mutated: the benchmark goes on; the map threads stay)
BenchEndForgets(c) == [c EXCEPT !.phase = FALSE, !.threads = ConfiguredThreads]
BenchEndKeepsThreads(c) == [c EXCEPT !.benching = FALSE, !.phase = FALSE]
\* BenchEnd: the map update pool goes back to the configured thread count.
BenchEnd(c) == [c EXCEPT !.benching = FALSE, !.phase = FALSE, !.threads = ConfiguredThreads]

BenchEntry(scenario, trial) ==
    [scenario |-> scenario, resume |-> FALSE, result |-> "None", threads |-> trial.threads, envs |-> trial.envs]
BenchPlan(scenario, trials) ==
    [NoPlan EXCEPT !.entries = [i \in DOMAIN trials |-> BenchEntry(scenario, trials[i])],
                   !.remote = trials # <<>> /\ trials[1].learner]

(* Phase 1 over: the fastest measured settings run again with the learner.
   The rates are not modelled, so any measured trials may be the fastest. *)
Measured(trials) == {i \in 1 .. Len(trials) : trials[i].measured}
Fastest(trials) ==
    LET n == IF LearnerTop < Cardinality(Measured(trials)) THEN LearnerTop ELSE Cardinality(Measured(trials))
    IN  {f \in [1 .. n -> Measured(trials)] : \A i, j \in 1 .. n : f[i] = f[j] => i = j}
LearnerTrials(trials, best) ==
    [i \in DOMAIN best |-> [trials[best[i]] EXCEPT !.learner = TRUE, !.measured = FALSE, !.noted = FALSE]]

LearnerPhase(c, again) ==
    [c EXCEPT !.phase = TRUE, !.trials = @ \o again, !.trial = Len(c.trials) + 1,
              !.requested = BenchPlan(benchScenario, again), !.request = "Start"]

\* The contexts BenchPlanEnded leaves: the learner phase is requested, or the benchmark is reported and ends.
BenchPlanEnded(c) ==
    IF c.phase \/ LearnerTop = 0 \/ Measured(c.trials) = {}
    THEN {BenchEnd(c)}
    ELSE {LearnerPhase(c, LearnerTrials(c.trials, best)) : best \in Fastest(c.trials)}

\* The context becomes the state; `benchWalk' belongs to BenchTick.
Settle(c) ==
    /\ request' = c.request
    /\ requested' = c.requested
    /\ pauseRequested' = c.pause
    /\ resumeRequested' = c.resume
    /\ client' = c.client
    /\ pending' = c.pending
    /\ ticks' = c.ticks
    /\ ticksSinceDecision' = c.since
    /\ learner' = c.learner
    /\ latest' = c.files
    /\ mapThreads' = c.threads
    /\ benching' = c.benching
    /\ benchLearnerPhase' = c.phase
    /\ benchTrials' = c.trials
    /\ benchTrial' = c.trial

EndPlan(p, c) ==
    /\ state' = "Idle"
    /\ plan' = p
    /\ lastPlan' = p
    /\ learnerStarted' = FALSE
    /\ \E d \in IF c.benching THEN BenchPlanEnded(c) ELSE {c} : Settle(d)
    /\ UNCHANGED learnerArgs

\* StartCurrent once it has a playable scenario: the envs are built and, for training, a learner is started.
StartStage(p, c) ==
    LET files == [c.files EXCEPT ![RunKey(p)] = IF @ = "none" THEN "none"
                                                ELSE IF Current(p).resume THEN "own" ELSE "earlier"]
        spawns == p.remote /\ AutoStart /\ ~IsRunning(c.learner)
        threads == IF Current(p).threads # 0 THEN Current(p).threads ELSE c.threads
    IN  /\ state' = RunState(p)
        /\ plan' = p
        /\ \E started \in IF spawns THEN BOOLEAN ELSE {FALSE} :
              /\ learnerStarted' = started
              /\ learnerArgs' = IF started THEN ArgsFor(p) ELSE learnerArgs
              /\ Settle([c EXCEPT !.files = files, !.threads = threads, !.ticks = 0, !.since = 0,
                                  !.learner = IF started THEN "starting" ELSE @])
        /\ UNCHANGED lastPlan

\* StartCurrent refuses (unknown policy, envs or socket that cannot be set up): its callers end the plan.
FailToStart(p, c) ==
    LET own == IF Current(p).threads # 0 THEN {Current(p).threads} ELSE {}
    IN  \E threads \in {c.threads} \cup own, d \in Torn(c, TRUE) :
           EndPlan(SetResult(p, p.index, "Failed"), [d EXCEPT !.threads = threads])

(* StartCurrent and what its callers do when it fails. Scenarios nobody can
   play are skipped; a plan that has none left ends as after its last one. *)
Playable(p, i) == p.entries[i].scenario \notin Unplayable
\* (mutated: scenarios passed over get no outcome)
PassOverUnmarked(p, next) == [p EXCEPT !.index = IF next > Len(p.entries) THEN Len(p.entries) ELSE next]
PassOver(p, next) ==
    [p EXCEPT !.index = IF next > Len(p.entries) THEN Len(p.entries) ELSE next,
              !.entries = [i \in DOMAIN p.entries |-> IF p.index <= i /\ i < next
                                                      THEN [p.entries[i] EXCEPT !.result = "Skipped"]
                                                      ELSE p.entries[i]]]

StartCurrent(p, c) ==
    \E next \in p.index .. Len(p.entries) + 1 :
       /\ \A i \in p.index .. next - 1 : ~Playable(p, i)
       /\ IF next > Len(p.entries)
          THEN EndPlan(PassOver(p, next), c)
          ELSE /\ Playable(p, next)
               /\ \/ StartStage(PassOver(p, next), c)
                  \/ FailToStart(PassOver(p, next), c)

\* (mutated: only a cancelled stage stops its learner)
StopsCancelled(outcome) == outcome = "Cancelled"
\* FinishCurrent: only a learner that finished by itself is not stopped, and a benchmark's always is.
StopsLearner(outcome) == outcome # "Done" \/ benching

FinishCurrent(outcome, c) ==
    LET decided == SetResult(plan, plan.index, outcome)
    IN  \E d \in Torn(c, StopsLearner(outcome)) :
           IF plan.index < Len(plan.entries)
           THEN StartCurrent([decided EXCEPT !.index = @ + 1], d)
           ELSE EndPlan(decided, d)

-----------------------------------------------------------------------------
(* OnUpdate *)

\* ApplyRequest: what `_request' asks for happens here and nowhere else, and it is forgotten before it does.
ApplyStart ==
    StartCurrent([requested EXCEPT !.index = 1], [Midway EXCEPT !.request = "None", !.requested = NoPlan])
ApplyCancel ==
    LET c == [Midway EXCEPT !.request = "None"]
    IN  IF state = "Idle"
        THEN /\ Settle(c)
             /\ UNCHANGED <<state, plan, lastPlan, learnerStarted, learnerArgs>>
        ELSE \E d \in Torn(IF benching THEN BenchEnd(c) ELSE c, TRUE) :
                EndPlan(SetResult(plan, plan.index, "Cancelled"), d)
ApplySkip ==
    LET c == [Midway EXCEPT !.request = "None"]
    IN  IF state = "Idle"
        THEN /\ Settle(c)
             /\ UNCHANGED <<state, plan, lastPlan, learnerStarted, learnerArgs>>
        ELSE FinishCurrent("Skipped", c)
ApplyRequest ==
    /\ CASE request = "Start" -> ApplyStart
         [] request = "Cancel" -> ApplyCancel
         [] request = "Skip" -> ApplySkip
         [] OTHER -> UNCHANGED <<pauseRequested, resumeRequested, request, requested, state, plan, lastPlan,
                                 learnerStarted, learnerVars, client, latest, mapThreads, clockVars, benching,
                                 benchLearnerPhase, benchTrials, benchTrial>>
    /\ UNCHANGED <<pausedFrom, fastBudget, benchScenario, benchWalk>>

BeginTick ==
    /\ pc = "world"
    /\ pc' = "tick"
    /\ ApplyRequest

\* A pending pause takes effect between decisions, and holds the tick.
Pause ==
    /\ pc = "tick"
    /\ pauseRequested
    /\ state \in {"Training", "Running"}
    /\ pauseRequested' = FALSE
    /\ pausedFrom' = state
    /\ state' = "Paused"
    /\ pc' = "hold"
    /\ UNCHANGED <<resumeRequested, request, requested, fastBudget, plan, lastPlan, learnerStarted, mapThreads,
                   clockVars, learnerVars, client, latest, benchVars>>

\* HoldWhilePaused looks at the flags: resume first, then a request.
HoldResumes ==
    /\ pc = "hold"
    /\ resumeRequested
    /\ resumeRequested' = FALSE
    /\ state' = pausedFrom
    /\ pc' = "world"
    /\ UNCHANGED <<pausedFrom, pauseRequested, request, requested, fastBudget, plan, lastPlan, learnerStarted,
                   mapThreads, clockVars, learnerVars, client, latest, benchVars>>
HoldAppliesRequest ==
    /\ pc = "hold"
    /\ ~resumeRequested
    /\ request # "None"
    /\ pc' = "world"
    /\ ApplyRequest
HoldPolls ==
    /\ pc = "hold"
    /\ ~resumeRequested
    /\ request = "None"
    /\ learner' = Reaped(learner)
    /\ UNCHANGED <<pc, consoleVars, planVars, clockVars, learnerArgs, pending, client, latest, benchVars>>

\* An idle sim does nothing; a tick between two decisions only moves the world.
IdleTick ==
    /\ pc = "tick"
    /\ state = "Idle"
    /\ pc' = "world"
    /\ UNCHANGED <<consoleVars, planVars, clockVars, learnerVars, client, latest, benchVars>>
Ticking == pc = "tick" /\ ~pauseRequested /\ state \in {"Training", "Running"}
WorldTick ==
    /\ Ticking
    /\ ticksSinceDecision + 1 < TicksPerDecision
    /\ ticksSinceDecision' = ticksSinceDecision + 1
    /\ pc' = "world"
    /\ UNCHANGED <<consoleVars, planVars, ticks, learnerVars, client, latest, benchVars>>

\* The bound of `ticks': no window is longer.
MaxTicks == IF BenchWindow < LearnerWindow THEN LearnerWindow ELSE BenchWindow
NextTicks == IF ticks < MaxTicks THEN ticks + 1 ELSE ticks
Decides == Ticking /\ ticksSinceDecision + 1 >= TicksPerDecision
\* (mutated: the ticks since the decision are not reset)
CountDecisionOnly == ticks' = NextTicks /\ ticksSinceDecision' = ticksSinceDecision + 1
CountDecision == ticks' = NextTicks /\ ticksSinceDecision' = 0

\* MaybeReport reaps the learner when a progress report is due.
Polled == learner' \in {learner, Reaped(learner)}

\* LocalDecision: the episode count is reached, or the envs are stepped. (The policy cannot fail here: StartCurrent
\* refused one the scenario does not know, and ScriptedAction depends on nothing else.)
LocalDecisionEnds ==
    LET counted == [Midway EXCEPT !.ticks = NextTicks, !.since = 0]
    IN  /\ Decides
        /\ ~plan.remote
        /\ plan.limited
        /\ FinishCurrent("Done", counted)
        /\ pc' = "decided"
        /\ UNCHANGED <<pausedFrom, fastBudget, benchScenario, benchWalk>>
LocalDecisionSteps ==
    /\ Decides
    /\ CountDecision
    /\ ~plan.remote
    /\ pc' = "decided"
    /\ UNCHANGED <<consoleVars, planVars, learnerVars, client, latest, benchVars>>

\* RemoteDecision with no client: wait for one.
WaitForLearner ==
    /\ Decides
    /\ CountDecision
    /\ plan.remote
    /\ client = "none"
    /\ Polled
    /\ pc' = "accept"
    /\ UNCHANGED <<consoleVars, planVars, learnerArgs, pending, client, latest, benchVars>>
\* RemoteDecision with a client: the STEP is sent, or sending it shows that the learner is gone.
SendStep ==
    /\ Decides
    /\ CountDecision
    /\ plan.remote
    /\ client # "none"
    /\ Polled
    /\ IF client = "gone" THEN pc' = "decided" /\ client' = "none"
                          ELSE pc' = "recv" /\ UNCHANGED client
    /\ UNCHANGED <<consoleVars, planVars, learnerArgs, pending, latest, benchVars>>

\* AcceptClient takes a connection and waits for its HELLO, and nothing else runs until that came.
AcceptConnection ==
    /\ pc = "accept"
    /\ pending # "none"
    /\ client' = pending
    /\ pending' = "none"
    /\ pc' = "hello"
    /\ UNCHANGED <<consoleVars, planVars, clockVars, learner, learnerArgs, latest, benchVars>>
\* SPEC and the first STEP follow the HELLO.
HelloArrives ==
    /\ pc = "hello"
    /\ client # "gone"
    /\ pc' = "recv"
    /\ UNCHANGED <<consoleVars, planVars, clockVars, learnerVars, client, latest, benchVars>>
\* Another message, or another protocol version: the next connection is waited for.
HelloRejected ==
    /\ pc = "hello"
    /\ client # "gone"
    /\ client' = "none"
    /\ pc' = "accept"
    /\ UNCHANGED <<consoleVars, planVars, clockVars, learnerVars, latest, benchVars>>
\* The other end went away: before its HELLO the next connection is waited for, after it the next decision does.
HelloLost ==
    /\ pc = "hello"
    /\ client = "gone"
    /\ client' = "none"
    /\ pc' \in {"accept", "decided"}
    /\ UNCHANGED <<consoleVars, planVars, clockVars, learnerVars, latest, benchVars>>
\* (mutated: the learner is not polled)
AcceptIdleBlind ==
    /\ pc = "accept"
    /\ pending = "none"
    /\ pc' = "acceptPump"
    /\ UNCHANGED <<consoleVars, planVars, clockVars, learnerVars, client, latest, benchVars>>
AcceptIdle ==
    /\ pc = "accept"
    /\ pending = "none"
    /\ pc' = "acceptPump"
    /\ learner' = Reaped(learner)
    /\ UNCHANGED <<consoleVars, planVars, clockVars, learnerArgs, pending, client, latest, benchVars>>
\* (mutated: a request does not end the wait; a pause does not)
StopsAcceptingLate == pauseRequested \/ LearnerFinished
StopsAcceptingUnpaused == request # "None" \/ LearnerFinished
\* onAccepting answers no: the wait ends, and the stage with it when its learner has finished.
StopsAccepting == request # "None" \/ pauseRequested \/ LearnerFinished
AcceptPumped ==
    /\ pc = "acceptPump"
    /\ IF LearnerFinished
       THEN /\ FinishCurrent("Done", Midway)
            /\ pc' = "decided"
            /\ UNCHANGED <<pausedFrom, fastBudget, benchScenario, benchWalk>>
       ELSE /\ pc' = IF StopsAccepting THEN "decided" ELSE "accept"
            /\ UNCHANGED <<consoleVars, planVars, clockVars, learnerVars, client, latest, benchVars>>

\* Waiting for the actions: they come, something else does, the connection is lost, or the console is served.
ReceiveActions ==
    /\ pc = "recv"
    /\ pc' = "decided"
    /\ UNCHANGED <<consoleVars, planVars, clockVars, learnerVars, client, latest, benchVars>>
ReceiveRejected ==
    /\ pc = "recv"
    /\ client # "gone"
    /\ pc' = "decided"
    /\ client' = "none"
    /\ UNCHANGED <<consoleVars, planVars, clockVars, learnerVars, latest, benchVars>>
ReceiveLost ==
    /\ pc = "recv"
    /\ client = "gone"
    /\ pc' = "decided"
    /\ client' = "none"
    /\ UNCHANGED <<consoleVars, planVars, clockVars, learnerVars, latest, benchVars>>
\* (mutated: the console does not run while the actions are awaited)
ReceiveSilent ==
    /\ pc = "recv"
    /\ client # "gone"
    /\ learner' = Reaped(learner)
    /\ UNCHANGED <<pc, consoleVars, planVars, clockVars, learnerArgs, pending, client, latest, benchVars>>
ReceiveIdle ==
    /\ pc = "recv"
    /\ client # "gone"
    /\ pc' = "recvPump"
    /\ learner' = Reaped(learner)
    /\ UNCHANGED <<consoleVars, planVars, clockVars, learnerArgs, pending, client, latest, benchVars>>
ReceivePumped ==
    /\ pc = "recvPump"
    /\ IF request = "None" THEN pc' = "recv" /\ UNCHANGED client
                           ELSE pc' = "decided" /\ client' = "none"
    /\ UNCHANGED <<consoleVars, planVars, clockVars, learnerVars, latest, benchVars>>

-----------------------------------------------------------------------------
(* BenchTick, after every decision of a benchmark *)

RunEnvs == IF Current(plan).envs # 0 THEN Current(plan).envs ELSE ConfiguredEnvs
Window == IF benchLearnerPhase THEN LearnerWindow ELSE BenchWindow

\* The first trial from the running one on that was not dropped, or one past the last.
OpenTrial(trials, from, t) ==
    /\ t \in from .. Len(trials) + 1
    /\ \A i \in from .. t - 1 : trials[i].noted
    /\ t <= Len(trials) => ~trials[t].noted

AfterDecision ==
    /\ pc = "decided"
    /\ ~benching
    /\ pc' = "world"
    /\ UNCHANGED <<consoleVars, planVars, clockVars, learnerVars, client, latest, benchVars>>
BenchTick ==
    /\ pc = "decided"
    /\ benching
    /\ \E t \in benchTrial .. Len(benchTrials) + 1 :
          /\ OpenTrial(benchTrials, benchTrial, t)
          /\ benchTrial' = t
          /\ IF t > Len(benchTrials) \/ ticks < Window
             THEN pc' = "world" /\ UNCHANGED <<benchTrials, benchWalk>>
             ELSE /\ pc' = "skipLater"
                  /\ benchTrials' = [benchTrials EXCEPT ![t].measured = TRUE, ![t].envs = RunEnvs]
                  \* The memory is nearly full, or the walk has nowhere to go.
                  /\ benchWalk' \in {Len(benchTrials), t}
    /\ UNCHANGED <<consoleVars, planVars, clockVars, learnerVars, client, latest, benching, benchLearnerPhase,
                   benchScenario>>

\* One step of the walk from the back: a bigger trial of the same thread count is noted and its plan entry erased.
Erase(entries, i) == SubSeq(entries, 1, i - 1) \o SubSeq(entries, i + 1, Len(entries))
\* (mutated: one entry too far back)
TrialEntryAfter(i) == plan.index + i - benchTrial + 1
\* Trial i is this plan entry, said of the trials after the running one.
TrialEntry(i) == plan.index + i - benchTrial
BenchSkipLater ==
    LET trial == benchTrials[benchTrial]
        later == benchTrials[benchWalk]
        entry == TrialEntry(benchWalk)
        skips == later.threads = trial.threads /\ later.envs > trial.envs /\ ~later.noted
    IN  /\ pc = "skipLater"
        /\ benchWalk > benchTrial
        /\ benchWalk' = benchWalk - 1
        /\ benchTrials' = IF skips THEN [benchTrials EXCEPT ![benchWalk].noted = TRUE] ELSE benchTrials
        /\ plan' = IF skips /\ entry <= Len(plan.entries)
                   THEN [plan EXCEPT !.entries = Erase(plan.entries, entry)] ELSE plan
        /\ UNCHANGED <<pc, consoleVars, state, pausedFrom, lastPlan, learnerStarted, mapThreads, clockVars,
                       learnerVars, client, latest, benching, benchLearnerPhase, benchTrial, benchScenario>>
BenchTrialDone ==
    /\ pc = "skipLater"
    /\ benchWalk = benchTrial
    /\ benchWalk' = 0
    /\ pc' = "world"
    /\ FinishCurrent("Done", [Midway EXCEPT !.trial = @ + 1])
    /\ UNCHANGED <<pausedFrom, fastBudget, benchScenario>>

-----------------------------------------------------------------------------
(* Console commands. They run between ticks, and in every wait of one. *)

ConsoleRuns == pc \in {"world", "acceptPump", "recvPump", "hold"}
Console(command) == command \in Commands /\ ConsoleRuns
IdleConsole(command) == Console(command) /\ state = "Idle" /\ request # "Start"

RequestStart(p) == request' = "Start" /\ requested' = p
OnlyRequests == UNCHANGED <<pc, pauseRequested, resumeRequested, planVars, clockVars, learnerVars, client, latest>>

StagesOf(names, resumeFirst) == [i \in DOMAIN names |-> NewEntry(names[i], resumeFirst /\ i = 1)]

CommandStart ==
    /\ IdleConsole("start")
    /\ \E names \in ScenarioLists, limited \in BOOLEAN :
          /\ limited => ~ConfigRemote
          /\ RequestStart([NoPlan EXCEPT !.entries = StagesOf(names, FALSE), !.remote = ConfigRemote,
                                         !.limited = limited])
    /\ OnlyRequests
    /\ UNCHANGED <<fastBudget, benchVars>>

\* The fast profile is rebuilt around the named budget before the scenario names are looked at.
CommandFast ==
    /\ IdleConsole("fast")
    /\ \E budget \in Budgets :
          /\ fastBudget' = budget
          /\ \/ \E names \in ScenarioLists :
                   RequestStart([NoPlan EXCEPT !.entries = StagesOf(names, FALSE), !.remote = TRUE, !.fast = TRUE,
                                               !.budget = budget])
             \/ UNCHANGED <<request, requested>>    \* an unknown scenario: the command is refused
    /\ OnlyRequests
    /\ UNCHANGED benchVars

CommandRun ==
    /\ IdleConsole("run")
    /\ \E name \in Scenarios, limited \in BOOLEAN :
          RequestStart([NoPlan EXCEPT !.entries = StagesOf(<<name>>, FALSE), !.limited = limited])
    /\ OnlyRequests
    /\ UNCHANGED <<fastBudget, benchVars>>

CommandBench ==
    /\ IdleConsole("bench")
    /\ BenchGrid # <<>>
    /\ \E name \in Scenarios :
          LET trials == [i \in DOMAIN BenchGrid |->
                            [threads |-> BenchGrid[i][1], envs |-> BenchGrid[i][2], learner |-> FALSE,
                             measured |-> FALSE, noted |-> FALSE]]
          IN  /\ benchScenario' = name
              /\ benchTrials' = trials
              /\ RequestStart(BenchPlan(name, trials))
    /\ benching' = TRUE
    /\ benchLearnerPhase' = FALSE
    /\ benchTrial' = 1
    /\ OnlyRequests
    /\ UNCHANGED <<fastBudget, benchWalk>>

\* `forge resume' while paused (`unpause': an operator who types it only then).
CommandUnpause ==
    /\ Console("resume") \/ Console("unpause")
    /\ state = "Paused"
    /\ resumeRequested' = TRUE
    /\ UNCHANGED <<pc, pauseRequested, request, requested, fastBudget, planVars, clockVars, learnerVars, client,
                   latest, benchVars>>

\* `forge resume' while a stage waits for its learner: start one, from the run's latest.pt when there is one.
CommandRestartLearner ==
    /\ Console("resume")
    /\ state = "Training"
    /\ client = "none"
    /\ ~IsRunning(learner)
    /\ AutoStart
    /\ LET p == [plan EXCEPT !.entries[plan.index].resume = latest[RunKey(plan)] # "none"]
       IN  /\ plan' = p
           /\ \E started \in BOOLEAN :
                 /\ learnerStarted' = started
                 /\ learner' = IF started THEN "starting" ELSE learner
                 /\ learnerArgs' = IF started THEN ArgsFor(p) ELSE learnerArgs
    /\ UNCHANGED <<pc, consoleVars, state, pausedFrom, lastPlan, mapThreads, clockVars, pending, client, latest,
                   benchVars>>

\* `forge resume' while idle: the last plan from where it stopped, or the scenarios named.
Unfinished(p, i) == p.entries[i].result \notin {"Done", "Skipped"}
ResumedEntries(p, first) ==
    [i \in 1 .. Len(p.entries) - first + 1 |-> NewEntry(p.entries[first + i - 1].scenario, i = 1)]
Resumable(p) == latest[RunKey(p)] # "none"
CommandResumeLast ==
    /\ IdleConsole("resume")
    /\ lastPlan.remote
    /\ \E first \in DOMAIN lastPlan.entries :
          /\ Unfinished(lastPlan, first)
          /\ \A i \in 1 .. first - 1 : ~Unfinished(lastPlan, i)
          /\ LET p == [NoPlan EXCEPT !.entries = ResumedEntries(lastPlan, first), !.remote = TRUE,
                                     !.fast = lastPlan.fast]
             IN  Resumable(p) /\ RequestStart(p)
    /\ OnlyRequests
    /\ UNCHANGED <<fastBudget, benchVars>>
CommandResumeNamed ==
    /\ IdleConsole("resumeNamed")
    /\ ConfigRemote
    /\ \E names \in ScenarioLists :
          LET p == [NoPlan EXCEPT !.entries = StagesOf(names, TRUE), !.remote = TRUE]
          IN  Resumable(p) /\ RequestStart(p)
    /\ OnlyRequests
    /\ UNCHANGED <<fastBudget, benchVars>>

\* (mutated: whatever the state is)
CommandPauseAnytime ==
    /\ Console("pause")
    /\ ~pauseRequested
    /\ pauseRequested' = TRUE
    /\ UNCHANGED <<pc, resumeRequested, request, requested, fastBudget, planVars, clockVars, learnerVars, client,
                   latest, benchVars>>
CommandPause ==
    /\ Console("pause")
    /\ state \in {"Training", "Running"}
    /\ ~pauseRequested
    /\ pauseRequested' = TRUE
    /\ UNCHANGED <<pc, resumeRequested, request, requested, fastBudget, planVars, clockVars, learnerVars, client,
                   latest, benchVars>>

\* `forge cancel' before the plan started takes the request back; afterwards it asks the next tick to end the plan
\* (`cancelRunning': an operator who types it only then).
CommandCancel ==
    /\ Console("cancel") \/ Console("cancelRunning")
    /\ \/ /\ "cancel" \in Commands
          /\ state = "Idle"
          /\ request = "Start"
          /\ request' = "None"
          /\ requested' = NoPlan
       \/ /\ state # "Idle"
          /\ request' = "Cancel"
          /\ UNCHANGED requested
    /\ OnlyRequests
    /\ UNCHANGED <<fastBudget, benchVars>>
CommandSkip ==
    /\ Console("skip")
    /\ state # "Idle"
    /\ request' = "Skip"
    /\ OnlyRequests
    /\ UNCHANGED <<requested, fastBudget, benchVars>>

-----------------------------------------------------------------------------
(* The learner process, and a learner an operator starts by hand. They run
   beside the world thread; only the one whose turn it is (`recv') trains. *)

Hangup(who) == IF who = "auto" THEN "gone" ELSE who
HasTurn == pc \in {"recv", "recvPump"} /\ client = "auto" /\ learner = "working"

\* A fresh run archives the directory's earlier run before it connects.
LearnerConnects ==
    /\ learner = "starting"
    /\ pending = "none"
    /\ learner' = "working"
    /\ pending' = "auto"
    /\ latest' = IF learnerArgs.resume THEN latest ELSE [latest EXCEPT ![ArgsKey] = "none"]
    /\ UNCHANGED <<pc, consoleVars, planVars, clockVars, learnerArgs, client, benchVars>>
LearnerSaves ==
    /\ HasTurn
    /\ latest' = [latest EXCEPT ![ArgsKey] = "own"]
    /\ UNCHANGED <<pc, consoleVars, planVars, clockVars, learnerVars, client, benchVars>>
\* Converged or out of budget: latest.pt and finished.json are written, the socket is closed, the process exits 0.
\* A benchmark trial has a budget it never reaches.
LearnerFinishes ==
    /\ HasTurn
    /\ learnerArgs.dir # "bench"
    /\ learner' = "zombieOk"
    /\ client' = "gone"
    /\ latest' = [latest EXCEPT ![ArgsKey] = "own"]
    /\ UNCHANGED <<pc, consoleVars, planVars, clockVars, learnerArgs, pending, benchVars>>
\* It crashes, or the sim hung up on it and it saves and exits with an error.
LearnerDies ==
    /\ Alive(learner)
    /\ learner' = "zombieBad"
    /\ client' = Hangup(client)
    /\ pending' = Hangup(pending)
    /\ \/ UNCHANGED latest
       \/ learner = "working" /\ pending # "auto" /\ latest' = [latest EXCEPT ![ArgsKey] = "own"]
       \/ learner = "starting" /\ ~learnerArgs.resume /\ latest' = [latest EXCEPT ![ArgsKey] = "none"]
    /\ UNCHANGED <<pc, consoleVars, planVars, clockVars, learnerArgs, benchVars>>

HandConnects ==
    /\ HandLearners
    /\ pending = "none"
    /\ client # "hand"
    /\ pending' = "hand"
    /\ UNCHANGED <<pc, consoleVars, planVars, clockVars, learner, learnerArgs, client, latest, benchVars>>
HandLeaves ==
    /\ \/ pending = "hand" /\ pending' = "gone" /\ UNCHANGED client
       \/ client = "hand" /\ client' = "gone" /\ UNCHANGED pending
    /\ UNCHANGED <<pc, consoleVars, planVars, clockVars, learner, learnerArgs, latest, benchVars>>

-----------------------------------------------------------------------------
(* The specification *)

Init ==
    /\ pc = "world"
    /\ state = "Idle" /\ pausedFrom = "Idle"
    /\ pauseRequested = FALSE /\ resumeRequested = FALSE
    /\ request = "None" /\ requested = NoPlan
    /\ plan = NoPlan /\ lastPlan = NoPlan
    /\ fastBudget \in Budgets
    /\ ticks = 0 /\ ticksSinceDecision = 0
    /\ learnerStarted = FALSE /\ learner = "none" /\ learnerArgs = NoArgs
    /\ client = "none" /\ pending = "none"
    /\ \E runs \in SUBSET EarlierRuns :
          latest = [key \in Dirs \X Scenarios |-> IF key \in runs THEN "earlier" ELSE "none"]
    /\ mapThreads = ConfiguredThreads
    /\ benching = FALSE /\ benchLearnerPhase = FALSE
    /\ benchTrials = <<>> /\ benchTrial = 1 /\ benchWalk = 0
    /\ benchScenario = NoScenario

\* The server is shut down (the learner is told to stop and waited for) and started again: only the runs remain.
RestartServer ==
    /\ "restart" \in Commands
    /\ pc' = "world"
    /\ state' = "Idle" /\ pausedFrom' = "Idle"
    /\ pauseRequested' = FALSE /\ resumeRequested' = FALSE
    /\ request' = "None" /\ requested' = NoPlan
    /\ plan' = NoPlan /\ lastPlan' = NoPlan
    /\ fastBudget' \in Budgets
    /\ ticks' = 0 /\ ticksSinceDecision' = 0
    /\ learnerStarted' = FALSE /\ learner' = "none" /\ learnerArgs' = NoArgs
    /\ client' = "none" /\ pending' = "none"
    /\ latest' \in AfterStop(learner, pending, latest)
    /\ mapThreads' = ConfiguredThreads
    /\ benching' = FALSE /\ benchLearnerPhase' = FALSE
    /\ benchTrials' = <<>> /\ benchTrial' = 1 /\ benchWalk' = 0
    /\ benchScenario' = NoScenario

\* What the world thread does by itself, and what it does when a message comes.
WorldThread ==
    \/ BeginTick \/ Pause \/ HoldResumes \/ HoldAppliesRequest \/ HoldPolls \/ IdleTick \/ WorldTick
    \/ LocalDecisionEnds \/ LocalDecisionSteps \/ WaitForLearner \/ SendStep
    \/ AcceptConnection \/ AcceptIdle \/ AcceptPumped \/ HelloLost
    \/ ReceiveLost \/ ReceiveIdle \/ ReceivePumped
    \/ AfterDecision \/ BenchTick \/ BenchSkipLater \/ BenchTrialDone
Hellos == HelloArrives \/ HelloRejected
Messages == ReceiveActions \/ ReceiveRejected

ConsoleCommands ==
    \/ CommandStart \/ CommandFast \/ CommandRun \/ CommandBench
    \/ CommandUnpause \/ CommandRestartLearner \/ CommandResumeLast \/ CommandResumeNamed
    \/ CommandPause \/ CommandCancel \/ CommandSkip

Learners ==
    \/ LearnerConnects \/ LearnerSaves \/ LearnerFinishes \/ LearnerDies
    \/ HandConnects \/ HandLeaves

Next == WorldThread \/ Hellos \/ Messages \/ ConsoleCommands \/ Learners \/ RestartServer

Spec == Init /\ [][Next]_vars

(* The world loop never stops ticking, and every wait of a tick polls: the
   world thread takes a step it can take. A learner that connected says HELLO
   (train.py sends it before anything else). Nothing is assumed of the console,
   of a learner that has a STEP to answer, or of when learners end. *)
FairSpec == Spec /\ WF_vars(WorldThread)
HelloSpec == FairSpec /\ WF_vars(Hellos)

-----------------------------------------------------------------------------
(* Properties *)

\* Every variable has its type, and the counters their bounds.
TypeOK ==
    /\ pc \in {"world", "tick", "accept", "acceptPump", "hello", "recv", "recvPump", "hold",
               "decided", "skipLater"}
    /\ state \in {"Idle", "Training", "Running", "Paused"}
    /\ pausedFrom \in {"Idle", "Training", "Running"}
    /\ pauseRequested \in BOOLEAN
    /\ resumeRequested \in BOOLEAN
    /\ request \in {"None", "Start", "Cancel", "Skip"}
    /\ requested \in Plan
    /\ plan \in Plan
    /\ lastPlan \in Plan
    /\ fastBudget \in Budgets
    /\ ticks \in 0 .. MaxTicks
    /\ ticksSinceDecision \in 0 .. TicksPerDecision - 1
    /\ learnerStarted \in BOOLEAN
    /\ learner \in LearnerStates
    /\ learnerArgs \in Args \cup {NoArgs}
    /\ client \in {"none", "auto", "hand", "gone"}
    /\ pending \in {"none", "auto", "hand", "gone"}
    /\ latest \in [Dirs \X Scenarios -> {"none", "earlier", "own"}]
    /\ mapThreads \in Nat
    /\ benching \in BOOLEAN
    /\ benchLearnerPhase \in BOOLEAN
    /\ benchTrials \in Seq(Trial)
    /\ benchTrial \in Nat
    /\ benchWalk \in Nat
    /\ benchScenario \in Scenarios \cup {NoScenario}

Busy == state # "Idle"
SameStage == Busy /\ state' # "Idle" /\ plan'.index = plan.index

(* EndPlan and TeardownScenario leave nothing behind: an idle sim has no
   learner running, holds no connection, and has no pause or resume pending
   that the next plan would run into. *)
IdleHoldsNothing ==
    ~Busy => /\ ~IsRunning(learner)
             /\ ~learnerStarted
             /\ client = "none"
             /\ ~pauseRequested /\ ~resumeRequested

(* A learner that runs was started for the stage the plan is at: a training
   stage, the same scenario, directory, envs and way to begin. StartCurrent
   leaves a learner of the stage before it alone, so it has to be gone by then. *)
LearnerServesStage ==
    IsRunning(learner) => Busy /\ plan.remote /\ learnerStarted /\ learnerArgs = ArgsFor(plan)

(* The plan is worked off in order: exactly the entries before the running one
   have an outcome (FinishCurrent, the scenarios StartCurrent skips, and the
   benchmark's erasing of entries further back). *)
PlanInOrder ==
    Busy => /\ plan.index \in DOMAIN plan.entries
            /\ \A i \in DOMAIN plan.entries : plan.entries[i].result # "None" <=> i < plan.index

(* A pending pause or resume belongs to the stage that runs, never to the one
   after it, and a pause goes back to the state it came from. *)
FlagsBelongToStage ==
    /\ pauseRequested => state = RunState(plan)
    /\ resumeRequested => state = "Paused"
    /\ state = "Paused" => pausedFrom = RunState(plan) /\ pc \notin {"tick", "accept", "recv", "decided"}

(* A training stage is done only when the learner started for it exited by
   itself with success, and its run directory then holds its own checkpoint:
   not when it is skipped or cancelled, crashes, or is stopped while it saves. *)
DoneIsEarned ==
    [][\A i \in DOMAIN plan.entries \cap DOMAIN plan'.entries :
          (/\ Busy /\ plan.remote /\ ~benching
           /\ plan.entries[i].result = "None" /\ plan'.entries[i].result = "Done")
          => /\ i = plan.index /\ learnerStarted /\ learner = "exitedOk"
             /\ latest[RunKey(plan)] = "own"]_vars

(* While a stage runs, no outcome decided before it changes, and the stage
   itself gets one only as it ends: a command, a pause or a lost connection
   never decides it. *)
OutcomesStick ==
    [][Busy => \A i \in (1 .. plan.index) \cap DOMAIN plan'.entries :
          (plan.entries[i].result # "None" \/ SameStage) => plan'.entries[i].result = plan.entries[i].result]_vars

(* Only a benchmark's own plan runs as a benchmark: BenchTick would end an
   ordinary stage as a trial, and record it as done. *)
OnlyTrialsBench ==
    benching => IF Busy THEN Current(plan).envs # 0 ELSE request = "Start" /\ requested.entries[1].envs # 0

(* The running entry is the trial BenchTick will measure: the same map threads
   and envs, with the learner or without, at the pool's real thread count,
   whatever the walks over skipped trials removed from the two lists. *)
BenchAligned ==
    Busy /\ benching => \E t \in DOMAIN benchTrials :
        /\ OpenTrial(benchTrials, benchTrial, t)
        /\ Current(plan).threads = benchTrials[t].threads /\ mapThreads = benchTrials[t].threads
        /\ Current(plan).envs = benchTrials[t].envs
        /\ plan.remote = benchTrials[t].learner

(* Outside a benchmark the map update pool has the configured threads: however
   a benchmark ends (its last trial, a failed start, a cancel), it gives them back. *)
MapThreadsRestored == ~benching => mapThreads = ConfiguredThreads

(* A benchmark trains nothing in the real run directories. *)
RealRunsUntouched == \A s \in Scenarios : latest[<<"runs", s>>] # "own"

(* The console is served again and again, wherever the world thread waits. *)
ConsoleAnswers == []<>ConsoleRuns

(* A cancel is applied, whatever the world thread waits for: the plan ends,
   unless a skip replaced it first. *)
CancelIsHeard == request = "Cancel" ~> ~Busy \/ request = "Skip"

(* A stage whose learner finished by itself ends, or is paused, or its learner
   was started again: the sim never waits for a learner that will not come. *)
FinishedStageEnds ==
    \A i \in 1 .. MaxPlan :
       (state = "Training" /\ plan.index = i /\ learner = "zombieOk")
       ~> (state # "Training" \/ plan.index # i \/ learner = "starting")

(* A pause takes effect or is void, unless the world thread waits for a
   learner that never answers: a decision is not cut short by a pause. *)
PauseTakesEffect ==
    [](pauseRequested => <>(~pauseRequested) \/ <>[](pc \in {"recv", "recvPump"}))

=============================================================================
