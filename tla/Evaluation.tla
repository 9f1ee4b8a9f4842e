----------------------------- MODULE Evaluation -----------------------------
(***************************************************************************)
(* A learner that trains and evaluates against the env pool: the decision  *)
(* loop of the sim (Forge::RemoteDecision), the messages between the two,  *)
(* and on the other side run_evaluation and the callers of it in           *)
(* src/python/animus/train.py.  The learner is a process that may be       *)
(* killed at any moment, and another one connects.                         *)
(*                                                                         *)
(* A message is sent whole and read whole.  What the learner sends lies in *)
(* `inbox' until the world thread reads it, also after the learner died;   *)
(* what the sim sends to a dead learner is lost, and so is the connection. *)
(* A decision of the sim runs from the reading of the ACT to the next      *)
(* STEP; console, pause and the end of the stage are ForgeController's.    *)
(***************************************************************************)
EXTENDS EnvPool, Sequences

CONSTANTS Episodes,      \* eval.episodes
          SeedBase,      \* eval.seed
          Baseline,      \* eval.baseline, NoPolicy for none
          Opponents,     \* what eval.opponents may be, NoPolicy for none
          KnownPolicies, \* what Forge::KnowsPolicy knows
          PerEpisode,    \* decisions of an episode as the learner reckons them
          MaxLost        \* bound: only the episodes of seeds below it are ever lost; at 0
                         \* none is replayed (layout_sampling off)

ASSUME EvaluationAssumption ==
    /\ Episodes \in Nat \ {0}
    /\ SeedBase \in Nat
    /\ Baseline \in STRING /\ Opponents \subseteq STRING /\ Opponents # {}
    /\ PerEpisode \in Nat \ {0}
    /\ MaxLost \in Nat

\* True of any string literals; the provers have to be told.
ASSUME LiteralsAreStrings == {NoPolicy, "noop", "sampled", "argmax"} \subseteq STRING

VARIABLES pc,       \* the world thread: waits to accept, may collect, waits for an answer
          backlog,  \* the connection in the listener's backlog: none, alive, dead
          inbox,    \* messages of the connected learner the sim has not read
          hungUp,   \* the connected learner is gone
          outbox,   \* STEPs the living learner has not read
          session,  \* which learner this is, modulo 2
          learner,  \* where the learner is
          opponents,\* its eval.opponents
          task,     \* what it does: train, or which evaluation
          step,     \* the STEP it holds: what it shows, per env
          finished, \* run_evaluation's `finished'
          counted,  \* the decisions it counts per running episode (`taken', `running')
          decisions,
          lost,     \* the seeds its latest evaluation failed, until it sends them
          cached    \* eval_baseline.json is there

simVars == <<pc, backlog, inbox, hungUp>>
learnerVars == <<session, learner, opponents, task, step, finished, counted, decisions, lost, cached>>
vars == <<poolVars, simVars, outbox, learnerVars>>

Zero == [e \in Envs |-> 0]

Close == [type |-> "CLOSE"]
Act(sent, seen) == [type |-> "ACT", sent |-> sent, seen |-> seen]
SetMode(m) == [type |-> "MODE", mode |-> m]
SetReplay(r) == [type |-> "REPLAY", replay |-> r]

-----------------------------------------------------------------------------
(***************************************************************************)
(* The sim.                                                                *)
(***************************************************************************)
\* LockstepServer::DropClient
DropClient == pc' = "accept" /\ inbox' = <<>> /\ hungUp' = FALSE

\* SendStep: to a learner that is gone it fails and drops the connection.
SendStepEarly ==
    IF hungUp
    THEN DropClient /\ UNCHANGED outbox
    ELSE /\ outbox' = Append(outbox, [shows |-> env, ended |-> ended'])
         /\ pc' = "receive"
         /\ UNCHANGED hungUp
SendStep ==
    IF hungUp
    THEN DropClient /\ UNCHANGED outbox
    ELSE /\ outbox' = Append(outbox, [shows |-> env', ended |-> ended'])
         /\ pc' = "receive"
         /\ UNCHANGED hungUp

\* The state a new learner finds.
SessionModeKept == mode
SessionMode == Training
SessionReplayKept == replay
SessionReplay == NoReplay

\* AcceptClient, SendSpec and the fresh start; the SPEC to a learner that
\* died in the backlog cannot be sent.
AcceptClient ==
    /\ pc = "accept"
    /\ backlog = "alive"
    /\ backlog' = "none"
    /\ ResetAll(SessionMode, SessionReplay)
    /\ SendStep
    /\ UNCHANGED <<inbox, learnerVars>>

AcceptDead ==
    /\ pc = "accept"
    /\ backlog = "dead"
    /\ backlog' = "none"
    /\ UNCHANGED <<poolVars, pc, inbox, hungUp, outbox, learnerVars>>

\* The next decision, a decision's ticks later.
Decide ==
    /\ pc = "collect"
    /\ Collect
    /\ SendStep
    /\ (~hungUp => UNCHANGED inbox)
    /\ UNCHANGED <<backlog, learnerVars>>

Receives(type) == pc = "receive" /\ inbox # <<>> /\ Head(inbox).type = type

ReceiveAct ==
    /\ Receives("ACT")
    /\ ApplyActions(Head(inbox).sent)
    /\ pc' = "collect"
    /\ inbox' = Tail(inbox)
    /\ UNCHANGED <<backlog, hungUp, outbox, learnerVars>>

KnowsPolicy(m) == m.baseline = NoPolicy \/ m.baseline \in KnownPolicies

\* ApplyMode, ResetAll, and a fresh STEP in answer.
ReceiveMode ==
    /\ Receives("MODE")
    /\ KnowsPolicy(Head(inbox).mode)
    /\ ResetAll(Head(inbox).mode, replay)
    /\ SendStep
    /\ (~hungUp => inbox' = Tail(inbox))
    /\ UNCHANGED <<backlog, learnerVars>>

ReceiveUnknownPolicy ==
    /\ Receives("MODE")
    /\ ~KnowsPolicy(Head(inbox).mode)
    /\ DropClient
    /\ UNCHANGED <<poolVars, backlog, outbox, learnerVars>>

ReceiveReplay ==
    /\ Receives("REPLAY")
    /\ replay' = Head(inbox).replay
    /\ inbox' = Tail(inbox)
    /\ UNCHANGED <<env, mode, ended, pc, backlog, hungUp, outbox, learnerVars>>

ReceiveClose ==
    /\ Receives("CLOSE")
    /\ DropClient
    /\ UNCHANGED <<poolVars, backlog, outbox, learnerVars>>

\* The end of the stream.
ReceiveNothing ==
    /\ pc = "receive" /\ inbox = <<>> /\ hungUp
    /\ DropClient
    /\ UNCHANGED <<poolVars, backlog, outbox, learnerVars>>

Sim == \/ AcceptClient \/ AcceptDead \/ Decide
       \/ ReceiveAct \/ ReceiveMode \/ ReceiveUnknownPolicy
       \/ ReceiveReplay \/ ReceiveClose \/ ReceiveNothing

-----------------------------------------------------------------------------
(***************************************************************************)
(* The learner.                                                            *)
(***************************************************************************)
Evaluations == {"baseline", "argmax", "sampled"}

\* Whose actions the learner sends: nobody's when the sim plays a baseline.
SentIn(t) == CASE t = "train" -> "sampled"
               [] t = "baseline" -> "noop"
               [] OTHER -> t

\* run_evaluation's call of set_mode.
ModeOf(t) ==
    IF t = "baseline" THEN Evaluation(TRUE, SeedBase, Episodes, Baseline, FALSE)
    ELSE Evaluation(TRUE, SeedBase, Episodes, opponents, opponents # NoPolicy)

\* Seeds go out as envs reset, so the last one can start late.
MaxDecisionsTight == PerEpisode * (Episodes \div NumEnvs + 1)
MaxDecisions == PerEpisode * ((Episodes + NumEnvs - 1) \div NumEnvs + 2)

Send(message) == inbox' = Append(inbox, message)

\* ForgeEnv.__init__: connect and HELLO.  A connection nobody accepts yet
\* fills the backlog.
Connect ==
    /\ learner = "gone" /\ backlog = "none"
    /\ backlog' = "alive"
    /\ learner' = "awaiting" /\ task' = "train"
    /\ session' = 1 - session
    /\ opponents' \in Opponents
    /\ UNCHANGED <<poolVars, pc, inbox, hungUp, outbox, step, finished, counted, decisions,
                   lost, cached>>

\* env.reset, the STEP behind a `set_mode', or the one behind a training ACT.
TakeStep ==
    /\ step' = Head(outbox).shows
    /\ outbox' = Tail(outbox)
    /\ UNCHANGED <<poolVars, simVars, session, opponents, lost>>

AfterTask(t) ==
    CASE t = "baseline" -> {"argmax"}
      [] t = "argmax" -> {"sampled", "replay"}   \* every sampled_every-th evaluation
      [] OTHER -> {"replay"}

\* A STEP that carries no transition of an evaluation.
ReceiveStep ==
    /\ outbox # <<>>
    /\ \/ learner = "awaiting" \/ learner = "entering"
       \/ learner = "acting" /\ task = "train"
    /\ TakeStep
    /\ learner' = "ready"
    /\ UNCHANGED <<task, finished, counted, decisions, cached>>

\* Does this STEP report env e's episode as a seed not scored yet?
Reported(e) == LET i == Head(outbox).ended[e].seed
               IN i # NoSeed /\ i < Episodes /\ i \notin DOMAIN finished

\* The episode's casting is the one shown before its last decision.
CastingShown(e) == step[e].character.casting

Result(e) == [casting |-> CastingShown(e),
              counted |-> counted[e] + 1,
              info    |-> Head(outbox).ended[e].info]

\* The body of run_evaluation's loop, after env.step.
ScoreStep ==
    /\ outbox # <<>>
    /\ learner = "acting" /\ task # "train"
    /\ TakeStep
    /\ LET done == DOMAIN Head(outbox).ended
           new == {e \in done : Reported(e)}
           seeds == {Head(outbox).ended[e].seed : e \in new}
       IN /\ finished' = [i \in seeds \cup DOMAIN finished |->
                            IF i \in DOMAIN finished THEN finished[i]
                            ELSE Result(CHOOSE e \in new : Head(outbox).ended[e].seed = i)]
          /\ counted' = [e \in Envs |-> IF e \in done THEN 0 ELSE counted[e] + 1]
    /\ decisions' = decisions + 1
    /\ learner' = "ready"
    /\ UNCHANGED <<task, cached>>

\* A rollout decision.
TrainOn ==
    /\ learner = "ready" /\ task = "train"
    /\ Send(Act(SentIn(task), step))
    /\ learner' = "acting"
    /\ UNCHANGED <<poolVars, pc, backlog, hungUp, outbox, session, opponents, task, step, finished, counted,
                   decisions, lost, cached>>

\* run_evaluation begins.
Enter(t) ==
    /\ Send(SetMode(ModeOf(t)))
    /\ learner' = "entering" /\ task' = t
    /\ finished' = <<>> /\ counted' = Zero /\ decisions' = 0
    /\ UNCHANGED <<poolVars, pc, backlog, hungUp, outbox, session, opponents, step, lost, cached>>

\* evaluate(): the baseline first, once per run.
Evaluate ==
    /\ learner = "ready" /\ task = "train"
    /\ Enter(IF Baseline # NoPolicy /\ ~cached THEN "baseline" ELSE "argmax")

LoopsOn == Cardinality(DOMAIN finished) < Episodes /\ decisions < MaxDecisions

EvaluateOn ==
    /\ learner = "ready" /\ task # "train"
    /\ LoopsOn
    /\ Send(Act(SentIn(task), step))
    /\ learner' = "acting"
    /\ UNCHANGED <<poolVars, pc, backlog, hungUp, outbox, session, opponents, task, step, finished, counted,
                   decisions, lost, cached>>

\* run_evaluation returns; which episodes were lost is in its result.
Leave ==
    /\ learner = "ready" /\ task # "train"
    /\ ~LoopsOn
    /\ Send(SetMode(Training))
    /\ learner' = "leaving"
    /\ IF task = "argmax"
       THEN lost' \in SUBSET {i \in DOMAIN finished : i < MaxLost}
       ELSE UNCHANGED lost
    /\ finished' = <<>> /\ counted' = Zero /\ decisions' = 0
    /\ UNCHANGED <<poolVars, pc, backlog, hungUp, outbox, session, opponents, task, step, cached>>

ReceiveLeft ==
    /\ outbox # <<>>
    /\ learner = "leaving"
    /\ TakeStep
    /\ learner' = "left"
    /\ cached' = (cached \/ task = "baseline")
    /\ UNCHANGED <<task, finished, counted, decisions>>

\* evaluate() goes on with the next evaluation, or ends with send_replay.
EvaluateNext ==
    /\ learner = "left"
    /\ \E t \in AfterTask(task) \cap Evaluations : Enter(t)

SendReplay ==
    /\ learner = "left"
    /\ "replay" \in AfterTask(task)
    /\ IF MaxLost > 0 THEN Send(SetReplay(Replay(SeedBase, lost, session))) ELSE UNCHANGED inbox
    /\ learner' = "ready" /\ task' = "train"
    /\ lost' = {}
    /\ UNCHANGED <<poolVars, pc, backlog, hungUp, outbox, session, opponents, step, finished, counted,
                   decisions, cached>>

\* Its end, wherever it is: the kernel closes its socket.  What it has sent
\* stays readable: `sent', with what it sends at last.
Leaves(sent) ==
    /\ learner' = "gone" /\ task' = "train"
    /\ IF backlog = "alive"
       THEN backlog' = "dead" /\ UNCHANGED <<inbox, hungUp>>
       ELSE /\ hungUp' = (pc # "accept")
            /\ inbox' = IF pc = "accept" THEN inbox ELSE sent
            /\ UNCHANGED backlog
    /\ outbox' = <<>>
    /\ step' = <<>> /\ finished' = <<>> /\ counted' = Zero /\ decisions' = 0 /\ lost' = {}
    /\ UNCHANGED <<poolVars, pc, session, opponents, cached>>

\* It waits for a STEP on a connection the sim has dropped.
LoseSim ==
    /\ learner # "gone" /\ backlog = "none" /\ pc = "accept" /\ outbox = <<>>
    /\ Leaves(inbox)

\* The learner as a process that goes on by itself.
Learner == \/ ReceiveStep \/ ScoreStep \/ TrainOn \/ Evaluate \/ EvaluateOn
           \/ Leave \/ ReceiveLeft \/ EvaluateNext \/ SendReplay \/ LoseSim

Die == learner # "gone" /\ Leaves(inbox)

\* finish(), at the end of the budget or on an exception or SIGINT anywhere in
\* train(): env.close sends CLOSE behind what is still unanswered.
Finish == learner \notin {"gone", "awaiting"} /\ Leaves(Append(inbox, Close))

-----------------------------------------------------------------------------
Init ==
    /\ PoolInit
    /\ pc = "accept" /\ backlog = "none" /\ inbox = <<>> /\ hungUp = FALSE
    /\ outbox = <<>>
    /\ session = 0 /\ learner = "gone" /\ opponents \in Opponents /\ task = "train" /\ step = <<>>
    /\ finished = <<>> /\ counted = Zero /\ decisions = 0 /\ lost = {} /\ cached = FALSE

Next == Sim \/ Learner \/ Connect \/ Die \/ Finish

Spec == Init /\ [][Next]_vars

\* The world thread is scheduled, and so is a learner that lives.
FairSpec == Spec /\ WF_vars(Sim) /\ WF_vars(Learner)

-----------------------------------------------------------------------------
(***************************************************************************)
(* Properties.                                                             *)
(***************************************************************************)
TypeOK ==
    /\ PoolTypeOK
    /\ pc \in {"accept", "collect", "receive"}
    /\ backlog \in {"none", "alive", "dead"}
    /\ hungUp \in BOOLEAN
    /\ Len(outbox) <= 1 /\ Len(inbox) <= 3
    /\ session \in {0, 1}
    /\ learner \in {"gone", "awaiting", "ready", "acting", "entering", "leaving", "left"}
    /\ task \in {"train"} \cup Evaluations
    /\ DOMAIN finished \subseteq 0 .. Episodes - 1
    /\ counted \in [Envs -> 0 .. EpisodeDecisions - 1]
    /\ decisions \in 0 .. MaxDecisions
    /\ lost \subseteq 0 .. Episodes - 1
    /\ cached \in BOOLEAN

Scoring == task # "train" /\ learner \in {"ready", "acting"}

\* Every seed index the pool has handed out is in exactly one place: played
\* in one env, reported by the STEP on its way, or scored.
Places(i) ==
    {<<"played", e>> : e \in {e \in Envs : env[e].seed = i}}
      \cup (UNION {{<<"reported", e>> : e \in {e \in DOMAIN outbox[n].ended : outbox[n].ended[e].seed = i}}
                    : n \in DOMAIN outbox})
      \cup {<<"scored", i>> : j \in {i} \cap DOMAIN finished}

NoSeedIsLost ==
    Scoring => \A i \in 0 .. Episodes - 1 :
                  Cardinality(Places(i)) = IF i < mode.next THEN 1 ELSE 0

\* A scored episode is what the learner takes it for: a whole episode of the
\* evaluation, filed under the casting that played it (run_evaluation reads
\* the casting from the STEP before the last).
ScoredWhole ==
    \A i \in DOMAIN finished :
        /\ finished[i].counted = finished[i].info.decisions
        /\ finished[i].casting = finished[i].info.character.casting
        /\ finished[i].info.evaluating

\* EnvPool::BeginEpisode and run_evaluation: between the envs, the STEP and the
\* learner's results no seed of an evaluation is handed out twice or forgotten,
\* and a scored episode is a whole one of its own seed and layout.
SeedsScored == NoSeedIsLost /\ ScoredWhole

\* Seed index i is scored as the pair i stands for, by a character built
\* from that seed (Protocol.h: every pair "scored on its own equal share").
SeedPlaysItsPair ==
    \A i \in DOMAIN finished :
        /\ finished[i].casting = CastingOf(i)
        /\ finished[i].info.character.from = <<SeedBase, i>>

\* A learner that trains holds a STEP of unseeded training episodes that
\* nobody but itself has played, whatever the learner before it was doing.
TrainsOnItsOwn ==
    learner = "ready" /\ task = "train" =>
        /\ mode = Training
        /\ \A e \in Envs : /\ ~env[e].evaluating /\ env[e].seed = NoSeed
                         /\ \A p \in env[e].players : p = [ours |-> "sampled", theirs |-> "sampled"]

\* The seeds an accepted learner's episodes replay are those it sent itself,
\* and they are rebuilt with the base it evaluated with.
Accepted == learner # "gone" /\ backlog # "alive" /\ pc # "accept"

ReplaysAreThisLearners ==
    Accepted =>
        /\ replay.seeds # {} => replay.by = session
        /\ \A e \in Envs : ~env[e].evaluating /\ env[e].build # Drawn => env[e].build[1] = SeedBase

\* The actions the sim applies were chosen for what the envs show now: no
\* STEP is skipped, and none is answered twice, over all mode switches,
\* deaths and reconnects.
ActAnswersTheStep == Receives("ACT") => Head(inbox).seen = env

(***************************************************************************)
(* What run_evaluation promises is what happens: each seed scored once, as *)
(* it was asked for, and an answer when all are, unless the learner dies.  *)
(***************************************************************************)
PlayersOf(t, other) ==
    CASE t = "baseline" -> [ours |-> Baseline, theirs |-> Baseline]
      [] OTHER -> [ours |-> SentIn(t), theirs |-> IF other = NoPolicy THEN SentIn(t) ELSE other]

Asked == IF task # "train" /\ learner \in {"entering", "ready", "acting"}
         THEN {PlayersOf(task, opponents)} ELSE {}

Scores == [i \in DOMAIN finished |-> [by    |-> finished[i].info.players,
                                      build |-> finished[i].info.build]]

Promised == INSTANCE SeededEvaluation
              WITH Requests <- {PlayersOf(t, other) : t \in Evaluations, other \in Opponents},
                   alive <- learner # "gone", asked <- Asked, scores <- Scores

Promise == Promised!Spec
=============================================================================
