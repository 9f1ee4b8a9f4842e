------------------------------ MODULE EnvPool ------------------------------
(***************************************************************************)
(* The environments of one scenario (src/src/Env/EnvPool.cpp) and what a   *)
(* reset makes of an episode (StageScenario::Reset, Rebuild, DrawCasting). *)
(*                                                                         *)
(* An env plays one episode after the other.  Which one comes next depends *)
(* on the mode: a seeded evaluation hands the seed indexes 0, 1, ... to    *)
(* the envs as they reset, in env order; in training a reset may replay a  *)
(* seed an evaluation lost, and may keep the character it has.             *)
(*                                                                         *)
(* Abstracted: what a seed decides is the casting (class and build) and    *)
(* the identity of the character; rewards, observations and the fight are  *)
(* left out, an episode may end after any decision.  Training draws any    *)
(* casting, so the layout weights (WEIGHTS) have no state here.  One seat  *)
(* a side; the random numbers of a build and its seed are the same thing.  *)
(***************************************************************************)
EXTENDS Naturals, FiniteSets

CONSTANTS NumEnvs,           \* StageSettings::Envs
          EpisodeDecisions,  \* decisions until EpisodeElapsedMs reaches EpisodeLengthMs
          NumCastings,       \* the (class, build) pairs the run can field
          ReuseEpisodes,     \* tuning Characters.ReuseEpisodes
          BuildsFail,        \* can Rebuild return false?
          NoSeed             \* NO_EPISODE_SEED

ASSUME PoolAssumption ==
    /\ NumEnvs \in Nat \ {0}
    /\ EpisodeDecisions \in Nat \ {0}
    /\ NumCastings \in Nat \ {0}
    /\ ReuseEpisodes \in Nat
    /\ BuildsFail \in BOOLEAN
    /\ NoSeed \notin Nat

VARIABLES env,     \* per env: the running episode
          mode,    \* _evaluating and the other members SetEvaluation writes
          replay,  \* the members SetReplay writes
          ended    \* the episodes that ended in the last Collect: env -> result

poolVars == <<env, mode, replay, ended>>

Envs == 0 .. NumEnvs - 1
Castings == 0 .. NumCastings - 1
NoPolicy == ""

(***************************************************************************)
(* SetEvaluation and SetReplay.  `by' is not in the code: the session that *)
(* sent the seeds.                                                         *)
(***************************************************************************)
Evaluation(enabled, base, episodes, baseline, opponentsOnly) ==
    [evaluating    |-> enabled,
     base          |-> base,
     episodes      |-> IF enabled THEN episodes ELSE 0,
     next          |-> 0,
     baseline      |-> IF enabled THEN baseline ELSE NoPolicy,
     opponentsOnly |-> enabled /\ baseline # NoPolicy /\ opponentsOnly]

Training == Evaluation(FALSE, 0, 0, NoPolicy, FALSE)

Replay(base, seeds, session) == [base |-> base, seeds |-> seeds, by |-> session]

NoReplay == Replay(0, {}, 0)

(***************************************************************************)
(* ResetEnv: `D' is the set of envs that reset now, in the order of their  *)
(* indexes; every one of them takes the next seed while there are any.     *)
(***************************************************************************)
BeforeNone(D, e) == 0
Before(D, e) == Cardinality({d \in D : d < e})

SeedFor(m, D, e) ==
    LET index == m.next + Before(D, e)
    IN IF m.evaluating /\ index < m.episodes THEN index ELSE NoSeed

SeedsLeft(m, D) ==
    IF ~m.evaluating \/ m.next >= m.episodes THEN m.next
    ELSE IF m.next + Cardinality(D) < m.episodes THEN m.next + Cardinality(D)
    ELSE m.episodes

Drawn == <<>>

BuildsFor(m, r, D, e) ==
    IF SeedFor(m, D, e) # NoSeed THEN {<<m.base, SeedFor(m, D, e)>>}
    ELSE {Drawn} \cup IF m.evaluating THEN {} ELSE {<<r.base, index>> : index \in r.seeds}

\* The pair seed `index' plays, at the seat scored here.
CastingOf(index) == index % NumCastings

CastingsForAny(build) == Castings
CastingsFor(build) == IF build = Drawn THEN Castings ELSE {CastingOf(build[2])}

\* A seat's character is built anew, or kept for an episode of the same casting.
MayReuse(m, old, casting) ==
    ~m.evaluating /\ old.casting = casting /\ old.episodes < ReuseEpisodes

CharactersFor(m, build, old) ==
    {[casting |-> c, from |-> build, episodes |-> 0] : c \in CastingsFor(build)}
      \cup {[old EXCEPT !.episodes = @ + 1] : c \in {c \in CastingsFor(build) : MayReuse(m, old, c)}}

Episode(character, build, seed, m, failed) ==
    [character  |-> character,
     build      |-> build,        \* EpisodeSeedIndex, with its seed base
     seed       |-> seed,         \* _envSeed
     evaluating |-> m.evaluating, \* Evaluating
     fresh      |-> FALSE,        \* Fresh
     failed     |-> failed,       \* BuildFailed
     decisions  |-> 0,            \* EpisodeElapsedMs
     players    |-> {}]           \* who chose the actions of the two sides

\* What Setup built, which the first reset keeps; a failed build ends the
\* episode at once, with the new characters or with the ones it had.
EpisodesFor(m, r, D, e) ==
    LET old == env[e].character
        seed == SeedFor(m, D, e)
    IN IF env[e].fresh
       THEN {Episode(old, build, seed, m, FALSE) : build \in BuildsFor(m, r, D, e)}
       ELSE (UNION {{Episode(c, build, seed, m, FALSE) : c \in CharactersFor(m, build, old)}
                      : build \in BuildsFor(m, r, D, e)})
            \cup (UNION {{Episode(c, build, seed, m, TRUE) :
                            c \in {old} \cup CharactersFor(m, build, old)}
                          : build \in IF BuildsFail THEN BuildsFor(m, r, D, e) ELSE {}})

ResetEnvs(D, m, r, played) ==
    /\ env' \in {f \in [Envs -> UNION {EpisodesFor(m, r, D, e) : e \in D} \cup {played[e] : e \in Envs \ D}] :
                   \A e \in Envs : IF e \in D THEN f[e] \in EpisodesFor(m, r, D, e) ELSE f[e] = played[e]}
    /\ mode' = [m EXCEPT !.next = SeedsLeft(m, D)]
    /\ replay' = r

\* ResetAll, in the mode and with the replay seeds just set.
ResetAll(m, r) == ResetEnvs(Envs, m, r, env) /\ ended' = <<>>

(***************************************************************************)
(* Collect: the clock has moved on by a decision; the episodes that ended  *)
(* report and their envs reset.                                            *)
(***************************************************************************)
Played(e) == [env[e] EXCEPT !.decisions = @ + 1]

MustEndLate(e) == env[e].failed \/ env[e].decisions >= EpisodeDecisions
MustEnd(e) == env[e].failed \/ Played(e).decisions >= EpisodeDecisions

Collect ==
    \E D \in SUBSET Envs :
        /\ \A e \in Envs : MustEnd(e) => e \in D
        /\ ended' = [e \in D |-> [seed |-> env[e].seed, info |-> Played(e)]]
        /\ ResetEnvs(D, mode, replay, [e \in Envs |-> Played(e)])

(***************************************************************************)
(* ApplyActions, after ChooseLocalActions replaced the actions a scripted  *)
(* policy chooses.                                                         *)
(***************************************************************************)
Players(m, sent) ==
    [ours   |-> IF m.baseline = NoPolicy \/ m.opponentsOnly THEN sent ELSE m.baseline,
     theirs |-> IF m.baseline = NoPolicy THEN sent ELSE m.baseline]

ApplyActions(sent) ==
    /\ env' = [e \in Envs |-> [env[e] EXCEPT !.players = @ \cup {Players(mode, sent)}]]
    /\ UNCHANGED <<mode, replay, ended>>

\* Setup: every env has its first characters, and nothing has been reset yet.
PoolInit ==
    /\ env = [e \in Envs |-> [Episode([casting |-> 0, from |-> Drawn, episodes |-> 0],
                                      Drawn, NoSeed, Training, FALSE) EXCEPT !.fresh = TRUE]]
    /\ mode = Training
    /\ replay = NoReplay
    /\ ended = <<>>

(***************************************************************************)
(* Types.                                                                  *)
(***************************************************************************)
Modes == [evaluating : BOOLEAN, base : Nat, episodes : Nat, next : Nat,
          baseline : STRING, opponentsOnly : BOOLEAN]

Builds == {Drawn} \cup (Nat \X Nat)

Characters == [casting : Castings, from : Builds, episodes : 0 .. ReuseEpisodes]

EpisodeRecords == [character : Characters, build : Builds, seed : Nat \cup {NoSeed},
                   evaluating : BOOLEAN, fresh : BOOLEAN, failed : BOOLEAN,
                   decisions : 0 .. EpisodeDecisions,
                   players : SUBSET [ours : STRING, theirs : STRING]]

PoolTypeOK ==
    /\ env \in [Envs -> {x \in EpisodeRecords : x.decisions < EpisodeDecisions}]
    /\ mode \in Modes
    /\ replay \in [base : Nat, seeds : SUBSET Nat, by : Nat]
    /\ DOMAIN ended \subseteq Envs
    /\ \A e \in DOMAIN ended : ended[e] \in [seed : Nat \cup {NoSeed}, info : EpisodeRecords]
=============================================================================
