----------------------------- MODULE Curriculum -----------------------------
(***************************************************************************)
(* A run of the curriculum: the forge plays a plan of stages, and each     *)
(* stage's learner seeds its networks from the checkpoints of the stages   *)
(* it extends and merges (src/src/AnimusForge.cpp, StageScenario and       *)
(* src/python/animus/bootstrap.py, train.py).                              *)
(*                                                                         *)
(* Weights are modelled by their lineage: the set of stages whose training *)
(* they carry, {} for fresh ones.                                          *)
(***************************************************************************)
EXTENDS Stages

CONSTANTS Table,             \* CurriculumStages, built once at the start
          Classes, Stealthy, \* the classes, and those that can make themselves stealthed
          Named,             \* stages an operator starts by name
          MaxCut, MaxPlans   \* bounds: stages cut short in a run of plans, and plans

ASSUME CurriculumAssumption == "director" \notin Classes /\ MaxCut \in Nat /\ MaxPlans \in Nat

VARIABLES classes,   \* StageSettings::Classes of this run
          plan,      \* the stages left to play, the current one first
          runs,      \* runs/<stage>: the files and weights of its checkpoint
          warned,    \* stages WarnSeedOrder said start from scratch, when their plan began
          cut, plans \* stages cut short so far, plans started so far

vars == <<classes, plan, runs, warned, cut, plans>>

FindStage == [name \in {s.name : s \in Elements(Table)} |-> CHOOSE s \in Elements(Table) : s.name = name]
\* Forge::DefaultQueue of an empty AnimusForge.Queue.
DefaultQueue == SelectSeq(Table, LAMBDA s : s.queued)

Names == DOMAIN FindStage
Director == "director"
Empty == [files |-> {}, trunk |-> {}, weights |-> <<>>]

\* Layout::Build and BuildDirector: a layout per class that plays the stage,
\* and the director's where an arena has a learned one.
Playing(name) == IF FindStage[name].stealth THEN classes \intersect Stealthy ELSE classes
Directed(name) == \E a \in Elements(FindStage[name].arenas) : {"Directed", "DirectorLearned"} \subseteq a.flags
\* Mutant of Layouts: every class of the run has a layout in every stage.
LayoutsOfRun(name) == classes \union (IF Directed(name) THEN {Director} ELSE {})
Layouts(name) == Playing(name) \union (IF Directed(name) THEN {Director} ELSE {})
Blocks(name, layout) == IF layout = Director THEN {} ELSE Elements(FindStage[name].blocks)

\* The seed chain stage.json lists, closest first.
SeedChain ==
    LET Chain[name \in Names] ==
            IF FindStage[name].extends = "" THEN <<>>
            ELSE <<FindStage[name].extends>> \o Chain[FindStage[name].extends]
    IN Chain

\* init_from_checkpoint: either file seeds; load_parent: the layouts it holds.
Exists(name) == runs[name].files # {}
Covers(name, of) == Layouts(of) \ {Director} \subseteq DOMAIN runs[name].weights

\* seed_candidate: the first stage of the chain with a checkpoint that covers
\* every layout this run plays.
Candidates(name) == {i \in DOMAIN SeedChain[name] : Exists(SeedChain[name][i]) /\ Covers(SeedChain[name][i], name)}
\* Mutant of SeedsFrom: only the stage it extends is asked.
SeedsFromParent(name) == {FindStage[name].extends} \intersect {SeedChain[name][i] : i \in Candidates(name)}
SeedsFrom(name) ==
    IF Candidates(name) = {} THEN {}
    ELSE {SeedChain[name][CHOOSE i \in Candidates(name) : \A j \in Candidates(name) : i <= j]}

\* seed_trainer and seed_merges: a block comes from the base if the base has
\* it, else from the first merged stage that has it for this layout.
Merged(name, layout, block) ==
    {i \in DOMAIN FindStage[name].merges :
        LET from == runs[FindStage[name].merges[i]]
        IN from.files # {} /\ layout \in DOMAIN from.weights /\ block \in DOMAIN from.weights[layout]}
FirstMerged(name, layout, block) ==
    LET from == Merged(name, layout, block)
    IN FindStage[name].merges[CHOOSE i \in from : \A j \in from : i <= j]
Seeded(name, base, layout, block) ==
    IF layout \in DOMAIN runs[base].weights /\ block \in DOMAIN runs[base].weights[layout]
    THEN runs[base].weights[layout][block]
    ELSE IF Merged(name, layout, block) = {} THEN {}
    ELSE runs[FirstMerged(name, layout, block)].weights[layout][block]

\* The checkpoint of a run of the stage, written as `files`.
Trained(name, files) ==
    LET Carried(layout, block) ==
            IF SeedsFrom(name) = {} THEN {}
            ELSE Seeded(name, CHOOSE b \in SeedsFrom(name) : TRUE, layout, block) IN
    [files |-> files,
     trunk |-> {name} \union UNION {runs[b].trunk : b \in SeedsFrom(name)},
     weights |-> [layout \in Layouts(name) |->
                     [block \in Blocks(name, layout) |-> {name} \union Carried(layout, block)]]]

\* WarnSeedOrder: stages of a plan said to start from scratch, and why.
Warned(stages) ==
    {stages[i] : i \in {j \in DOMAIN stages :
        LET s == FindStage[stages[j]]
            before == {stages[k] : k \in 1 .. j - 1}
        IN /\ s.extends # ""
           /\ \E parent \in {s.extends} \union Elements(s.merges) :
                 parent \notin before /\ "best" \notin runs[parent].files}}

-----------------------------------------------------------------------------

Init == /\ classes \in (SUBSET Classes) \ {{}}
        /\ plan = <<>> /\ warned = {} /\ cut = 0 /\ plans = 0
        /\ runs = [name \in Names |-> Empty]

\* Forge::DefaultQueue, as names.
Queue == [i \in DOMAIN DefaultQueue |-> DefaultQueue[i].name]

\* CommandStart: the default queue, or a stage by name.
StartPlan ==
    /\ plan = <<>> /\ plans < MaxPlans
    /\ plan' \in {Queue} \union {<<n>> : n \in Named}
    /\ plans = 0 => Len(plan') > 1
    /\ warned' = Warned(plan') /\ plans' = plans + 1
    /\ UNCHANGED <<classes, runs, cut>>

\* StartCurrent: a stage nobody in this run can play is skipped.
Skip == /\ plan # <<>> /\ Playing(Head(plan)) = {}
        /\ plan' = Tail(plan)
        /\ UNCHANGED <<classes, runs, warned, cut, plans>>

\* A run from scratch: the earlier run is archived, the learner seeds, and the
\* stage ends with its best evaluation, ...
Play == /\ plan # <<>> /\ Playing(Head(plan)) # {}
        /\ runs' = [runs EXCEPT ![Head(plan)] = Trained(Head(plan), {"latest", "best"})]
        /\ plan' = Tail(plan)
        /\ UNCHANGED <<classes, warned, cut, plans>>
\* ... or it is skipped by hand before an evaluation or a checkpoint of it.
CutShort ==
    /\ plan # <<>> /\ Playing(Head(plan)) # {} /\ cut < MaxCut
    /\ cut' = cut + 1
    /\ \/ runs' = [runs EXCEPT ![Head(plan)] = Trained(Head(plan), {"latest"})]
       \/ runs' = [runs EXCEPT ![Head(plan)] = Empty]
    /\ plan' = Tail(plan)
    /\ UNCHANGED <<classes, warned, plans>>

Next == StartPlan \/ Skip \/ Play \/ CutShort
Spec == Init /\ [][Next]_vars

-----------------------------------------------------------------------------

TypeOK == /\ classes \in (SUBSET Classes) \ {{}}
          /\ Elements(plan) \subseteq Names /\ warned \subseteq Names
          /\ cut \in 0 .. MaxCut /\ plans \in 0 .. MaxPlans
          /\ \A name \in Names : /\ runs[name].files \in {{}, {"latest"}, {"latest", "best"}}
                                 /\ runs[name].files # {} => DOMAIN runs[name].weights \ {Director} = Playing(name)

\* The stages every run of the default queue trains, whatever its classes.
Always(name) == ~FindStage[name].stealth /\ name \in Elements(Queue)
Below(name) == Elements(SeedChain[name]) \union Elements(FindStage[name].merges)
Place(name) == CHOOSE i \in DOMAIN Table : Table[i].name = name

\* A block that a stage shares with one below comes from whichever of its chain
\* the learner may find nearest, or from a stage it merges.
HandedOn(name) ==
    \A i \in DOMAIN SeedChain[name] : (\A j \in 1 .. i - 1 : ~Always(SeedChain[name][j])) =>
        \A below \in Elements(SeedChain[name]) :
            \A block \in Elements(FindStage[name].blocks) \intersect Elements(FindStage[below].blocks) :
                \/ block \in Elements(FindStage[SeedChain[name][i]].blocks)
                \/ \E m \in Elements(FindStage[name].merges) : Always(m) /\ block \in Elements(FindStage[m].blocks)

\* No stage of the table is left out, the queue plays every stage after what it
\* seeds from, a chain leads through the chains of its
\* stages and holds one stealth drill at most, and no block is lost on the way.
TableSound ==
    /\ Cardinality(Names) = Len(Definitions) /\ Named \subseteq Names
    /\ Queue \in Seq(Names) /\ Len(Queue) > 1
    /\ \A i, j \in DOMAIN Queue : i <= j => Queue[j] \notin Below(Queue[i]) /\ (Queue[i] = Queue[j] => i = j)
    /\ \A name \in Names : LET chain == SeedChain[name] IN
          /\ chain \in Seq(Names) /\ FindStage[name].merges \in Seq(Names)
          /\ Place(name) \in Nat /\ \A below \in Below(name) : Place(below) < Place(name)
          /\ \A i, j \in DOMAIN chain : i < j => chain[j] \in Elements(SeedChain[chain[i]])
          /\ FindStage[name].stealth => \A below \in Elements(chain) : ~FindStage[below].stealth
          /\ chain # <<>> => \E below \in Elements(chain) : Always(below)
          /\ HandedOn(name)

\* Problem, Definitions and CommandStart: the table is sound, and nothing a plan
\* plays is seeded from what the plan plays after it.
PlansSound == TableSound /\ \A i, j \in DOMAIN plan : i <= j => plan[j] \notin Below(plan[i])

\* Stages.cpp: "A linear chain ends in one leaf that carries everything": the
\* trunk of a trained stage carries every stage of its chain that left a
\* checkpoint for each of its layouts, whatever was skipped or cut between, as
\* long as no stage is trained again below those that seeded from it.
TrunkCarriesChain ==
    plans = 1 =>
    \A name \in Names : Exists(name) =>
        \A below \in Elements(SeedChain[name]) :
            Exists(below) /\ Covers(below, name) => below \in runs[name].trunk

\* seed_trainer, seed_merges and the table's Extends and Merges: with no stage
\* cut short, no class trains a block from fresh weights which a stage before
\* it already trained, though branches drop blocks and take them up again.
NothingTrainedTwice ==
    cut = 0 =>
    \A name \in Names : Exists(name) =>
        \A layout \in DOMAIN runs[name].weights : \A block \in Blocks(name, layout) :
            runs[name].weights[layout][block] = {name} =>
                \A below \in Elements(SeedChain[name]) :
                    layout \in Layouts(below) => block \notin Blocks(below, layout)

\* seed_trainer, seed_merges and the table: whatever was skipped or cut, the trunk
\* of a stage carries its whole chain, and no class trains a block anew which a
\* stage below has trained.
SeedsSound == TrunkCarriesChain /\ NothingTrainedTwice

=============================================================================
