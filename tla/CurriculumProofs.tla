-------------------------- MODULE CurriculumProofs --------------------------
(***************************************************************************)
(* Proofs about what each stage is seeded from: types, that plans play it  *)
(* after what seeds it, and that the seeds are sound whatever classes a    *)
(* run has, whatever its plans skip or cut short, for any sound table.     *)
(***************************************************************************)
EXTENDS Curriculum, FiniteSetTheorems, SequenceTheorems, WellFoundedInduction, TLAPS

\* Files, layouts and blocks are those of the stage, and a weight carries the
\* stage itself and otherwise only stages that come before it.
Lineage(name, weight) == name \in weight /\ weight \subseteq {x \in Names : Place(x) <= Place(name)}
Kept(name, run) ==
    /\ run.files \in {{}, {"latest"}, {"latest", "best"}}
    /\ run.files # {} =>
          /\ name \in run.trunk /\ DOMAIN run.weights = Layouts(name)
          /\ \A layout \in Layouts(name) : /\ DOMAIN run.weights[layout] = Blocks(name, layout)
                                           /\ \A block \in Blocks(name, layout) : Lineage(name, run.weights[layout][block])

Typed == /\ classes \in (SUBSET Classes) \ {{}}
         /\ plan \in Seq(Names) /\ warned \subseteq Names /\ cut \in 0 .. MaxCut /\ plans \in 0 .. MaxPlans
         /\ DOMAIN runs = Names /\ \A name \in Names : Kept(name, runs[name])

\* Of the first plan, k stages are done, and no other stage has a checkpoint.
Left(k) == [i \in 1 .. Len(Queue) - k |-> Queue[i + k]]
FirstPlan ==
    plans <= 1 => \E k \in 0 .. Len(Queue) :
        /\ plan = Left(k) /\ \A name \in Names : Exists(name) => \E i \in 1 .. k : name = Queue[i]
        /\ plans = 0 => k = Len(Queue) /\ \A name \in Names : ~Exists(name)

Carries(name, trunk) == \A below \in Elements(SeedChain[name]) : Exists(below) /\ Covers(below, name) => below \in trunk
TrunksCarry == plans <= 1 => \A name \in Names : Exists(name) => Carries(name, runs[name].trunk)

\* With no stage cut short, what every run trains is trained or still to come.
Ready == cut = 0 /\ plans >= 1 =>
            \A name \in Names : Always(name) => Exists(name) \/ (plans = 1 /\ name \in Elements(plan))

IInv == Typed /\ FirstPlan /\ TrunksCarry /\ Ready /\ NothingTrainedTwice

-----------------------------------------------------------------------------
(* Choosing the nearest: every set of numbers has a least one.              *)

LEMMA Smallest == ASSUME NEW S, S \subseteq Nat, S # {} PROVE \E m \in S : \A i \in S : m <= i
<1> DEFINE Upto == {1 .. m : m \in S}
<1>1. Upto \subseteq FiniteSubsetsOf(Nat) /\ Upto # {}
  <2>1. \A m \in S : 1 .. m \in SUBSET Nat /\ IsFiniteSet(1 .. m)
    BY FS_Interval
  <2> QED
    BY <2>1 DEF FiniteSubsetsOf
<1>2. PICK T \in Upto : \A U \in Upto : <<U, T>> \notin StrictSubsetOrdering(Nat)
  BY <1>1, FS_StrictSubsetOrderingWellFounded, WFMin
<1>3. PICK m \in S : T = 1 .. m
  OBVIOUS
<1>4. ASSUME NEW i \in S, i < m PROVE FALSE
  <2>1. 1 .. i \in Upto /\ 1 .. i \subseteq T /\ 1 .. i # T
    <3>1. i \in Nat /\ m \in Nat
      OBVIOUS
    <3>2. m \in 1 .. m /\ m \notin 1 .. i
      BY <1>4, <3>1
    <3> QED
      BY <1>3, <1>4, <3>1, <3>2
  <2>2. 1 .. i \in SUBSET Nat /\ T \in SUBSET Nat
    BY <1>3
  <2>3. <<1 .. i, T>> \in StrictSubsetOrdering(Nat)
    BY <2>1, <2>2 DEF StrictSubsetOrdering
  <2> QED
    BY <1>2, <2>1, <2>3
<1> QED
  BY <1>4

LEMMA StageIs ==
    ASSUME TableSound, NEW name \in Names
    PROVE  /\ SeedChain[name] \in Seq(Names) /\ FindStage[name].merges \in Seq(Names) /\ Place(name) \in Nat
           /\ \A below \in Below(name) : below \in Names /\ Place(below) \in Nat /\ Place(below) < Place(name)
<1>1. /\ SeedChain[name] \in Seq(Names) /\ FindStage[name].merges \in Seq(Names) /\ Place(name) \in Nat
      /\ \A below \in Below(name) : Place(below) < Place(name)
  BY DEF TableSound
<1>2. \A below \in Below(name) : below \in Names
  BY <1>1 DEF Below, Elements
<1>3. \A below \in Names : Place(below) \in Nat
  BY DEF TableSound
<1> QED
  BY <1>1, <1>2, <1>3

\* seed_candidate: the nearest of the chain.
LEMMA SeedIs ==
    ASSUME TableSound, NEW name \in Names, Candidates(name) # {}
    PROVE  \E i \in Candidates(name) : SeedsFrom(name) = {SeedChain[name][i]} /\ \A j \in Candidates(name) : i <= j
<1>1. Candidates(name) \subseteq Nat
  BY StageIs DEF Candidates
<1>2. \E i \in Candidates(name) : \A j \in Candidates(name) : i <= j
  BY <1>1, Smallest
<1> DEFINE i == CHOOSE i \in Candidates(name) : \A j \in Candidates(name) : i <= j
<1>3. i \in Candidates(name) /\ \A j \in Candidates(name) : i <= j
  BY <1>2
<1>4. SeedsFrom(name) = {SeedChain[name][i]}
  BY DEF SeedsFrom
<1> QED
  BY <1>3, <1>4

LEMMA FirstMergedIs ==
    ASSUME TableSound, NEW name \in Names, NEW layout, NEW block, Merged(name, layout, block) # {},
           NEW from, from = FirstMerged(name, layout, block)
    PROVE  /\ from \in Elements(FindStage[name].merges) /\ Exists(from)
           /\ layout \in DOMAIN runs[from].weights /\ block \in DOMAIN runs[from].weights[layout]
<1> DEFINE set == Merged(name, layout, block)
           i == CHOOSE i \in set : \A j \in set : i <= j
<1>1. set \subseteq Nat
  BY StageIs DEF Merged
<1>2. \E n \in set : \A j \in set : n <= j
  BY <1>1, Smallest
<1>3. i \in set
  BY <1>2
<1>4. from = FindStage[name].merges[i]
  BY DEF FirstMerged
<1> HIDE DEF i
<1> QED
  BY <1>3, <1>4 DEF Merged, Exists, Elements

LEMMA LayoutIs ==
    ASSUME Typed, NEW name \in Names
    PROVE  /\ Layouts(name) \ {Director} = Playing(name) /\ Playing(name) \subseteq classes
           /\ ~FindStage[name].stealth => Playing(name) = classes
           /\ classes # {} /\ Director \notin classes
           /\ \A layout \in classes : Blocks(name, layout) = Elements(FindStage[name].blocks)
<1>1. classes # {} /\ Director \notin classes
  BY CurriculumAssumption DEF Typed, Director
<1>2. Playing(name) \subseteq classes /\ (~FindStage[name].stealth => Playing(name) = classes)
  BY DEF Playing
<1>3. Layouts(name) \ {Director} = Playing(name)
  BY <1>1, <1>2 DEF Layouts
<1>4. \A layout \in classes : Blocks(name, layout) = Elements(FindStage[name].blocks)
  BY <1>1 DEF Blocks
<1> QED
  BY <1>1, <1>2, <1>3, <1>4

\* seed_trainer and seed_merges: whatever a stage is seeded with comes from below.
LEMMA SeededIs ==
    ASSUME TableSound, Typed, NEW name \in Names, NEW base \in Elements(SeedChain[name]), Exists(base), NEW layout, NEW block
    PROVE  /\ Seeded(name, base, layout, block) \subseteq {x \in Names : Place(x) < Place(name)}
           /\ \/ layout \in DOMAIN runs[base].weights /\ block \in DOMAIN runs[base].weights[layout]
              \/ Merged(name, layout, block) # {}
              => Seeded(name, base, layout, block) # {}
<1>1. base \in Below(name)
  BY DEF Below
<1>2. ASSUME NEW from \in Below(name), Exists(from), layout \in DOMAIN runs[from].weights, block \in DOMAIN runs[from].weights[layout]
      PROVE  /\ runs[from].weights[layout][block] \subseteq {x \in Names : Place(x) < Place(name)}
             /\ runs[from].weights[layout][block] # {}
  <2>1. from \in Names /\ Place(from) \in Nat /\ Place(from) < Place(name) /\ Place(name) \in Nat
    BY StageIs
  <2>2. Kept(from, runs[from])
    BY <2>1 DEF Typed
  <2>3. layout \in Layouts(from) /\ block \in Blocks(from, layout)
    BY <1>2, <2>2 DEF Kept, Exists
  <2>4. Lineage(from, runs[from].weights[layout][block])
    BY <1>2, <2>2, <2>3 DEF Kept, Exists
  <2>5. \A x \in Names : Place(x) \in Nat
    BY StageIs
  <2> QED
    BY <2>1, <2>4, <2>5 DEF Lineage
<1>3. CASE layout \in DOMAIN runs[base].weights /\ block \in DOMAIN runs[base].weights[layout]
  <2>1. Seeded(name, base, layout, block) = runs[base].weights[layout][block]
    BY <1>3 DEF Seeded
  <2> QED
    BY <1>1, <1>2, <1>3, <2>1
<1>4. CASE ~(layout \in DOMAIN runs[base].weights /\ block \in DOMAIN runs[base].weights[layout]) /\ Merged(name, layout, block) # {}
  <2>1. PICK from : from = FirstMerged(name, layout, block)
    OBVIOUS
  <2>2. Seeded(name, base, layout, block) = runs[from].weights[layout][block]
    BY <1>4, <2>1 DEF Seeded
  <2>3. /\ from \in Elements(FindStage[name].merges) /\ Exists(from)
        /\ layout \in DOMAIN runs[from].weights /\ block \in DOMAIN runs[from].weights[layout]
    BY <1>4, <2>1, FirstMergedIs
  <2> QED
    BY <1>2, <2>2, <2>3 DEF Below
<1>5. CASE ~(layout \in DOMAIN runs[base].weights /\ block \in DOMAIN runs[base].weights[layout]) /\ Merged(name, layout, block) = {}
  BY <1>5 DEF Seeded
<1> QED
  BY <1>3, <1>4, <1>5

\* What the learner of a stage writes is kept as IInv says.
LEMMA TrainedIsKept ==
    ASSUME TableSound, Typed, NEW name \in Names, NEW files \in {{"latest"}, {"latest", "best"}}
    PROVE  Kept(name, Trained(name, files))
<1> DEFINE run == Trained(name, files)
           Carried(layout, block) == IF SeedsFrom(name) = {} THEN {}
                                     ELSE Seeded(name, CHOOSE b \in SeedsFrom(name) : TRUE, layout, block)
<1>1. run.files = files /\ name \in run.trunk /\ DOMAIN run.weights = Layouts(name)
  BY DEF Trained
<1>2. \A layout \in Layouts(name) : run.weights[layout] = [block \in Blocks(name, layout) |-> {name} \union Carried(layout, block)]
  BY DEF Trained
<1>3. \A layout, block : Carried(layout, block) \subseteq {x \in Names : Place(x) < Place(name)}
  <2> TAKE layout, block
  <2>1. CASE SeedsFrom(name) = {}
    BY <2>1
  <2>2. CASE SeedsFrom(name) # {}
    <3>1. Candidates(name) # {}
      BY <2>2 DEF SeedsFrom
    <3>2. PICK i \in Candidates(name) : SeedsFrom(name) = {SeedChain[name][i]}
      BY <3>1, SeedIs
    <3>3. PICK base : base = SeedChain[name][i]
      OBVIOUS
    <3>4. base \in Elements(SeedChain[name]) /\ Exists(base)
      BY <3>3 DEF Candidates, Elements
    <3>5. Carried(layout, block) = Seeded(name, base, layout, block)
      BY <2>2, <3>2, <3>3
    <3> QED
      BY <3>4, <3>5, SeededIs
  <2> QED
    BY <2>1, <2>2
<1> HIDE DEF run, Carried
<1>4. \A layout \in Layouts(name) : \A block \in Blocks(name, layout) : Lineage(name, run.weights[layout][block])
  <2> TAKE layout \in Layouts(name)
  <2> TAKE block \in Blocks(name, layout)
  <2>1. run.weights[layout][block] = {name} \union Carried(layout, block)
    BY <1>2
  <2>2. \A x \in Names : Place(x) \in Nat
    BY StageIs
  <2> QED
    BY <1>3, <2>1, <2>2 DEF Lineage
<1>5. \A layout \in Layouts(name) : DOMAIN run.weights[layout] = Blocks(name, layout)
  BY <1>2
<1>6. Kept(name, run)
  BY <1>1, <1>4, <1>5 DEF Kept
<1> QED
  BY <1>6 DEF run

\* A stage that covers what a stage above it plays covers what lies between.
LEMMA CoversOn ==
    ASSUME TableSound, Typed, NEW name \in Names, NEW below \in Elements(SeedChain[name]), NEW base \in Elements(SeedChain[name]),
           Exists(below), Covers(below, name)
    PROVE  Covers(below, base)
<1>1. below \in Names /\ base \in Names
  BY StageIs DEF Below
<1>2. DOMAIN runs[below].weights = Layouts(below)
  BY <1>1 DEF Typed, Kept, Exists
<1>3. Playing(name) \subseteq Layouts(below) /\ Playing(base) \subseteq classes /\ Layouts(base) \ {Director} = Playing(base)
  BY <1>1, <1>2, LayoutIs DEF Covers
<1>4. classes \subseteq Layouts(below)
  <2>1. CASE ~FindStage[name].stealth
    BY <1>3, <2>1, LayoutIs
  <2>2. CASE FindStage[name].stealth
    <3>1. ~FindStage[below].stealth
      BY <2>2 DEF TableSound
    <3> QED
      BY <1>1, <3>1, LayoutIs
  <2> QED
    BY <2>1, <2>2
<1> QED
  BY <1>2, <1>3, <1>4 DEF Covers

\* The trunk comes from the nearest stage that covers this one, and that stage's
\* trunk holds what lies below it.
LEMMA TrunkIsCarried ==
    ASSUME TableSound, Typed, \A base \in Names : Exists(base) => Carries(base, runs[base].trunk),
           NEW name \in Names, NEW files
    PROVE  Carries(name, Trained(name, files).trunk)
<1> SUFFICES ASSUME NEW below \in Elements(SeedChain[name]), Exists(below), Covers(below, name)
             PROVE  below \in Trained(name, files).trunk
  BY DEF Carries
<1>1. PICK j \in DOMAIN SeedChain[name] : below = SeedChain[name][j]
  BY DEF Elements
<1>2. j \in Candidates(name)
  BY <1>1 DEF Candidates
<1>3. PICK i \in Candidates(name) : SeedsFrom(name) = {SeedChain[name][i]} /\ i <= j
  BY <1>2, SeedIs
<1>4. PICK base : base = SeedChain[name][i]
  OBVIOUS
<1>5. base \in Elements(SeedChain[name]) /\ Exists(base) /\ base \in Names
  BY <1>4, StageIs DEF Candidates, Elements, Below
<1>6. runs[base].trunk \subseteq Trained(name, files).trunk
  BY <1>3, <1>4 DEF Trained
<1>7. below \in runs[base].trunk
  <2>1. CASE i = j
    <3>1. base \in runs[base].trunk
      BY <1>5 DEF Typed, Kept, Exists
    <3> QED
      BY <1>1, <1>4, <2>1, <3>1
  <2>2. CASE i # j
    <3>1. i \in DOMAIN SeedChain[name] /\ i < j
      <4>1. DOMAIN SeedChain[name] \subseteq Nat
        BY StageIs
      <4> QED
        BY <1>3, <2>2, <4>1 DEF Candidates
    <3>2. below \in Elements(SeedChain[base])
      BY <1>1, <1>4, <3>1 DEF TableSound
    <3>3. Covers(below, base)
      BY <1>5, CoversOn
    <3> QED
      BY <1>5, <3>2, <3>3 DEF Carries
  <2> QED
    BY <2>1, <2>2
<1> QED
  BY <1>6, <1>7

\* With everything below it trained, a stage starts no block anew that a stage of
\* its chain has.
LEMMA BlocksAreHandedOn ==
    ASSUME TableSound, Typed, NEW name \in Names, NEW files,
           \A other \in Below(name) : Always(other) => Exists(other),
           NEW layout \in Layouts(name), NEW block \in Blocks(name, layout),
           Trained(name, files).weights[layout][block] = {name},
           NEW below \in Elements(SeedChain[name]), layout \in Layouts(below)
    PROVE  block \notin Blocks(below, layout)
<1> SUFFICES ASSUME block \in Blocks(below, layout) PROVE FALSE
  OBVIOUS
<1>1. layout # Director
  BY DEF Blocks
<1>2. layout \in Playing(name) /\ layout \in classes
  BY <1>1, LayoutIs
<1>3. block \in Elements(FindStage[name].blocks) \intersect Elements(FindStage[below].blocks)
  BY <1>1 DEF Blocks
<1>4. \A other \in Below(name) : Always(other) => Exists(other) /\ Covers(other, name) /\ layout \in DOMAIN runs[other].weights
  <2> SUFFICES ASSUME NEW other \in Below(name), Always(other)
               PROVE  Exists(other) /\ Covers(other, name) /\ layout \in DOMAIN runs[other].weights
    OBVIOUS
  <2>1. other \in Names /\ Exists(other)
    BY StageIs
  <2>2. DOMAIN runs[other].weights = Layouts(other)
    BY <2>1 DEF Typed, Kept, Exists
  <2>3. classes \subseteq Layouts(other) /\ Layouts(name) \ {Director} \subseteq classes
    BY <2>1, LayoutIs DEF Always
  <2> QED
    BY <1>2, <2>1, <2>2, <2>3 DEF Covers
<1>5. Candidates(name) # {}
  <2>1. SeedChain[name] # <<>>
    BY StageIs DEF Elements
  <2>2. PICK other \in Elements(SeedChain[name]) : Always(other)
    BY <2>1 DEF TableSound
  <2>3. PICK j \in DOMAIN SeedChain[name] : other = SeedChain[name][j]
    BY DEF Elements
  <2> QED
    BY <1>4, <2>2, <2>3 DEF Candidates, Below
<1>6. PICK i \in Candidates(name) : SeedsFrom(name) = {SeedChain[name][i]} /\ \A j \in Candidates(name) : i <= j
  BY <1>5, SeedIs
<1>7. PICK base : base = SeedChain[name][i]
  OBVIOUS
<1>8. base \in Elements(SeedChain[name]) /\ Exists(base) /\ Covers(base, name) /\ base \in Names
  BY <1>7, StageIs DEF Candidates, Elements, Below
<1>9. \A j \in 1 .. i - 1 : ~Always(SeedChain[name][j])
  <2> SUFFICES ASSUME NEW j \in 1 .. i - 1, Always(SeedChain[name][j]) PROVE FALSE
    OBVIOUS
  <2>1. i \in 1 .. Len(SeedChain[name]) /\ DOMAIN SeedChain[name] = 1 .. Len(SeedChain[name]) /\ Len(SeedChain[name]) \in Nat
    BY StageIs DEF Candidates
  <2>2. j \in DOMAIN SeedChain[name] /\ j < i /\ j \in Nat /\ i \in Nat
    BY <2>1
  <2>3. j \in Candidates(name)
    BY <1>4, <2>2 DEF Candidates, Below, Elements
  <2> QED
    BY <1>6, <2>2, <2>3
<1>10. Trained(name, files).weights[layout][block] = {name} \union Seeded(name, base, layout, block)
  BY <1>6, <1>7 DEF Trained
<1>11. Seeded(name, base, layout, block) \subseteq {x \in Names : Place(x) < Place(name)}
  BY <1>8, SeededIs
<1>12. Seeded(name, base, layout, block) # {}
  <2>1. \/ block \in Elements(FindStage[base].blocks)
        \/ \E m \in Elements(FindStage[name].merges) : Always(m) /\ block \in Elements(FindStage[m].blocks)
    <3>1. HandedOn(name) /\ i \in DOMAIN SeedChain[name]
      BY DEF TableSound, Candidates
    <3> QED
      BY <1>3, <1>7, <1>9, <3>1 DEF HandedOn
  <2>2. CASE block \in Elements(FindStage[base].blocks)
    <3>1. layout \in DOMAIN runs[base].weights
      BY <1>1, <1>8 DEF Covers
    <3>2. DOMAIN runs[base].weights = Layouts(base) /\ DOMAIN runs[base].weights[layout] = Blocks(base, layout)
      BY <1>8, <3>1 DEF Typed, Kept, Exists
    <3>3. block \in DOMAIN runs[base].weights[layout]
      BY <1>2, <1>8, <2>2, <3>2, LayoutIs
    <3> QED
      BY <1>8, <3>1, <3>3, SeededIs
  <2>3. CASE \E m \in Elements(FindStage[name].merges) : Always(m) /\ block \in Elements(FindStage[m].blocks)
    <3>1. PICK k \in DOMAIN FindStage[name].merges :
            Always(FindStage[name].merges[k]) /\ block \in Elements(FindStage[FindStage[name].merges[k]].blocks)
      BY <2>3 DEF Elements
    <3>2. PICK m : m = FindStage[name].merges[k]
      OBVIOUS
    <3>3. m \in Below(name) /\ m \in Names
      BY <3>2, StageIs DEF Below, Elements
    <3>4. Exists(m) /\ layout \in DOMAIN runs[m].weights
      BY <1>4, <3>1, <3>2, <3>3
    <3>5. DOMAIN runs[m].weights = Layouts(m) /\ DOMAIN runs[m].weights[layout] = Blocks(m, layout)
      BY <3>3, <3>4 DEF Typed, Kept, Exists
    <3>6. block \in DOMAIN runs[m].weights[layout]
      BY <1>2, <3>1, <3>2, <3>3, <3>5, LayoutIs
    <3>7. k \in Merged(name, layout, block)
      BY <3>2, <3>4, <3>6 DEF Merged, Exists
    <3> QED
      BY <1>8, <3>7, SeededIs
  <2> QED
    BY <2>1, <2>2, <2>3
<1>13. PICK x \in Seeded(name, base, layout, block) : x \in Names /\ Place(x) < Place(name)
  BY <1>11, <1>12
<1>14. x = name /\ Place(name) \in Nat
  BY <1>10, StageIs
<1> QED
  BY <1>13, <1>14

-----------------------------------------------------------------------------
(* The steps of a plan.                                                     *)

LEMMA QueueIs ==
    ASSUME TableSound
    PROVE  /\ Queue \in Seq(Names) /\ Len(Queue) \in Nat /\ Len(Queue) > 1 /\ DOMAIN Queue = 1 .. Len(Queue)
           /\ \A i, j \in DOMAIN Queue : i <= j => Queue[j] \notin Below(Queue[i])
           /\ \A i, j \in DOMAIN Queue : Queue[i] = Queue[j] => i = j
<1>1. Queue \in Seq(Names) /\ Len(Queue) > 1
  BY DEF TableSound
<1>2. Len(Queue) \in Nat /\ DOMAIN Queue = 1 .. Len(Queue)
  BY <1>1
<1>3. \A i, j \in DOMAIN Queue : i <= j => Queue[j] \notin Below(Queue[i]) /\ (Queue[i] = Queue[j] => i = j)
  BY DEF TableSound
<1>4. \A i, j \in DOMAIN Queue : Queue[i] = Queue[j] => i = j
  <2> TAKE i, j \in DOMAIN Queue
  <2>1. i <= j \/ j <= i
    BY <1>2
  <2> QED
    BY <1>3, <2>1
<1> QED
  BY <1>1, <1>2, <1>3, <1>4

LEMMA LeftTyped == ASSUME TableSound, NEW k \in 0 .. Len(Queue) PROVE Left(k) \in Seq(Names) /\ Len(Left(k)) = Len(Queue) - k
<1>1. Len(Queue) - k \in Nat /\ \A i \in 1 .. Len(Queue) - k : i + k \in k + 1 .. Len(Queue) /\ i + k \in 1 .. Len(Queue)
  BY QueueIs
<1>2. \A i \in 1 .. Len(Queue) - k : Queue[i + k] \in Names
  BY <1>1, QueueIs
<1> QED
  BY <1>1, <1>2 DEF Left

LEMMA LeftIs ==
    ASSUME TableSound, NEW k \in 0 .. Len(Queue)
    PROVE  /\ Left(k) \in Seq(Names) /\ Len(Left(k)) = Len(Queue) - k
           /\ \A name \in Elements(Left(k)) : \E j \in k + 1 .. Len(Queue) : name = Queue[j]
           /\ Left(k) # <<>> => /\ k + 1 \in 1 .. Len(Queue) /\ Head(Left(k)) = Queue[k + 1]
                                /\ Tail(Left(k)) = Left(k + 1)
<1>1. Len(Queue) - k \in Nat /\ \A i \in 1 .. Len(Queue) - k : i + k \in k + 1 .. Len(Queue) /\ i + k \in 1 .. Len(Queue)
  BY QueueIs
<1>3. Left(k) \in Seq(Names) /\ Len(Left(k)) = Len(Queue) - k
  BY LeftTyped
<1>4. \A name \in Elements(Left(k)) : \E j \in k + 1 .. Len(Queue) : name = Queue[j]
  BY <1>1 DEF Elements, Left
<1>5. ASSUME Left(k) # <<>>
      PROVE  k + 1 \in 1 .. Len(Queue) /\ Head(Left(k)) = Queue[k + 1] /\ Tail(Left(k)) = Left(k + 1)
  <2>1. Len(Left(k)) > 0
    BY <1>3, <1>5
  <2>2. k + 1 \in 1 .. Len(Queue) /\ 1 \in 1 .. Len(Queue) - k
    BY <1>1, <1>3, <2>1
  <2>3. Head(Left(k)) = Queue[k + 1]
    <3>1. Head(Left(k)) = Left(k)[1]
      BY <1>3, <1>5
    <3>2. Left(k)[1] = Queue[1 + k] /\ 1 + k = k + 1
      BY <2>2 DEF Left
    <3> QED
      BY <3>1, <3>2
  <2>4. /\ Tail(Left(k)) \in Seq(Names) /\ Len(Tail(Left(k))) = Len(Left(k)) - 1
        /\ \A i \in 1 .. Len(Left(k)) - 1 : Tail(Left(k))[i] = Left(k)[i + 1]
    BY <1>3, <1>5, HeadTailProperties
  <2>5. Left(k + 1) = [i \in 1 .. Len(Queue) - (k + 1) |-> Queue[i + (k + 1)]]
    BY DEF Left
  <2>6. Len(Queue) - (k + 1) = Len(Left(k)) - 1
    BY <1>1, <1>3, QueueIs
  <2>7. \A i \in 1 .. Len(Left(k)) - 1 : Tail(Left(k))[i] = Queue[i + (k + 1)]
    <3> TAKE i \in 1 .. Len(Left(k)) - 1
    <3>1. i + 1 \in 1 .. Len(Queue) - k /\ (i + 1) + k = i + (k + 1)
      BY <1>1, <1>3
    <3>2. Left(k)[i + 1] = Queue[(i + 1) + k]
      BY <3>1 DEF Left
    <3> QED
      BY <2>4, <3>1, <3>2
  <2>8. Left(k + 1) \in Seq(Names) /\ Len(Left(k + 1)) = Len(Left(k)) - 1
    BY <2>2, <2>6, LeftTyped, QueueIs
  <2>9. Tail(Left(k)) = Left(k + 1)
    BY <2>4, <2>5, <2>6, <2>7, <2>8, SeqEqual
  <2> QED
    BY <2>2, <2>3, <2>9
<1> QED
  BY <1>3, <1>4, <1>5

LEMMA Starts == TableSound /\ Init => IInv
<1> SUFFICES ASSUME TableSound, Init PROVE IInv
  OBVIOUS
<1>1. classes \in (SUBSET Classes) \ {{}} /\ plan = <<>> /\ warned = {} /\ cut = 0 /\ plans = 0
  BY DEF Init
<1>2. DOMAIN runs = Names /\ \A name \in Names : runs[name].files = {}
  BY DEF Init, Empty
<1>3. Typed
  BY <1>1, <1>2, CurriculumAssumption DEF Typed, Kept
<1>4. \A name \in Names : ~Exists(name)
  BY <1>2 DEF Exists
<1>5. Left(Len(Queue)) = <<>> /\ Len(Queue) \in 0 .. Len(Queue)
  <2>1. Len(Queue) \in Nat /\ Len(Queue) \in 0 .. Len(Queue)
    BY QueueIs
  <2>2. Left(Len(Queue)) \in Seq(Names) /\ Len(Left(Len(Queue))) = 0
    BY <2>1, LeftIs
  <2> QED
    BY <2>1, <2>2
<1>6. FirstPlan
  BY <1>1, <1>4, <1>5 DEF FirstPlan
<1> QED
  BY <1>1, <1>3, <1>4, <1>6 DEF IInv, TrunksCarry, Ready, NothingTrainedTwice

LEMMA SameRun ==
    ASSUME classes' = classes
    PROVE  /\ \A name : Playing(name)' = Playing(name) /\ Layouts(name)' = Layouts(name)
           /\ \A name, run : Kept(name, run)' <=> Kept(name, run)
<1>1. \A name : Playing(name)' = Playing(name) /\ Layouts(name)' = Layouts(name)
  BY DEF Playing, Layouts
<1> QED
  BY <1>1 DEF Kept

LEMMA WarnedIs == ASSUME NEW stages \in Seq(Names) PROVE Warned(stages) \subseteq Names
<1>1. \A i \in DOMAIN stages : stages[i] \in Names
  OBVIOUS
<1> QED
  BY <1>1 DEF Warned

\* StartPlan keeps it: what is trained stays as it was.
LEMMA StartKeeps == ASSUME TableSound, IInv, StartPlan PROVE IInv'
<1>1. /\ classes' = classes /\ runs' = runs /\ cut' = cut /\ plans' = plans + 1
      /\ plan = <<>> /\ plans \in Nat /\ plans < MaxPlans /\ warned' = Warned(plan')
      /\ plan' = Queue \/ \E n \in Named : plan' = <<n>>
      /\ plans = 0 => Len(plan') > 1
  BY DEF StartPlan, IInv, Typed
<1>2. plan' \in Seq(Names)
  <2>1. CASE plan' = Queue
    BY <2>1, QueueIs
  <2>2. CASE \E n \in Named : plan' = <<n>>
    <3>1. Named \subseteq Names
      BY DEF TableSound
    <3> QED
      BY <2>2, <3>1
  <2> QED
    BY <1>1, <2>1, <2>2
<1>3. warned' \subseteq Names
  BY <1>1, <1>2, WarnedIs
<1>4. Typed'
  <2>1. (plans \in 0 .. MaxPlans)'
    BY <1>1, CurriculumAssumption
  <2>2. (\A name \in Names : Kept(name, runs[name]))'
    BY <1>1, SameRun DEF IInv, Typed
  <2> QED
    BY <1>1, <1>2, <1>3, <2>1, <2>2 DEF IInv, Typed
<1>5. plans = 0 => plan' = Queue
  <2> SUFFICES ASSUME plans = 0, plan' # Queue PROVE FALSE
    OBVIOUS
  <2>1. PICK n \in Named : plan' = <<n>>
    BY <1>1
  <2>2. Len(plan') = 1
    BY <2>1
  <2>3. Len(plan') > 1
    BY <1>1
  <2> QED
    BY <2>2, <2>3
<1>6. FirstPlan'
  <2> SUFFICES ASSUME plans' <= 1 PROVE FirstPlan'
    BY DEF FirstPlan
  <2>1. plans = 0 /\ plan' = Queue /\ plans' = 1
    BY <1>1, <1>5
  <2>2. \A name \in Names : ~Exists(name)'
    BY <1>1, <2>1 DEF IInv, FirstPlan, Exists
  <2>3. Left(0) = Queue /\ 0 \in 0 .. Len(Queue)
    BY QueueIs DEF Left
  <2> QED
    BY <2>1, <2>2, <2>3 DEF FirstPlan
<1>7. TrunksCarry'
  <2> SUFFICES ASSUME plans' <= 1 PROVE TrunksCarry'
    BY DEF TrunksCarry
  <2>1. \A name \in Names : ~Exists(name)'
    BY <1>1 DEF IInv, FirstPlan, Exists
  <2> QED
    BY <2>1 DEF TrunksCarry
<1>8. Ready'
  <2> SUFFICES ASSUME cut = 0, NEW name \in Names, Always(name)
               PROVE  Exists(name)' \/ (plans' = 1 /\ name \in Elements(plan'))
    BY <1>1 DEF Ready
  <2>1. CASE plans = 0
    BY <1>1, <1>5, <2>1 DEF Always
  <2>2. CASE plans >= 1
    <3>1. name \notin Elements(plan)
      BY <1>1 DEF Elements
    <3> QED
      BY <1>1, <2>2, <3>1 DEF IInv, Ready, Exists
  <2> QED
    BY <1>1, <2>1, <2>2
<1>9. NothingTrainedTwice'
  BY <1>1, SameRun DEF IInv, NothingTrainedTwice, Exists
<1> QED
  BY <1>4, <1>6, <1>7, <1>8, <1>9 DEF IInv

LEMMA HeadOrTail ==
    ASSUME NEW stages \in Seq(Names), stages # <<>>, NEW name \in Elements(stages), name # Head(stages)
    PROVE  name \in Elements(Tail(stages))
<1>1. PICK i \in 1 .. Len(stages) : name = stages[i]
  BY DEF Elements
<1>2. i # 1
  BY <1>1
<1>3. i - 1 \in 1 .. Len(stages) - 1 /\ Len(Tail(stages)) = Len(stages) - 1 /\ Tail(stages) \in Seq(Names)
  BY <1>2
<1>4. Tail(stages)[i - 1] = stages[i]
  BY <1>3, HeadTailProperties
<1>5. i - 1 \in DOMAIN Tail(stages) /\ name = Tail(stages)[i - 1]
  BY <1>1, <1>3, <1>4
<1> QED
  BY <1>5 DEF Elements

\* One stage further in the first plan, which alone may have a new checkpoint.
LEMMA PlanGoesOn ==
    ASSUME TableSound, IInv, plan # <<>>, plan' = Tail(plan), plans' = plans,
           \A name \in Names \ {Head(plan)} : Exists(name)' => Exists(name)
    PROVE  FirstPlan'
<1> SUFFICES ASSUME plans <= 1 PROVE FirstPlan'
  BY DEF FirstPlan
<1>1. PICK k \in 0 .. Len(Queue) :
        /\ plan = Left(k) /\ \A name \in Names : Exists(name) => \E i \in 1 .. k : name = Queue[i]
        /\ plans = 0 => k = Len(Queue)
  BY DEF IInv, FirstPlan
<1>2. k + 1 \in 1 .. Len(Queue) /\ Head(plan) = Queue[k + 1] /\ plan' = Left(k + 1)
  BY <1>1, LeftIs
<1>3. plans # 0
  BY <1>1, <1>2
<1>4. \A name \in Names : Exists(name)' => \E i \in 1 .. k + 1 : name = Queue[i]
  <2> SUFFICES ASSUME NEW name \in Names, Exists(name)' PROVE \E i \in 1 .. k + 1 : name = Queue[i]
    OBVIOUS
  <2>1. CASE name = Head(plan)
    BY <1>2, <2>1
  <2>2. CASE name # Head(plan)
    <3>1. PICK i \in 1 .. k : name = Queue[i]
      BY <1>1, <2>2
    <3> QED
      BY <3>1
  <2> QED
    BY <2>1, <2>2
<1>5. k + 1 \in 0 .. Len(Queue)
  BY <1>2
<1> QED
  BY <1>2, <1>3, <1>4, <1>5 DEF FirstPlan

\* StartCurrent passing a stage over: nothing that every run trains is passed over.
LEMMA SkipKeeps == ASSUME TableSound, IInv, Skip PROVE IInv'
<1>1. /\ classes' = classes /\ runs' = runs /\ cut' = cut /\ plans' = plans /\ warned' = warned
      /\ plan # <<>> /\ plan \in Seq(Names) /\ plan' = Tail(plan) /\ Playing(Head(plan)) = {}
  BY DEF Skip, IInv, Typed
<1>2. Head(plan) \in Names /\ plan' \in Seq(Names)
  BY <1>1
<1>3. Typed'
  <2>1. (\A name \in Names : Kept(name, runs[name]))'
    BY <1>1, SameRun DEF IInv, Typed
  <2> QED
    BY <1>1, <1>2, <2>1 DEF IInv, Typed
<1>4. ~Always(Head(plan))
  BY <1>1, <1>2, LayoutIs DEF IInv, Always
<1>5. FirstPlan'
  BY <1>1, PlanGoesOn DEF Exists
<1>6. TrunksCarry'
  BY <1>1, SameRun DEF IInv, TrunksCarry, Carries, Exists, Covers
<1>7. Ready'
  <2> SUFFICES ASSUME cut = 0, plans >= 1, NEW name \in Names, Always(name)
               PROVE  Exists(name)' \/ (plans' = 1 /\ name \in Elements(plan'))
    BY <1>1 DEF Ready
  <2>1. Exists(name) \/ (plans = 1 /\ name \in Elements(plan))
    BY DEF IInv, Ready
  <2>2. name \in Elements(plan) => name \in Elements(plan')
    BY <1>1, <1>4, HeadOrTail
  <2> QED
    BY <1>1, <2>1, <2>2 DEF Exists
<1>8. NothingTrainedTwice'
  BY <1>1, SameRun DEF IInv, NothingTrainedTwice, Exists
<1> QED
  BY <1>3, <1>5, <1>6, <1>7, <1>8 DEF IInv

\* With no stage cut short, what a stage at the head of the plan needs is trained.
LEMMA BelowIsTrained ==
    ASSUME TableSound, IInv, plan # <<>>, cut = 0, NEW other \in Below(Head(plan)), Always(other)
    PROVE  Exists(other)
<1>1. plan \in Seq(Names) /\ Head(plan) \in Names /\ plans >= 1
  <2>1. plan \in Seq(Names) /\ plans \in Nat
    BY DEF IInv, Typed
  <2>2. plans # 0
    <3> SUFFICES ASSUME plans = 0 PROVE FALSE
      OBVIOUS
    <3>1. PICK k \in 0 .. Len(Queue) : plan = Left(k) /\ (plans = 0 => k = Len(Queue))
      BY DEF IInv, FirstPlan
    <3>2. Len(Left(k)) = 0 /\ Left(k) \in Seq(Names)
      BY <3>1, LeftTyped, QueueIs
    <3>3. plan = <<>>
      BY <3>1, <3>2, EmptySeq
    <3> QED
      BY <3>3
  <2> QED
    BY <2>1, <2>2
<1>2. other \in Names
  BY <1>1, StageIs
<1>3. Exists(other) \/ (plans = 1 /\ other \in Elements(plan))
  BY <1>1, <1>2 DEF IInv, Ready
<1>4. ~(plans = 1 /\ other \in Elements(plan))
  <2> SUFFICES ASSUME plans = 1, other \in Elements(plan) PROVE FALSE
    OBVIOUS
  <2>1. PICK k \in 0 .. Len(Queue) : plan = Left(k)
    BY DEF IInv, FirstPlan
  <2>2. k + 1 \in 1 .. Len(Queue) /\ Head(plan) = Queue[k + 1]
    BY <2>1, LeftIs
  <2>3. PICK j \in k + 1 .. Len(Queue) : other = Queue[j]
    BY <2>1, LeftIs
  <2> QED
    BY <2>2, <2>3, QueueIs
<1> QED
  BY <1>3, <1>4

\* What a checkpoint holds of its files and layouts.
LEMMA TrainedHolds ==
    ASSUME NEW name, NEW files
    PROVE  Trained(name, files).files = files /\ DOMAIN Trained(name, files).weights = Layouts(name)
BY DEF Trained

\* A stage of the plan ends with a checkpoint of its own or with none.
LEMMA HeadKeeps ==
    ASSUME TableSound, IInv, plan # <<>>, plan' = Tail(plan), classes' = classes, plans' = plans, warned' = warned,
           cut' \in 0 .. MaxCut, NEW run, runs' = [runs EXCEPT ![Head(plan)] = run],
           run \in {Trained(Head(plan), {"latest", "best"}), Trained(Head(plan), {"latest"}), Empty},
           cut' = 0 => cut = 0 /\ run = Trained(Head(plan), {"latest", "best"})
    PROVE  IInv'
<1>1. PICK head : head = Head(plan)
  OBVIOUS
<1>2. head \in Names /\ plan \in Seq(Names) /\ plan' \in Seq(Names)
  BY <1>1 DEF IInv, Typed
<1>3. /\ DOMAIN runs = Names /\ DOMAIN runs' = Names /\ runs'[head] = run
      /\ \A name \in Names \ {head} : runs'[name] = runs[name]
  BY <1>1, <1>2 DEF IInv, Typed
<1>4. Kept(head, run)
  <2>1. Kept(head, Empty)
    BY DEF Kept, Empty
  <2>2. Kept(head, Trained(head, {"latest", "best"})) /\ Kept(head, Trained(head, {"latest"}))
    BY <1>2, TrainedIsKept DEF IInv
  <2> QED
    BY <1>1, <2>1, <2>2
<1>5. Typed'
  <2>1. (\A name \in Names : Kept(name, runs[name]))'
    BY <1>3, <1>4, SameRun DEF IInv, Typed
  <2> QED
    BY <1>2, <1>3, <2>1 DEF IInv, Typed
<1>6. \A name \in Names \ {head} : (Exists(name)' <=> Exists(name)) /\ \A of : Covers(name, of)' <=> Covers(name, of)
  BY <1>3, SameRun DEF Exists, Covers
<1>7. FirstPlan'
  BY <1>1, <1>6, PlanGoesOn
<1>8. TrunksCarry'
  <2> SUFFICES ASSUME plans <= 1, NEW name \in Names, Exists(name)', NEW below \in Elements(SeedChain[name]),
                      Exists(below)', Covers(below, name)'
               PROVE  below \in runs'[name].trunk
    BY DEF TrunksCarry, Carries
  <2>1. below \in Names /\ below \in Below(name) /\ below # name
    BY StageIs DEF Below
  <2>2. PICK k \in 0 .. Len(Queue) : plan = Left(k) /\ \A other \in Names : Exists(other) => \E i \in 1 .. k : other = Queue[i]
    BY DEF IInv, FirstPlan
  <2>3. k + 1 \in 1 .. Len(Queue) /\ head = Queue[k + 1]
    BY <1>1, <2>2, LeftIs
  <2>4. CASE name = head
    <3>1. Exists(below) /\ Covers(below, name)
      BY <1>6, <2>1, <2>4
    <3>2. run # Empty
      BY <1>3, <2>4 DEF Exists, Empty
    <3>3. \A base \in Names : Exists(base) => Carries(base, runs[base].trunk)
      BY DEF IInv, TrunksCarry
    <3>4. Carries(name, run.trunk)
      BY <1>1, <2>4, <3>2, <3>3, TrunkIsCarried DEF IInv
    <3> QED
      BY <1>3, <2>4, <3>1, <3>4 DEF Carries
  <2>5. CASE name # head
    <3>1. Exists(name)
      BY <1>6, <2>5
    <3>2. PICK i \in 1 .. k : name = Queue[i]
      BY <2>2, <3>1
    <3>3. below # head
      BY <2>1, <2>3, <3>2, QueueIs
    <3>4. Exists(below) /\ Covers(below, name)
      BY <1>6, <2>1, <3>3
    <3> QED
      BY <1>3, <2>5, <3>1, <3>4 DEF IInv, TrunksCarry, Carries
  <2> QED
    BY <2>4, <2>5
<1>9. Ready'
  <2> SUFFICES ASSUME cut' = 0, plans >= 1, NEW name \in Names, Always(name)
               PROVE  Exists(name)' \/ (plans' = 1 /\ name \in Elements(plan'))
    BY DEF Ready
  <2>1. cut = 0 /\ run = Trained(head, {"latest", "best"})
    BY <1>1
  <2>2. CASE name = head
    <3>1. Trained(head, {"latest", "best"}).files = {"latest", "best"}
      BY TrainedHolds
    <3>2. runs'[name].files = {"latest", "best"}
      BY <1>3, <2>1, <2>2, <3>1
    <3>3. {"latest", "best"} # {}
      OBVIOUS
    <3> QED
      BY <3>2, <3>3 DEF Exists
  <2>3. CASE name # head
    <3>1. Exists(name) \/ (plans = 1 /\ name \in Elements(plan))
      BY <2>1 DEF IInv, Ready
    <3>2. name \in Elements(plan) => name \in Elements(plan')
      BY <1>1, <1>2, <2>3, HeadOrTail
    <3> QED
      BY <1>6, <2>3, <3>1, <3>2
  <2> QED
    BY <2>2, <2>3
<1>10. NothingTrainedTwice'
  <2> SUFFICES ASSUME cut' = 0, NEW name \in Names, Exists(name)', NEW layout \in DOMAIN runs'[name].weights,
                      NEW block \in Blocks(name, layout), runs'[name].weights[layout][block] = {name},
                      NEW below \in Elements(SeedChain[name]), layout \in Layouts(below)'
               PROVE  block \notin Blocks(below, layout)
    BY DEF NothingTrainedTwice, Blocks
  <2>1. cut = 0 /\ run = Trained(head, {"latest", "best"}) /\ layout \in Layouts(below)
    BY <1>1, SameRun
  <2>2. CASE name = head
    <3>1. layout \in Layouts(head) /\ run.weights[layout][block] = {head}
      BY <1>3, <2>1, <2>2, TrainedHolds
    <3>2. \A other \in Below(head) : Always(other) => Exists(other)
      BY <1>1, <2>1, BelowIsTrained
    <3> QED
      BY <1>2, <2>1, <2>2, <3>1, <3>2, BlocksAreHandedOn DEF IInv
  <2>3. CASE name # head
    BY <1>3, <1>6, <2>1, <2>3 DEF IInv, NothingTrainedTwice
  <2> QED
    BY <2>2, <2>3
<1> QED
  BY <1>5, <1>7, <1>8, <1>9, <1>10 DEF IInv

LEMMA Keeps == ASSUME TableSound, IInv, [Next]_vars PROVE IInv'
<1>1. CASE UNCHANGED vars
  <2>1. classes' = classes /\ plan' = plan /\ runs' = runs /\ warned' = warned /\ cut' = cut /\ plans' = plans
    BY <1>1 DEF vars
  <2>2. Typed'
    BY <2>1, SameRun DEF IInv, Typed
  <2>3. FirstPlan' /\ Ready'
    BY <2>1 DEF IInv, FirstPlan, Ready, Exists
  <2>4. TrunksCarry' /\ NothingTrainedTwice'
    BY <2>1, SameRun DEF IInv, TrunksCarry, NothingTrainedTwice, Carries, Exists, Covers
  <2> QED
    BY <2>2, <2>3, <2>4 DEF IInv
<1>2. CASE StartPlan
  BY <1>2, StartKeeps
<1>3. CASE Skip
  BY <1>3, SkipKeeps
<1>4. CASE Play
  <2>1. cut' = cut /\ cut \in 0 .. MaxCut
    BY <1>4 DEF Play, IInv, Typed
  <2> QED
    BY <1>4, <2>1, HeadKeeps DEF Play
<1>5. CASE CutShort
  <2>1. cut' = cut + 1 /\ cut \in 0 .. MaxCut /\ cut < MaxCut
    BY <1>5 DEF CutShort, IInv, Typed
  <2>2. cut' \in 0 .. MaxCut /\ cut' # 0
    BY <2>1, CurriculumAssumption
  <2> QED
    BY <1>5, <2>2, HeadKeeps DEF CutShort
<1> QED
  BY <1>1, <1>2, <1>3, <1>4, <1>5 DEF Next

\* StageScenario, _load_or_seed and CommandStart: what the plans name are stages of
\* the table, and a checkpoint holds a layout of every class that plays its stage
\* and no other, whatever classes a run has and whatever it cuts short.
THEOREM Types == ASSUME TableSound PROVE Spec => []TypeOK
<1>1. IInv => TypeOK
  <2> SUFFICES ASSUME IInv PROVE TypeOK
    OBVIOUS
  <2>1. Elements(plan) \subseteq Names
    BY DEF IInv, Typed, Elements
  <2>2. \A name \in Names : /\ runs[name].files \in {{}, {"latest"}, {"latest", "best"}}
                            /\ runs[name].files # {} => DOMAIN runs[name].weights \ {Director} = Playing(name)
    BY LayoutIs DEF IInv, Typed, Kept
  <2> QED
    BY <2>1, <2>2 DEF IInv, Typed, TypeOK
<1> QED
  BY <1>1, Starts, Keeps, PTL DEF Spec

\* Forge::DefaultQueue and CommandStart, for any sound table and any stages named: a
\* plan never plays a stage after one that is seeded from it.
THEOREM PlansAreSound == ASSUME TableSound PROVE Spec => []PlansSound
<1> DEFINE InOrder == \A i, j \in DOMAIN plan : i <= j => plan[j] \notin Below(plan[i])
<1>1. Init => InOrder
  BY DEF Init
<1>2. IInv /\ InOrder /\ [Next]_vars => InOrder'
  <2> SUFFICES ASSUME IInv, InOrder, [Next]_vars PROVE InOrder'
    OBVIOUS
  <2>1. CASE plan' = plan
    BY <2>1
  <2>2. CASE plan # <<>> /\ plan' = Tail(plan)
    <3>1. plan \in Seq(Names)
      BY DEF IInv, Typed
    <3>2. \A i \in DOMAIN Tail(plan) : i + 1 \in DOMAIN plan /\ Tail(plan)[i] = plan[i + 1] /\ i \in Nat
      BY <2>2, <3>1
    <3> QED
      BY <2>2, <3>2
  <2>3. CASE plan' \in {Queue} \union {<<n>> : n \in Named}
    <3>1. CASE plan' = Queue
      BY <3>1 DEF TableSound
    <3>2. ASSUME NEW n \in Named, plan' = <<n>> PROVE InOrder'
      <4>1. n \in Names /\ n \notin Below(n)
        <5>1. n \in Names /\ \A below \in Below(n) : Place(below) < Place(n)
          BY DEF TableSound
        <5>2. Place(n) \in Nat
          BY <5>1 DEF TableSound
        <5> QED
          BY <5>1, <5>2
      <4> QED
        BY <3>2, <4>1
    <3> QED
      BY <2>3, <3>1, <3>2
  <2> QED
    BY <2>1, <2>2, <2>3 DEF Next, StartPlan, Skip, Play, CutShort, vars
<1>3. TableSound /\ InOrder => PlansSound
  BY DEF PlansSound
<1> QED
  BY <1>1, <1>2, <1>3, Starts, Keeps, PTL DEF Spec

\* seed_candidate, seed_trainer and seed_merges, for any classes, any stages named,
\* any number of plans and of stages cut short: the trunk of a stage carries every
\* stage of its chain that could have seeded it, and with none cut short no class
\* trains a block anew which a stage below has trained.
THEOREM SeedsAreSound == ASSUME TableSound PROVE Spec => []SeedsSound
<1>1. IInv => SeedsSound
  BY DEF IInv, TrunksCarry, Carries, SeedsSound, TrunkCarriesChain
<1> QED
  BY <1>1, Starts, Keeps, PTL DEF Spec
=============================================================================
