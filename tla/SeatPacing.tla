----------------------------- MODULE SeatPacing -----------------------------
(***************************************************************************)
(* What a seat may press again and when (SeatMemory in                     *)
(* src/src/Scenario/Curriculum/Layout), and what pressing the same button  *)
(* over and over costs it (StageScenario::Press).  Time is in decisions.   *)
(***************************************************************************)
EXTENDS Integers, FiniteSets

CONSTANTS Moves, Spells, Modes, Stop, Orders, \* a layout's actions: movement, cast-time spells, one mode group, the stop of a cast, the rest
          Repeat, MoveRepeat, StopCastMin, RecastAfterStop, ModeLock, RepeatWindow, RepeatFree, \* CurriculumTuning::ActionTuning
          NoSpell, EpisodeDecisions, Episodes

VARIABLE env

vars == <<env>>

Actions == Moves \union Spells \union Modes \union {Stop} \union Orders
Larger(a, b) == IF a > b THEN a ELSE b

\* SeatMemory::Reset: nothing pressed, nothing seen.
NoMemory == [ready |-> [a \in Actions |-> 0], modeChange |-> 0, cast |-> NoSpell, castStart |-> 0,
             times |-> [a \in Actions |-> {}]]
\* Mutant of Forgotten: a seat that keeps its character keeps what it pressed.
Remembered(memory) == memory
Forgotten(memory) == NoMemory

Init == env = [clock |-> 0, episode |-> 1, observed |-> FALSE, memory |-> NoMemory, charged |-> 0,
               log |-> {}, casting |-> NoSpell] \* this episode's presses; what the bot casts

-----------------------------------------------------------------------------

\* SeatMemory::Observe: the cast or channel the bot is in, and when that was
\* first seen.
Seen(memory, spell) == IF spell = memory.cast THEN memory ELSE [memory EXCEPT !.cast = spell, !.castStart = env.clock]
Observe == /\ ~env.observed /\ env.clock < EpisodeDecisions
           /\ \E spell \in {NoSpell, env.casting} :  \* it may be done by now
              env' = [env EXCEPT !.observed = TRUE, !.casting = spell, !.memory = Seen(@, spell)]

\* SeatMemory::Paced.
Paced(memory, action) ==
    \/ env.clock < memory.ready[action]
    \/ action = Stop /\ memory.cast # NoSpell /\ env.clock < memory.castStart + StopCastMin
    \/ action \in Modes /\ memory.modeChange > 0 /\ env.clock < memory.modeChange + ModeLock

\* SeatMemory::Press: the button waits, and so does the spell whose cast it stops.
RepeatOf(action) == IF action \in Moves THEN MoveRepeat ELSE Repeat
ReadyAgain(memory, action, a) ==
    LET ready == IF a = action THEN env.clock + RepeatOf(action) ELSE memory.ready[a]
    IN  IF action = Stop /\ a = memory.cast THEN Larger(ready, env.clock + RecastAfterStop) ELSE ready
Pressed(memory, action) ==
    [memory EXCEPT !.modeChange = IF action \in Modes THEN Larger(1, env.clock) ELSE @,
                   !.ready = [a \in Actions |-> ReadyAgain(memory, action, a)]]

\* StageScenario::Press: the presses of one button within the window that did
\* nothing.
Useless(memory, action) == {t \in memory.times[action] : t + RepeatWindow > env.clock} \union {env.clock}
Counted(memory, action) == [memory EXCEPT !.times[action] = Useless(memory, action)]

\* StageScenario::ApplySeatAction: what the policy ignored the mask for is the
\* no-op.
Press(action) ==
    /\ env.observed /\ ~Paced(env.memory, action)
    /\ \E did \in (IF action \in Orders \union Modes THEN BOOLEAN ELSE {TRUE}) :
       LET memory == Pressed(env.memory, action)
           counts == ~did /\ action \notin Moves
       IN env' = [env EXCEPT
             !.memory = IF counts THEN Counted(memory, action) ELSE memory,
             !.charged = IF counts /\ Cardinality(Useless(memory, action)) > RepeatFree THEN @ + 1 ELSE @,
             !.casting = IF action = Stop THEN NoSpell ELSE IF action \in Spells /\ @ = NoSpell THEN action ELSE @,
             !.log = @ \union {[at |-> env.clock, action |-> action, did |-> did, stopped |-> env.memory.cast]},
             !.clock = @ + 1, !.observed = FALSE]
NoOp == env.observed /\ env' = [env EXCEPT !.clock = @ + 1, !.observed = FALSE]

\* SeatState::ResetEpisode.
NewEpisode == /\ env.clock = EpisodeDecisions /\ env.episode < Episodes
              /\ env' = [env EXCEPT !.clock = 0, !.episode = @ + 1, !.memory = Forgotten(@), !.charged = 0,
                                    !.log = {}, !.casting = NoSpell]

Next == Observe \/ NoOp \/ NewEpisode \/ \E action \in Actions : Press(action)
Spec == Init /\ [][Next]_vars

-----------------------------------------------------------------------------

\* What the presses of this episode say of an action: the last of the same
\* button, of its kind, of a stop of its cast.
HeldBack(action) ==
    \E p \in env.log :
       \/ p.action = action /\ env.clock < p.at + RepeatOf(action)
       \/ p.action = Stop /\ p.stopped = action /\ env.clock < p.at + RecastAfterStop
       \/ /\ {p.action, action} \subseteq Modes
          /\ env.clock < Larger(1, p.at) + ModeLock

\* SeatMemory: of the buttons a seat may press none is held back by what it
\* pressed in this episode, and only those are held back, however the presses,
\* stops and casts of several buttons interleave and episodes follow.
PacedByHistory ==
    env.observed => \A a \in Actions \ {Stop} : Paced(env.memory, a) <=> HeldBack(a)

\* StageScenario::Press: a press is charged when, of the presses of that button
\* that did nothing, more than the free ones fall within the window it ends.
ChargedAsPressed ==
    env.charged = Cardinality({p \in env.log :
        ~p.did /\ Cardinality({q \in env.log : q.action = p.action /\ ~q.did /\ q.at <= p.at
                                                /\ q.at + RepeatWindow > p.at}) > RepeatFree})

\* What the theorem takes its constants to be: no spell is not a button, walking
\* is neither an order nor a mode, and a press is in the window it ends.
PaceConstants ==
    /\ NoSpell \notin Actions /\ Moves \intersect (Orders \union Modes) = {}
    /\ {Repeat, MoveRepeat, RecastAfterStop, ModeLock, RepeatFree} \subseteq Nat /\ RepeatWindow \in Nat \ {0}
=============================================================================
