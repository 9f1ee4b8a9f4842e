---------------------------- MODULE SeatRewards ----------------------------
(***************************************************************************)
(* What every stage pays a seat whatever its encounters do                 *)
(* (StageScenario::SeatReward): the ground it stands in, the goal it holds *)
(* and its pet's death, summed in its ledger (RewardLedger).  Pay is in    *)
(* hundredths.                                                             *)
(***************************************************************************)
EXTENDS Integers, FiniteSets

CONSTANTS HazardMax, Standing, DamageShares, \* CurriculumTuning::HazardTuning; what a hazard's damage may cost
          Match, Goals, NoGoal, EpisodeDecisions, Episodes

VARIABLE env

vars == <<env>>

Smaller(a, b) == IF a < b THEN a ELSE b
Larger(a, b) == IF a > b THEN a ELSE b

NewLedger == [step |-> 0, hazard |-> 0, goal |-> 0]
Add(ledger, term, value) == [ledger EXCEPT !.step = @ + value, ![term] = @ + value]

Init == env = [pc |-> "goals", clock |-> 0, episode |-> 1, ledger |-> NewLedger, goal |-> NoGoal, rewarded |-> FALSE,
               pet |-> "none", lastPet |-> "none", petDied |-> FALSE,
               paid |-> 0, reached |-> FALSE, held |-> 0, sick |-> FALSE]

\* StageScenario::ApplyGoals, before the actions: a new goal is paid for again.
Rewarded(goal) == env.rewarded /\ goal = env.goal
ApplyGoals ==
    /\ env.pc = "goals" /\ env.clock < EpisodeDecisions
    /\ \E goal \in Goals \union {NoGoal} :
       env' = [env EXCEPT !.pc = "world", !.goal = goal, !.rewarded = Rewarded(goal),
                          !.reached = @ /\ goal = env.goal]

\* The pet fights, falls or is called: a beast leaves a corpse, a demon none.
World == /\ env.pc = "world"
         /\ \E pet \in {"none", "well", "nearly dead", "corpse"} :
            /\ pet = "corpse" => env.pet # "none"
            /\ env' = [env EXCEPT !.pc = "reward", !.pet = pet,
                                  !.sick = @ \/ pet \in {"corpse", "nearly dead"}]

\* The charges of one decision share the room the episode has left.
\* Mutant of Room: what an episode may be charged is charged by each.
RoomOfEach(ledger) == HazardMax
Room(ledger) == Larger(0, HazardMax + ledger.hazard)
Charged(ledger, amount) == Add(ledger, "hazard", -Smaller(amount, Room(ledger)))
InHazards(ledger, stands, share) ==
    LET stood == IF stands THEN Charged(ledger, Standing) ELSE ledger
    IN IF share > 0 THEN Charged(stood, share) ELSE stood

\* Paid for reaching the goal, once per goal held.
GoalPaid(ledger, matches) == IF matches /\ ~env.rewarded THEN Add(ledger, "goal", Match) ELSE ledger

\* A pet that died: a corpse, or one gone while nearly dead.
PetDied == env.pet = "corpse" \/ (env.pet = "none" /\ env.lastPet = "nearly dead")

SeatReward ==
    /\ env.pc = "reward"
    /\ \E alive, stands, holds \in BOOLEAN : \E share \in {0} \union DamageShares :
       LET matches == alive /\ holds /\ env.goal # NoGoal
           ledger == GoalPaid(IF alive THEN InHazards(env.ledger, stands, share) ELSE env.ledger, matches)
       IN env' = [env EXCEPT !.pc = "goals", !.clock = @ + 1,
                             !.ledger = [ledger EXCEPT !.step = 0], !.paid = @ + ledger.step, \* TakeStep
                             !.rewarded = @ \/ matches, !.reached = @ \/ matches,
                             !.held = IF matches /\ ~env.reached THEN @ + 1 ELSE @,
                             !.petDied = @ \/ PetDied,
                             !.lastPet = IF env.pet = "corpse" THEN "none" ELSE env.pet]

\* SeatState::ResetEpisode.
NewEpisode == /\ env.pc = "goals" /\ env.clock = EpisodeDecisions /\ env.episode < Episodes
              /\ env' = [env EXCEPT !.clock = 0, !.episode = @ + 1, !.ledger = NewLedger, !.goal = NoGoal,
                                    !.rewarded = FALSE, !.lastPet = "none", !.petDied = FALSE,
                                    !.paid = 0, !.reached = FALSE, !.held = 0, !.sick = FALSE]

Next == ApplyGoals \/ World \/ SeatReward \/ NewEpisode
Spec == Init /\ [][Next]_vars

-----------------------------------------------------------------------------

\* SeatReward: "Capped per episode so it can never be worth leaving a fight
\* over": the ground costs a seat no more than Hazards.Max an episode, whatever
\* it stands in and is hurt by in one decision; a goal is paid once each time it
\* is held; and what an episode's terms add up to is what was paid.
SeatPaidInFull ==
    /\ env.ledger.hazard >= -HazardMax
    /\ env.ledger.goal = Match * env.held
    /\ env.paid + env.ledger.step = env.ledger.hazard + env.ledger.goal

\* SeatReward: "Replacing a healthy pet with another is not a death".
HealthyPetsLive == env.petDied => env.sick

\* What the theorem takes the constants to be, in hundredths of the tuning's.
RewardConstants == HazardMax \in Nat /\ Standing \in Nat /\ DamageShares \subseteq Nat /\ Match \in Int
=============================================================================
