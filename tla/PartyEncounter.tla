--------------------------- MODULE PartyEncounter ---------------------------
(***************************************************************************)
(* Who a seat plays with: the owner that stands in for the player it       *)
(* accompanies and the other seats (OwnerEncounter.cpp and                 *)
(* PartyEncounter.cpp in src/src/Scenario/Curriculum/Encounters).  They    *)
(* are one group of the core, each seat pays for the deaths of the others, *)
(* and what enemies they fight is booked to the one they attack.  A member *)
(* is a seat or the owner, and a character of it is the episode that built *)
(* it.                                                                     *)
(***************************************************************************)
EXTENDS Integers, Sequences, SequencesExt, FiniteSets, FiniteSetsExt

CONSTANTS Arenas,       \* [kind, seats, owner]: kind is "party", "raid" or "alone", owner is "script", "cast" or "none"
          GroupSeats,   \* GROUP_SEATS
          Spotlights,   \* PARTY_MEMBERS - GROUP_MEMBERS
          Holders,      \* the members whose build holds the pull
          Mitigation,   \* how much of a hit each of them takes off
          Healths,      \* in percent, 0 is dead
          Enemies, MaxDeaths, Decisions, Episodes, Owner, None

VARIABLE env

vars == <<env>>

Most == Max({arena.seats : arena \in Arenas})
Seats == 0 .. Most - 1
Members == Seats \cup {Owner}
Grouped(e) == e.arena.kind # "alone"
Playing(e) == 0 .. e.arena.seats - 1
Whole(e) == Playing(e) \cup (IF e.arena.owner = "none" THEN {} ELSE {Owner})
Alive(e, w) == e.health[w] > 0
On(e, w) == Cardinality({x \in Enemies : e.victim[x] = w})

Init == env = [at |-> "end", arena |-> CHOOSE arena \in Arenas : TRUE, built |-> [w \in Members |-> 0], group |-> None, episode |-> 0,
               decisions |-> 0, health |-> [w \in Members |-> 100], victim |-> [x \in Enemies |-> None],
               \* EnvOwner, and what every seat keeps of the owner and of the other seats.
               deaths |-> 0, counted |-> FALSE, onOwner |-> 0, onBot |-> [s \in Seats |-> 0], onTeammates |-> [s \in Seats |-> 0],
               seen |-> [s \in Seats |-> [w \in Members |-> FALSE]], paid |-> [s \in Seats |-> [w \in Members |-> 0]],
               \* Of the episode: deaths, those that nobody saw, who was raised since the last decision, and attacks seen.
               died |-> [w \in Members |-> 0], lost |-> [w \in Members |-> 0], raised |-> {}, attacks |-> 0]

-----------------------------------------------------------------------------
(* The next episode: last episode's group goes, characters are replaced,    *)
(* and the group is made of who is there.                                   *)

\* BeforeRebuild where the arena has a group, Deactivate where it has none.
Disband(e) == [e EXCEPT !.group = None]
ResetEpisode(e) ==
    [e EXCEPT !.deaths = 0, !.counted = FALSE, !.onOwner = 0, !.onBot = [s \in Seats |-> 0], !.onTeammates = [s \in Seats |-> 0],
              !.seen = [s \in Seats |-> [w \in Members |-> FALSE]], !.paid = [s \in Seats |-> [w \in Members |-> 0]],
              !.died = [w \in Members |-> 0], !.lost = [w \in Members |-> 0], !.raised = {}, !.attacks = 0,
              !.health = [w \in Members |-> 100], !.victim = [x \in Enemies |-> None], !.decisions = 0, !.at = "world"]
\* The owner leads, a raid's first seat does; the others join in the order of seats,
\* each in the first group of a raid with room.
Build(e) ==
    IF ~Grouped(e) \/ e.group # None THEN e
    ELSE LET leader == IF e.arena.owner = "none" THEN 0 ELSE Owner
             joining == SetToSortSeq(Playing(e) \ {leader}, <)
         IN  [e EXCEPT !.group = [leader |-> leader, joined |-> [i \in 1 .. Len(joining) + 1 |->
                                      LET w == IF i = 1 THEN leader ELSE joining[i - 1] IN <<w, e.built[w]>>],
                                  raid |-> e.arena.kind = "raid" /\ e.arena.seats > GroupSeats]]
Subgroup(group, i) == IF group.raid THEN (i - 1) \div GroupSeats ELSE 0
\* Some seats' characters are built anew, a scripted owner's always; a build that
\* fails may have come as far as the group or not.
Rebuild ==
    /\ env.at = "end" /\ env.episode < Episodes
    /\ \E arena \in Arenas, fresh \in SUBSET Seats :
       LET e == Disband([env EXCEPT !.arena = arena, !.episode = @ + 1])
           new == (fresh \cap Playing(e)) \cup {w \in Whole(e) : e.built[w] = 0 \/ (w = Owner /\ e.arena.owner = "script")}
           c == [e EXCEPT !.built = [w \in Members |-> IF w \in new THEN e.episode ELSE IF w \in Whole(e) THEN @[w] ELSE 0]]
       IN  env' \in {c, Build(c), ResetEpisode(Build(c))}

-----------------------------------------------------------------------------
(* A decision: rewards, then the encounters' update, then what resurrects,  *)
(* then the world until the next one.                                       *)

\* OwnerEncounter::BeforeRewards, once for the env.
BeforeRewards(e) ==
    IF e.arena.owner = "none" THEN e
    ELSE [e EXCEPT !.onOwner = @ + On(e, Owner), !.counted = ~Alive(e, Owner),
                   !.deaths = @ + (IF ~Alive(e, Owner) /\ ~e.counted THEN 1 ELSE 0)]
\* Reward of both encounters for every seat: the deaths it has not seen.
Others(e, s) == (IF Grouped(e) THEN Playing(e) \ {s} ELSE {}) \cup (Whole(e) \ Seats)
Unguarded(e, s) == {w \in Others(e, s) \cap Seats : w \notin Holders /\ Alive(e, w)}
Attacks(e, S) == FoldSet(LAMBDA w, n : n + On(e, w), 0, S)
Reward(e) ==
    [e EXCEPT !.onBot = [s \in Seats |-> @[s] + IF e.arena.owner # "none" /\ s \in Playing(e) THEN On(e, s) ELSE 0],
              !.onTeammates = [s \in Seats |-> @[s] + IF s \in Playing(e) THEN Attacks(e, Unguarded(e, s)) ELSE 0],
              !.seen = [s \in Seats |-> [w \in Members |-> s \in Playing(e) /\ w \in Others(e, s) /\ ~Alive(e, w)]],
              !.paid = [s \in Seats |-> [w \in Members |->
                  @[s][w] + IF s \in Playing(e) /\ w \in Others(e, s) /\ ~Alive(e, w) /\ ~e.seen[s][w] THEN 1 ELSE 0]]]
Collect == /\ env.at = "reward"
           /\ LET e == Reward(BeforeRewards(env)) IN
              env' = [e EXCEPT !.raised = {}, !.attacks = IF e.arena.owner = "none" THEN @ ELSE @ + Attacks(env, Whole(env)),
                               !.at = "update", !.decisions = @ + 1]
EndEpisode == /\ env.at = "update" /\ env' = [env EXCEPT !.at = "end"]

\* PullsEncounter stands the dead up between pulls, NotifyRecovered: the next death
\* is paid for again.
\* Mutant of OnRecovered: the env's count, and not the seats'.
OnRecoveredEnv(e, w) == IF w = Owner THEN [e EXCEPT !.counted = FALSE] ELSE e
OnRecovered(e, w) ==
    [e EXCEPT !.counted = IF w = Owner THEN FALSE ELSE @, !.seen = [s \in Seats |-> [@[s] EXCEPT ![w] = FALSE]]]
Dead(e) == {w \in Whole(e) : ~Alive(e, w)}
Standing(e, S) == [e EXCEPT !.health = [w \in Members |-> IF w \in S THEN 100 ELSE @[w]]]
Update == /\ env.at = "update" /\ env.decisions < Decisions
          /\ \E S \in SUBSET Dead(env) : env' = [FoldSet(LAMBDA w, e : OnRecovered(e, w), Standing(env, S), S) EXCEPT !.at = "accept"]
\* AcceptResurrections tells nobody: the next decision sees them alive, if they are.
Accept == /\ env.at = "accept"
          /\ \E S \in SUBSET Dead(env) : env' = [Standing(env, S) EXCEPT !.raised = S, !.at = "world"]
\* Until the next decision: healed and hit, and enemies take whom they like.
Changes(e) == {h \in [Members -> Healths] : \A w \in Members :
                  /\ w \notin Whole(e) \/ ~Alive(e, w) => h[w] = e.health[w]
                  /\ Alive(e, w) /\ h[w] = 0 => e.died[w] < MaxDeaths}
World == /\ env.at = "world"
         /\ \E h \in Changes(env), victim \in [Enemies -> Whole(env) \cup {None}] :
            LET fell == {w \in Whole(env) : Alive(env, w) /\ h[w] = 0} IN
            /\ \A x \in Enemies : victim[x] # None => h[victim[x]] > 0
            /\ env' = [env EXCEPT !.health = h, !.victim = victim, !.at = "reward",
                                  !.died = [w \in Members |-> @[w] + IF w \in fell THEN 1 ELSE 0],
                                  !.lost = [w \in Members |-> @[w] + IF w \in fell \cap env.raised THEN 1 ELSE 0]]

Next == Rebuild \/ Collect \/ EndEpisode \/ Update \/ Accept \/ World
Spec == Init /\ [][Next]_vars

-----------------------------------------------------------------------------
(* PartyEncounter::View of a seat; near is the one it stands closest to of  *)
(* those outside its group.                                                 *)

GroupFirstSeat(s) == (s \div GroupSeats) * GroupSeats
SameGroup(s, t) == GroupFirstSeat(s) = GroupFirstSeat(t)
FirstOf(S) == IF S = {} THEN None ELSE Min(S)
Outside(e, s) == {t \in Playing(e) : ~SameGroup(s, t) /\ Alive(e, t)}
\* The lowest health starts at 2, and a health is in percent.
Hurt(e, S) == {t \in S : e.health[t] < 2}
Spotlit(e, s, near) ==
    LET tank == FirstOf(Outside(e, s) \cap Holders)
        hurt == FirstOf({t \in Hurt(e, Outside(e, s)) : \A u \in Outside(e, s) : e.health[t] <= e.health[u]})
        order == <<tank, hurt, near>>
        new(i) == order[i] # None /\ \A j \in 1 .. i - 1 : order[j] # order[i]
    IN  [i \in 1 .. Cardinality({j \in 1 .. 3 : new(j)}) |-> order[CHOOSE j \in 1 .. 3 : new(j) /\ Cardinality({k \in 1 .. j : new(k)}) = i]]
Teammates(e, s, near) ==
    [group |-> SetToSortSeq({t \in Playing(e) \ {s} : SameGroup(s, t)}, <), spot |-> Spotlit(e, s, near)]
\* The group's tank, and what is left of the raid.
Tank(e) == LET tanks == {t \in Playing(e) \cap Holders : Alive(e, t) /\ Mitigation[t] > 0}
           IN  FirstOf({t \in tanks : \A u \in tanks : Mitigation[u] < Mitigation[t] \/ (Mitigation[u] = Mitigation[t] /\ t <= u)})
Raid(e, s) == [group |-> s \div GroupSeats,
               alive |-> Cardinality({t \in Playing(e) : Alive(e, t)}), seats |-> e.arena.seats,
               groupAlive |-> Cardinality({t \in Playing(e) : Alive(e, t) /\ SameGroup(s, t)}),
               groupSeats |-> Cardinality({t \in Playing(e) : SameGroup(s, t)}),
               tanks |-> Cardinality({t \in Playing(e) \cap Holders : Alive(e, t)})]
View(e, s, near) == [teammates |-> Teammates(e, s, near), tank |-> Tank(e), raid |-> Raid(e, s)]
Nearest(e, s) == IF Outside(e, s) = {} THEN {None} ELSE Outside(e, s)

-----------------------------------------------------------------------------

\* OwnerEncounter::Reward: "Every seat pays for each of the owner's deaths, once",
\* and PartyEncounter for a teammate's: recovered between pulls or raised by a spell,
\* every death is paid by everybody else, but for one that came before the next
\* decision after a resurrection, which nobody saw.
DeathsPaid == env.at = "update" =>
    /\ env.arena.owner # "none" => env.deaths = env.died[Owner] - env.lost[Owner]
    /\ \A s \in Playing(env) : \A w \in Others(env, s) : env.paid[s][w] = env.died[w] - env.lost[w]

\* OwnerEncounter: the "threat_share" of an episode: every enemy's attack is booked
\* once, to the owner or to the seat it is on, however many seats are rewarded.
ThreatBookedOnce ==
    env.at = "update" /\ env.arena.owner # "none" => env.onOwner + FoldSet(LAMBDA s, n : n + env.onBot[s], 0, Seats) = env.attacks

\* PartyEncounter::Build: "each seat in the group its index says": an episode's group
\* is its own characters, led by the owner, and nobody of the episode before.
GroupIsWhole == env.at \notin {"end"} /\ Grouped(env) =>
    /\ Range(env.group.joined) = {<<w, env.built[w]>> : w \in Whole(env)} /\ Len(env.group.joined) = Cardinality(Whole(env))
    /\ env.group.leader = IF Owner \in Whole(env) THEN Owner ELSE 0
    /\ env.arena.kind = "raid" => \A i \in DOMAIN env.group.joined : Subgroup(env.group, i) = env.group.joined[i][1] \div GroupSeats

\* PartyEncounter::View: a seat sees everybody of its own group, then whoever it has
\* to act on of the others alive, nobody twice and never itself, and as many as the
\* block has room for.
ViewShowsEachOnce == env.at = "reward" /\ Grouped(env) =>
    \A s \in Playing(env) : \A near \in Nearest(env, s) :
        LET view == View(env, s, near)
            shown == view.teammates.group \o view.teammates.spot
        IN  /\ IsInjective(shown) /\ s \notin Range(shown) /\ Len(view.teammates.spot) <= Spotlights
            /\ Range(view.teammates.spot) \subseteq Outside(env, s)
            /\ Outside(env, s) # {} => Len(view.teammates.spot) > 0
            /\ view.tank # None => view.tank \in Range(shown) \cup {s} \/ Cardinality(Outside(env, s) \cap Holders) > 1

\* PartyEncounter::View: "the raid's living tank, its most hurt member, and the
\* nearest one".
MostHurtIsShown == env.at = "reward" /\ Grouped(env) =>
    \A s \in Playing(env) : Outside(env, s) # {} =>
        \A near \in Nearest(env, s) : \E t \in Range(Spotlit(env, s, near)) : \A u \in Outside(env, s) : env.health[t] <= env.health[u]
=============================================================================
