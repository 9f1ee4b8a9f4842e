-------------------------- MODULE EvaluationProofs --------------------------
(***************************************************************************)
(* Theorems about Evaluation, for every number of envs, seeds, castings,   *)
(* episode lengths and policies: the actions the sim applies answer the    *)
(* STEP its envs show, training episodes are free of any evaluation, no    *)
(* seed is lost or scored twice, a scored episode is a whole one of the    *)
(* character its seed stands for, and only a learner's own seeds are       *)
(* replayed to it.                                                         *)
(*                                                                         *)
(* The first part is the connection's: its invariant says whose turn it is *)
(* when the learner lives (Turn), what a dead learner may have left unread *)
(* (Unread), and where the pool is known to be training.                   *)
(*                                                                         *)
(* On top of it go what the seeds of an evaluation come to: what an        *)
(* episode and the pool are (PoolInv), what lies in the inbox              *)
(* (MessageInv), what the learner counts and holds (LearnerInv, ScoreInv), *)
(* and where each seed is (SeedInv).                                       *)
(***************************************************************************)
EXTENDS Evaluation, SequenceTheorems, FiniteSetTheorems, TLAPS

Live == pc # "accept" /\ ~hungUp

Messages == {inbox[i] : i \in DOMAIN inbox}

\* The last message, with nothing but a REPLAY before it.
LastSent(m) ==
    \/ inbox = <<m>>
    \/ \E r \in Messages : r.type = "REPLAY" /\ inbox = <<r, m>>

\* Or with the CLOSE behind it of a learner that ended then.
LastWords(m) ==
    \/ inbox = <<m, Close>>
    \/ \E r \in Messages : r.type = "REPLAY" /\ inbox = <<r, m, Close>>

\* Only that message can be an ACT, and it was chosen for what the envs show.
Unread ==
    inbox # <<>> =>
        \E m \in Messages : (LastSent(m) \/ LastWords(m)) /\ (m.type = "ACT" => m.seen = env)

Answered == /\ pc = "receive" /\ inbox = <<>>
            /\ outbox = <<[shows |-> env, ended |-> ended]>>

\* The request that `learner' waits to have answered.
IsRequest(m) ==
    \/ learner = "acting"   /\ m.type = "ACT" /\ m.sent = SentIn(task) /\ m.seen = env
    \/ learner = "entering" /\ m.type = "MODE"
    \/ learner = "leaving"  /\ m.type = "MODE" /\ m.mode = Training

Requested == /\ pc = "receive" /\ outbox = <<>> /\ inbox # <<>>
             /\ \E m \in Messages : LastSent(m) /\ IsRequest(m)

Applied == learner = "acting" /\ pc = "collect" /\ inbox = <<>> /\ outbox = <<>>

Holding == /\ pc = "receive" /\ outbox = <<>> /\ step = env
           /\ \/ inbox = <<>>
              \/ /\ learner = "ready" /\ task = "train"
                 /\ \E r \in Messages : r.type = "REPLAY" /\ inbox = <<r>>

Turn ==
    /\ learner # "gone" /\ backlog # "alive"
    /\ learner = "awaiting" => Answered
    /\ learner \in {"ready", "left"} => Holding
    /\ learner \in {"acting", "entering", "leaving"} => Answered \/ Requested \/ Applied

Connection ==
    /\ hungUp \in BOOLEAN
    /\ learner \in {"gone", "awaiting", "ready", "acting", "entering", "leaving", "left"}
    /\ pc \in {"accept", "collect", "receive"}
    /\ learner = "gone" => backlog # "alive"
    /\ backlog = "alive" => learner = "awaiting"
    /\ learner = "awaiting" => task = "train"
    /\ learner = "entering" => task # "train"
    /\ hungUp => learner = "gone" \/ backlog = "alive"
    /\ pc = "accept" => inbox = <<>> /\ ~hungUp
    /\ pc = "collect" => inbox = <<>> \/ (hungUp /\ inbox = <<Close>>)
    /\ ~Live => outbox = <<>>
    /\ Unread
    /\ Live => Turn
    /\ pc = "accept" /\ backlog # "alive" => learner \notin {"ready", "left"}

\* An episode (a record of these fields) that is training's alone.
Own(x) ==
    /\ x = [character |-> x.character, build |-> x.build, seed |-> NoSeed, evaluating |-> FALSE,
            fresh |-> x.fresh, failed |-> x.failed, decisions |-> x.decisions, players |-> x.players]
    /\ \A p \in x.players : p = [ours |-> "sampled", theirs |-> "sampled"]

\* Nothing of an evaluation is in the pool.
Unseeded ==
    /\ mode = Training
    /\ env = [e \in Envs |-> env[e]]
    /\ \A e \in Envs : Own(env[e])

Trains ==
    \/ learner \in {"awaiting", "left"}
    \/ learner \in {"ready", "acting"} /\ task = "train"
    \/ learner = "leaving" /\ Answered

IInv == Connection /\ (Live /\ Trains => Unseeded)

-----------------------------------------------------------------------------
(***************************************************************************)
(* What sending and reading does to a message queue.                       *)
(***************************************************************************)
LEMMA Appends ==
    ASSUME NEW a, NEW b, NEW c
    PROVE  Append(<<a>>, b) = <<a, b>> /\ Append(<<a, b>>, c) = <<a, b, c>>
  <1> DEFINE S == {a, b, c}
  <1>1. <<a>> \in Seq(S) /\ <<a, b>> \in Seq(S) /\ <<a, b, c>> \in Seq(S)
    OBVIOUS
  <1>2. /\ Append(<<a>>, b) \in Seq(S) /\ Len(Append(<<a>>, b)) = 2
        /\ Append(<<a>>, b)[1] = a /\ Append(<<a>>, b)[2] = b
    BY <1>1, AppendProperties
  <1>3. \A i \in 1 .. 2 : Append(<<a>>, b)[i] = <<a, b>>[i]
    BY <1>2
  <1>4. Append(<<a>>, b) = <<a, b>>
    BY <1>1, <1>2, <1>3, SeqEqual
  <1>5. /\ Append(<<a, b>>, c) \in Seq(S) /\ Len(Append(<<a, b>>, c)) = 3
        /\ Append(<<a, b>>, c)[1] = a /\ Append(<<a, b>>, c)[2] = b /\ Append(<<a, b>>, c)[3] = c
    BY <1>1, AppendProperties
  <1>6. \A i \in 1 .. 3 : Append(<<a, b>>, c)[i] = <<a, b, c>>[i]
    BY <1>5
  <1>7. Append(<<a, b>>, c) = <<a, b, c>>
    BY <1>1, <1>5, <1>6, SeqEqual
  <1>8. QED
    BY <1>4, <1>7

\* All that the steps below use of Append, Head and Tail.
LEMMA Queues ==
    ASSUME NEW a, NEW b
    PROVE  /\ Append(<<>>, a) = <<a>> /\ Append(<<a>>, b) = <<a, b>>
           /\ Head(<<a>>) = a /\ Head(<<a, b>>) = a
           /\ Tail(<<a>>) = <<>> /\ Tail(<<a, b>>) = <<b>>
           /\ <<a>> # <<>> /\ <<a, b>> # <<>>
           /\ {<<a>>[i] : i \in DOMAIN <<a>>} = {a}
           /\ {<<a, b>>[i] : i \in DOMAIN <<a, b>>} = {a, b}
  <1>1. Append(<<>>, a) = <<a>>
    OBVIOUS
  <1>2. Append(<<a>>, b) = <<a, b>>
    BY Appends
  <1>3. Head(<<a>>) = a /\ Head(<<a, b>>) = a /\ Tail(<<a>>) = <<>> /\ Tail(<<a, b>>) = <<b>>
    OBVIOUS
  <1>4. /\ <<a>> # <<>> /\ <<a, b>> # <<>>
        /\ <<a>>[1] = a /\ <<a, b>>[1] = a /\ <<a, b>>[2] = b
    OBVIOUS
  <1>5. DOMAIN <<a>> = {1} /\ DOMAIN <<a, b>> = {1, 2}
    OBVIOUS
  <1>6. QED
    BY <1>1, <1>2, <1>3, <1>4, <1>5

\* The same of three messages: a REPLAY, a request and a CLOSE.
LEMMA Triples ==
    ASSUME NEW a, NEW b, NEW c
    PROVE  /\ Head(<<a, b, c>>) = a /\ Tail(<<a, b, c>>) = <<b, c>> /\ <<a, b, c>> # <<>>
           /\ {<<a, b, c>>[i] : i \in DOMAIN <<a, b, c>>} = {a, b, c}
  <1>1. Head(<<a, b, c>>) = a /\ Tail(<<a, b, c>>) = <<b, c>> /\ <<a, b, c>> # <<>>
    OBVIOUS
  <1>2. <<a, b, c>>[1] = a /\ <<a, b, c>>[2] = b /\ <<a, b, c>>[3] = c /\ DOMAIN <<a, b, c>> = {1, 2, 3}
    OBVIOUS
  <1>3. QED
    BY <1>1, <1>2

(***************************************************************************)
(* A message is in its queue.                                              *)
(***************************************************************************)
LEMMA Sole ==
    ASSUME NEW m, inbox' = <<m>>
    PROVE  m \in Messages' /\ LastSent(m)'
  <1>1. {<<m>>[i] : i \in DOMAIN <<m>>} = {m}
    BY Queues
  <1>2. QED
    BY <1>1 DEF Messages, LastSent

\* The same of a message behind a REPLAY that has not been read.
LEMMA AfterReplay ==
    ASSUME NEW r, NEW m, r.type = "REPLAY", inbox' = <<r, m>>
    PROVE  m \in Messages' /\ LastSent(m)'
  <1>1. {<<r, m>>[i] : i \in DOMAIN <<r, m>>} = {r, m}
    BY Queues
  <1>2. QED
    BY <1>1 DEF Messages, LastSent

\* Either way the message is the last of the queue.
LEMMA Written ==
    ASSUME NEW m, inbox' = <<m>> \/ \E r : r.type = "REPLAY" /\ inbox' = <<r, m>>
    PROVE  m \in Messages' /\ LastSent(m)' /\ inbox' # <<>>
  <1>1. CASE inbox' = <<m>>
    BY <1>1, Sole, Queues
  <1>2. ASSUME NEW r, r.type = "REPLAY", inbox' = <<r, m>>
        PROVE  m \in Messages' /\ LastSent(m)' /\ inbox' # <<>>
    BY <1>2, AfterReplay, Queues
  <1>3. QED
    BY <1>1, <1>2

\* And with the CLOSE of a learner that ended behind it.
LEMMA Closed ==
    ASSUME NEW m, inbox' = <<m, Close>> \/ \E r : r.type = "REPLAY" /\ inbox' = <<r, m, Close>>
    PROVE  m \in Messages' /\ LastWords(m)'
  <1>1. CASE inbox' = <<m, Close>>
    <2>1. {<<m, Close>>[i] : i \in DOMAIN <<m, Close>>} = {m, Close}
      BY Queues
    <2>2. QED
      BY <1>1, <2>1 DEF Messages, LastWords
  <1>2. ASSUME NEW r, r.type = "REPLAY", inbox' = <<r, m, Close>>
        PROVE  m \in Messages' /\ LastWords(m)'
    <2>1. {<<r, m, Close>>[i] : i \in DOMAIN <<r, m, Close>>} = {r, m, Close}
      BY Triples
    <2>2. QED
      BY <1>2, <2>1 DEF Messages, LastWords
  <1>3. QED
    BY <1>1, <1>2

(***************************************************************************)
(* An episode that plays on is still an episode, and what it does not      *)
(* change of itself stays.                                                 *)
(***************************************************************************)
LEMMA OwnUpdates ==
    ASSUME NEW x, Own(x), NEW n
    PROVE  /\ Own([x EXCEPT !.decisions = n])
           /\ (\A p \in n : p = [ours |-> "sampled", theirs |-> "sampled"])
                => Own([x EXCEPT !.players = n])
  <1> DEFINE c == x.character
             b == x.build
             f == x.fresh
             failed == x.failed
             d == x.decisions
             p == x.players
  <1>1. x = [character |-> c, build |-> b, seed |-> NoSeed, evaluating |-> FALSE,
             fresh |-> f, failed |-> failed, decisions |-> d, players |-> p]
    BY DEF Own
  <1> HIDE DEF c, b, f, failed, d, p
  <1>2. PICK g : g = [x EXCEPT !.decisions = n]
    OBVIOUS
  <1>3. PICK h : h = [x EXCEPT !.players = n]
    OBVIOUS
  <1>4. /\ g = [character |-> c, build |-> b, seed |-> NoSeed, evaluating |-> FALSE,
                fresh |-> f, failed |-> failed, decisions |-> n, players |-> p]
        /\ h = [character |-> c, build |-> b, seed |-> NoSeed, evaluating |-> FALSE,
                fresh |-> f, failed |-> failed, decisions |-> d, players |-> n]
    BY <1>1, <1>2, <1>3
  <1>5. \A q \in p : q = [ours |-> "sampled", theirs |-> "sampled"]
    BY DEF Own, p
  <1>6. ASSUME NEW y, NEW d1, NEW p1,
               y = [character |-> c, build |-> b, seed |-> NoSeed, evaluating |-> FALSE,
                    fresh |-> f, failed |-> failed, decisions |-> d1, players |-> p1],
               \A q \in p1 : q = [ours |-> "sampled", theirs |-> "sampled"]
        PROVE  Own(y)
    BY <1>6 DEF Own
  <1>7. QED
    BY <1>2, <1>3, <1>4, <1>5, <1>6

(***************************************************************************)
(* A reset in the training mode leaves nothing of an evaluation, whichever *)
(* envs it resets, if there is nothing in those that play on.              *)
(***************************************************************************)
LEMMA TrainingReset ==
    ASSUME NEW D, NEW r, NEW played,
           \A e \in Envs \ D : Own(played[e]),
           ResetEnvs(D, Training, r, played)
    PROVE  Unseeded'
  <1>1. Training.evaluating = FALSE /\ Training.next = 0
    BY DEF Training, Evaluation
  <1>2. \A e \in Envs : SeedFor(Training, D, e) = NoSeed
    BY <1>1 DEF SeedFor
  <1>3. mode' = Training
    BY <1>1 DEF ResetEnvs, SeedsLeft, Training, Evaluation
  <1>4. ASSUME NEW e \in Envs, NEW x \in EpisodesFor(Training, r, D, e)
        PROVE  Own(x)
    <2> DEFINE old == env[e].character
               builds == BuildsFor(Training, r, D, e)
               seed == SeedFor(Training, D, e)
               Kept(b) == {Episode(c, b, seed, Training, FALSE) : c \in CharactersFor(Training, b, old)}
               Failed(b) == {Episode(c, b, seed, Training, TRUE) :
                               c \in {old} \cup CharactersFor(Training, b, old)}
    <2>1. \E c, b, failed : x = Episode(c, b, seed, Training, failed)
      <3>1. CASE env[e].fresh
        <4>1. x \in {Episode(old, b, seed, Training, FALSE) : b \in builds}
          BY <3>1 DEF EpisodesFor
        <4>2. QED
          BY <4>1
      <3>2. CASE ~env[e].fresh
        <4>1. x \in (UNION {Kept(b) : b \in builds})
                      \cup (UNION {Failed(b) : b \in IF BuildsFail THEN builds ELSE {}})
          BY <3>2 DEF EpisodesFor
        <4>2. \E b : x \in Kept(b) \/ x \in Failed(b)
          <5> HIDE DEF Kept, Failed, builds
          <5>1. QED
            BY <4>1
        <4>3. QED
          BY <4>2
      <3>3. QED
        BY <3>1, <3>2
    <2>2. PICK c, b, failed : x = Episode(c, b, NoSeed, Training, failed)
      BY <1>2, <2>1
    <2>3. QED
      BY <1>1, <2>2 DEF Episode, Own
  <1>5. /\ env' = [e \in Envs |-> env'[e]]
        /\ \A e \in Envs : IF e \in D THEN env'[e] \in EpisodesFor(Training, r, D, e)
                                      ELSE env'[e] = played[e]
    BY DEF ResetEnvs
  <1>6. \A e \in Envs : Own(env'[e])
    BY <1>4, <1>5
  <1>7. QED
    BY <1>3, <1>5, <1>6 DEF Unseeded

\* ResetAll with the mode of a new learner, or of the end of an evaluation.
LEMMA EverythingResets ==
    ASSUME NEW r, ResetAll(Training, r)
    PROVE  Unseeded'
  BY TrainingReset DEF ResetAll

\* A decision of a pool that trains leaves it training (Collect).
LEMMA TrainingGoesOn ==
    ASSUME Unseeded, Collect
    PROVE  Unseeded'
  <1>1. PICK D \in SUBSET Envs : ResetEnvs(D, Training, replay, [e \in Envs |-> Played(e)])
    BY DEF Collect, Unseeded
  <1>2. ASSUME NEW e \in Envs
        PROVE  Own(Played(e))
    <2>1. Own(env[e])
      BY DEF Unseeded
    <2>2. QED
      BY <2>1, OwnUpdates DEF Played
  <1>3. QED
    BY <1>1, <1>2, TrainingReset

\* The actions of a rollout are the learner's on both sides (ApplyActions).
LEMMA TrainingActs ==
    ASSUME Unseeded, ApplyActions("sampled")
    PROVE  Unseeded'
  <1> DEFINE sampled == [ours |-> "sampled", theirs |-> "sampled"]
  <1>1. Players(mode, "sampled") = sampled
    BY DEF Players, Unseeded, Training, Evaluation
  <1>2. mode' = Training /\ env' = [e \in Envs |-> [env[e] EXCEPT !.players = @ \cup {sampled}]]
    BY <1>1 DEF ApplyActions, Unseeded
  <1>3. ASSUME NEW e \in Envs
        PROVE  Own([env[e] EXCEPT !.players = @ \cup {sampled}])
    <2>1. Own(env[e])
      BY DEF Unseeded
    <2>2. \A p \in env[e].players \cup {sampled} : p = sampled
      BY <2>1 DEF Own
    <2>3. QED
      BY <2>1, <2>2, OwnUpdates
  <1>4. QED
    BY <1>2, <1>3 DEF Unseeded

-----------------------------------------------------------------------------
(***************************************************************************)
(* The sim reads the next message.                                         *)
(***************************************************************************)
LEMMA Reads ==
    ASSUME Unread, inbox # <<>>
    PROVE  \E m : /\ m.type = "ACT" => m.seen = env
                  /\ \/ inbox = <<m>> /\ Head(inbox) = m /\ Tail(inbox) = <<>>
                     \/ inbox = <<m, Close>> /\ Head(inbox) = m /\ Tail(inbox) = <<Close>>
                     \/ \E r : /\ r.type = "REPLAY" /\ Head(inbox) = r
                               /\ \/ inbox = <<r, m>> /\ Tail(inbox) = <<m>>
                                  \/ inbox = <<r, m, Close>> /\ Tail(inbox) = <<m, Close>>
  <1>1. PICK m \in Messages : (LastSent(m) \/ LastWords(m)) /\ (m.type = "ACT" => m.seen = env)
    BY DEF Unread
  <1>2. CASE inbox = <<m>>
    BY <1>1, <1>2, Queues
  <1>3. CASE inbox = <<m, Close>>
    BY <1>1, <1>3, Queues
  <1>4. CASE \E r \in Messages : r.type = "REPLAY" /\ inbox = <<r, m>>
    BY <1>1, <1>4, Queues
  <1>5. CASE \E r \in Messages : r.type = "REPLAY" /\ inbox = <<r, m, Close>>
    BY <1>1, <1>5, Triples
  <1>6. QED
    BY <1>1, <1>2, <1>3, <1>4, <1>5 DEF LastSent, LastWords

\* What the learner waits for is the last message of the queue.
LEMMA Reply ==
    ASSUME Connection, Live, pc = "receive", inbox # <<>>, Head(inbox).type # "REPLAY"
    PROVE  /\ outbox = <<>> /\ backlog # "alive"
           /\ inbox = <<Head(inbox)>> /\ Tail(inbox) = <<>>
           /\ IsRequest(Head(inbox))
  <1>1. Turn
    BY DEF Connection
  <1>2. ~Answered /\ ~Applied
    BY DEF Answered, Applied
  <1>3. ~Holding
    <2>1. ASSUME NEW r, inbox = <<r>>
          PROVE  Head(inbox) = r
      BY <2>1, Queues
    <2>2. QED
      BY <2>1 DEF Holding
  <1>4. Requested
    BY <1>1, <1>2, <1>3 DEF Turn, Connection
  <1>5. PICK q \in Messages : LastSent(q) /\ IsRequest(q)
    BY <1>4 DEF Requested
  <1>6. inbox = <<q>> /\ Head(inbox) = q /\ Tail(inbox) = <<>>
    <2>1. CASE inbox = <<q>>
      BY <2>1, Queues
    <2>2. ASSUME NEW r, inbox = <<r, q>>, r.type = "REPLAY"
          PROVE  FALSE
      <3>1. Head(inbox) = r
        BY <2>2, Queues
      <3>2. QED
        BY <2>2, <3>1
    <2>3. QED
      BY <1>5, <2>1, <2>2 DEF LastSent
  <1>7. QED
    BY <1>1, <1>4, <1>5, <1>6 DEF Requested, Turn

\* A STEP sent to a learner that lives is the only one on its way (SendStep).
LEMMA Sent ==
    ASSUME SendStep, ~hungUp, outbox = <<>>
    PROVE  /\ outbox' = <<[shows |-> env', ended |-> ended']>>
           /\ pc' = "receive" /\ hungUp' = hungUp
  BY Queues DEF SendStep

\* A learner that is not waiting has its STEP from the sim it is connected to.
LEMMA Connected ==
    ASSUME Connection, learner \in {"ready", "left"}
    PROVE  Live /\ Turn /\ Holding /\ backlog # "alive"
  BY DEF Connection, Live, Turn

-----------------------------------------------------------------------------
(***************************************************************************)
(* Every action of the sim keeps the invariant.                            *)
(***************************************************************************)
LEMMA SimKeeps ==
    ASSUME IInv, Sim
    PROVE  IInv'
  <1> USE DEF IInv
  <1>1. CASE AcceptClient
    <2>1. /\ inbox = <<>> /\ inbox' = <<>> /\ outbox = <<>> /\ ~hungUp
          /\ learner = "awaiting" /\ task = "train" /\ backlog' = "none"
          /\ learner' = learner /\ task' = task
      BY <1>1 DEF AcceptClient, Connection, Live, learnerVars
    <2>2. Answered' /\ pc' = "receive" /\ hungUp' = FALSE
      BY <1>1, <2>1, Sent DEF AcceptClient, Answered, Connection
    <2>3. Unseeded'
      BY <1>1, EverythingResets DEF AcceptClient, SessionMode
    <2>4. QED
      BY <2>1, <2>2, <2>3 DEF Connection, Live, Turn, Unread
  <1>2. CASE AcceptDead
    <2>1. /\ pc = "accept" /\ pc' = pc /\ backlog = "dead" /\ backlog' = "none"
          /\ UNCHANGED <<inbox, hungUp, outbox, learner, task>>
      BY <1>2 DEF AcceptDead, learnerVars
    <2>2. QED
      BY <2>1 DEF Connection, Live, Turn, Unread
  <1>3. CASE Decide
    <2>1. /\ pc = "collect" /\ inbox' = <<>> /\ (~hungUp => inbox = <<>>)
          /\ UNCHANGED <<backlog, learner, task>>
      BY <1>3 DEF Decide, SendStep, DropClient, Connection, learnerVars
    <2>2. CASE hungUp
      <3>1. /\ pc' = "accept" /\ hungUp' = FALSE /\ outbox = <<>> /\ outbox' = <<>>
            /\ learner = "gone" \/ backlog = "alive"
        BY <1>3, <2>2 DEF Decide, SendStep, DropClient, Connection, Live
      <3>2. QED
        BY <2>1, <3>1 DEF Connection, Live, Turn, Unread
    <2>3. CASE ~hungUp
      <3>1. Live /\ learner = "acting" /\ outbox = <<>> /\ backlog # "alive"
        BY <2>1, <2>3 DEF Connection, Live, Turn, Answered, Requested, Applied, Holding
      <3>2. Answered' /\ pc' = "receive" /\ hungUp' = FALSE
        BY <1>3, <2>1, <2>3, <3>1, Sent DEF Decide, Answered, Connection
      <3>3. Trains => Unseeded'
        BY <1>3, <3>1, TrainingGoesOn DEF Decide
      <3>4. QED
        BY <2>1, <3>1, <3>2, <3>3 DEF Connection, Live, Turn, Unread, Trains
    <2>4. QED
      BY <2>2, <2>3
  <1>4. CASE ReceiveAct
    <2>1. /\ pc = "receive" /\ inbox # <<>> /\ Head(inbox).type = "ACT"
          /\ pc' = "collect" /\ inbox' = Tail(inbox)
          /\ UNCHANGED <<backlog, hungUp, outbox, learner, task>>
      BY <1>4 DEF ReceiveAct, Receives, learnerVars
    <2>3. CASE Live
      <3>1. /\ outbox = <<>> /\ backlog # "alive" /\ IsRequest(Head(inbox)) /\ inbox' = <<>>
        BY <2>1, <2>3, Reply
      <3>2. learner = "acting" /\ Head(inbox).sent = SentIn(task)
        BY <2>1, <3>1 DEF IsRequest
      <3>3. task = "train" => Unseeded'
        <4>1. CASE task = "train"
          <5>1. Unseeded /\ Head(inbox).sent = "sampled"
            BY <2>3, <3>2, <4>1 DEF Trains, SentIn
          <5>2. QED
            BY <1>4, <5>1, TrainingActs DEF ReceiveAct
        <4>2. QED
          BY <4>1
      <3>4. QED
        BY <2>1, <2>3, <3>1, <3>2, <3>3
           DEF Connection, Live, Turn, Unread, Applied, Trains, Answered
    <2>4. CASE ~Live
      <3>1. inbox' = <<>> \/ inbox' = <<Close>>
        BY <2>1, Reads DEF Connection
      <3>2. Unread'
        BY <3>1, Sole DEF Unread, Close
      <3>3. QED
        BY <2>1, <2>4, <3>1, <3>2 DEF Connection, Live
    <2>5. QED
      BY <2>3, <2>4
  <1>5. CASE ReceiveMode
    <2>1. /\ pc = "receive" /\ inbox # <<>> /\ Head(inbox).type = "MODE"
          /\ UNCHANGED <<backlog, learner, task>>
      BY <1>5 DEF ReceiveMode, Receives, learnerVars
    <2>2. inbox' = <<>>
      <3>1. CASE hungUp
        BY <1>5, <3>1 DEF ReceiveMode, SendStep, DropClient
      <3>2. CASE ~hungUp
        BY <1>5, <2>1, <3>2, Reply DEF ReceiveMode, Live
      <3>3. QED
        BY <3>1, <3>2
    <2>3. CASE hungUp
      <3>1. /\ pc' = "accept" /\ hungUp' = FALSE /\ outbox = <<>> /\ outbox' = <<>>
            /\ learner = "gone" \/ backlog = "alive"
        BY <1>5, <2>3 DEF ReceiveMode, SendStep, DropClient, Connection, Live
      <3>2. QED
        BY <2>1, <2>2, <3>1 DEF Connection, Live, Turn, Unread
    <2>4. CASE ~hungUp
      <3>1. /\ Live /\ outbox = <<>> /\ backlog # "alive" /\ IsRequest(Head(inbox))
        BY <2>1, <2>4, Reply DEF Live
      <3>2. \/ learner = "entering"
            \/ learner = "leaving" /\ Head(inbox).mode = Training
        BY <2>1, <3>1 DEF IsRequest
      <3>3. Answered' /\ pc' = "receive" /\ hungUp' = FALSE
        BY <1>5, <2>2, <2>4, <3>1, Sent DEF ReceiveMode, Answered, Connection
      <3>4. learner = "leaving" => Unseeded'
        BY <1>5, <3>2, EverythingResets DEF ReceiveMode
      <3>5. QED
        BY <2>1, <2>2, <3>1, <3>2, <3>3, <3>4 DEF Connection, Live, Turn, Unread, Trains
    <2>5. QED
      BY <2>3, <2>4
  <1>6. CASE ReceiveUnknownPolicy
    <2>1. /\ pc = "receive" /\ inbox # <<>> /\ Head(inbox).type = "MODE"
          /\ pc' = "accept" /\ inbox' = <<>> /\ hungUp' = FALSE
          /\ UNCHANGED <<backlog, outbox, learner, task>>
      BY <1>6 DEF ReceiveUnknownPolicy, Receives, DropClient, learnerVars
    <2>2. Live => outbox = <<>> /\ learner \notin {"ready", "left"}
      BY <2>1, Reply DEF IsRequest
    <2>3. QED
      BY <2>1, <2>2 DEF Connection, Live, Unread
  <1>7. CASE ReceiveReplay
    <2>1. /\ pc = "receive" /\ inbox # <<>> /\ Head(inbox).type = "REPLAY"
          /\ inbox' = Tail(inbox)
          /\ UNCHANGED <<env, mode, ended, pc, backlog, hungUp, outbox, learner, task, step>>
      BY <1>7 DEF ReceiveReplay, Receives, learnerVars
    <2>2. Unseeded => Unseeded'
      BY <2>1 DEF Unseeded
    <2>3. Unread'
      <3>1. PICK m : /\ m.type = "ACT" => m.seen = env
                     /\ \/ inbox' = <<>> \/ inbox' = <<Close>>
                        \/ inbox' = <<m>> \/ inbox' = <<m, Close>>
        BY <2>1, Reads DEF Connection
      <3>2. CASE inbox' = <<>>
        BY <3>2 DEF Unread
      <3>3. CASE inbox' = <<Close>>
        BY <3>3, Sole DEF Unread, Close
      <3>4. CASE inbox' = <<m>>
        BY <2>1, <3>1, <3>4, Sole DEF Unread
      <3>5. CASE inbox' = <<m, Close>>
        BY <2>1, <3>1, <3>5, Closed DEF Unread
      <3>6. QED
        BY <3>1, <3>2, <3>3, <3>4, <3>5
    <2>4. CASE Live
      <3>1. Turn /\ ~Answered /\ ~Applied
        BY <2>1, <2>4 DEF Connection, Answered, Applied
      <3>2. Holding => Holding' /\ inbox' = <<>>
        <4>1. \A r : inbox = <<r>> => inbox' = <<>>
          BY <2>1, Queues
        <4>2. QED
          BY <2>1, <4>1 DEF Holding
      <3>3. Requested => Requested' /\ inbox' # <<>>
        <4>1. CASE Requested
          <5>1. PICK m \in Messages : LastSent(m) /\ IsRequest(m)
            BY <4>1 DEF Requested
          <5>2. inbox # <<m>>
            BY <2>1, <5>1, Queues DEF IsRequest
          <5>3. inbox' = <<m>>
            <6>1. PICK r : inbox = <<r, m>>
              BY <5>1, <5>2 DEF LastSent
            <6>2. QED
              BY <2>1, <6>1, Queues
          <5>4. m \in Messages' /\ LastSent(m)' /\ IsRequest(m)'
            BY <2>1, <5>1, <5>3, Sole DEF IsRequest
          <5>5. QED
            BY <2>1, <4>1, <5>3, <5>4, Queues DEF Requested
        <4>2. QED
          BY <4>1
      <3>4. Turn'
        BY <2>1, <3>1, <3>2, <3>3 DEF Turn
      <3>5. Trains' => Trains
        BY <2>1, <3>1, <3>3 DEF Trains, Turn, Answered
      <3>6. QED
        BY <2>1, <2>2, <2>3, <2>4, <3>4, <3>5 DEF Connection, Live
    <2>5. CASE ~Live
      BY <2>1, <2>3, <2>5 DEF Connection, Live
    <2>6. QED
      BY <2>4, <2>5
  <1>8. CASE ReceiveClose
    <2>1. /\ pc = "receive" /\ inbox # <<>> /\ Head(inbox).type = "CLOSE"
          /\ pc' = "accept" /\ inbox' = <<>> /\ hungUp' = FALSE
          /\ UNCHANGED <<backlog, outbox, learner, task>>
      BY <1>8 DEF ReceiveClose, Receives, DropClient, learnerVars
    <2>2. ~Live
      BY <2>1, Reply DEF IsRequest
    <2>3. QED
      BY <2>1, <2>2 DEF Connection, Live, Unread
  <1>9. CASE ReceiveNothing
    <2>1. /\ pc = "receive" /\ inbox = <<>> /\ hungUp
          /\ pc' = "accept" /\ inbox' = <<>> /\ hungUp' = FALSE
          /\ UNCHANGED <<backlog, outbox, learner, task>>
      BY <1>9 DEF ReceiveNothing, DropClient, learnerVars
    <2>2. QED
      BY <2>1 DEF Connection, Live, Unread
  <1>10. QED
    BY <1>1, <1>2, <1>3, <1>4, <1>5, <1>6, <1>7, <1>8, <1>9 DEF Sim

(***************************************************************************)
(* And every action of the learner.  What it sends, it sends with a STEP   *)
(* in hand (Asks); what it reads, answers its latest request (Learns).     *)
(***************************************************************************)
LEMMA Asks ==
    ASSUME Connection, learner \in {"ready", "left"},
           NEW m, Send(m), m.type = "ACT" => m.seen = env,
           inbox = <<>> \/ (learner = "ready" /\ task = "train"),
           UNCHANGED <<pc, backlog, hungUp, outbox, env>>
    PROVE  /\ Unread' /\ m \in Messages' /\ LastSent(m)' /\ inbox' # <<>>
           /\ pc = "receive" /\ outbox = <<>> /\ Live /\ backlog # "alive"
  <1>1. Holding /\ Live /\ backlog # "alive"
    BY Connected
  <1>2. inbox' = <<m>> \/ \E r : r.type = "REPLAY" /\ inbox' = <<r, m>>
    <2>1. CASE inbox = <<>>
      BY <2>1, Queues DEF Send
    <2>2. ASSUME NEW r, inbox = <<r>>, r.type = "REPLAY"
          PROVE  inbox' = <<r, m>>
      <3>1. Append(<<r>>, m) = <<r, m>>
        BY Appends
      <3>2. QED
        BY <2>2, <3>1 DEF Send
    <2>3. QED
      BY <1>1, <2>1, <2>2 DEF Holding
  <1>3. m \in Messages' /\ LastSent(m)' /\ inbox' # <<>>
    BY <1>2, Written
  <1>4. QED
    BY <1>1, <1>3 DEF Holding, Unread

\* Reading a STEP, the learner holds what the envs show.
LEMMA Learns ==
    ASSUME Connection, outbox # <<>>, TakeStep
    PROVE  /\ Live /\ backlog # "alive" /\ Answered
           /\ step' = env /\ outbox' = <<>> /\ pc = "receive" /\ inbox = <<>>
           /\ UNCHANGED <<env, mode, pc, backlog, inbox, hungUp>>
  <1>1. Live /\ Turn
    BY DEF Connection
  <1>2. Answered
    BY <1>1 DEF Turn, Connection, Requested, Applied, Holding
  <1>3. outbox = <<[shows |-> env, ended |-> ended]>>
    BY <1>2 DEF Answered
  <1>4. Head(outbox) = [shows |-> env, ended |-> ended] /\ Tail(outbox) = <<>>
    BY <1>3, Queues
  <1>5. QED
    BY <1>1, <1>2, <1>4 DEF TakeStep, Answered, Turn, poolVars, simVars

\* A learner that dies or ends keeps the invariant, wherever it is.
LEMMA LeavingKeeps ==
    ASSUME IInv, NEW sent, Leaves(sent),
           \/ sent = inbox
           \/ learner \notin {"gone", "awaiting"} /\ sent = Append(inbox, Close)
    PROVE  IInv'
  <1> USE DEF IInv
  <1>1. /\ learner' = "gone" /\ task' = "train" /\ outbox' = <<>>
        /\ UNCHANGED <<env, mode, pc>>
    BY DEF Leaves, poolVars
  <1>2. CASE backlog = "alive"
    <2>1. backlog' = "dead" /\ UNCHANGED <<inbox, hungUp>> /\ ~Live
      BY <1>2 DEF Leaves, Connection, Turn
    <2>2. Unread'
      BY <1>1, <2>1 DEF Connection, Unread, LastSent, LastWords, Messages
    <2>3. QED
      BY <1>1, <2>1, <2>2 DEF Connection, Live
  <1>3. CASE backlog # "alive" /\ pc = "accept"
    <2>1. UNCHANGED <<backlog, inbox>> /\ hungUp' = FALSE /\ inbox = <<>>
      BY <1>3 DEF Leaves, Connection
    <2>2. QED
      BY <1>1, <1>3, <2>1 DEF Connection, Live, Unread
  <1>4. CASE backlog # "alive" /\ pc # "accept"
    <2>1. UNCHANGED backlog /\ hungUp' = TRUE /\ inbox' = sent
      BY <1>4 DEF Leaves
    <2>2. CASE sent = inbox
      <3>1. Unread'
        BY <1>1, <2>1, <2>2 DEF Connection, Unread, LastSent, LastWords, Messages
      <3>2. QED
        BY <1>1, <1>4, <2>1, <2>2, <3>1 DEF Connection, Live
    <2>3. CASE sent = Append(inbox, Close) /\ ~hungUp
      <3>1. Turn /\ (pc = "collect" => inbox = <<>>)
        BY <1>4, <2>3 DEF Connection, Live
      <3>2. \/ inbox = <<>>
            \/ \E m \in Messages : LastSent(m) /\ (m.type = "ACT" => m.seen = env)
        BY <3>1 DEF Connection, Turn, Answered, Requested, Applied, Holding, IsRequest, LastSent
      <3>3. CASE inbox = <<>>
        <4>1. inbox' = <<Close>>
          BY <2>1, <2>3, <3>3, Queues
        <4>2. Unread'
          BY <4>1, Sole DEF Unread, Close
        <4>3. QED
          BY <1>1, <1>4, <2>1, <4>1, <4>2 DEF Connection, Live
      <3>4. ASSUME NEW m \in Messages, LastSent(m), m.type = "ACT" => m.seen = env
            PROVE  IInv'
        <4>1. inbox' = <<m, Close>> \/ \E r : r.type = "REPLAY" /\ inbox' = <<r, m, Close>>
          <5>1. CASE inbox = <<m>>
            BY <2>1, <2>3, <5>1, Appends
          <5>2. ASSUME NEW r, r.type = "REPLAY", inbox = <<r, m>>
                PROVE  inbox' = <<r, m, Close>>
            BY <2>1, <2>3, <5>2, Appends
          <5>3. QED
            BY <3>4, <5>1, <5>2 DEF LastSent
        <4>2. Unread'
          BY <1>1, <3>4, <4>1, Closed DEF Unread
        <4>3. pc # "collect"
          BY <3>1, <3>4, Queues DEF LastSent
        <4>4. QED
          BY <1>1, <1>4, <2>1, <4>2, <4>3 DEF Connection, Live
      <3>5. QED
        BY <3>2, <3>3, <3>4
    <2>4. CASE learner \notin {"gone", "awaiting"} /\ hungUp
      BY <2>4, <1>4 DEF Connection
    <2>5. QED
      BY <2>2, <2>3, <2>4
  <1>5. QED
    BY <1>2, <1>3, <1>4

\* Every action of the learner, and the end of one or the start of another.
LEMMA LearnerKeeps ==
    ASSUME IInv, Learner \/ Connect \/ Die \/ Finish
    PROVE  IInv'
  <1> USE DEF IInv
  <1>1. CASE ReceiveStep
    <2>1. /\ Live /\ backlog # "alive" /\ Answered
          /\ step' = env /\ outbox' = <<>> /\ pc = "receive" /\ inbox = <<>>
          /\ UNCHANGED <<env, mode, pc, backlog, inbox, hungUp>>
      BY <1>1, Learns DEF ReceiveStep
    <2>2. /\ learner' = "ready" /\ task' = task
          /\ \/ learner = "awaiting" \/ learner = "entering"
             \/ learner = "acting" /\ task = "train"
      BY <1>1 DEF ReceiveStep
    <2>3. Trains' => Unseeded'
      BY <2>1, <2>2 DEF Trains, Connection, Unseeded
    <2>4. QED
      BY <2>1, <2>2, <2>3 DEF Connection, Live, Turn, Holding, Unread
  <1>2. CASE ScoreStep
    <2>1. /\ Live /\ backlog # "alive" /\ Answered
          /\ step' = env /\ outbox' = <<>> /\ pc = "receive" /\ inbox = <<>>
          /\ UNCHANGED <<env, mode, pc, backlog, inbox, hungUp>>
      BY <1>2, Learns DEF ScoreStep
    <2>2. learner' = "ready" /\ task' = task /\ task # "train"
      BY <1>2 DEF ScoreStep
    <2>3. QED
      BY <2>1, <2>2 DEF Connection, Live, Turn, Holding, Unread, Trains
  <1>3. CASE ReceiveLeft
    <2>1. /\ Live /\ backlog # "alive" /\ Answered
          /\ step' = env /\ outbox' = <<>> /\ pc = "receive" /\ inbox = <<>>
          /\ UNCHANGED <<env, mode, pc, backlog, inbox, hungUp>>
      BY <1>3, Learns DEF ReceiveLeft
    <2>2. learner = "leaving" /\ learner' = "left"
      BY <1>3 DEF ReceiveLeft
    <2>3. Unseeded'
      BY <2>1, <2>2 DEF Trains, Unseeded
    <2>4. QED
      BY <2>1, <2>2, <2>3 DEF Connection, Live, Turn, Holding, Unread
  <1>4. CASE TrainOn \/ EvaluateOn
    <2>1. /\ learner = "ready" /\ learner' = "acting" /\ task' = task
          /\ Send(Act(SentIn(task), step))
          /\ UNCHANGED <<env, mode, pc, backlog, hungUp, outbox>>
      BY <1>4 DEF TrainOn, EvaluateOn, poolVars
    <2>2. Live /\ Holding /\ Turn
      BY <2>1, Connected
    <2>3. inbox = <<>> \/ task = "train"
      BY <2>2 DEF Holding
    <2>m. PICK m : m = Act(SentIn(task), step)
      OBVIOUS
    <2>4. m.type = "ACT" /\ m.sent = SentIn(task) /\ m.seen = env
      BY <2>2, <2>m DEF Act, Holding
    <2>5. /\ Unread' /\ m \in Messages' /\ LastSent(m)' /\ inbox' # <<>>
          /\ pc = "receive" /\ outbox = <<>>
      BY <2>1, <2>m, <2>3, <2>4, Asks
    <2>6. Requested'
      BY <2>1, <2>4, <2>5 DEF Requested, IsRequest, SentIn
    <2>7. Trains' => Unseeded'
      BY <2>1, <2>2 DEF Trains, Unseeded
    <2>8. QED
      BY <2>1, <2>2, <2>5, <2>6, <2>7 DEF Connection, Live, Turn
  <1>5. ASSUME NEW t, Enter(t), t \in Evaluations,
               \/ learner = "ready" /\ task = "train"
               \/ learner = "left"
        PROVE  IInv'
    <2>1. /\ Send(SetMode(ModeOf(t))) /\ learner' = "entering" /\ task' = t
          /\ UNCHANGED <<env, mode, pc, backlog, hungUp, outbox>>
      BY <1>5 DEF Enter, poolVars
    <2>2. Live /\ Holding /\ Turn
      BY <1>5, Connected
    <2>3. inbox = <<>> \/ (learner = "ready" /\ task = "train")
      BY <2>2 DEF Holding
    <2>m. PICK m : m = SetMode(ModeOf(t))
      OBVIOUS
    <2>4. m.type = "MODE"
      BY <2>m DEF SetMode
    <2>5. /\ Unread' /\ m \in Messages' /\ LastSent(m)' /\ inbox' # <<>>
          /\ pc = "receive" /\ outbox = <<>>
      BY <1>5, <2>1, <2>m, <2>3, <2>4, Asks
    <2>6. Requested'
      BY <2>1, <2>4, <2>5 DEF Requested, IsRequest
    <2>7. QED
      BY <1>5, <2>1, <2>2, <2>5, <2>6 DEF Connection, Live, Turn, Trains, Evaluations
  <1>6. CASE Evaluate
    BY <1>5, <1>6 DEF Evaluate, Evaluations
  <1>7. CASE EvaluateNext
    BY <1>5, <1>7 DEF EvaluateNext
  <1>8. CASE Leave
    <2>1. /\ learner = "ready" /\ task # "train"
          /\ Send(SetMode(Training)) /\ learner' = "leaving"
          /\ UNCHANGED <<env, mode, pc, backlog, hungUp, outbox, task>>
      BY <1>8 DEF Leave, poolVars
    <2>2. Live /\ Holding /\ Turn /\ inbox = <<>>
      BY <2>1, Connected DEF Holding
    <2>m. PICK m : m = SetMode(Training)
      OBVIOUS
    <2>3. m.type = "MODE" /\ m.mode = Training
      BY <2>m DEF SetMode
    <2>4. /\ Unread' /\ m \in Messages' /\ LastSent(m)' /\ inbox' # <<>>
          /\ pc = "receive" /\ outbox = <<>>
      BY <2>1, <2>m, <2>2, <2>3, Asks
    <2>5. Requested'
      BY <2>1, <2>3, <2>4 DEF Requested, IsRequest
    <2>6. QED
      BY <2>1, <2>2, <2>4, <2>5 DEF Connection, Live, Turn, Trains, Answered
  <1>9. CASE SendReplay
    <2>1. /\ learner = "left" /\ learner' = "ready" /\ task' = "train"
          /\ UNCHANGED <<env, mode, pc, backlog, hungUp, outbox, step>>
      BY <1>9 DEF SendReplay, poolVars
    <2>2. Live /\ Holding /\ Turn /\ inbox = <<>>
      BY <2>1, Connected DEF Holding
    <2>3. Unseeded'
      BY <2>1, <2>2 DEF Trains, Unseeded
    <2>m. PICK m : m = SetReplay(Replay(SeedBase, lost, session))
      OBVIOUS
    <2>4. m.type = "REPLAY"
      BY <2>m DEF SetReplay
    <2>5. inbox' = <<>> \/ inbox' = <<m>>
      BY <1>9, <2>2, <2>m, Queues DEF SendReplay, Send
    <2>6. Holding' /\ Unread'
      <3>1. CASE inbox' = <<>>
        BY <2>1, <2>2, <3>1 DEF Holding, Unread
      <3>2. CASE inbox' = <<m>>
        <4>1. m \in Messages' /\ LastSent(m)'
          BY <3>2, Sole
        <4>2. QED
          BY <2>1, <2>2, <2>4, <3>2, <4>1 DEF Holding, Unread
      <3>3. QED
        BY <2>5, <3>1, <3>2
    <2>7. QED
      BY <2>1, <2>2, <2>3, <2>6 DEF Connection, Live, Turn, Holding
  <1>10. CASE LoseSim \/ Die
    BY <1>10, LeavingKeeps DEF LoseSim, Die
  <1>11. CASE Finish
    BY <1>11, LeavingKeeps DEF Finish
  <1>12. CASE Connect
    <2>1. /\ learner = "gone" /\ learner' = "awaiting" /\ task' = "train" /\ backlog' = "alive"
          /\ UNCHANGED <<env, mode, ended, pc, inbox, hungUp, outbox>>
      BY <1>12 DEF Connect, poolVars
    <2>2. ~Live
      BY <2>1 DEF Connection, Turn
    <2>3. Unread'
      BY <2>1 DEF Connection, Unread, LastSent, LastWords, Messages
    <2>4. QED
      BY <2>1, <2>2, <2>3 DEF Connection, Live
  <1>13. QED
    BY <1>1, <1>2, <1>3, <1>4, <1>6, <1>7, <1>8, <1>9, <1>10, <1>11, <1>12 DEF Learner

-----------------------------------------------------------------------------
\* A state the decision loop and the learners can reach: the connection is in
\* a state of Connection, and a pool whose learner trains is Unseeded.
THEOREM ConnectionInvariant == Spec => []IInv
  <1>1. Init => IInv
    BY DEF Init, IInv, Connection, Live, Unread
  <1>2. IInv /\ [Next]_vars => IInv'
    <2> SUFFICES ASSUME IInv, [Next]_vars
                 PROVE  IInv'
      OBVIOUS
    <2>1. CASE Next
      BY <2>1, SimKeeps, LearnerKeeps DEF Next
    <2>2. CASE UNCHANGED vars
      <3>1. /\ UNCHANGED <<env, mode, ended, pc, backlog, inbox, hungUp, outbox>>
            /\ UNCHANGED <<learner, task, step>>
        BY <2>2 DEF vars, poolVars, simVars, learnerVars
      <3>2. Connection'
        BY <3>1 DEF IInv, Connection, Live, Unread, Messages, LastSent, LastWords, Turn, Answered, Requested,
                    Applied, Holding, IsRequest
      <3>3. Live' = Live /\ Trains' = Trains /\ Unseeded' = Unseeded
        BY <3>1 DEF Live, Trains, Answered, Unseeded
      <3>4. QED
        BY <3>2, <3>3 DEF IInv
    <2>3. QED
      BY <2>1, <2>2
  <1>3. QED
    BY <1>1, <1>2, PTL DEF Spec

\* The actions the sim applies (ReceiveAny, ApplyActions) were chosen for what
\* the envs show now, for any number of envs and over every mode switch, every
\* death of a learner and every reconnect.
THEOREM ActionsAnswer == Spec => []ActAnswersTheStep
  <1>1. IInv => ActAnswersTheStep
    BY Reads DEF IInv, Connection, ActAnswersTheStep, Receives
  <1>2. QED
    BY <1>1, ConnectionInvariant, PTL

\* A learner that trains holds a STEP of unseeded training episodes which
\* nobody but itself has played, whatever the learner before it was doing:
\* AcceptClient's fresh start and run_evaluation's last set_mode see to it.
THEOREM TrainingIsClean == Spec => []TrainsOnItsOwn
  <1>1. IInv => TrainsOnItsOwn
    <2> SUFFICES ASSUME IInv, learner = "ready", task = "train"
                 PROVE  /\ mode = Training
                        /\ \A e \in Envs :
                             /\ ~env[e].evaluating /\ env[e].seed = NoSeed
                             /\ \A p \in env[e].players : p = [ours |-> "sampled", theirs |-> "sampled"]
      BY DEF TrainsOnItsOwn
    <2>1. Unseeded
      BY Connected DEF IInv, Trains
    <2>2. ASSUME NEW e \in Envs
          PROVE  /\ ~env[e].evaluating /\ env[e].seed = NoSeed
                 /\ \A p \in env[e].players : p = [ours |-> "sampled", theirs |-> "sampled"]
      <3>1. PICK x : x = env[e] /\ Own(x)
        BY <2>1 DEF Unseeded
      <3>2. ~x.evaluating /\ x.seed = NoSeed
        BY <3>1 DEF Own
      <3>3. QED
        BY <3>1, <3>2 DEF Own
    <2>3. QED
      BY <2>1, <2>2 DEF Unseeded
  <1>2. QED
    BY <1>1, ConnectionInvariant, PTL

-----------------------------------------------------------------------------
(* The seeds of an evaluation.                                              *)

Seeds == 0 .. Episodes - 1

\* An episode that has a seed is an evaluation's and is built from that seed,
\* unless the build failed and the characters of the episode before stayed.
Seeded(x) ==
    x.seed # NoSeed =>
        /\ x.seed \in Seeds /\ x.evaluating /\ x.build = <<SeedBase, x.seed>>
        /\ ~x.failed => x.character.from = x.build /\ x.character.casting = CastingOf(x.seed)

Sound(x) ==
    /\ x \in EpisodeRecords
    /\ Seeded(x)
    /\ x.build # Drawn => x.build[1] = SeedBase
    /\ x.failed => BuildsFail

\* A mode and replay seeds as run_evaluation and send_replay set them.
SoundMode(m) ==
    /\ m \in Modes
    /\ m.evaluating => m.base = SeedBase /\ m.episodes = Episodes /\ m.next <= Episodes

SoundReplay(r) ==
    /\ r \in [base : Nat, seeds : SUBSET Nat, by : Nat]
    /\ r.seeds # {} => r.base = SeedBase

\* A message as a learner sends it.
Wellformed(m) ==
    /\ m.type = "ACT" => m.sent \in STRING
    /\ m.type = "MODE" => SoundMode(m.mode) /\ m.mode.next = 0
    /\ m.type = "REPLAY" => SoundReplay(m.replay)

PoolInv ==
    /\ env = [e \in Envs |-> env[e]]
    /\ \A e \in Envs : /\ Sound(env[e]) /\ env[e].decisions < EpisodeDecisions
                       /\ env[e].fresh => pc = "accept"
    /\ SoundMode(mode)
    /\ SoundReplay(replay)
    /\ DOMAIN ended \subseteq Envs
    /\ \A e \in DOMAIN ended : /\ ended[e] = [seed |-> ended[e].info.seed, info |-> ended[e].info]
                             /\ Sound(ended[e].info)

\* What a living learner has asked for is its own, and only one that enters an
\* evaluation with a policy the sim does not know is dropped alive.
MessageInv ==
    /\ \A m \in Messages : Wellformed(m)
    /\ Live => /\ replay.seeds # {} => replay.by = session
               /\ \A m \in Messages : /\ m.type = "REPLAY" => m.replay.by = session
                                      /\ m.type = "MODE" /\ learner = "entering" => m.mode = ModeOf(task)
    /\ ~Live => learner \in {"gone", "awaiting", "entering"}

\* Outside the loop of run_evaluation the learner has counted nothing.
LearnerInv ==
    /\ backlog \in {"none", "alive", "dead"}
    /\ session \in {0, 1} /\ opponents \in Opponents
    /\ task \in {"train"} \cup Evaluations
    /\ decisions \in 0 .. MaxDecisions
    /\ learner = "acting" /\ task # "train" => decisions < MaxDecisions
    /\ counted \in [Envs -> 0 .. EpisodeDecisions - 1]
    /\ DOMAIN finished \subseteq Seeds
    /\ lost \subseteq Seeds
    /\ cached \in BOOLEAN
    /\ (task = "train" \/ learner \notin {"ready", "acting"}) => finished = <<>> /\ counted = Zero /\ decisions = 0

\* The loop of run_evaluation, from the answer to its set_mode.
Playing == /\ Live /\ task # "train"
           /\ \/ learner \in {"ready", "acting"}
              \/ learner = "entering" /\ Answered

\* The learner's count and the STEP it holds show the episodes the envs play,
InStep == \A e \in Envs : counted[e] = env[e].decisions /\ step[e].character = env[e].character

\* or are a decision behind them while a STEP is on its way.
Behind ==
    /\ \A e \in DOMAIN ended : /\ env[e].decisions = 0
                               /\ ended[e].info.decisions = counted[e] + 1
                               /\ ended[e].info.character = step[e].character
    /\ \A e \in Envs \ DOMAIN ended : env[e].decisions = counted[e] + 1

Entered == ended = <<>> /\ \A e \in Envs : env[e].decisions = 0

\* Seed index i is scored by a whole episode of seed i.
Scored(i) == /\ Sound(finished[i].info)
             /\ finished[i].info.seed = i
             /\ finished[i].casting = finished[i].info.character.casting
             /\ finished[i].counted = finished[i].info.decisions

ScoreInv ==
    /\ \A i \in DOMAIN finished : Scored(i)
    /\ Playing => /\ mode.evaluating
                  /\ outbox = <<>> => InStep
                  /\ outbox # <<>> => IF learner = "entering" THEN Entered ELSE Behind

DataInv == PoolInv /\ MessageInv /\ LearnerInv /\ ScoreInv

\* Where the seeds handed out so far are: no two envs play the same one, none is
\* played or on its way that has been scored, and each of them is somewhere.
SeedInv ==
    Playing =>
        /\ \A e \in Envs : \/ env[e].seed = NoSeed
                           \/ env[e].seed \in 0 .. mode.next - 1 /\ env[e].seed \notin DOMAIN finished
        /\ \A e, f \in Envs : env[e].seed = env[f].seed /\ env[e].seed # NoSeed => e = f
        /\ DOMAIN finished \subseteq 0 .. mode.next - 1
        /\ outbox # <<>> =>
             /\ \A e \in DOMAIN ended :
                    \/ ended[e].seed = NoSeed
                    \/ /\ ended[e].seed \in 0 .. mode.next - 1 /\ ended[e].seed \notin DOMAIN finished
                       /\ \A f \in Envs : ended[e].seed # env[f].seed
             /\ \A e, f \in DOMAIN ended : ended[e].seed = ended[f].seed /\ ended[e].seed # NoSeed => e = f
        /\ \A i \in 0 .. mode.next - 1 :
               \/ i \in DOMAIN finished
               \/ \E e \in Envs : env[e].seed = i
               \/ outbox # <<>> /\ \E e \in DOMAIN ended : ended[e].seed = i

-----------------------------------------------------------------------------
(***************************************************************************)
(* The envs that reset together take consecutive seeds, in env order.      *)
(***************************************************************************)
LEMMA InOrder ==
    ASSUME NEW D \in SUBSET Envs
    PROVE  /\ Cardinality(D) \in Nat
           /\ \A e \in D : Before(D, e) \in 0 .. Cardinality(D) - 1
           /\ \A e, f \in D : Before(D, e) = Before(D, f) => e = f
           /\ \A k \in 0 .. Cardinality(D) - 1 : \E e \in D : Before(D, e) = k
  <1> DEFINE n == Cardinality(D)
             Under(e) == {d \in D : d < e}
             place == [e \in D |-> Before(D, e)]
  <1>1. IsFiniteSet(D) /\ D \in SUBSET Nat
    <2>1. NumEnvs \in Nat
      BY PoolAssumption
    <2>2. IsFiniteSet(Envs) /\ Envs \subseteq Nat
      BY <2>1, FS_Interval DEF Envs
    <2>3. QED
      BY <2>2, FS_Subset
  <1>2. n \in Nat
    BY <1>1, FS_CardinalityType
  <1>3. ASSUME NEW S \in SUBSET D, NEW T \in SUBSET S, T # S
        PROVE  IsFiniteSet(S) /\ Cardinality(T) \in Nat /\ Cardinality(S) \in Nat /\ Cardinality(T) < Cardinality(S)
    <2>1. IsFiniteSet(S) /\ IsFiniteSet(T)
      BY <1>1, FS_Subset
    <2>2. Cardinality(T) \in Nat /\ Cardinality(S) \in Nat
      BY <2>1, FS_CardinalityType
    <2>3. Cardinality(T) <= Cardinality(S) /\ Cardinality(S) # Cardinality(T)
      BY <1>3, <2>1, FS_Subset
    <2>4. QED
      BY <2>1, <2>2, <2>3
  <1>4. ASSUME NEW e \in D
        PROVE  Before(D, e) \in 0 .. n - 1
    <2>1. Under(e) \in SUBSET D /\ Under(e) # D
      BY <1>1
    <2>2. Cardinality(Under(e)) \in Nat /\ Cardinality(Under(e)) < n
      BY <1>3, <2>1
    <2>3. QED
      BY <1>2, <2>2 DEF Before
  <1>5. ASSUME NEW e \in D, NEW f \in D, e < f
        PROVE  Before(D, e) # Before(D, f)
    <2>1. \A d \in D : d < e => d < f
      BY <1>1, <1>5
    <2>0. e \in Under(f) /\ e \notin Under(e)
      BY <1>1, <1>5
    <2>3. Under(e) \in SUBSET Under(f) /\ Under(f) \in SUBSET D /\ Under(e) # Under(f)
      BY <2>0, <2>1
    <2>2. Cardinality(Under(e)) \in Nat /\ Cardinality(Under(f)) \in Nat /\ Cardinality(Under(e)) < Cardinality(Under(f))
      BY <1>3, <2>3
    <2>4. QED
      BY <2>2 DEF Before
  <1>6. \A e, f \in D : Before(D, e) = Before(D, f) => e = f
    BY <1>1, <1>5
  <1>7. place \in Injection(D, 0 .. n - 1)
    BY <1>4, <1>6 DEF Injection, IsInjective
  <1>8. IsFiniteSet(0 .. n - 1) /\ Cardinality(0 .. n - 1) = n
    BY <1>2, FS_Interval
  <1>9. place \in Surjection(D, 0 .. n - 1)
    BY <1>7, <1>8, FS_Injection
  <1>10. \A k \in 0 .. n - 1 : \E e \in D : Before(D, e) = k
    BY <1>9 DEF Surjection
  <1>11. QED
    BY <1>2, <1>4, <1>6, <1>10

\* No seed is skipped, and none is handed out twice, until all are out.
LEMMA HandsOut ==
    ASSUME NEW m, SoundMode(m), m.evaluating, NEW D \in SUBSET Envs
    PROVE  /\ SeedsLeft(m, D) \in m.next .. Episodes
           /\ \A e \in D : \/ SeedFor(m, D, e) = NoSeed
                           \/ SeedFor(m, D, e) \in m.next .. SeedsLeft(m, D) - 1
           /\ \A e, f \in D : SeedFor(m, D, e) = SeedFor(m, D, f) /\ SeedFor(m, D, e) # NoSeed => e = f
           /\ \A k \in m.next .. SeedsLeft(m, D) - 1 : \E e \in D : SeedFor(m, D, e) = k
  <1> DEFINE next == m.next
             n == Cardinality(D)
  <1>1. /\ next \in Nat /\ Episodes \in Nat /\ next <= Episodes /\ m.episodes = Episodes /\ NoSeed \notin Nat
        /\ m.evaluating = TRUE
    BY PoolAssumption, EvaluationAssumption DEF SoundMode, Modes
  <1>2. /\ n \in Nat
        /\ \A e \in D : Before(D, e) \in 0 .. n - 1
        /\ \A e, f \in D : Before(D, e) = Before(D, f) => e = f
        /\ \A k \in 0 .. n - 1 : \E e \in D : Before(D, e) = k
    BY InOrder
  <1>3. \A e \in D : SeedFor(m, D, e) = IF next + Before(D, e) < Episodes THEN next + Before(D, e) ELSE NoSeed
    BY <1>1 DEF SeedFor
  <1>4. SeedsLeft(m, D) = IF next >= Episodes THEN next
                          ELSE IF next + n < Episodes THEN next + n ELSE Episodes
    BY <1>1 DEF SeedsLeft
  <1> HIDE DEF next, n
  <1>5. SeedsLeft(m, D) \in next .. Episodes
    BY <1>1, <1>2, <1>4
  <1>6. \A e \in D : SeedFor(m, D, e) = NoSeed \/ SeedFor(m, D, e) \in next .. SeedsLeft(m, D) - 1
    BY <1>1, <1>2, <1>3, <1>4
  <1>7. \A e, f \in D : SeedFor(m, D, e) = SeedFor(m, D, f) /\ SeedFor(m, D, e) # NoSeed => e = f
    BY <1>1, <1>2, <1>3
  <1>8. ASSUME NEW k \in next .. SeedsLeft(m, D) - 1
        PROVE  \E e \in D : SeedFor(m, D, e) = k
    <2>1. k - next \in 0 .. n - 1 /\ k < Episodes /\ k \in Nat
      BY <1>1, <1>2, <1>4, <1>5
    <2>2. PICK e \in D : Before(D, e) = k - next
      BY <1>2, <2>1
    <2>3. QED
      BY <1>1, <1>3, <2>1, <2>2
  <1>9. QED
    BY <1>5, <1>6, <1>7, <1>8 DEF next

(***************************************************************************)
(* Whatever a reset begins is an episode as it should be.                  *)
(***************************************************************************)
Begun(m, D, e, x) ==
    /\ Sound(x)
    /\ x.seed = SeedFor(m, D, e) /\ x.evaluating = m.evaluating
    /\ x.decisions = 0 /\ x.players = {} /\ x.fresh = FALSE

LEMMA Begins ==
    ASSUME NEW m, SoundMode(m), NEW r, SoundReplay(r), NEW D \in SUBSET Envs, NEW e \in D,
           Sound(env[e]), env[e].fresh => ~m.evaluating,
           NEW x \in EpisodesFor(m, r, D, e)
    PROVE  Begun(m, D, e, x)
  <1> DEFINE old == env[e].character
             builds == BuildsFor(m, r, D, e)
             seed == SeedFor(m, D, e)
             Kept(b) == {Episode(c, b, seed, m, FALSE) : c \in CharactersFor(m, b, old)}
             Failed(b) == {Episode(c, b, seed, m, TRUE) : c \in {old} \cup CharactersFor(m, b, old)}
  <1>1. \E b \in builds, failed \in BOOLEAN : \E c :
          /\ x = Episode(c, b, seed, m, failed)
          /\ failed => BuildsFail
          /\ \/ c = old /\ (failed \/ env[e].fresh)
             \/ c \in CharactersFor(m, b, old)
    <2>1. CASE env[e].fresh
      <3>1. x \in {Episode(old, b, seed, m, FALSE) : b \in builds}
        BY <2>1 DEF EpisodesFor
      <3>2. QED
        BY <2>1, <3>1
    <2>2. CASE ~env[e].fresh
      <3>1. x \in (UNION {Kept(b) : b \in builds})
                    \cup (UNION {Failed(b) : b \in IF BuildsFail THEN builds ELSE {}})
        BY <2>2 DEF EpisodesFor
      <3>2. \E b \in builds : x \in Kept(b) \/ (BuildsFail /\ x \in Failed(b))
        <4> HIDE DEF Kept, Failed, builds
        <4>1. QED
          BY <3>1
      <3>3. QED
        BY <3>2
    <2>3. QED
      BY <2>1, <2>2
  <1>b. PICK b \in builds, failed \in BOOLEAN : \E c :
          /\ x = Episode(c, b, seed, m, failed)
          /\ failed => BuildsFail
          /\ \/ c = old /\ (failed \/ env[e].fresh)
             \/ c \in CharactersFor(m, b, old)
    BY <1>1
  <1>c. PICK c : /\ x = Episode(c, b, seed, m, failed)
                 /\ failed => BuildsFail
                 /\ \/ c = old /\ (failed \/ env[e].fresh)
                    \/ c \in CharactersFor(m, b, old)
    BY <1>b
  <1>2. seed = NoSeed \/ (seed \in Seeds /\ m.evaluating)
    <2>1. CASE m.evaluating
      <3>1. /\ SeedsLeft(m, D) \in m.next .. Episodes
            /\ seed = NoSeed \/ seed \in m.next .. SeedsLeft(m, D) - 1
        BY <2>1, HandsOut
      <3>2. m.next \in Nat /\ Episodes \in Nat
        BY EvaluationAssumption DEF SoundMode, Modes
      <3>3. QED
        BY <2>1, <3>1, <3>2 DEF Seeds
    <2>2. CASE ~m.evaluating
      BY <2>2 DEF SeedFor
    <2>3. QED
      BY <2>1, <2>2
  <1>3. /\ b \in Builds
        /\ b = Drawn \/ \E i \in Nat : b = <<SeedBase, i>>
        /\ seed # NoSeed => b = <<SeedBase, seed>>
    <2>1. SeedBase \in Nat /\ Seeds \subseteq Nat
      BY EvaluationAssumption DEF Seeds
    <2>2. CASE seed # NoSeed
      <3>1. m.base = SeedBase /\ seed \in Nat
        BY <1>2, <2>1, <2>2 DEF SoundMode
      <3>2. b = <<SeedBase, seed>>
        BY <2>2, <3>1 DEF BuildsFor
      <3>3. QED
        BY <2>1, <3>1, <3>2 DEF Builds
    <2>3. CASE seed = NoSeed
      <3>1. b = Drawn \/ \E i \in r.seeds : b = <<r.base, i>>
        BY <2>3 DEF BuildsFor
      <3>2. \A i \in r.seeds : i \in Nat /\ r.base = SeedBase
        BY DEF SoundReplay
      <3>3. QED
        BY <2>1, <2>3, <3>1, <3>2 DEF Builds
    <2>4. QED
      BY <2>2, <2>3
  <1>4. old \in Characters
    BY DEF Sound, EpisodeRecords
  <1>5. c \in CharactersFor(m, b, old) =>
          /\ c \in Characters
          /\ seed # NoSeed => c.from = b /\ c.casting = CastingOf(seed)
    <2> SUFFICES ASSUME c \in CharactersFor(m, b, old)
                 PROVE  /\ c \in Characters
                        /\ seed # NoSeed => c.from = b /\ c.casting = CastingOf(seed)
      OBVIOUS
    <2>1. \/ \E cast \in CastingsFor(b) : c = [casting |-> cast, from |-> b, episodes |-> 0]
          \/ ~m.evaluating /\ old.episodes < ReuseEpisodes /\ c = [old EXCEPT !.episodes = @ + 1]
      BY DEF CharactersFor, MayReuse
    <2>2. CastingsFor(b) \subseteq Castings /\ (seed # NoSeed => CastingsFor(b) = {CastingOf(seed)})
      <3>1. ASSUME NEW i \in Nat
            PROVE  CastingOf(i) \in Castings
        BY PoolAssumption DEF CastingOf, Castings
      <3>2. \A i : <<SeedBase, i>> # Drawn /\ <<SeedBase, i>>[2] = i
        BY DEF Drawn
      <3>3. QED
        BY <1>3, <3>1, <3>2 DEF CastingsFor
    <2>3. CASE ~m.evaluating /\ old.episodes < ReuseEpisodes /\ c = [old EXCEPT !.episodes = @ + 1]
      <3>1. old.episodes + 1 \in 0 .. ReuseEpisodes
        BY <1>4, <2>3, PoolAssumption DEF Characters
      <3>2. c \in Characters
        BY <1>4, <2>3, <3>1 DEF Characters
      <3>3. QED
        BY <1>2, <2>3, <3>2
    <2>4. ASSUME NEW cast \in CastingsFor(b), c = [casting |-> cast, from |-> b, episodes |-> 0]
          PROVE  /\ c \in Characters
                 /\ seed # NoSeed => c.from = b /\ c.casting = CastingOf(seed)
      <3>1. 0 \in 0 .. ReuseEpisodes
        BY PoolAssumption
      <3>2. QED
        BY <1>3, <2>2, <2>4, <3>1 DEF Characters
    <2>5. QED
      BY <2>1, <2>3, <2>4
  <1>6. c \in Characters /\ (seed # NoSeed /\ ~failed => c.from = b /\ c.casting = CastingOf(seed))
    BY <1>c, <1>2, <1>4, <1>5
  <1>7. m.evaluating \in BOOLEAN /\ 0 \in 0 .. EpisodeDecisions /\ seed \in Nat \cup {NoSeed}
    BY <1>2, PoolAssumption, EvaluationAssumption DEF SoundMode, Modes, Seeds
  <1> HIDE DEF seed, builds, old
  <1>8. x = [character |-> c, build |-> b, seed |-> seed, evaluating |-> m.evaluating, fresh |-> FALSE,
             failed |-> failed, decisions |-> 0, players |-> {}]
    BY <1>c DEF Episode
  <1>9. x \in EpisodeRecords
    BY <1>3, <1>6, <1>7, <1>8 DEF EpisodeRecords
  <1>10. Seeded(x)
    BY <1>2, <1>3, <1>6, <1>8 DEF Seeded
  <1>11. x.build # Drawn => x.build[1] = SeedBase
    BY <1>3, <1>8
  <1>12. QED
    BY <1>c, <1>8, <1>9, <1>10, <1>11 DEF Sound, seed, Begun

\* An episode that plays on stays one: the clock and the players are all it changes.
LEMMA PlaysOn ==
    ASSUME NEW x, Sound(x)
    PROVE  /\ \A n \in 0 .. EpisodeDecisions :
                LET y == [x EXCEPT !.decisions = n]
                IN  /\ Sound(y) /\ y.decisions = n /\ y.seed = x.seed /\ y.fresh = x.fresh
                    /\ y.character = x.character /\ y.evaluating = x.evaluating /\ y.players = x.players
           /\ \A S \in SUBSET [ours : STRING, theirs : STRING] :
                LET y == [x EXCEPT !.players = S]
                IN  /\ Sound(y) /\ y.players = S /\ y.seed = x.seed /\ y.fresh = x.fresh
                    /\ y.character = x.character /\ y.evaluating = x.evaluating /\ y.decisions = x.decisions
  <1>1. x \in EpisodeRecords
    BY DEF Sound
  <1>2. ASSUME NEW n \in 0 .. EpisodeDecisions, NEW y, y = [x EXCEPT !.decisions = n]
        PROVE  /\ Sound(y) /\ y.decisions = n /\ y.seed = x.seed /\ y.fresh = x.fresh
               /\ y.character = x.character /\ y.evaluating = x.evaluating /\ y.players = x.players
    <2>1. y \in EpisodeRecords
      BY <1>1, <1>2 DEF EpisodeRecords
    <2>2. /\ y.decisions = n /\ y.seed = x.seed /\ y.fresh = x.fresh /\ y.players = x.players
          /\ y.character = x.character /\ y.evaluating = x.evaluating
          /\ y.build = x.build /\ y.failed = x.failed
      BY <1>1, <1>2 DEF EpisodeRecords
    <2>3. QED
      BY <2>1, <2>2 DEF Sound, Seeded
  <1>3. ASSUME NEW S \in SUBSET [ours : STRING, theirs : STRING], NEW y, y = [x EXCEPT !.players = S]
        PROVE  /\ Sound(y) /\ y.players = S /\ y.seed = x.seed /\ y.fresh = x.fresh
               /\ y.character = x.character /\ y.evaluating = x.evaluating /\ y.decisions = x.decisions
    <2>1. y \in EpisodeRecords
      BY <1>1, <1>3 DEF EpisodeRecords
    <2>2. /\ y.decisions = x.decisions /\ y.seed = x.seed /\ y.fresh = x.fresh /\ y.players = S
          /\ y.character = x.character /\ y.evaluating = x.evaluating
          /\ y.build = x.build /\ y.failed = x.failed
      BY <1>1, <1>3 DEF EpisodeRecords
    <2>3. QED
      BY <2>1, <2>2 DEF Sound, Seeded
  <1>4. QED
    BY <1>2, <1>3

\* ResetEnvs, from a sound pool into a sound one.
LEMMA Resets ==
    ASSUME NEW m, SoundMode(m), NEW r, SoundReplay(r), NEW D \in SUBSET Envs, NEW played,
           \A e \in D : Sound(env[e]) /\ (env[e].fresh => ~m.evaluating),
           ResetEnvs(D, m, r, played)
    PROVE  /\ env' = [e \in Envs |-> env'[e]]
           /\ \A e \in D : Begun(m, D, e, env'[e])
           /\ \A e \in Envs \ D : env'[e] = played[e]
           /\ SoundMode(mode') /\ mode'.evaluating = m.evaluating /\ mode'.next = SeedsLeft(m, D)
           /\ mode'.baseline = m.baseline /\ mode'.opponentsOnly = m.opponentsOnly
           /\ replay' = r
  <1>1. /\ env' = [e \in Envs |-> env'[e]]
        /\ \A e \in Envs : IF e \in D THEN env'[e] \in EpisodesFor(m, r, D, e)
                                      ELSE env'[e] = played[e]
        /\ mode' = [m EXCEPT !.next = SeedsLeft(m, D)]
        /\ replay' = r
    BY DEF ResetEnvs
  <1>2. ASSUME NEW e \in D
        PROVE  Begun(m, D, e, env'[e])
    <2>1. PICK x \in EpisodesFor(m, r, D, e) : x = env'[e]
      BY <1>1
    <2>e. /\ Sound(env[e]) /\ (env[e].fresh => ~m.evaluating)
          /\ e \in D /\ x \in EpisodesFor(m, r, D, e)
      OBVIOUS
    <2>2. Begun(m, D, e, x)
      BY ONLY <2>e, SoundMode(m), SoundReplay(r), D \in SUBSET Envs, Begins, Zenon
    <2>3. QED
      BY <2>1, <2>2
  <1>3. SeedsLeft(m, D) \in Nat /\ (m.evaluating => SeedsLeft(m, D) <= Episodes)
    <2>1. CASE m.evaluating
      <3>1. SeedsLeft(m, D) \in m.next .. Episodes /\ m.next \in Nat /\ Episodes \in Nat
        BY <2>1, HandsOut, EvaluationAssumption DEF SoundMode, Modes
      <3>2. QED
        BY <3>1
    <2>2. CASE ~m.evaluating
      BY <2>2 DEF SeedsLeft, SoundMode, Modes
    <2>3. QED
      BY <2>1, <2>2
  <1>4. /\ SoundMode(mode') /\ mode'.evaluating = m.evaluating /\ mode'.next = SeedsLeft(m, D)
        /\ mode'.baseline = m.baseline /\ mode'.opponentsOnly = m.opponentsOnly
    BY <1>1, <1>3 DEF SoundMode, Modes
  <1>5. QED
    BY <1>1, <1>2, <1>4

-----------------------------------------------------------------------------
(***************************************************************************)
(* The pool is sound after every action of the sim.                        *)
(***************************************************************************)
\* SetEvaluation or a fresh start, and ResetAll.
LEMMA PoolResets ==
    ASSUME PoolInv, NEW m, SoundMode(m), NEW r, SoundReplay(r), ResetAll(m, r),
           pc = "accept" => ~m.evaluating
    PROVE  PoolInv'
  <1>1. ResetEnvs(Envs, m, r, env) /\ ended' = <<>>
    BY DEF ResetAll
  <1>D. PICK D \in SUBSET Envs : D = Envs
    OBVIOUS
  <1>2. ResetEnvs(D, m, r, env) /\ \A e \in D : Sound(env[e]) /\ (env[e].fresh => ~m.evaluating)
    BY <1>1, <1>D DEF PoolInv
  <1>B. /\ env' = [e \in Envs |-> env'[e]] /\ \A e \in D : Begun(m, D, e, env'[e])
        /\ SoundMode(mode') /\ replay' = r
    BY ONLY <1>2, SoundMode(m), SoundReplay(r), Resets
  <1>3. /\ env' = [e \in Envs |-> env'[e]]
        /\ \A e \in D : Sound(env'[e]) /\ env'[e].decisions = 0 /\ env'[e].fresh = FALSE
        /\ SoundMode(mode') /\ replay' = r
    BY <1>B DEF Begun
  <1>4. 0 < EpisodeDecisions
    BY PoolAssumption
  <1>5. DOMAIN ended' = {}
    BY <1>1
  <1>6. QED
    BY <1>D, <1>3, <1>4, <1>5 DEF PoolInv

\* What Collect makes of the envs when those of D end their episodes.
Collected(D) ==
    /\ DOMAIN ended' = D
    /\ \A e \in D : /\ ended'[e] = [seed |-> ended'[e].info.seed, info |-> ended'[e].info]
                    /\ Sound(ended'[e].info)
                    /\ ended'[e].seed = env[e].seed
                    /\ ended'[e].info.decisions = env[e].decisions + 1
                    /\ ended'[e].info.character = env[e].character
                    /\ ended'[e].info.players = env[e].players
    /\ \A e \in D : Begun(mode, D, e, env'[e])
    /\ \A e \in Envs \ D :
            /\ Sound(env'[e]) /\ env'[e].seed = env[e].seed /\ env'[e].players = env[e].players
            /\ env'[e].decisions = env[e].decisions + 1 /\ env'[e].decisions < EpisodeDecisions
            /\ env'[e].character = env[e].character
            /\ env'[e].evaluating = env[e].evaluating /\ env'[e].fresh = FALSE
    /\ env' = [e \in Envs |-> env'[e]]
    /\ SoundMode(mode') /\ mode'.evaluating = mode.evaluating /\ mode'.next = SeedsLeft(mode, D)
    /\ mode'.baseline = mode.baseline /\ mode'.opponentsOnly = mode.opponentsOnly
    /\ replay' = replay

LEMMA Collects ==
    ASSUME PoolInv, pc # "accept", Collect
    PROVE  \E D \in SUBSET Envs : Collected(D)
  <1>1. PICK D \in SUBSET Envs :
           /\ \A e \in Envs : MustEnd(e) => e \in D
           /\ ended' = [e \in D |-> [seed |-> env[e].seed, info |-> Played(e)]]
           /\ ResetEnvs(D, mode, replay, [e \in Envs |-> Played(e)])
    BY DEF Collect
  <1>2. \A e \in Envs : Sound(env[e]) /\ env[e].decisions < EpisodeDecisions /\ env[e].fresh = FALSE
    BY DEF PoolInv, Sound, EpisodeRecords
  <1>3. ASSUME NEW e \in Envs
        PROVE  /\ Sound(Played(e)) /\ Played(e).seed = env[e].seed /\ Played(e).character = env[e].character
               /\ Played(e).players = env[e].players /\ Played(e).evaluating = env[e].evaluating
               /\ Played(e).decisions = env[e].decisions + 1 /\ Played(e).fresh = FALSE
    <2>1. env[e].decisions \in Nat
      BY <1>2 DEF Sound, EpisodeRecords
    <2>2. env[e].decisions + 1 \in 0 .. EpisodeDecisions
      BY <1>2, <2>1, PoolAssumption
    <2>3. Played(e) = [env[e] EXCEPT !.decisions = env[e].decisions + 1]
      BY DEF Played
    <2>4. Sound(env[e]) /\ env[e].fresh = FALSE
      BY <1>2
    <2>5. QED
      BY <2>2, <2>3, <2>4, PlaysOn
  <1>4. ASSUME NEW e \in D
        PROVE  /\ ended'[e] = [seed |-> ended'[e].info.seed, info |-> ended'[e].info]
               /\ ended'[e].info = Played(e) /\ ended'[e].seed = env[e].seed
    BY <1>1, <1>3
  <1>5. /\ env' = [e \in Envs |-> env'[e]]
        /\ \A e \in D : Begun(mode, D, e, env'[e])
        /\ \A e \in Envs \ D : env'[e] = Played(e)
        /\ SoundMode(mode') /\ mode'.evaluating = mode.evaluating /\ mode'.next = SeedsLeft(mode, D)
        /\ mode'.baseline = mode.baseline /\ mode'.opponentsOnly = mode.opponentsOnly
        /\ replay' = replay
    <2>1. SoundMode(mode) /\ SoundReplay(replay)
      BY DEF PoolInv
    <2>2. \A e \in D : Sound(env[e]) /\ (env[e].fresh => ~mode.evaluating)
      BY <1>2
    <2>3. PICK p : p = [e \in Envs |-> Played(e)]
      OBVIOUS
    <2>4. ResetEnvs(D, mode, replay, p)
      BY <1>1, <2>3
    <2>5. \A e \in Envs \ D : p[e] = Played(e)
      BY <2>3
    <2>6. /\ env' = [e \in Envs |-> env'[e]]
          /\ \A e \in D : Begun(mode, D, e, env'[e])
          /\ \A e \in Envs \ D : env'[e] = p[e]
          /\ SoundMode(mode') /\ mode'.evaluating = mode.evaluating /\ mode'.next = SeedsLeft(mode, D)
          /\ mode'.baseline = mode.baseline /\ mode'.opponentsOnly = mode.opponentsOnly
          /\ replay' = replay
      BY <2>1, <2>2, <2>4, Resets
    <2>7. QED
      BY <2>5, <2>6
  <1>6. ASSUME NEW e \in Envs \ D
        PROVE  Played(e).decisions < EpisodeDecisions
    <2>1. ~MustEnd(e)
      BY <1>1
    <2>e. e \in Envs
      OBVIOUS
    <2>2. Sound(env[e]) /\ EpisodeDecisions \in Nat /\ Played(e).decisions = env[e].decisions + 1
      BY <1>2, <1>3, <2>e, PoolAssumption
    <2>4. env[e].decisions \in Nat
      BY <2>2 DEF Sound, EpisodeRecords
    <2>3. QED
      BY <2>1, <2>2, <2>4 DEF MustEnd
  <1>7. DOMAIN ended' = D
    BY <1>1
  <1>8. ASSUME NEW e \in D
        PROVE  /\ ended'[e] = [seed |-> ended'[e].info.seed, info |-> ended'[e].info]
               /\ Sound(ended'[e].info) /\ ended'[e].seed = env[e].seed
               /\ ended'[e].info.decisions = env[e].decisions + 1
               /\ ended'[e].info.character = env[e].character
               /\ ended'[e].info.players = env[e].players
    BY <1>3, <1>4
  <1>9. ASSUME NEW e \in Envs \ D
        PROVE  /\ Sound(env'[e]) /\ env'[e].seed = env[e].seed /\ env'[e].players = env[e].players
               /\ env'[e].decisions = env[e].decisions + 1 /\ env'[e].decisions < EpisodeDecisions
               /\ env'[e].character = env[e].character
               /\ env'[e].evaluating = env[e].evaluating /\ env'[e].fresh = FALSE
    <2>1. env'[e] = Played(e)
      BY <1>5
    <2>2. QED
      BY <2>1, <1>3, <1>6
  <1>10. Collected(D)
    BY <1>5, <1>7, <1>8, <1>9 DEF Collected
  <1>11. QED
    BY <1>10

\* ApplyActions.
LEMMA Acts ==
    ASSUME PoolInv, NEW sent \in STRING, ApplyActions(sent)
    PROVE  /\ \A e \in Envs : /\ Sound(env'[e]) /\ env'[e].seed = env[e].seed
                              /\ env'[e].players = env[e].players \cup {Players(mode, sent)}
                              /\ env'[e].decisions = env[e].decisions /\ env'[e].character = env[e].character
                              /\ env'[e].evaluating = env[e].evaluating /\ env'[e].fresh = env[e].fresh
           /\ env' = [e \in Envs |-> env'[e]]
           /\ UNCHANGED <<mode, replay, ended>>
  <1> DEFINE p == Players(mode, sent)
  <1>1. /\ env' = [e \in Envs |-> [env[e] EXCEPT !.players = @ \cup {p}]]
        /\ UNCHANGED <<mode, replay, ended>>
    BY DEF ApplyActions
  <1>2. p \in [ours : STRING, theirs : STRING]
    BY DEF Players, PoolInv, SoundMode, Modes, NoPolicy
  <1> HIDE DEF p
  <1>3. ASSUME NEW e \in Envs
        PROVE  /\ Sound(env'[e]) /\ env'[e].seed = env[e].seed
               /\ env'[e].players = env[e].players \cup {p}
               /\ env'[e].decisions = env[e].decisions /\ env'[e].character = env[e].character
               /\ env'[e].evaluating = env[e].evaluating /\ env'[e].fresh = env[e].fresh
    <2>1. Sound(env[e])
      BY DEF PoolInv
    <2>2. env[e].players \cup {p} \in SUBSET [ours : STRING, theirs : STRING]
      BY <1>2, <2>1 DEF Sound, EpisodeRecords
    <2>3. env'[e] = [env[e] EXCEPT !.players = env[e].players \cup {p}]
      BY <1>1
    <2>4. QED
      BY <2>1, <2>2, <2>3, PlaysOn
  <1>4. QED
    BY <1>1, <1>3 DEF p

\* Reading a message takes it out of the queue and leaves the others.
LEMMA Takes ==
    ASSUME Connection, inbox # <<>>
    PROVE  /\ Head(inbox) \in Messages
           /\ inbox' = Tail(inbox) => Messages' \subseteq Messages
  <1>1. Unread
    BY DEF Connection
  <1>2. PICK m :
          \/ inbox = <<m>> /\ Head(inbox) = m /\ Tail(inbox) = <<>>
          \/ inbox = <<m, Close>> /\ Head(inbox) = m /\ Tail(inbox) = <<Close>>
          \/ \E r : /\ r.type = "REPLAY" /\ Head(inbox) = r
                    /\ \/ inbox = <<r, m>> /\ Tail(inbox) = <<m>>
                       \/ inbox = <<r, m, Close>> /\ Tail(inbox) = <<m, Close>>
    BY <1>1, Reads
  <1>3. CASE inbox = <<m>> /\ Head(inbox) = m /\ Tail(inbox) = <<>>
    <2>1. Messages = {m}
      BY <1>3, Queues DEF Messages
    <2>2. inbox' = Tail(inbox) => Messages' = {}
      BY <1>3 DEF Messages
    <2>3. QED
      BY <1>3, <2>1, <2>2
  <1>4. CASE inbox = <<m, Close>> /\ Head(inbox) = m /\ Tail(inbox) = <<Close>>
    <2>1. Messages = {m, Close}
      BY <1>4, Queues DEF Messages
    <2>2. inbox' = Tail(inbox) => Messages' = {Close}
      BY <1>4, Queues DEF Messages
    <2>3. QED
      BY <1>4, <2>1, <2>2
  <1>5. ASSUME NEW r, Head(inbox) = r, inbox = <<r, m>>, Tail(inbox) = <<m>>
        PROVE  /\ Head(inbox) \in Messages
               /\ inbox' = Tail(inbox) => Messages' \subseteq Messages
    <2>1. Messages = {r, m}
      BY <1>5, Queues DEF Messages
    <2>2. inbox' = Tail(inbox) => Messages' = {m}
      BY <1>5, Queues DEF Messages
    <2>3. QED
      BY <1>5, <2>1, <2>2
  <1>6. ASSUME NEW r, Head(inbox) = r, inbox = <<r, m, Close>>, Tail(inbox) = <<m, Close>>
        PROVE  /\ Head(inbox) \in Messages
               /\ inbox' = Tail(inbox) => Messages' \subseteq Messages
    <2>1. Messages = {r, m, Close}
      BY <1>6, Triples DEF Messages
    <2>2. inbox' = Tail(inbox) => Messages' = {m, Close}
      BY <1>6, Queues DEF Messages
    <2>3. QED
      BY <1>6, <2>1, <2>2
  <1>7. QED
    BY <1>2, <1>3, <1>4, <1>5, <1>6

\* What a learner starts from, and what it ends an evaluation with.
LEMMA FreshStart == SoundMode(Training) /\ Training.evaluating = FALSE /\ Training.next = 0 /\ SoundReplay(NoReplay)
  <1>1. Training = [evaluating |-> FALSE, base |-> 0, episodes |-> 0, next |-> 0,
                    baseline |-> NoPolicy, opponentsOnly |-> FALSE]
    BY DEF Training, Evaluation
  <1>2. Training \in Modes
    <2>1. NoPolicy \in STRING
      BY LiteralsAreStrings
    <2>2. QED
      BY <1>1, <2>1 DEF Modes
  <1>3. SoundReplay(NoReplay)
    BY DEF SoundReplay, NoReplay, Replay
  <1>4. QED
    BY <1>1, <1>2, <1>3 DEF SoundMode

\* The pool is sound after every action of the sim.
LEMMA PoolKeeps ==
    ASSUME IInv, PoolInv, \A m \in Messages : Wellformed(m), Sim
    PROVE  PoolInv'
  <1>1. CASE AcceptClient
    <2>1. ResetAll(Training, NoReplay)
      BY <1>1 DEF AcceptClient, SessionMode, SessionReplay
    <2>2. QED
      BY <2>1, FreshStart, PoolResets
  <1>2. CASE Decide
    <2>1. pc # "accept" /\ Collect
      BY <1>2 DEF Decide
    <2>2. PICK D \in SUBSET Envs : Collected(D)
      BY <2>1, Collects
    <2>3. \A e \in Envs : Sound(env'[e]) /\ env'[e].decisions < EpisodeDecisions /\ env'[e].fresh = FALSE
      BY <2>2, PoolAssumption DEF Collected, Begun
    <2>4. SoundReplay(replay')
      BY <2>2 DEF Collected, PoolInv
    <2>5. QED
      BY <2>2, <2>3, <2>4 DEF Collected, PoolInv
  <1>3. CASE ReceiveAct
    <2>1. /\ pc = "receive" /\ inbox # <<>> /\ Head(inbox).type = "ACT"
          /\ ApplyActions(Head(inbox).sent)
      BY <1>3 DEF ReceiveAct, Receives
    <2>2. Head(inbox).sent \in STRING
      BY <2>1, Takes DEF IInv, Wellformed
    <2>3. /\ \A e \in Envs : /\ Sound(env'[e]) /\ env'[e].decisions = env[e].decisions
                             /\ env'[e].fresh = env[e].fresh
          /\ env' = [e \in Envs |-> env'[e]]
          /\ UNCHANGED <<mode, replay, ended>>
      BY <2>1, <2>2, Acts
    <2>4. QED
      BY <2>1, <2>3 DEF PoolInv
  <1>4. CASE ReceiveMode
    <2>1. /\ pc = "receive" /\ inbox # <<>> /\ Head(inbox).type = "MODE"
          /\ ResetAll(Head(inbox).mode, replay)
      BY <1>4 DEF ReceiveMode, Receives
    <2>2. SoundMode(Head(inbox).mode) /\ SoundReplay(replay)
      BY <2>1, Takes DEF IInv, Wellformed, PoolInv
    <2>3. QED
      BY <2>1, <2>2, PoolResets
  <1>5. CASE ReceiveReplay
    <2>1. /\ pc = "receive" /\ inbox # <<>> /\ Head(inbox).type = "REPLAY"
          /\ replay' = Head(inbox).replay /\ UNCHANGED <<env, mode, ended, pc>>
      BY <1>5 DEF ReceiveReplay, Receives
    <2>2. SoundReplay(replay')
      BY <2>1, Takes DEF IInv, Wellformed
    <2>3. QED
      BY <2>1, <2>2 DEF PoolInv
  <1>6. CASE AcceptDead \/ ReceiveUnknownPolicy \/ ReceiveClose \/ ReceiveNothing
    <2>1. UNCHANGED <<env, mode, replay, ended>> /\ (pc' = pc \/ pc' = "accept")
      BY <1>6 DEF AcceptDead, ReceiveUnknownPolicy, ReceiveClose, ReceiveNothing, DropClient, poolVars
    <2>2. QED
      BY <2>1 DEF PoolInv
  <1>7. QED
    BY <1>1, <1>2, <1>3, <1>4, <1>5, <1>6 DEF Sim

-----------------------------------------------------------------------------
(***************************************************************************)
(* The messages stay the living learner's own.                             *)
(***************************************************************************)
LEMMA Fewer ==
    ASSUME MessageInv, Messages' \subseteq Messages,
           UNCHANGED <<session, learner, opponents, task>>,
           Live' => \/ Live /\ (replay'.seeds # {} => replay'.by = session)
                    \/ Messages' = {} /\ replay'.seeds = {},
           ~Live' => learner \in {"gone", "awaiting", "entering"}
    PROVE  MessageInv'
  <1>1. \A m \in Messages' : Wellformed(m)
    BY DEF MessageInv
  <1>2. ModeOf(task)' = ModeOf(task)
    BY DEF ModeOf
  <1>3. Live' => /\ replay'.seeds # {} => replay'.by = session'
                 /\ \A m \in Messages' : /\ m.type = "REPLAY" => m.replay.by = session'
                                         /\ m.type = "MODE" /\ learner' = "entering" => m.mode = ModeOf(task)'
    BY <1>2 DEF MessageInv
  <1>4. QED
    BY <1>1, <1>3 DEF MessageInv

LEMMA SimMessages ==
    ASSUME IInv, PoolInv, MessageInv, Sim
    PROVE  MessageInv'
  <1> USE DEF IInv
  <1>1. UNCHANGED <<session, learner, opponents, task>>
    BY DEF Sim, AcceptClient, AcceptDead, Decide, ReceiveAct, ReceiveMode, ReceiveUnknownPolicy, ReceiveReplay,
           ReceiveClose, ReceiveNothing, learnerVars
  <1>2. inbox' = <<>> => Messages' = {}
    BY DEF Messages
  <1>3. ~Live => learner \in {"gone", "awaiting", "entering"}
    BY DEF MessageInv
  <1>4. Live => (replay.seeds # {} => replay.by = session)
    BY DEF MessageInv
  <1>5. CASE AcceptClient
    <2>1. inbox' = <<>> /\ pc = "accept" /\ ~hungUp
      BY <1>5 DEF AcceptClient, Connection
    <2>2. replay' = NoReplay
      BY <1>5 DEF AcceptClient, SessionReplay, ResetAll, ResetEnvs
    <2>3. replay'.seeds = {}
      BY <2>2 DEF NoReplay, Replay
    <2>4. ~Live
      BY <2>1 DEF Live
    <2>5. QED
      BY <1>1, <1>2, <1>3, <2>1, <2>3, <2>4, Fewer
  <1>6. CASE AcceptDead
    <2>1. Messages' = Messages /\ Live' = Live /\ ~Live
      BY <1>6 DEF AcceptDead, Messages, Live
    <2>2. QED
      BY <1>1, <1>3, <2>1, Fewer
  <1>7. ASSUME inbox' = <<>>, pc' = "accept", ~Live
        PROVE  MessageInv'
    <2>1. ~Live' /\ Messages' \subseteq Messages
      BY <1>2, <1>7 DEF Live
    <2>2. QED
      BY <1>1, <1>3, <1>7, <2>1, Fewer
  <1>8. CASE Decide
    <2>1. CASE hungUp
      BY <1>7, <1>8, <2>1 DEF Decide, SendStep, DropClient, Live
    <2>2. CASE ~hungUp
      <3>1. /\ pc' = "receive" /\ hungUp' = hungUp /\ inbox' = inbox /\ pc # "accept"
            /\ replay' = replay
        BY <1>8, <2>2 DEF Decide, SendStep, Collect, ResetEnvs
      <3>2. Live /\ Live' /\ Messages' = Messages
        BY <2>2, <3>1 DEF Live, Messages
      <3>3. QED
        BY <1>1, <1>4, <3>1, <3>2, Fewer
    <2>3. QED
      BY <2>1, <2>2
  <1>9. CASE ReceiveAct
    <2>1. /\ pc = "receive" /\ inbox # <<>> /\ pc' = "collect" /\ inbox' = Tail(inbox)
          /\ hungUp' = hungUp /\ replay' = replay
      BY <1>9 DEF ReceiveAct, Receives, ApplyActions
    <2>2. Messages' \subseteq Messages /\ Live' = Live
      BY <2>1, Takes DEF Live
    <2>3. QED
      BY <1>1, <1>3, <1>4, <2>1, <2>2, Fewer
  <1>10. CASE ReceiveMode
    <2>1. /\ pc = "receive" /\ inbox # <<>> /\ replay' = replay
          /\ SendStep /\ (~hungUp => inbox' = Tail(inbox))
      BY <1>10 DEF ReceiveMode, Receives, ResetAll, ResetEnvs
    <2>2. CASE hungUp
      BY <1>7, <2>1, <2>2 DEF SendStep, DropClient, Live
    <2>3. CASE ~hungUp
      <3>1. Live /\ Live' /\ Messages' \subseteq Messages
        BY <2>1, <2>3, Takes DEF SendStep, Live
      <3>2. QED
        BY <1>1, <1>4, <2>1, <3>1, Fewer
    <2>4. QED
      BY <2>2, <2>3
  <1>11. CASE ReceiveUnknownPolicy
    <2>1. /\ pc = "receive" /\ inbox # <<>> /\ Head(inbox).type = "MODE" /\ ~KnowsPolicy(Head(inbox).mode)
          /\ pc' = "accept" /\ inbox' = <<>>
      BY <1>11 DEF ReceiveUnknownPolicy, Receives, DropClient
    <2>2. Live => learner = "entering"
      <3>1. KnowsPolicy(Training)
        BY DEF KnowsPolicy, Training, Evaluation
      <3>2. Live => IsRequest(Head(inbox))
        BY <2>1, Reply
      <3>3. QED
        BY <2>1, <3>1, <3>2 DEF IsRequest
    <2>3. ~Live' /\ Messages' \subseteq Messages
      BY <1>2, <2>1 DEF Live
    <2>4. QED
      BY <1>1, <1>3, <2>2, <2>3, Fewer
  <1>12. CASE ReceiveReplay
    <2>1. /\ pc = "receive" /\ inbox # <<>> /\ Head(inbox).type = "REPLAY"
          /\ replay' = Head(inbox).replay /\ inbox' = Tail(inbox) /\ UNCHANGED <<pc, hungUp>>
      BY <1>12 DEF ReceiveReplay, Receives
    <2>2. Messages' \subseteq Messages /\ Live' = Live /\ Head(inbox) \in Messages
      BY <2>1, Takes DEF Live
    <2>3. Live => replay'.by = session
      BY <2>1, <2>2 DEF MessageInv
    <2>4. QED
      BY <1>1, <1>3, <2>2, <2>3, Fewer
  <1>13. CASE ReceiveClose
    <2>1. /\ pc = "receive" /\ inbox # <<>> /\ Head(inbox).type = "CLOSE"
          /\ pc' = "accept" /\ inbox' = <<>>
      BY <1>13 DEF ReceiveClose, Receives, DropClient
    <2>2. ~Live
      BY <2>1, Reply DEF IsRequest
    <2>3. QED
      BY <1>7, <2>1, <2>2
  <1>14. CASE ReceiveNothing
    BY <1>7, <1>14 DEF ReceiveNothing, DropClient, Live
  <1>15. QED
    BY <1>5, <1>6, <1>8, <1>9, <1>10, <1>11, <1>12, <1>13, <1>14 DEF Sim

\* What run_evaluation asks for, in any of the three evaluations.
LEMMA Requests ==
    ASSUME opponents \in Opponents, NEW t \in Evaluations
    PROVE  SoundMode(ModeOf(t)) /\ ModeOf(t).next = 0 /\ ModeOf(t).evaluating = TRUE
  <1>1. ASSUME NEW b \in STRING, NEW o \in BOOLEAN, NEW m, m = Evaluation(TRUE, SeedBase, Episodes, b, o)
        PROVE  SoundMode(m) /\ m.next = 0 /\ m.evaluating = TRUE
    <2> DEFINE only == TRUE /\ b # NoPolicy /\ o
    <2>1. m = [evaluating |-> TRUE, base |-> SeedBase, episodes |-> Episodes, next |-> 0,
               baseline |-> b, opponentsOnly |-> only]
      BY <1>1 DEF Evaluation
    <2>2. only \in BOOLEAN
      OBVIOUS
    <2> HIDE DEF only
    <2>3. m \in Modes
      BY <2>1, <2>2, EvaluationAssumption DEF Modes
    <2>4. m.base = SeedBase /\ m.episodes = Episodes /\ m.next = 0 /\ m.evaluating = TRUE /\ 0 <= Episodes
      BY <2>1, EvaluationAssumption
    <2>5. QED
      BY <2>3, <2>4 DEF SoundMode
  <1>2. Baseline \in STRING /\ opponents \in STRING
    BY EvaluationAssumption
  <1>3. (opponents # NoPolicy) \in BOOLEAN
    OBVIOUS
  <1>4. QED
    BY <1>1, <1>2, <1>3 DEF ModeOf

\* Sending adds the message to the queue, and nothing else.
LEMMA Puts ==
    ASSUME Connection, Live, NEW m, inbox' = Append(inbox, m)
    PROVE  Messages' \subseteq Messages \cup {m}
  <1>1. \/ inbox = <<>>
        \/ \E a : inbox = <<a>>
        \/ \E a, b : inbox = <<a, b>>
    BY DEF Connection, Turn, Answered, Requested, Applied, Holding, LastSent
  <1>2. CASE inbox = <<>>
    <2>1. inbox' = <<m>>
      BY <1>2, Queues
    <2>2. Messages' = {m}
      BY <2>1, Queues DEF Messages
    <2>3. QED
      BY <2>2
  <1>3. ASSUME NEW a, inbox = <<a>>
        PROVE  Messages' \subseteq Messages \cup {m}
    <2>1. inbox' = <<a, m>>
      BY <1>3, Appends
    <2>2. Messages' = {a, m} /\ Messages = {a}
      BY <1>3, <2>1, Queues DEF Messages
    <2>3. QED
      BY <2>2
  <1>4. ASSUME NEW a, NEW b, inbox = <<a, b>>
        PROVE  Messages' \subseteq Messages \cup {m}
    <2>1. inbox' = <<a, b, m>>
      BY <1>4, Appends
    <2>2. Messages' = {a, b, m} /\ Messages = {a, b}
      BY <1>4, <2>1, Queues, Triples DEF Messages
    <2>3. QED
      BY <2>2
  <1>5. QED
    BY <1>1, <1>2, <1>3, <1>4

LEMMA Sends ==
    ASSUME Connection, MessageInv, learner \in {"ready", "left"},
           NEW m, inbox' = Append(inbox, m), Wellformed(m), m.type = "REPLAY" => m.replay.by = session,
           learner' = "entering" /\ m.type = "MODE" => m.mode = ModeOf(task)',
           UNCHANGED <<replay, pc, hungUp, session>>
    PROVE  MessageInv'
  <1>1. Live /\ Holding
    BY Connected
  <1>2. Messages' \subseteq Messages \cup {m}
    BY <1>1, Puts
  <1>3. \A q \in Messages : q.type = "REPLAY"
    <2>1. CASE inbox = <<>>
      BY <2>1 DEF Messages
    <2>2. ASSUME NEW r, r.type = "REPLAY", inbox = <<r>>
          PROVE  \A q \in Messages : q.type = "REPLAY"
      <3>1. Messages = {r}
        BY <2>2, Queues DEF Messages
      <3>2. QED
        BY <2>2, <3>1
    <2>3. QED
      BY <1>1, <2>1, <2>2 DEF Holding
  <1>4. \A q \in Messages' : Wellformed(q)
    BY <1>2 DEF MessageInv
  <1>5. ASSUME NEW q \in Messages'
        PROVE  /\ q.type = "REPLAY" => q.replay.by = session
               /\ q.type = "MODE" /\ learner' = "entering" => q.mode = ModeOf(task)'
    <2>1. CASE q = m
      BY <2>1
    <2>2. CASE q \in Messages
      <3>1. q.type # "MODE"
        BY <1>3, <2>2
      <3>2. q.type = "REPLAY" => q.replay.by = session
        BY <1>1, <2>2 DEF MessageInv
      <3>3. QED
        BY <3>1, <3>2
    <2>3. QED
      BY <1>2, <2>1, <2>2
  <1>6. Live' /\ (replay'.seeds # {} => replay'.by = session')
    BY <1>1 DEF Live, MessageInv
  <1>7. QED
    BY <1>4, <1>5, <1>6 DEF MessageInv

LEMMA LearnerMessages ==
    ASSUME IInv, MessageInv, LearnerInv, Learner \/ Connect \/ Die \/ Finish
    PROVE  MessageInv'
  <1> USE DEF IInv
  <1>1. CASE ReceiveStep \/ ScoreStep \/ ReceiveLeft
    <2>1. outbox # <<>> /\ TakeStep /\ learner' \in {"ready", "left"}
      BY <1>1 DEF ReceiveStep, ScoreStep, ReceiveLeft
    <2>2. Live /\ inbox' = inbox /\ inbox = <<>> /\ pc' = pc /\ hungUp' = hungUp
      BY <2>1, Learns
    <2>3. replay' = replay /\ session' = session
      BY <2>1 DEF TakeStep, poolVars
    <2>4. Messages' = {} /\ Live'
      BY <2>2 DEF Messages, Live
    <2>5. QED
      BY <2>2, <2>3, <2>4 DEF MessageInv
  <1>2. CASE TrainOn \/ EvaluateOn
    <2>1. /\ learner = "ready" /\ learner' = "acting"
          /\ Send(Act(SentIn(task), step))
          /\ UNCHANGED <<replay, pc, hungUp, session>>
      BY <1>2 DEF TrainOn, EvaluateOn, poolVars
    <2>2. SentIn(task) \in STRING
      BY LiteralsAreStrings DEF LearnerInv, Evaluations, SentIn
    <2>3. PICK m : m = Act(SentIn(task), step)
      OBVIOUS
    <2>4. m.type = "ACT" /\ Wellformed(m)
      BY <2>2, <2>3 DEF Act, Wellformed
    <2>5. inbox' = Append(inbox, m)
      BY <2>1, <2>3 DEF Send
    <2>6. QED
      BY <2>1, <2>4, <2>5, Sends
  <1>3. ASSUME NEW t, t \in Evaluations, Enter(t), learner \in {"ready", "left"}
        PROVE  MessageInv'
    <2>1. /\ Send(SetMode(ModeOf(t))) /\ learner' = "entering" /\ task' = t
          /\ UNCHANGED <<replay, pc, hungUp, session, opponents>>
      BY <1>3 DEF Enter, poolVars
    <2>2. SoundMode(ModeOf(t)) /\ ModeOf(t).next = 0
      BY <1>3, Requests DEF LearnerInv
    <2>3. PICK m : m = SetMode(ModeOf(t))
      OBVIOUS
    <2>4. m.type = "MODE" /\ m.mode = ModeOf(t) /\ Wellformed(m)
      BY <2>2, <2>3 DEF SetMode, Wellformed
    <2>5. ModeOf(task)' = ModeOf(t)
      BY <2>1 DEF ModeOf
    <2>6. inbox' = Append(inbox, m)
      BY <2>1, <2>3 DEF Send
    <2>7. QED
      BY <1>3, <2>1, <2>4, <2>5, <2>6, Sends
  <1>4. CASE Evaluate
    BY <1>3, <1>4 DEF Evaluate, Evaluations
  <1>5. CASE EvaluateNext
    BY <1>3, <1>5 DEF EvaluateNext
  <1>6. CASE Leave
    <2>1. /\ learner = "ready" /\ Send(SetMode(Training)) /\ learner' = "leaving"
          /\ UNCHANGED <<replay, pc, hungUp, session>>
      BY <1>6 DEF Leave, poolVars
    <2>2. PICK m : m = SetMode(Training)
      OBVIOUS
    <2>3. m.type = "MODE" /\ Wellformed(m)
      BY <2>2, FreshStart DEF SetMode, Wellformed
    <2>4. inbox' = Append(inbox, m)
      BY <2>1, <2>2 DEF Send
    <2>5. QED
      BY <2>1, <2>3, <2>4, Sends
  <1>7. CASE SendReplay
    <2>1. /\ learner = "left" /\ learner' = "ready"
          /\ UNCHANGED <<replay, pc, hungUp, session, opponents>>
      BY <1>7 DEF SendReplay, poolVars
    <2>2. PICK r : r = Replay(SeedBase, lost, session)
      OBVIOUS
    <2>3. r = [base |-> SeedBase, seeds |-> lost, by |-> session]
      BY <2>2 DEF Replay
    <2>4. lost \in SUBSET Nat /\ session \in Nat
      BY EvaluationAssumption DEF LearnerInv, Seeds
    <2>5. SoundReplay(r) /\ r.by = session
      BY <2>3, <2>4, EvaluationAssumption DEF SoundReplay
    <2>6. PICK m : m = SetReplay(r)
      OBVIOUS
    <2>7. m.type = "REPLAY" /\ m.replay = r
      BY <2>6 DEF SetReplay
    <2>8. Wellformed(m)
      BY <2>5, <2>7 DEF Wellformed
    <2>9. CASE inbox' = Append(inbox, m)
      BY <2>1, <2>5, <2>7, <2>8, <2>9, Sends
    <2>10. CASE inbox' = inbox
      <3>1. Live /\ Live' /\ Messages' = Messages
        BY <2>1, <2>10, Connected DEF Live, Messages
      <3>2. QED
        BY <2>1, <3>1 DEF MessageInv
    <2>11. QED
      BY <1>7, <2>2, <2>6, <2>9, <2>10 DEF SendReplay, Send
  <1>8. ASSUME NEW sent, Leaves(sent),
               \/ sent = inbox
               \/ learner \notin {"gone", "awaiting"} /\ sent = Append(inbox, Close)
        PROVE  MessageInv'
    <2>1. learner' = "gone" /\ pc' = pc
      BY <1>8 DEF Leaves
    <2>2. ~Live'
      BY <1>8, <2>1 DEF Leaves, Live, Connection, Turn
    <2>3. Messages' \subseteq Messages \cup {Close}
      <3>1. CASE inbox' = inbox
        BY <3>1 DEF Messages
      <3>2. CASE inbox' = Append(inbox, Close) /\ learner \notin {"gone", "awaiting"} /\ pc # "accept"
        BY <3>2, Puts DEF Connection, Live
      <3>3. QED
        BY <1>8, <3>1, <3>2 DEF Leaves
    <2>4. Wellformed(Close)
      BY DEF Wellformed, Close
    <2>5. QED
      BY <2>1, <2>2, <2>3, <2>4 DEF MessageInv
  <1>9. CASE LoseSim \/ Die
    BY <1>8, <1>9 DEF LoseSim, Die
  <1>10. CASE Finish
    BY <1>8, <1>10 DEF Finish
  <1>11. CASE Connect
    <2>1. learner = "gone" /\ learner' = "awaiting" /\ UNCHANGED <<pc, inbox, hungUp>>
      BY <1>11 DEF Connect
    <2>2. ~Live
      BY <2>1 DEF Connection, Turn
    <2>3. ~Live' /\ Messages' = Messages
      BY <2>1, <2>2 DEF Live, Messages
    <2>4. QED
      BY <2>1, <2>3 DEF MessageInv
  <1>12. QED
    BY <1>1, <1>2, <1>4, <1>5, <1>6, <1>7, <1>9, <1>10, <1>11 DEF Learner

-----------------------------------------------------------------------------
(***************************************************************************)
(* What is scored, and the count behind it.                                *)
(***************************************************************************)
\* Two kinds of steps need no more than that.
LEMMA ScoreIdle ==
    ASSUME ScoreInv, finished' = finished \/ finished' = <<>>, ~Playing'
    PROVE  ScoreInv'
  <1>1. \A i \in DOMAIN finished' : Scored(i)'
    BY DEF ScoreInv, Scored
  <1>2. QED
    BY <1>1 DEF ScoreInv

LEMMA ScoreStays ==
    ASSUME ScoreInv, UNCHANGED <<env, step, counted, finished, mode, ended, outbox>>,
           Playing' => Playing /\ (learner = "entering" <=> learner' = "entering")
    PROVE  ScoreInv'
  <1>1. \A i \in DOMAIN finished' : Scored(i)'
    BY DEF ScoreInv, Scored
  <1>2. InStep' = InStep /\ Behind' = Behind /\ Entered' = Entered
    BY DEF InStep, Behind, Entered
  <1>3. QED
    BY <1>1, <1>2 DEF ScoreInv

LEMMA SimScores ==
    ASSUME IInv, DataInv, Sim
    PROVE  ScoreInv'
  <1> USE DEF IInv, DataInv
  <1>1. /\ UNCHANGED <<learner, task, step, finished, counted>>
    BY DEF Sim, AcceptClient, AcceptDead, Decide, ReceiveAct, ReceiveMode, ReceiveUnknownPolicy, ReceiveReplay,
           ReceiveClose, ReceiveNothing, learnerVars
  <1>2. \A i \in DOMAIN finished' : Scored(i)'
    BY <1>1 DEF ScoreInv, Scored
  <1>3. ASSUME ~Live'
        PROVE  ScoreInv'
    BY <1>1, <1>3, ScoreIdle DEF Playing
  <1>4. CASE AcceptClient
    <2>1. learner = "awaiting"
      BY <1>4 DEF AcceptClient, Connection
    <2>2. QED
      BY <1>1, <2>1, ScoreIdle DEF Playing
  <1>5. CASE AcceptDead
    BY <1>3, <1>5 DEF AcceptDead, Live
  <1>6. CASE Decide
    <2>1. CASE hungUp
      BY <1>3, <1>6, <2>1 DEF Decide, SendStep, DropClient, Live
    <2>2. CASE ~hungUp
      <3>1. /\ pc = "collect" /\ Live /\ learner = "acting" /\ outbox = <<>>
        BY <1>6, <2>2 DEF Decide, Live, Connection, Turn, Answered, Requested, Applied, Holding
      <3>2. PICK D \in SUBSET Envs : Collected(D)
        BY <1>6, <3>1, Collects DEF Decide
      <3>3. CASE task = "train"
        BY <1>1, <3>3, ScoreIdle DEF Playing
      <3>4. CASE task # "train"
        <4>1. mode.evaluating /\ InStep
          BY <3>1, <3>4 DEF ScoreInv, Playing
        <4>2. ASSUME NEW e \in D
              PROVE  /\ env'[e].decisions = 0
                     /\ ended'[e].info.decisions = counted[e] + 1
                     /\ ended'[e].info.character = step[e].character
          <5>1. counted[e] = env[e].decisions /\ step[e].character = env[e].character
            BY <4>1 DEF InStep
          <5>2. /\ ended'[e].info.decisions = env[e].decisions + 1
                /\ ended'[e].info.character = env[e].character
            BY <3>2 DEF Collected
          <5>3. env'[e].decisions = 0
            BY <3>2 DEF Collected, Begun
          <5>4. QED
            BY <5>1, <5>2, <5>3
        <4>3. \A e \in Envs \ D : env'[e].decisions = counted[e] + 1
          BY <3>2, <4>1 DEF Collected, InStep
        <4>4. DOMAIN ended' = D /\ mode'.evaluating
          BY <3>2, <4>1 DEF Collected
        <4>5. Behind'
          BY <1>1, <4>2, <4>3, <4>4 DEF Behind
        <4>6. outbox' # <<>>
          BY <1>6, <2>2, <3>1, Sent, Queues DEF Decide
        <4>7. QED
          BY <1>1, <1>2, <3>1, <4>4, <4>5, <4>6 DEF ScoreInv
      <3>5. QED
        BY <3>3, <3>4
    <2>3. QED
      BY <2>1, <2>2
  <1>7. CASE ReceiveAct
    <2>1. /\ pc = "receive" /\ inbox # <<>> /\ Head(inbox).type = "ACT" /\ pc' = "collect"
          /\ ApplyActions(Head(inbox).sent) /\ UNCHANGED <<hungUp, outbox>>
      BY <1>7 DEF ReceiveAct, Receives
    <2>2. CASE Live
      <3>1. outbox = <<>> /\ learner = "acting"
        BY <2>1, <2>2, Reply DEF IsRequest
      <3>2. Head(inbox).sent \in STRING
        BY <2>1, Takes DEF MessageInv, Wellformed
      <3>3. /\ \A e \in Envs : env'[e].decisions = env[e].decisions /\ env'[e].character = env[e].character
            /\ mode' = mode
        BY <2>1, <3>2, Acts
      <3>4. Playing' => Playing
        BY <1>1, <2>2, <3>1 DEF Playing
      <3>5. InStep => InStep'
        BY <1>1, <3>3 DEF InStep
      <3>6. QED
        BY <1>2, <2>1, <3>1, <3>3, <3>4, <3>5 DEF ScoreInv
    <2>3. CASE ~Live
      BY <1>3, <2>1, <2>3 DEF Live
    <2>4. QED
      BY <2>2, <2>3
  <1>8. CASE ReceiveMode
    <2>1. /\ pc = "receive" /\ inbox # <<>> /\ Head(inbox).type = "MODE"
          /\ ResetAll(Head(inbox).mode, replay) /\ SendStep
      BY <1>8 DEF ReceiveMode, Receives
    <2>2. CASE hungUp
      BY <1>3, <2>1, <2>2 DEF SendStep, DropClient, Live
    <2>3. CASE ~hungUp
      <3>1. Live
        BY <2>1, <2>3 DEF Live
      <3>2. outbox = <<>> /\ IsRequest(Head(inbox))
        BY <2>1, <3>1, Reply
      <3>3. CASE learner # "entering"
        <4>1. learner = "leaving"
          BY <2>1, <3>2, <3>3 DEF IsRequest
        <4>2. QED
          BY <1>1, <4>1, ScoreIdle DEF Playing
      <3>4. CASE learner = "entering"
        <4>1. PICK m : m = Head(inbox).mode
          OBVIOUS
        <4>2. m = ModeOf(task) /\ SoundMode(m)
          BY <2>1, <3>1, <3>4, <4>1, Takes DEF MessageInv, Wellformed
        <4>3. m.evaluating = TRUE
          BY <3>4, <4>2, Requests DEF LearnerInv, Connection
        <4>4. PICK D \in SUBSET Envs : D = Envs
          OBVIOUS
        <4>5. ResetEnvs(D, m, replay, env) /\ ended' = <<>>
          BY <2>1, <4>1, <4>4 DEF ResetAll
        <4>6. \A e \in D : Sound(env[e]) /\ (env[e].fresh => ~m.evaluating)
          BY <2>1, <4>4 DEF PoolInv
        <4>7. SoundReplay(replay)
          BY DEF PoolInv
        <4>8. (\A e \in D : env'[e].decisions = 0) /\ mode'.evaluating = m.evaluating
          BY ONLY <4>2, <4>5, <4>6, <4>7, Resets DEF Begun
        <4>9. Entered'
          BY <4>4, <4>5, <4>8 DEF Entered
        <4>10. outbox' # <<>>
          BY <2>1, <2>3, <3>2, Sent, Queues
        <4>11. QED
          BY <1>1, <1>2, <3>4, <4>3, <4>8, <4>9, <4>10 DEF ScoreInv
      <3>5. QED
        BY <3>3, <3>4
    <2>4. QED
      BY <2>2, <2>3
  <1>9. CASE ReceiveReplay
    <2>1. /\ pc = "receive" /\ inbox # <<>> /\ UNCHANGED <<env, mode, ended, pc, hungUp, outbox>>
      BY <1>9 DEF ReceiveReplay, Receives
    <2>2. Live' = Live
      BY <2>1 DEF Live
    <2>3. Live /\ learner = "entering" => outbox = <<>>
      BY <2>1 DEF Connection, Turn, Answered, Requested, Applied
    <2>4. outbox = <<>> => ~Answered'
      <3>1. PICK x : x = [shows |-> env, ended |-> ended]'
        OBVIOUS
      <3>2. <<x>> # <<>>
        BY Queues
      <3>3. QED
        BY <2>1, <3>1, <3>2 DEF Answered
    <2>5. Playing' => Playing
      BY <1>1, <2>2, <2>3, <2>4 DEF Playing
    <2>6. QED
      BY <1>1, <2>1, <2>5, ScoreStays
  <1>10. CASE ReceiveUnknownPolicy \/ ReceiveClose \/ ReceiveNothing
    BY <1>3, <1>10 DEF ReceiveUnknownPolicy, ReceiveClose, ReceiveNothing, DropClient, Live
  <1>11. QED
    BY <1>4, <1>5, <1>6, <1>7, <1>8, <1>9, <1>10 DEF Sim

\* Scoring a STEP: what run_evaluation makes of the episodes that ended.
LEMMA ScoringKeeps ==
    ASSUME IInv, DataInv, ScoreStep
    PROVE  /\ ScoreInv'
           /\ DOMAIN finished' = DOMAIN finished
                \cup {ended[e].seed : e \in {e \in DOMAIN ended : ended[e].seed \in Seeds}}
           /\ \A i \in DOMAIN finished' :
                \/ i \in DOMAIN finished /\ finished'[i] = finished[i]
                \/ i \notin DOMAIN finished /\ \E e \in DOMAIN ended : finished'[i].info = ended[e].info
           /\ counted' = [e \in Envs |-> env[e].decisions]
           /\ Live /\ Answered /\ Playing /\ step' = env /\ outbox' = <<>> /\ learner' = "ready" /\ task' = task
           /\ UNCHANGED <<env, mode, ended, pc, hungUp>>
  <1> USE DEF IInv, DataInv
  <1>1. outbox # <<>> /\ learner = "acting" /\ task # "train" /\ TakeStep /\ learner' = "ready" /\ task' = task
    BY DEF ScoreStep
  <1>2. /\ Live /\ Answered /\ step' = env /\ outbox' = <<>>
        /\ UNCHANGED <<env, mode, pc, hungUp>>
    BY <1>1, Learns
  <1>3. ended' = ended
    BY <1>1 DEF TakeStep, poolVars
  <1>4. outbox = <<[shows |-> env, ended |-> ended]>>
    BY <1>2 DEF Answered
  <1>5. Head(outbox).ended = ended
    <2>1. Head(outbox) = [shows |-> env, ended |-> ended]
      BY <1>4, Queues
    <2>2. QED
      BY <2>1
  <1>6. Playing /\ Behind
    BY <1>1, <1>2 DEF ScoreInv, Playing
  <1> DEFINE told == Head(outbox).ended
             done == DOMAIN told
             new == {e \in done : Reported(e)}
             seeds == {told[e].seed : e \in new}
             first(i) == CHOOSE e \in new : told[e].seed = i
  <1>7. /\ finished' = [i \in seeds \cup DOMAIN finished |->
                          IF i \in DOMAIN finished THEN finished[i] ELSE Result(first(i))]
        /\ counted' = [e \in Envs |-> IF e \in done THEN 0 ELSE counted[e] + 1]
    BY DEF ScoreStep
  <1>t. told = ended /\ done = DOMAIN ended
    BY <1>5
  <1> HIDE DEF told
  <1>8. ASSUME NEW e \in done
        PROVE  /\ ended[e].seed = ended[e].info.seed /\ Sound(ended[e].info)
               /\ ended[e].seed = NoSeed \/ ended[e].seed \in Seeds
               /\ Reported(e) <=> ended[e].seed \in Seeds /\ ended[e].seed \notin DOMAIN finished
    <2>1. ended[e] = [seed |-> ended[e].info.seed, info |-> ended[e].info] /\ Sound(ended[e].info)
      BY <1>t DEF PoolInv
    <2>2. ended[e].seed = ended[e].info.seed
      BY <2>1
    <2>3. ended[e].seed = NoSeed \/ ended[e].seed \in Seeds
      BY <2>1, <2>2 DEF Sound, Seeded
    <2>4. NoSeed \notin Nat /\ \A i \in Seeds : i \in Nat /\ i < Episodes
      BY PoolAssumption, EvaluationAssumption DEF Seeds
    <2>5. QED
      BY <1>5, <2>1, <2>2, <2>3, <2>4 DEF Reported
  <1>9. ASSUME NEW i \in seeds
        PROVE  /\ first(i) \in done /\ ended[first(i)].seed = i
    <2>1. \E e \in new : told[e].seed = i
      OBVIOUS
    <2>2. first(i) \in new /\ told[first(i)].seed = i
      BY <2>1
    <2>3. QED
      BY <1>t, <2>2
  <1> HIDE DEF first
  <1>10. ASSUME NEW e \in done
         PROVE  LET r == Result(e)
                IN  /\ r.info = ended[e].info
                    /\ r.casting = ended[e].info.character.casting
                    /\ r.counted = ended[e].info.decisions
    <2>1. Result(e) = [casting |-> step[e].character.casting, counted |-> counted[e] + 1, info |-> ended[e].info]
      BY <1>5 DEF Result, CastingShown
    <2>2. ended[e].info.decisions = counted[e] + 1 /\ ended[e].info.character = step[e].character
      BY <1>6, <1>t DEF Behind
    <2>3. QED
      BY <2>1, <2>2
  <1>11. ASSUME NEW i \in DOMAIN finished'
         PROVE  /\ Scored(i)'
                /\ \/ i \in DOMAIN finished /\ finished'[i] = finished[i]
                   \/ i \notin DOMAIN finished /\ \E e \in DOMAIN ended : finished'[i].info = ended[e].info
    <2>1. CASE i \in DOMAIN finished
      <3>1. finished'[i] = finished[i]
        BY <1>7, <2>1
      <3>2. Scored(i)'
        BY <2>1, <3>1 DEF ScoreInv, Scored
      <3>3. QED
        BY <2>1, <3>1, <3>2
    <2>2. CASE i \notin DOMAIN finished
      <3>1. i \in seeds /\ finished'[i] = Result(first(i))
        BY <1>7, <2>2
      <3>2. first(i) \in done /\ ended[first(i)].seed = i
        BY <1>9, <3>1
      <3>3. PICK e \in done : e = first(i)
        BY <3>2
      <3>4. PICK r : r = Result(e)
        OBVIOUS
      <3>5. /\ r.info = ended[e].info
            /\ r.casting = ended[e].info.character.casting
            /\ r.counted = ended[e].info.decisions
        BY <1>10, <3>4
      <3>6. Sound(ended[e].info) /\ ended[e].info.seed = i
        BY <1>8, <3>2, <3>3
      <3>7. finished'[i] = r
        BY <3>1, <3>3, <3>4
      <3>8. Scored(i)'
        BY <3>5, <3>6, <3>7 DEF Scored
      <3>9. e \in DOMAIN ended /\ finished'[i].info = ended[e].info
        BY <1>t, <3>5, <3>7
      <3>10. QED
        BY <2>2, <3>8, <3>9
    <2>3. QED
      BY <2>1, <2>2
  <1>12. counted' = [e \in Envs |-> env[e].decisions]
    <2>1. ASSUME NEW e \in Envs
          PROVE  env[e].decisions = IF e \in done THEN 0 ELSE counted[e] + 1
      BY <1>6, <1>t DEF Behind
    <2>2. QED
      BY <1>7, <2>1
  <1>13. InStep'
    BY <1>2, <1>12 DEF InStep
  <1>14. mode'.evaluating
    BY <1>2, <1>6 DEF ScoreInv
  <1>15. ScoreInv'
    BY <1>2, <1>11, <1>13, <1>14 DEF ScoreInv
  <1>16. DOMAIN finished' = DOMAIN finished \cup {ended[e].seed : e \in {e \in DOMAIN ended : ended[e].seed \in Seeds}}
    <2>1. DOMAIN finished' = seeds \cup DOMAIN finished
      BY <1>7
    <2>2. \A e \in done : Reported(e) <=> ended[e].seed \in Seeds /\ ended[e].seed \notin DOMAIN finished
      BY <1>8
    <2>3. seeds \cup DOMAIN finished
            = DOMAIN finished \cup {ended[e].seed : e \in {e \in DOMAIN ended : ended[e].seed \in Seeds}}
      BY <1>t, <2>2
    <2>4. QED
      BY <2>1, <2>3
  <1>17. QED
    BY <1>1, <1>2, <1>3, <1>6, <1>11, <1>12, <1>15, <1>16

LEMMA LearnerScores ==
    ASSUME IInv, DataInv, Learner \/ Connect \/ Die \/ Finish
    PROVE  ScoreInv'
  <1> USE DEF IInv, DataInv
  <1>1. CASE ReceiveStep
    <2>1. outbox # <<>> /\ TakeStep /\ learner' = "ready" /\ UNCHANGED <<task, finished, counted>>
      BY <1>1 DEF ReceiveStep
    <2>2. /\ Live /\ Answered /\ step' = env /\ outbox' = <<>>
          /\ UNCHANGED <<env, mode, pc, hungUp>>
      BY <2>1, Learns
    <2>3. CASE task = "train"
      BY <2>1, <2>3, ScoreIdle DEF Playing
    <2>4. CASE task # "train"
      <3>1. learner = "entering"
        BY <1>1, <2>4 DEF ReceiveStep, Connection
      <3>2. Playing /\ Entered
        BY <2>1, <2>2, <2>4, <3>1 DEF ScoreInv, Playing
      <3>3. counted = Zero
        BY <3>1 DEF LearnerInv
      <3>4. InStep'
        BY <2>1, <2>2, <3>2, <3>3 DEF InStep, Entered, Zero
      <3>5. \A i \in DOMAIN finished' : Scored(i)'
        BY <2>1 DEF ScoreInv, Scored
      <3>6. QED
        BY <2>2, <3>2, <3>4, <3>5 DEF ScoreInv
    <2>5. QED
      BY <2>3, <2>4
  <1>2. CASE ScoreStep
    BY <1>2, ScoringKeeps
  <1>3. CASE EvaluateOn
    <2>1. /\ learner = "ready" /\ learner' = "acting"
          /\ UNCHANGED <<env, step, counted, finished, mode, ended, outbox, pc, hungUp, task>>
      BY <1>3 DEF EvaluateOn, poolVars
    <2>2. Playing' => Playing
      BY <2>1 DEF Playing, Live
    <2>3. QED
      BY <2>1, <2>2, ScoreStays
  <1>4. ASSUME NEW t, Enter(t), learner \in {"ready", "left"}
        PROVE  ScoreInv'
    <2>1. finished' = <<>> /\ learner' = "entering" /\ outbox' = outbox
      BY <1>4 DEF Enter
    <2>2. outbox = <<>>
      BY <1>4, Connected DEF Holding
    <2>3. ~Answered'
      <3>1. PICK x : x = [shows |-> env, ended |-> ended]'
        OBVIOUS
      <3>2. <<x>> # <<>>
        BY Queues
      <3>3. QED
        BY <2>1, <2>2, <3>1, <3>2 DEF Answered
    <2>4. QED
      BY <2>1, <2>3, ScoreIdle DEF Playing
  <1>5. CASE Evaluate
    BY <1>4, <1>5 DEF Evaluate
  <1>6. CASE EvaluateNext
    BY <1>4, <1>6 DEF EvaluateNext
  <1>7. CASE TrainOn \/ Leave \/ ReceiveLeft \/ SendReplay
    <2>1. finished' = finished \/ finished' = <<>>
      BY <1>7 DEF TrainOn, Leave, ReceiveLeft, SendReplay
    <2>2. learner' \in {"leaving", "left"} \/ task' = "train"
      BY <1>7 DEF TrainOn, Leave, ReceiveLeft, SendReplay
    <2>3. QED
      BY <2>1, <2>2, ScoreIdle DEF Playing
  <1>8. CASE LoseSim \/ Die \/ Finish
    BY <1>8, ScoreIdle DEF LoseSim, Die, Finish, Leaves, Playing
  <1>9. CASE Connect
    BY <1>9, ScoreIdle DEF Connect, Playing
  <1>10. QED
    BY <1>1, <1>2, <1>3, <1>5, <1>6, <1>7, <1>8, <1>9 DEF Learner

\* An evaluation's budget of decisions is a number.
LEMMA Budget == MaxDecisions \in Nat
  <1>1. Episodes + NumEnvs - 1 \in Nat /\ NumEnvs \in Nat \ {0} /\ PerEpisode \in Nat
    BY PoolAssumption, EvaluationAssumption
  <1>2. (Episodes + NumEnvs - 1) \div NumEnvs \in Nat
    BY <1>1
  <1>3. PICK n \in Nat : n = (Episodes + NumEnvs - 1) \div NumEnvs + 2
    BY <1>2
  <1>4. PerEpisode * n \in Nat
    BY <1>1
  <1>5. QED
    BY <1>3, <1>4 DEF MaxDecisions

\* The learner's own counters.
LEMMA LearnerKept ==
    ASSUME IInv, DataInv, Learner \/ Connect \/ Die \/ Finish
    PROVE  LearnerInv'
  <1> USE DEF IInv, DataInv
  <1>0. /\ Zero \in [Envs -> 0 .. EpisodeDecisions - 1] /\ 0 \in 0 .. MaxDecisions
        /\ DOMAIN <<>> = {}
    BY Budget, PoolAssumption DEF Zero
  <1>b. backlog' \in {"none", "alive", "dead"}
    BY DEF LearnerInv, Learner, ReceiveStep, ScoreStep, TrainOn, Evaluate, EvaluateOn, Leave, ReceiveLeft,
           EvaluateNext, SendReplay, LoseSim, Connect, Die, Finish, Leaves, Enter, TakeStep, simVars
  <1>1. CASE ReceiveStep
    <2>1. /\ TakeStep /\ learner' = "ready" /\ UNCHANGED <<task, finished, counted, decisions, cached>>
          /\ UNCHANGED <<session, opponents, lost>>
          /\ \/ learner \in {"awaiting", "entering"}
             \/ learner = "acting" /\ task = "train"
      BY <1>1 DEF ReceiveStep, TakeStep
    <2>2. QED
      BY <1>b, <2>1 DEF LearnerInv
  <1>2. CASE ScoreStep
    <2>1. /\ learner' = "ready" /\ UNCHANGED <<task, session, opponents, lost, cached>>
          /\ decisions' = decisions + 1 /\ learner = "acting" /\ task # "train"
      BY <1>2 DEF ScoreStep, TakeStep
    <2>2. decisions' \in 0 .. MaxDecisions
      BY <2>1, Budget DEF LearnerInv
    <2>3. counted' = [e \in Envs |-> env[e].decisions] /\ DOMAIN finished' \subseteq Seeds
      BY <1>2, ScoringKeeps DEF LearnerInv
    <2>4. \A e \in Envs : env[e].decisions \in 0 .. EpisodeDecisions - 1
      BY PoolAssumption DEF PoolInv, Sound, EpisodeRecords
    <2>5. counted' \in [Envs -> 0 .. EpisodeDecisions - 1]
      BY <2>3, <2>4
    <2>6. QED
      BY <1>b, <2>1, <2>2, <2>3, <2>5 DEF LearnerInv
  <1>3. CASE EvaluateOn \/ TrainOn
    <2>1. /\ learner = "ready" /\ learner' = "acting"
          /\ UNCHANGED <<task, session, opponents, lost, cached, finished, counted, decisions>>
          /\ task # "train" => decisions < MaxDecisions
      BY <1>3 DEF EvaluateOn, TrainOn, LoopsOn
    <2>2. QED
      BY <1>b, <2>1 DEF LearnerInv
  <1>4. ASSUME NEW t, Enter(t), t \in Evaluations
        PROVE  LearnerInv'
    <2>1. /\ learner' = "entering" /\ task' = t /\ finished' = <<>> /\ counted' = Zero /\ decisions' = 0
          /\ UNCHANGED <<session, opponents, lost, cached>>
      BY <1>4 DEF Enter
    <2>2. QED
      BY <1>b, <1>0, <1>4, <2>1 DEF LearnerInv
  <1>5. CASE Evaluate
    BY <1>4, <1>5 DEF Evaluate, Evaluations
  <1>6. CASE EvaluateNext
    BY <1>4, <1>6 DEF EvaluateNext
  <1>7. CASE Leave
    <2>1. /\ learner' = "leaving" /\ finished' = <<>> /\ counted' = Zero /\ decisions' = 0
          /\ UNCHANGED <<session, opponents, task, cached>>
          /\ lost' \subseteq DOMAIN finished \/ lost' = lost
      BY <1>7 DEF Leave
    <2>2. lost' \subseteq Seeds
      BY <2>1 DEF LearnerInv
    <2>3. QED
      BY <1>b, <1>0, <2>1, <2>2 DEF LearnerInv
  <1>8. CASE ReceiveLeft
    <2>1. /\ learner = "leaving" /\ learner' = "left" /\ UNCHANGED <<task, finished, counted, decisions>>
          /\ UNCHANGED <<session, opponents, lost>> /\ cached' = (cached \/ task = "baseline")
      BY <1>8 DEF ReceiveLeft, TakeStep
    <2>2. cached' \in BOOLEAN
      BY <2>1
    <2>3. QED
      BY <1>b, <2>1, <2>2 DEF LearnerInv
  <1>9. CASE SendReplay
    <2>1. /\ learner = "left" /\ learner' = "ready" /\ task' = "train" /\ lost' = {}
          /\ UNCHANGED <<session, opponents, finished, counted, decisions, cached>>
      BY <1>9 DEF SendReplay
    <2>2. QED
      BY <1>b, <2>1 DEF LearnerInv
  <1>10. CASE LoseSim \/ Die \/ Finish
    <2>1. /\ learner' = "gone" /\ task' = "train" /\ finished' = <<>> /\ counted' = Zero /\ decisions' = 0
          /\ lost' = {} /\ UNCHANGED <<session, opponents, cached>>
      BY <1>10 DEF LoseSim, Die, Finish, Leaves
    <2>2. QED
      BY <1>b, <1>0, <2>1 DEF LearnerInv
  <1>11. CASE Connect
    <2>1. /\ learner = "gone" /\ learner' = "awaiting" /\ task' = "train" /\ session' = 1 - session
          /\ opponents' \in Opponents /\ UNCHANGED <<finished, counted, decisions, lost, cached>>
      BY <1>11 DEF Connect
    <2>2. session' \in {0, 1}
      BY <2>1 DEF LearnerInv
    <2>3. QED
      BY <1>b, <2>1, <2>2 DEF LearnerInv
  <1>12. QED
    BY <1>1, <1>2, <1>3, <1>5, <1>6, <1>7, <1>8, <1>9, <1>10, <1>11 DEF Learner

-----------------------------------------------------------------------------
LEMMA DataStarts == Init => DataInv
  <1> SUFFICES ASSUME Init
               PROVE  DataInv
    OBVIOUS
  <1>1. /\ env = [e \in Envs |-> [Episode([casting |-> 0, from |-> Drawn, episodes |-> 0],
                                          Drawn, NoSeed, Training, FALSE) EXCEPT !.fresh = TRUE]]
        /\ mode = Training /\ replay = NoReplay /\ ended = <<>>
        /\ pc = "accept" /\ inbox = <<>>
        /\ backlog = "none" /\ session = 0 /\ learner = "gone" /\ opponents \in Opponents /\ task = "train"
        /\ finished = <<>> /\ counted = Zero /\ decisions = 0 /\ lost = {} /\ cached = FALSE
    BY DEF Init, PoolInit
  <1>2. PICK c : c = [casting |-> 0, from |-> Drawn, episodes |-> 0]
    OBVIOUS
  <1>3. PICK x : x = [Episode(c, Drawn, NoSeed, Training, FALSE) EXCEPT !.fresh = TRUE]
    OBVIOUS
  <1>4. c \in Characters
    <2>1. Drawn \in Builds /\ 0 \in Castings /\ 0 \in 0 .. ReuseEpisodes
      BY PoolAssumption DEF Builds, Castings
    <2>2. QED
      BY <1>2, <2>1 DEF Characters
  <1>5. x = [character |-> c, build |-> Drawn, seed |-> NoSeed, evaluating |-> FALSE, fresh |-> TRUE,
             failed |-> FALSE, decisions |-> 0, players |-> {}]
    BY <1>3, FreshStart DEF Episode
  <1>6. Sound(x) /\ x.decisions < EpisodeDecisions
    <2>1. Drawn \in Builds /\ 0 \in 0 .. EpisodeDecisions /\ 0 < EpisodeDecisions
      BY PoolAssumption DEF Builds
    <2>2. x \in EpisodeRecords
      BY <1>4, <1>5, <2>1 DEF EpisodeRecords
    <2>3. x.seed = NoSeed /\ x.build = Drawn /\ x.failed = FALSE /\ x.decisions = 0
      BY <1>5
    <2>4. QED
      BY <2>1, <2>2, <2>3 DEF Sound, Seeded
  <1>7. PoolInv
    <2>1. env = [e \in Envs |-> x]
      BY <1>1, <1>2, <1>3
    <2>2. DOMAIN ended = {}
      BY <1>1
    <2>3. QED
      BY <1>1, <1>6, <2>1, <2>2, FreshStart DEF PoolInv
  <1>8. MessageInv
    BY <1>1 DEF MessageInv, Messages, Live
  <1>9. LearnerInv
    <2>1. Zero \in [Envs -> 0 .. EpisodeDecisions - 1] /\ 0 \in 0 .. MaxDecisions /\ DOMAIN <<>> = {}
      BY Budget, PoolAssumption DEF Zero
    <2>2. QED
      BY <1>1, <2>1 DEF LearnerInv
  <1>10. ScoreInv
    BY <1>1 DEF ScoreInv, Playing, Live
  <1>11. QED
    BY <1>7, <1>8, <1>9, <1>10 DEF DataInv

LEMMA DataKeeps ==
    ASSUME IInv, DataInv, Next
    PROVE  DataInv'
  <1>1. CASE Sim
    <2>1. PoolInv' /\ MessageInv' /\ ScoreInv'
      BY <1>1, PoolKeeps, SimMessages, SimScores DEF DataInv, MessageInv
    <2>2. /\ UNCHANGED <<session, learner, opponents, task, finished, counted, decisions, lost, cached>>
          /\ backlog' \in {backlog, "none"}
      BY <1>1 DEF Sim, AcceptClient, AcceptDead, Decide, ReceiveAct, ReceiveMode, ReceiveUnknownPolicy,
                  ReceiveReplay, ReceiveClose, ReceiveNothing, learnerVars
    <2>3. LearnerInv'
      BY <2>2 DEF DataInv, LearnerInv
    <2>4. QED
      BY <2>1, <2>3 DEF DataInv
  <1>2. CASE Learner \/ Connect \/ Die \/ Finish
    <2>1. MessageInv' /\ LearnerInv' /\ ScoreInv'
      BY <1>2, LearnerMessages, LearnerKept, LearnerScores DEF DataInv
    <2>2. UNCHANGED <<env, mode, replay, ended, pc>>
      BY <1>2 DEF Learner, ReceiveStep, ScoreStep, TrainOn, Evaluate, EvaluateOn, Leave, ReceiveLeft, EvaluateNext,
                  SendReplay, LoseSim, Connect, Die, Finish, Leaves, Enter, TakeStep, poolVars, simVars
    <2>3. PoolInv'
      BY <2>2 DEF DataInv, PoolInv
    <2>4. QED
      BY <2>1, <2>3 DEF DataInv
  <1>3. QED
    BY <1>1, <1>2 DEF Next

\* What the pool, the messages and the learner's scores are in every state the
\* decision loop (Forge::RemoteDecision) and run_evaluation can reach.
THEOREM DataInvariant == Spec => [](IInv /\ DataInv)
  <1>1. Init => DataInv
    BY DataStarts
  <1>2. IInv /\ DataInv /\ [Next]_vars => DataInv'
    <2> SUFFICES ASSUME IInv, DataInv, [Next]_vars
                 PROVE  DataInv'
      OBVIOUS
    <2>1. CASE Next
      BY <2>1, DataKeeps
    <2>2. CASE UNCHANGED vars
      <3>1. /\ UNCHANGED <<env, mode, replay, ended, pc, backlog, inbox, hungUp, outbox, session, learner>>
            /\ UNCHANGED <<opponents, task, step, finished, counted, decisions, lost, cached>>
        BY <2>2 DEF vars, poolVars, simVars, learnerVars
      <3>2. PoolInv'
        BY <3>1 DEF DataInv, PoolInv
      <3>3. MessageInv'
        BY <3>1 DEF DataInv, MessageInv, Live, Messages, ModeOf
      <3>4. LearnerInv'
        BY <3>1 DEF DataInv, LearnerInv
      <3>5. ScoreInv'
        <4>1. Playing' = Playing
          BY <3>1 DEF Playing, Live, Answered
        <4>2. QED
          BY <3>1, <4>1, ScoreStays DEF DataInv
      <3>6. QED
        BY <3>2, <3>3, <3>4, <3>5 DEF DataInv
    <2>3. QED
      BY <2>1, <2>2
  <1>3. QED
    BY <1>1, <1>2, ConnectionInvariant, PTL DEF Spec

\* No queue of the connection, no count and no episode outgrows its bounds,
\* and every seed scored or lost is one of the evaluation's.
THEOREM TypesHold == Spec => []TypeOK
  <1>1. IInv /\ DataInv => TypeOK
    <2> SUFFICES ASSUME IInv, DataInv
                 PROVE  TypeOK
      OBVIOUS
    <2>1. PoolTypeOK
      <3>1. env \in [Envs -> {x \in EpisodeRecords : x.decisions < EpisodeDecisions}]
        BY DEF DataInv, PoolInv, Sound
      <3>2. ASSUME NEW e \in DOMAIN ended
            PROVE  ended[e] \in [seed : Nat \cup {NoSeed}, info : EpisodeRecords]
        <4>1. PICK x : x = ended[e].info
          OBVIOUS
        <4>2. ended[e] = [seed |-> x.seed, info |-> x] /\ x \in EpisodeRecords
          BY <4>1 DEF DataInv, PoolInv, Sound
        <4>3. x.seed \in Nat \cup {NoSeed}
          BY <4>2 DEF EpisodeRecords
        <4>4. QED
          BY <4>2, <4>3
      <3>3. QED
        BY <3>1, <3>2 DEF PoolTypeOK, DataInv, PoolInv, SoundMode, SoundReplay
    <2>2. Len(outbox) <= 1
      <3>1. outbox = <<>> \/ \E x : outbox = <<x>>
        BY DEF IInv, Connection, Turn, Answered, Requested, Applied, Holding
      <3>2. \A x : Len(<<x>>) = 1 /\ Len(<<>>) = 0
        OBVIOUS
      <3>3. Len(outbox) = 0 \/ Len(outbox) = 1
        BY ONLY <3>1, <3>2, Zenon
      <3>4. QED
        BY <3>3
    <2>3. Len(inbox) <= 3
      <3>1. \/ inbox = <<>>
            \/ \E a : inbox = <<a>>
            \/ \E a, b : inbox = <<a, b>>
            \/ \E a, b, c : inbox = <<a, b, c>>
        BY DEF IInv, Connection, Unread, LastSent, LastWords
      <3>2. \A a, b, c : Len(<<a>>) = 1 /\ Len(<<a, b>>) = 2 /\ Len(<<a, b, c>>) = 3 /\ Len(<<>>) = 0
        OBVIOUS
      <3>3. Len(inbox) = 0 \/ Len(inbox) = 1 \/ Len(inbox) = 2 \/ Len(inbox) = 3
        BY ONLY <3>1, <3>2, Zenon
      <3>4. \A n : n = 0 \/ n = 1 \/ n = 2 \/ n = 3 => n <= 3
        OBVIOUS
      <3>5. QED
        BY ONLY <3>3, <3>4, Zenon
    <2>4. QED
      BY <2>1, <2>2, <2>3 DEF TypeOK, IInv, Connection, DataInv, LearnerInv, Seeds
  <1>2. QED
    BY <1>1, DataInvariant, PTL

\* An accepted learner's episodes replay none but the seeds it sent itself, and
\* rebuild them with the base it evaluated with (AcceptClient clears SetReplay).
THEOREM ReplaysAreOwn == Spec => []ReplaysAreThisLearners
  <1>1. IInv /\ DataInv => ReplaysAreThisLearners
    <2> SUFFICES ASSUME IInv, DataInv, Accepted
                 PROVE  /\ replay.seeds # {} => replay.by = session
                        /\ \A e \in Envs : env[e].build # Drawn => env[e].build[1] = SeedBase
      BY DEF ReplaysAreThisLearners
    <2>1. Live
      BY DEF Accepted, Live, IInv, Connection
    <2>2. replay.seeds # {} => replay.by = session
      BY <2>1 DEF DataInv, MessageInv
    <2>3. \A e \in Envs : env[e].build # Drawn => env[e].build[1] = SeedBase
      BY DEF DataInv, PoolInv, Sound
    <2>4. QED
      BY <2>2, <2>3
  <1>2. QED
    BY <1>1, DataInvariant, PTL

\* Every seed that was scored was played by the pair it stands for and by a
\* character built from it, unless its character could not be built: then the
\* characters of the episode before end it at once (Rebuild, BuildFailed).
THEOREM SeedsPlayTheirPairs ==
    Spec => [](\A i \in DOMAIN finished :
                  \/ finished[i].info.failed
                  \/ /\ finished[i].casting = CastingOf(i)
                     /\ finished[i].info.character.from = <<SeedBase, i>>)
  <1>1. IInv /\ DataInv =>
          \A i \in DOMAIN finished :
             \/ finished[i].info.failed
             \/ /\ finished[i].casting = CastingOf(i)
                /\ finished[i].info.character.from = <<SeedBase, i>>
    <2> SUFFICES ASSUME IInv, DataInv, NEW i \in DOMAIN finished, ~finished[i].info.failed
                 PROVE  /\ finished[i].casting = CastingOf(i)
                        /\ finished[i].info.character.from = <<SeedBase, i>>
      OBVIOUS
    <2>1. Scored(i) /\ i # NoSeed
      BY PoolAssumption DEF DataInv, ScoreInv, LearnerInv, Seeds
    <2>2. QED
      BY <2>1 DEF Scored, Sound, Seeded
  <1>2. QED
    BY <1>1, DataInvariant, PTL

\* So where no build fails, every seed that was scored was played by its pair.
THEOREM PairsWhenBuildsHold == ~BuildsFail => (Spec => []SeedPlaysItsPair)
  <1> SUFFICES ASSUME ~BuildsFail
               PROVE  Spec => []SeedPlaysItsPair
    OBVIOUS
  <1>1. IInv /\ DataInv => SeedPlaysItsPair
    <2> SUFFICES ASSUME IInv, DataInv, NEW i \in DOMAIN finished
                 PROVE  /\ finished[i].casting = CastingOf(i)
                        /\ finished[i].info.character.from = <<SeedBase, i>>
      BY DEF SeedPlaysItsPair
    <2>1. Scored(i) /\ i # NoSeed
      BY PoolAssumption DEF DataInv, ScoreInv, LearnerInv, Seeds
    <2>2. QED
      BY <2>1 DEF Scored, Sound, Seeded
  <1>2. QED
    BY <1>1, DataInvariant, PTL

-----------------------------------------------------------------------------
(***************************************************************************)
(* Each seed is in one place.                                              *)
(***************************************************************************)
LEMMA SeedsStay ==
    ASSUME SeedInv, \A e \in Envs : env'[e].seed = env[e].seed,
           UNCHANGED <<finished, ended, outbox>>, mode'.next = mode.next,
           Playing' => Playing
    PROVE  SeedInv'
  BY DEF SeedInv

\* run_evaluation's set_mode hands the envs the first seeds.
LEMMA SeedsStart ==
    ASSUME NEW m, SoundMode(m), m.evaluating, m.next = 0,
           \A e \in Envs : env'[e].seed = SeedFor(m, Envs, e),
           mode'.next = SeedsLeft(m, Envs), ended' = <<>>, finished' = <<>>
    PROVE  SeedInv'
  <1>1. PICK D \in SUBSET Envs : D = Envs
    OBVIOUS
  <1>2. /\ \A e \in D : SeedFor(m, D, e) = NoSeed \/ SeedFor(m, D, e) \in m.next .. SeedsLeft(m, D) - 1
        /\ \A e, f \in D : SeedFor(m, D, e) = SeedFor(m, D, f) /\ SeedFor(m, D, e) # NoSeed => e = f
        /\ \A k \in m.next .. SeedsLeft(m, D) - 1 : \E e \in D : SeedFor(m, D, e) = k
    BY HandsOut
  <1>3. \A e \in D : env'[e].seed = SeedFor(m, D, e)
    BY <1>1
  <1>4. mode'.next = SeedsLeft(m, D)
    BY <1>1
  <1>5. DOMAIN finished' = {} /\ DOMAIN ended' = {}
    OBVIOUS
  <1>6. \A e \in D : env'[e].seed = NoSeed \/ env'[e].seed \in 0 .. mode'.next - 1
    BY <1>2, <1>3, <1>4
  <1>7. \A e, f \in D : env'[e].seed = env'[f].seed /\ env'[e].seed # NoSeed => e = f
    BY <1>2, <1>3
  <1>8. \A k \in 0 .. mode'.next - 1 : \E e \in D : env'[e].seed = k
    BY <1>2, <1>3, <1>4
  <1>9. QED
    BY <1>1, <1>5, <1>6, <1>7, <1>8 DEF SeedInv

\* A decision: what ended goes on its way, and the envs take the next seeds.
LEMMA SeedsMove ==
    ASSUME SeedInv, Playing, outbox = <<>>, SoundMode(mode), mode.evaluating,
           NEW D \in SUBSET Envs, Collected(D), outbox' # <<>>, finished' = finished
    PROVE  SeedInv'
  <1> DEFINE next == mode.next
             left == mode'.next
             was(e) == env[e].seed
             is(e) == env'[e].seed
  <1>1. /\ next \in Nat /\ left \in next .. Episodes /\ Episodes \in Nat /\ NoSeed \notin Nat
        /\ \A e \in D : is(e) = NoSeed \/ is(e) \in next .. left - 1
        /\ \A e, f \in D : is(e) = is(f) /\ is(e) # NoSeed => e = f
        /\ \A k \in next .. left - 1 : \E e \in D : is(e) = k
    <2>1. /\ SeedsLeft(mode, D) \in next .. Episodes
          /\ \A e \in D : SeedFor(mode, D, e) = NoSeed \/ SeedFor(mode, D, e) \in next .. SeedsLeft(mode, D) - 1
          /\ \A e, f \in D : SeedFor(mode, D, e) = SeedFor(mode, D, f) /\ SeedFor(mode, D, e) # NoSeed => e = f
          /\ \A k \in next .. SeedsLeft(mode, D) - 1 : \E e \in D : SeedFor(mode, D, e) = k
      BY HandsOut
    <2>2. left = SeedsLeft(mode, D) /\ \A e \in D : is(e) = SeedFor(mode, D, e)
      BY DEF Collected, Begun
    <2>3. next \in Nat /\ Episodes \in Nat /\ NoSeed \notin Nat
      BY PoolAssumption, EvaluationAssumption DEF SoundMode, Modes
    <2> HIDE DEF next, left, is
    <2>4. QED
      BY <2>1, <2>2, <2>3
  <1>2. /\ \A e \in Envs : was(e) = NoSeed \/ (was(e) \in 0 .. next - 1 /\ was(e) \notin DOMAIN finished)
        /\ \A e, f \in Envs : was(e) = was(f) /\ was(e) # NoSeed => e = f
        /\ DOMAIN finished \subseteq 0 .. next - 1
        /\ \A i \in 0 .. next - 1 : i \in DOMAIN finished \/ \E e \in Envs : was(e) = i
    BY DEF SeedInv
  <1>3. /\ \A e \in Envs \ D : is(e) = was(e)
        /\ DOMAIN ended' = D /\ \A e \in D : ended'[e].seed = was(e)
    BY DEF Collected
  <1> HIDE DEF next, left, was, is
  <1>4. \A e \in Envs : is(e) = NoSeed \/ (is(e) \in 0 .. left - 1 /\ is(e) \notin DOMAIN finished)
    BY <1>1, <1>2, <1>3
  <1>5. ASSUME NEW e \in Envs, NEW f \in Envs, is(e) = is(f), is(e) # NoSeed
        PROVE  e = f
    <2>1. CASE e \in D /\ f \in D
      BY <1>1, <1>5, <2>1
    <2>2. CASE e \notin D /\ f \notin D
      BY <1>2, <1>3, <1>5, <2>2
    <2>3. CASE e \in D /\ f \notin D
      <3>1. is(e) \in next .. left - 1 /\ is(f) \in 0 .. next - 1
        BY <1>1, <1>2, <1>3, <1>5, <2>3
      <3>2. QED
        BY <1>1, <1>5, <3>1
    <2>4. CASE e \notin D /\ f \in D
      <3>1. is(f) \in next .. left - 1 /\ is(e) \in 0 .. next - 1
        BY <1>1, <1>2, <1>3, <1>5, <2>4
      <3>2. QED
        BY <1>1, <1>5, <3>1
    <2>5. QED
      BY <2>1, <2>2, <2>3, <2>4
  <1>6. DOMAIN finished \subseteq 0 .. left - 1
    BY <1>1, <1>2
  <1>7. ASSUME NEW e \in D
        PROVE  \/ was(e) = NoSeed
               \/ /\ was(e) \in 0 .. left - 1 /\ was(e) \notin DOMAIN finished
                  /\ \A f \in Envs : was(e) # is(f)
    <2>1. CASE was(e) # NoSeed
      <3>1. was(e) \in 0 .. next - 1 /\ was(e) \notin DOMAIN finished
        BY <1>2, <2>1
      <3>2. was(e) \in 0 .. left - 1
        BY <1>1, <3>1
      <3>3. ASSUME NEW f \in Envs, was(e) = is(f)
            PROVE  FALSE
        <4>1. CASE f \in D
          BY <1>1, <2>1, <3>1, <3>3, <4>1
        <4>2. CASE f \notin D
          BY <1>2, <1>3, <2>1, <3>3, <4>2
        <4>3. QED
          BY <4>1, <4>2
      <3>4. QED
        BY <3>1, <3>2, <3>3
    <2>2. QED
      BY <2>1
  <1>8. ASSUME NEW i \in 0 .. left - 1
        PROVE  \/ i \in DOMAIN finished
               \/ \E e \in Envs : is(e) = i
               \/ \E e \in D : was(e) = i
    <2>1. CASE i \in 0 .. next - 1
      BY <1>2, <1>3, <2>1
    <2>2. CASE i \in next .. left - 1
      BY <1>1, <2>2
    <2>3. QED
      BY <1>1, <2>1, <2>2
  <1>9. \A e, f \in D : was(e) = was(f) /\ was(e) # NoSeed => e = f
    BY <1>2
  <1>10. SeedInv'
    <2>1. /\ \A e \in Envs : \/ env'[e].seed = NoSeed
                             \/ env'[e].seed \in 0 .. mode'.next - 1 /\ env'[e].seed \notin DOMAIN finished'
          /\ \A e, f \in Envs : env'[e].seed = env'[f].seed /\ env'[e].seed # NoSeed => e = f
          /\ DOMAIN finished' \subseteq 0 .. mode'.next - 1
      BY <1>4, <1>5, <1>6 DEF is, left
    <2>2. ASSUME NEW e \in DOMAIN ended'
          PROVE  \/ ended'[e].seed = NoSeed
                 \/ /\ ended'[e].seed \in 0 .. mode'.next - 1 /\ ended'[e].seed \notin DOMAIN finished'
                    /\ \A f \in Envs : ended'[e].seed # env'[f].seed
      BY <1>3, <1>7 DEF is, left
    <2>3. \A e, f \in DOMAIN ended' : ended'[e].seed = ended'[f].seed /\ ended'[e].seed # NoSeed => e = f
      BY <1>3, <1>9
    <2>4. ASSUME NEW i \in 0 .. mode'.next - 1
          PROVE  \/ i \in DOMAIN finished'
                 \/ \E e \in Envs : env'[e].seed = i
                 \/ outbox' # <<>> /\ \E e \in DOMAIN ended' : ended'[e].seed = i
      <3>1. CASE \E e \in D : was(e) = i
        BY <1>3, <3>1
      <3>2. CASE i \in DOMAIN finished \/ \E e \in Envs : is(e) = i
        BY <3>2 DEF is
      <3>3. QED
        BY <1>8, <3>1, <3>2 DEF left
    <2>5. QED
      BY <2>1, <2>2, <2>3, <2>4 DEF SeedInv
  <1>11. QED
    BY <1>10

LEMMA SimSeeds ==
    ASSUME IInv, DataInv, SeedInv, Sim
    PROVE  SeedInv'
  <1> USE DEF IInv, DataInv
  <1>1. UNCHANGED <<learner, task, finished>>
    BY DEF Sim, AcceptClient, AcceptDead, Decide, ReceiveAct, ReceiveMode, ReceiveUnknownPolicy, ReceiveReplay,
           ReceiveClose, ReceiveNothing, learnerVars
  <1>2. ASSUME ~Playing'
        PROVE  SeedInv'
    BY <1>2 DEF SeedInv
  <1>3. CASE AcceptClient
    BY <1>1, <1>2, <1>3 DEF AcceptClient, Connection, Playing
  <1>4. CASE AcceptDead \/ ReceiveUnknownPolicy \/ ReceiveClose \/ ReceiveNothing
    BY <1>2, <1>4 DEF AcceptDead, ReceiveUnknownPolicy, ReceiveClose, ReceiveNothing, DropClient, Live, Playing
  <1>5. CASE Decide
    <2>1. CASE hungUp
      BY <1>2, <1>5, <2>1 DEF Decide, SendStep, DropClient, Live, Playing
    <2>2. CASE ~hungUp
      <3>1. /\ pc = "collect" /\ Live /\ learner = "acting" /\ outbox = <<>>
        BY <1>5, <2>2 DEF Decide, Live, Connection, Turn, Answered, Requested, Applied, Holding
      <3>2. PICK D \in SUBSET Envs : Collected(D)
        BY <1>5, <3>1, Collects DEF Decide
      <3>3. outbox' # <<>>
        BY <1>5, <2>2, <3>1, Sent, Queues DEF Decide
      <3>4. CASE task = "train"
        BY <1>1, <1>2, <3>4 DEF Playing
      <3>5. CASE task # "train"
        <4>1. Playing
          BY <3>1, <3>5 DEF Playing
        <4>2. SoundMode(mode) /\ mode.evaluating
          BY <4>1 DEF PoolInv, ScoreInv
        <4>3. QED
          BY <1>1, <3>1, <3>2, <3>3, <4>1, <4>2, SeedsMove
      <3>6. QED
        BY <3>4, <3>5
    <2>3. QED
      BY <2>1, <2>2
  <1>6. CASE ReceiveAct
    <2>1. /\ pc = "receive" /\ inbox # <<>> /\ Head(inbox).type = "ACT" /\ pc' = "collect"
          /\ ApplyActions(Head(inbox).sent) /\ UNCHANGED <<hungUp, outbox>>
      BY <1>6 DEF ReceiveAct, Receives
    <2>2. CASE Live
      <3>1. learner = "acting"
        BY <2>1, <2>2, Reply DEF IsRequest
      <3>2. Head(inbox).sent \in STRING
        BY <2>1, Takes DEF MessageInv, Wellformed
      <3>3. (\A e \in Envs : env'[e].seed = env[e].seed) /\ mode' = mode /\ ended' = ended
        BY <2>1, <3>2, Acts
      <3>4. Playing' => Playing
        BY <1>1, <2>2, <3>1 DEF Playing
      <3>5. QED
        BY <1>1, <2>1, <3>3, <3>4, SeedsStay
    <2>3. CASE ~Live
      BY <1>2, <2>1, <2>3 DEF Live, Playing
    <2>4. QED
      BY <2>2, <2>3
  <1>7. CASE ReceiveMode
    <2>1. /\ pc = "receive" /\ inbox # <<>> /\ Head(inbox).type = "MODE"
          /\ ResetAll(Head(inbox).mode, replay) /\ SendStep
      BY <1>7 DEF ReceiveMode, Receives
    <2>2. CASE hungUp
      BY <1>2, <2>1, <2>2 DEF SendStep, DropClient, Live, Playing
    <2>3. CASE ~hungUp
      <3>1. Live
        BY <2>1, <2>3 DEF Live
      <3>2. IsRequest(Head(inbox))
        BY <2>1, <3>1, Reply
      <3>3. CASE learner # "entering"
        <4>1. learner = "leaving"
          BY <2>1, <3>2, <3>3 DEF IsRequest
        <4>2. QED
          BY <1>1, <1>2, <4>1 DEF Playing
      <3>4. CASE learner = "entering"
        <4>1. PICK m : m = Head(inbox).mode
          OBVIOUS
        <4>2. m = ModeOf(task) /\ SoundMode(m) /\ m.next = 0
          BY <2>1, <3>1, <3>4, <4>1, Takes DEF MessageInv, Wellformed
        <4>3. m.evaluating
          BY <3>4, <4>2, Requests DEF LearnerInv, Connection
        <4>4. PICK D \in SUBSET Envs : D = Envs
          OBVIOUS
        <4>5. ResetEnvs(D, m, replay, env) /\ ended' = <<>>
          BY <2>1, <4>1, <4>4 DEF ResetAll
        <4>6. \A e \in D : Sound(env[e]) /\ (env[e].fresh => ~m.evaluating)
          BY <2>1, <4>4 DEF PoolInv
        <4>7. SoundReplay(replay)
          BY DEF PoolInv
        <4>8. (\A e \in D : env'[e].seed = SeedFor(m, D, e)) /\ mode'.next = SeedsLeft(m, D)
          BY ONLY <4>2, <4>5, <4>6, <4>7, Resets DEF Begun
        <4>9. (\A e \in Envs : env'[e].seed = SeedFor(m, Envs, e)) /\ mode'.next = SeedsLeft(m, Envs)
          BY <4>4, <4>8
        <4>10. finished' = <<>>
          BY <1>1, <3>4 DEF LearnerInv
        <4>11. QED
          BY <4>2, <4>3, <4>5, <4>9, <4>10, SeedsStart
      <3>5. QED
        BY <3>3, <3>4
    <2>4. QED
      BY <2>2, <2>3
  <1>8. CASE ReceiveReplay
    <2>1. /\ pc = "receive" /\ inbox # <<>> /\ UNCHANGED <<env, mode, ended, pc, hungUp, outbox>>
      BY <1>8 DEF ReceiveReplay, Receives
    <2>2. Live' = Live
      BY <2>1 DEF Live
    <2>3. Live /\ learner = "entering" => outbox = <<>>
      BY <2>1 DEF Connection, Turn, Answered, Requested, Applied
    <2>4. outbox = <<>> => ~Answered'
      <3>1. PICK x : x = [shows |-> env, ended |-> ended]'
        OBVIOUS
      <3>2. <<x>> # <<>>
        BY Queues
      <3>3. QED
        BY <2>1, <3>1, <3>2 DEF Answered
    <2>5. Playing' => Playing
      BY <1>1, <2>2, <2>3, <2>4 DEF Playing
    <2>6. QED
      BY <1>1, <2>1, <2>5, SeedsStay
  <1>9. QED
    BY <1>3, <1>4, <1>5, <1>6, <1>7, <1>8 DEF Sim

LEMMA LearnerSeeds ==
    ASSUME IInv, DataInv, SeedInv, Learner \/ Connect \/ Die \/ Finish
    PROVE  SeedInv'
  <1> USE DEF IInv, DataInv
  <1>1. ASSUME ~Playing'
        PROVE  SeedInv'
    BY <1>1 DEF SeedInv
  <1>2. CASE ReceiveStep
    <2>1. outbox # <<>> /\ TakeStep /\ learner' = "ready" /\ UNCHANGED <<task, finished>>
      BY <1>2 DEF ReceiveStep
    <2>2. /\ Live /\ Answered /\ outbox' = <<>>
          /\ UNCHANGED <<env, mode, pc, hungUp>>
      BY <2>1, Learns
    <2>3. CASE task = "train"
      BY <1>1, <2>1, <2>3 DEF Playing
    <2>4. CASE task # "train"
      <3>1. learner = "entering"
        BY <1>2, <2>4 DEF ReceiveStep, Connection
      <3>2. Playing /\ Entered
        BY <2>1, <2>2, <2>4, <3>1 DEF ScoreInv, Playing
      <3>3. DOMAIN ended = {}
        BY <3>2 DEF Entered
      <3>4. QED
        BY <2>1, <2>2, <3>2, <3>3 DEF SeedInv
    <2>5. QED
      BY <2>3, <2>4
  <1>3. CASE ScoreStep
    <2>1. /\ Playing /\ outbox # <<>> /\ outbox' = <<>>
          /\ UNCHANGED <<env, mode, ended>>
          /\ DOMAIN finished' = DOMAIN finished
               \cup {ended[e].seed : e \in {e \in DOMAIN ended : ended[e].seed \in Seeds}}
      BY <1>3, ScoringKeeps DEF ScoreStep
    <2>2. mode.next \in Nat /\ mode.next <= Episodes /\ NoSeed \notin Nat /\ Episodes \in Nat
      BY <2>1, PoolAssumption, EvaluationAssumption DEF ScoreInv, PoolInv, SoundMode, Modes
    <2>3. \A i : i \in DOMAIN finished' <=> \/ i \in DOMAIN finished
                                            \/ \E e \in DOMAIN ended : ended[e].seed = i /\ i \in Seeds
      BY <2>1
    <2>4. ASSUME NEW e \in Envs, env[e].seed # NoSeed
          PROVE  env[e].seed \in 0 .. mode.next - 1 /\ env[e].seed \notin DOMAIN finished'
      <3>1. env[e].seed \in 0 .. mode.next - 1 /\ env[e].seed \notin DOMAIN finished
        BY <2>1, <2>4 DEF SeedInv
      <3>2. \A f \in DOMAIN ended : ended[f].seed # env[e].seed
        BY <2>1, <2>4 DEF SeedInv
      <3>3. QED
        BY <2>3, <3>1, <3>2
    <2>5. DOMAIN finished' \subseteq 0 .. mode.next - 1
      <3>1. ASSUME NEW e \in DOMAIN ended, ended[e].seed \in Seeds
            PROVE  ended[e].seed \in 0 .. mode.next - 1
        <4>1. ended[e].seed # NoSeed
          BY <2>2, <3>1 DEF Seeds
        <4>2. QED
          BY <2>1, <4>1 DEF SeedInv
      <3>2. QED
        BY <2>1, <2>3, <3>1 DEF SeedInv
    <2>6. ASSUME NEW i \in 0 .. mode.next - 1
          PROVE  i \in DOMAIN finished' \/ \E e \in Envs : env[e].seed = i
      <3>1. i \in Seeds
        BY <2>2 DEF Seeds
      <3>2. \/ i \in DOMAIN finished
            \/ \E e \in Envs : env[e].seed = i
            \/ \E e \in DOMAIN ended : ended[e].seed = i
        BY <2>1 DEF SeedInv
      <3>3. QED
        BY <2>3, <3>1, <3>2
    <2>7. \A e, f \in Envs : env[e].seed = env[f].seed /\ env[e].seed # NoSeed => e = f
      BY <2>1 DEF SeedInv
    <2>8. QED
      BY <2>1, <2>4, <2>5, <2>6, <2>7 DEF SeedInv
  <1>4. CASE EvaluateOn
    <2>1. /\ learner = "ready" /\ learner' = "acting"
          /\ UNCHANGED <<env, finished, mode, ended, outbox, pc, hungUp, task>>
      BY <1>4 DEF EvaluateOn, poolVars
    <2>2. Playing' => Playing
      BY <2>1 DEF Playing, Live
    <2>3. QED
      BY <2>1, <2>2, SeedsStay
  <1>5. ASSUME NEW t, Enter(t), learner \in {"ready", "left"}
        PROVE  SeedInv'
    <2>1. learner' = "entering" /\ outbox' = outbox
      BY <1>5 DEF Enter
    <2>2. outbox = <<>>
      BY <1>5, Connected DEF Holding
    <2>3. ~Answered'
      <3>1. PICK x : x = [shows |-> env, ended |-> ended]'
        OBVIOUS
      <3>2. <<x>> # <<>>
        BY Queues
      <3>3. QED
        BY <2>1, <2>2, <3>1, <3>2 DEF Answered
    <2>4. QED
      BY <1>1, <2>1, <2>3 DEF Playing
  <1>6. CASE Evaluate
    BY <1>5, <1>6 DEF Evaluate
  <1>7. CASE EvaluateNext
    BY <1>5, <1>7 DEF EvaluateNext
  <1>8. CASE TrainOn \/ Leave \/ ReceiveLeft \/ SendReplay
    <2>1. learner' \in {"leaving", "left"} \/ task' = "train"
      BY <1>8 DEF TrainOn, Leave, ReceiveLeft, SendReplay
    <2>2. QED
      BY <1>1, <2>1 DEF Playing
  <1>9. CASE LoseSim \/ Die \/ Finish
    BY <1>1, <1>9 DEF LoseSim, Die, Finish, Leaves, Playing
  <1>10. CASE Connect
    BY <1>1, <1>10 DEF Connect, Playing
  <1>11. QED
    BY <1>2, <1>3, <1>4, <1>6, <1>7, <1>8, <1>9, <1>10 DEF Learner

\* Where every seed of a running evaluation is, in every reachable state.
THEOREM SeedInvariant == Spec => [](IInv /\ DataInv /\ SeedInv)
  <1>1. Init => SeedInv
    BY DEF Init, SeedInv, Playing, Live
  <1>2. IInv /\ DataInv /\ SeedInv /\ [Next]_vars => SeedInv'
    <2> SUFFICES ASSUME IInv, DataInv, SeedInv, [Next]_vars
                 PROVE  SeedInv'
      OBVIOUS
    <2>1. CASE Next
      BY <2>1, SimSeeds, LearnerSeeds DEF Next
    <2>2. CASE UNCHANGED vars
      <3>1. UNCHANGED <<env, mode, ended, pc, inbox, hungUp, outbox, learner, task, finished>>
        BY <2>2 DEF vars, poolVars, simVars, learnerVars
      <3>2. Playing' = Playing
        BY <3>1 DEF Playing, Live, Answered
      <3>3. QED
        BY <3>1, <3>2, SeedsStay
    <2>3. QED
      BY <2>1, <2>2
  <1>3. QED
    BY <1>1, <1>2, DataInvariant, PTL DEF Spec

\* EnvPool::BeginEpisode hands out every seed once, and between the envs, the
\* STEP and the learner's results none is lost or scored twice; every scored
\* episode is a whole one of its seed and layout.
THEOREM EverySeedOnce == Spec => []SeedsScored
  <1>1. IInv /\ DataInv /\ SeedInv => SeedsScored
    <2> SUFFICES ASSUME IInv, DataInv, SeedInv
                 PROVE  NoSeedIsLost /\ ScoredWhole
      BY DEF SeedsScored
    <2>1. ScoredWhole
      <3> SUFFICES ASSUME NEW i \in DOMAIN finished
                   PROVE  /\ finished[i].counted = finished[i].info.decisions
                          /\ finished[i].casting = finished[i].info.character.casting
                          /\ finished[i].info.evaluating
        BY DEF ScoredWhole
      <3>1. Scored(i) /\ i # NoSeed
        BY PoolAssumption DEF DataInv, ScoreInv, LearnerInv, Seeds
      <3>2. QED
        BY <3>1 DEF Scored, Sound, Seeded
    <2>2. ASSUME Scoring, NEW i \in 0 .. Episodes - 1
          PROVE  Cardinality(Places(i)) = IF i < mode.next THEN 1 ELSE 0
      <3> DEFINE played == {<<"played", e>> : e \in {e \in Envs : env[e].seed = i}}
                 reported == UNION {{<<"reported", e>> : e \in {e \in DOMAIN outbox[n].ended : outbox[n].ended[e].seed = i}}
                                      : n \in DOMAIN outbox}
                 scored == {<<"scored", i>> : j \in {i} \cap DOMAIN finished}
      <3>1. Playing
        BY <2>2 DEF Scoring, Playing, DataInv, MessageInv
      <3>2. outbox = <<>> \/ outbox = <<[shows |-> env, ended |-> ended]>>
        BY <3>1 DEF Playing, IInv, Connection, Turn, Answered, Requested, Applied, Holding
      <3>3. \A x : x \in reported <=> /\ outbox # <<>>
                                      /\ \E e \in DOMAIN ended : ended[e].seed = i /\ x = <<"reported", e>>
        <4>1. CASE outbox = <<>>
          <5>1. DOMAIN outbox = {}
            BY <4>1
          <5>2. QED
            BY <4>1, <5>1
        <4>2. CASE outbox = <<[shows |-> env, ended |-> ended]>>
          <5>1. DOMAIN outbox = {1} /\ outbox[1].ended = ended /\ outbox # <<>>
            BY <4>2
          <5>2. QED
            BY <5>1
        <4>3. QED
          BY <3>2, <4>1, <4>2
      <3>4. \A x : x \in played <=> \E e \in Envs : env[e].seed = i /\ x = <<"played", e>>
        OBVIOUS
      <3>5. \A x : x \in scored <=> i \in DOMAIN finished /\ x = <<"scored", i>>
        OBVIOUS
      <3> HIDE DEF played, reported, scored
      <3>6. Places(i) = played \cup reported \cup scored
        BY DEF Places, played, reported, scored
      <3>7. mode.next \in Nat /\ i \in Nat /\ i # NoSeed
        BY PoolAssumption, EvaluationAssumption DEF DataInv, PoolInv, SoundMode, Modes
      <3>8. CASE i < mode.next
        <4>1. i \in 0 .. mode.next - 1
          BY <3>7, <3>8
        <4>2. CASE i \in DOMAIN finished
          <5>1. /\ \A e \in Envs : env[e].seed # i
                /\ outbox # <<>> => \A e \in DOMAIN ended : ended[e].seed # i
            BY <3>1, <3>7, <4>2 DEF SeedInv
          <5>2. Places(i) = {<<"scored", i>>}
            BY <3>3, <3>4, <3>5, <3>6, <4>2, <5>1
          <5>3. QED
            BY <3>8, <5>2, FS_Singleton
        <4>3. ASSUME NEW e \in Envs, env[e].seed = i
              PROVE  Cardinality(Places(i)) = IF i < mode.next THEN 1 ELSE 0
          <5>1. /\ i \notin DOMAIN finished
                /\ \A f \in Envs : env[f].seed = i => f = e
                /\ outbox # <<>> => \A f \in DOMAIN ended : ended[f].seed # i
            BY <3>1, <3>7, <4>3 DEF SeedInv
          <5>2. Places(i) = {<<"played", e>>}
            BY <3>3, <3>4, <3>5, <3>6, <4>3, <5>1
          <5>3. QED
            BY <3>8, <5>2, FS_Singleton
        <4>4. ASSUME outbox # <<>>, NEW e \in DOMAIN ended, ended[e].seed = i
              PROVE  Cardinality(Places(i)) = IF i < mode.next THEN 1 ELSE 0
          <5>1. /\ i \notin DOMAIN finished
                /\ \A f \in Envs : env[f].seed # i
                /\ \A f \in DOMAIN ended : ended[f].seed = i => f = e
            BY <3>1, <3>7, <4>4 DEF SeedInv
          <5>2. Places(i) = {<<"reported", e>>}
            BY <3>3, <3>4, <3>5, <3>6, <4>4, <5>1
          <5>3. QED
            BY <3>8, <5>2, FS_Singleton
        <4>5. QED
          BY <3>1, <4>1, <4>2, <4>3, <4>4 DEF SeedInv
      <3>9. CASE ~(i < mode.next)
        <4>1. i \notin 0 .. mode.next - 1
          BY <3>7, <3>9
        <4>2. /\ i \notin DOMAIN finished
              /\ \A f \in Envs : env[f].seed # i
              /\ outbox # <<>> => \A f \in DOMAIN ended : ended[f].seed # i
          BY <3>1, <3>7, <4>1 DEF SeedInv
        <4>3. Places(i) = {}
          BY <3>3, <3>4, <3>5, <3>6, <4>2
        <4>4. QED
          BY <3>9, <4>3, FS_EmptySet
      <3>10. QED
        BY <3>8, <3>9
    <2>3. NoSeedIsLost
      BY <2>2 DEF NoSeedIsLost
    <2>4. QED
      BY <2>1, <2>3
  <1>2. QED
    BY <1>1, SeedInvariant, PTL

-----------------------------------------------------------------------------
(***************************************************************************)
(* What happens is what was promised (SeededEvaluation), but for an answer *)
(* that comes too early: whether the budget of decisions suffices is a     *)
(* question of time, which the runs answer.                                *)
(***************************************************************************)
Who == PlayersOf(task, opponents)

\* The episodes of an evaluation are played by those it asked for alone.
PlayersInv ==
    /\ task = "baseline" => Baseline # NoPolicy
    /\ \A i \in DOMAIN finished : finished[i].info.players = {Who}
    /\ Playing =>
         /\ Players(mode, SentIn(task)) = Who
         /\ \A e \in Envs : env[e].players \subseteq {Who}
         /\ pc = "collect" => \A e \in Envs : env[e].players = {Who}
         /\ outbox # <<>> /\ learner = "acting" => \A e \in DOMAIN ended : ended[e].info.players = {Who}

\* A mode as run_evaluation sets it has those players, when the learner sends
\* what the evaluation is to send.
LEMMA PlaysAsAsked ==
    ASSUME task \in Evaluations, task = "baseline" => Baseline # NoPolicy
    PROVE  Players(ModeOf(task), SentIn(task)) = Who
  <1>1. CASE task = "baseline"
    <2>1. ModeOf(task).baseline = Baseline /\ ModeOf(task).opponentsOnly = FALSE
      BY <1>1 DEF ModeOf, Evaluation
    <2>2. QED
      BY <1>1, <2>1 DEF Players, Who, PlayersOf
  <1>2. CASE task # "baseline"
    <2>1. SentIn(task) = task /\ task # "train"
      BY <1>2 DEF SentIn, Evaluations
    <2>2. CASE opponents = NoPolicy
      <3>1. ModeOf(task).baseline = NoPolicy
        BY <1>2, <2>2 DEF ModeOf, Evaluation
      <3>2. QED
        BY <1>2, <2>1, <2>2, <3>1 DEF Players, Who, PlayersOf
    <2>3. CASE opponents # NoPolicy
      <3>1. ModeOf(task).baseline = opponents /\ ModeOf(task).opponentsOnly = TRUE
        BY <1>2, <2>3 DEF ModeOf, Evaluation
      <3>2. QED
        BY <1>2, <2>1, <2>3, <3>1 DEF Players, Who, PlayersOf
    <2>4. QED
      BY <2>2, <2>3
  <1>3. QED
    BY <1>1, <1>2

LEMMA PlayersIdle ==
    ASSUME PlayersInv, ~Playing', (finished' = finished /\ UNCHANGED <<task, opponents>>) \/ finished' = <<>>,
           task' = "baseline" => Baseline # NoPolicy
    PROVE  PlayersInv'
  <1>1. \A i \in DOMAIN finished' : finished'[i].info.players = {Who'}
    BY DEF PlayersInv, Who, PlayersOf, SentIn
  <1>2. QED
    BY <1>1 DEF PlayersInv

LEMMA PlayersStay ==
    ASSUME PlayersInv, UNCHANGED <<env, mode, ended, pc, outbox, finished, task, opponents>>,
           Playing' => Playing /\ (outbox # <<>> /\ learner' = "acting" => learner = "acting")
    PROVE  PlayersInv'
  <1>1. Who' = Who /\ Players(mode, SentIn(task))' = Players(mode, SentIn(task))
    BY DEF Who, PlayersOf, SentIn, Players
  <1>2. QED
    BY <1>1 DEF PlayersInv

LEMMA SimPlayers ==
    ASSUME IInv, DataInv, PlayersInv, Sim
    PROVE  PlayersInv'
  <1> USE DEF IInv, DataInv
  <1>1. UNCHANGED <<learner, task, opponents, finished>>
    BY DEF Sim, AcceptClient, AcceptDead, Decide, ReceiveAct, ReceiveMode, ReceiveUnknownPolicy, ReceiveReplay,
           ReceiveClose, ReceiveNothing, learnerVars
  <1>2. ASSUME ~Playing'
        PROVE  PlayersInv'
    BY <1>1, <1>2, PlayersIdle DEF PlayersInv
  <1>3. /\ Who' = Who /\ SentIn(task)' = SentIn(task)
        /\ task' = "baseline" => Baseline # NoPolicy
        /\ \A i \in DOMAIN finished' : finished'[i].info.players = {Who}
    BY <1>1 DEF Who, PlayersOf, SentIn, PlayersInv
  <1>4. CASE AcceptClient
    BY <1>1, <1>2, <1>4 DEF AcceptClient, Connection, Playing
  <1>5. CASE AcceptDead \/ ReceiveUnknownPolicy \/ ReceiveClose \/ ReceiveNothing
    BY <1>2, <1>5 DEF AcceptDead, ReceiveUnknownPolicy, ReceiveClose, ReceiveNothing, DropClient, Live, Playing
  <1>6. CASE Decide
    <2>1. CASE hungUp
      BY <1>2, <1>6, <2>1 DEF Decide, SendStep, DropClient, Live, Playing
    <2>2. CASE ~hungUp
      <3>1. /\ pc = "collect" /\ Live /\ learner = "acting" /\ outbox = <<>>
        BY <1>6, <2>2 DEF Decide, Live, Connection, Turn, Answered, Requested, Applied, Holding
      <3>2. PICK D \in SUBSET Envs : Collected(D)
        BY <1>6, <3>1, Collects DEF Decide
      <3>3. CASE task = "train"
        BY <1>1, <1>2, <3>3 DEF Playing
      <3>4. CASE task # "train"
        <4>1. Playing
          BY <3>1, <3>4 DEF Playing
        <4>2. Players(mode, SentIn(task)) = Who /\ \A e \in Envs : env[e].players = {Who}
          BY <3>1, <4>1 DEF PlayersInv
        <4>3. Players(mode, SentIn(task))' = Players(mode, SentIn(task))
          BY <1>3, <3>2 DEF Collected, Players
        <4>4. DOMAIN ended' = D /\ \A e \in D : ended'[e].info.players = {Who}
          BY <3>2, <4>2 DEF Collected
        <4>5. ASSUME NEW e \in Envs
              PROVE  env'[e].players \subseteq {Who}
          <5>1. CASE e \in D
            BY <3>2, <5>1 DEF Collected, Begun
          <5>2. CASE e \notin D
            BY <3>2, <4>2, <5>2 DEF Collected
          <5>3. QED
            BY <5>1, <5>2
        <4>6. pc' = "receive"
          BY <1>6, <2>2 DEF Decide, SendStep
        <4>7. QED
          BY <1>3, <4>2, <4>3, <4>4, <4>5, <4>6 DEF PlayersInv
      <3>5. QED
        BY <3>3, <3>4
    <2>3. QED
      BY <2>1, <2>2
  <1>7. CASE ReceiveAct
    <2>1. /\ pc = "receive" /\ inbox # <<>> /\ Head(inbox).type = "ACT" /\ pc' = "collect"
          /\ ApplyActions(Head(inbox).sent) /\ UNCHANGED <<hungUp, outbox>>
      BY <1>7 DEF ReceiveAct, Receives
    <2>2. CASE Live
      <3>1. outbox = <<>> /\ learner = "acting" /\ Head(inbox).sent = SentIn(task)
        BY <2>1, <2>2, Reply DEF IsRequest
      <3>2. Head(inbox).sent \in STRING
        BY <2>1, Takes DEF MessageInv, Wellformed
      <3>3. /\ \A e \in Envs : env'[e].players = env[e].players \cup {Players(mode, SentIn(task))}
            /\ mode' = mode
        <4>1. PICK sent \in STRING : sent = Head(inbox).sent
          BY <3>2
        <4>2. ApplyActions(sent) /\ sent = SentIn(task)
          BY <2>1, <3>1, <4>1
        <4>3. /\ \A e \in Envs : env'[e].players = env[e].players \cup {Players(mode, sent)}
              /\ mode' = mode
          BY <4>2, Acts
        <4>4. QED
          BY <4>2, <4>3
      <3>4. Playing' => Playing
        BY <1>1, <2>2, <3>1 DEF Playing
      <3>5. CASE ~Playing'
        BY <1>2, <3>5
      <3>6. CASE Playing'
        <4>1. Players(mode, SentIn(task)) = Who /\ \A e \in Envs : env[e].players \subseteq {Who}
          BY <3>4, <3>6 DEF PlayersInv
        <4>2. \A e \in Envs : env'[e].players = {Who}
          BY <3>3, <4>1
        <4>3. Players(mode, SentIn(task))' = Who
          BY <1>3, <3>3, <4>1 DEF Players
        <4>4. QED
          BY <1>3, <2>1, <3>1, <4>2, <4>3 DEF PlayersInv
      <3>7. QED
        BY <3>5, <3>6
    <2>3. CASE ~Live
      BY <1>2, <2>1, <2>3 DEF Live, Playing
    <2>4. QED
      BY <2>2, <2>3
  <1>8. CASE ReceiveMode
    <2>1. /\ pc = "receive" /\ inbox # <<>> /\ Head(inbox).type = "MODE"
          /\ ResetAll(Head(inbox).mode, replay) /\ SendStep
      BY <1>8 DEF ReceiveMode, Receives
    <2>2. CASE hungUp
      BY <1>2, <2>1, <2>2 DEF SendStep, DropClient, Live, Playing
    <2>3. CASE ~hungUp
      <3>1. Live
        BY <2>1, <2>3 DEF Live
      <3>2. IsRequest(Head(inbox))
        BY <2>1, <3>1, Reply
      <3>3. CASE learner # "entering"
        <4>1. learner = "leaving"
          BY <2>1, <3>2, <3>3 DEF IsRequest
        <4>2. QED
          BY <1>1, <1>2, <4>1 DEF Playing
      <3>4. CASE learner = "entering"
        <4>1. PICK m : m = Head(inbox).mode
          OBVIOUS
        <4>2. m = ModeOf(task) /\ SoundMode(m)
          BY <2>1, <3>1, <3>4, <4>1, Takes DEF MessageInv, Wellformed
        <4>3. m.evaluating /\ task \in Evaluations
          BY <3>4, <4>2, Requests DEF LearnerInv, Connection
        <4>4. PICK D \in SUBSET Envs : D = Envs
          OBVIOUS
        <4>5. ResetEnvs(D, m, replay, env) /\ ended' = <<>>
          BY <2>1, <4>1, <4>4 DEF ResetAll
        <4>6. \A e \in D : Sound(env[e]) /\ (env[e].fresh => ~m.evaluating)
          BY <2>1, <4>4 DEF PoolInv
        <4>7. SoundReplay(replay)
          BY DEF PoolInv
        <4>8. /\ \A e \in D : env'[e].players = {}
              /\ mode'.baseline = m.baseline /\ mode'.opponentsOnly = m.opponentsOnly
          BY ONLY <4>2, <4>5, <4>6, <4>7, Resets DEF Begun
        <4>9. Players(mode, SentIn(task))' = Who
          <5>1. Players(m, SentIn(task)) = Who
            BY <4>2, <4>3, PlaysAsAsked DEF PlayersInv
          <5>2. Players(mode', SentIn(task)) = Players(m, SentIn(task))
            BY <4>8 DEF Players
          <5>3. QED
            BY <1>3, <5>1, <5>2 DEF Players
        <4>10. pc' = "receive" /\ learner' = "entering"
          BY <1>1, <2>1, <2>3, <3>4 DEF SendStep
        <4>11. QED
          BY <1>3, <4>4, <4>8, <4>9, <4>10 DEF PlayersInv
      <3>5. QED
        BY <3>3, <3>4
    <2>4. QED
      BY <2>2, <2>3
  <1>9. CASE ReceiveReplay
    <2>1. /\ pc = "receive" /\ inbox # <<>> /\ UNCHANGED <<env, mode, ended, pc, hungUp, outbox>>
      BY <1>9 DEF ReceiveReplay, Receives
    <2>2. Live' = Live
      BY <2>1 DEF Live
    <2>3. Live /\ learner = "entering" => outbox = <<>>
      BY <2>1 DEF Connection, Turn, Answered, Requested, Applied
    <2>4. outbox = <<>> => ~Answered'
      <3>1. PICK x : x = [shows |-> env, ended |-> ended]'
        OBVIOUS
      <3>2. <<x>> # <<>>
        BY Queues
      <3>3. QED
        BY <2>1, <3>1, <3>2 DEF Answered
    <2>5. Playing' => Playing
      BY <1>1, <2>2, <2>3, <2>4 DEF Playing
    <2>6. QED
      BY <1>1, <2>1, <2>5, PlayersStay
  <1>10. QED
    BY <1>4, <1>5, <1>6, <1>7, <1>8, <1>9 DEF Sim

LEMMA LearnerPlayers ==
    ASSUME IInv, DataInv, PlayersInv, Learner \/ Connect \/ Die \/ Finish
    PROVE  PlayersInv'
  <1> USE DEF IInv, DataInv
  <1>1. CASE ReceiveStep
    <2>1. outbox # <<>> /\ TakeStep /\ learner' = "ready" /\ UNCHANGED <<task, finished, opponents>>
      BY <1>1 DEF ReceiveStep, TakeStep
    <2>2. /\ Live /\ Answered /\ outbox' = <<>> /\ pc = "receive"
          /\ UNCHANGED <<env, mode, pc, hungUp>>
      BY <2>1, Learns
    <2>3. CASE task = "train"
      BY <2>1, <2>3, PlayersIdle DEF Playing
    <2>4. CASE task # "train"
      <3>1. learner = "entering"
        BY <1>1, <2>4 DEF ReceiveStep, Connection
      <3>2. Playing
        BY <2>2, <2>4, <3>1 DEF Playing
      <3>3. Who' = Who /\ Players(mode, SentIn(task))' = Players(mode, SentIn(task))
        BY <2>1, <2>2 DEF Who, PlayersOf, SentIn, Players
      <3>4. QED
        BY <2>1, <2>2, <3>2, <3>3 DEF PlayersInv
    <2>5. QED
      BY <2>3, <2>4
  <1>2. CASE ScoreStep
    <2>1. /\ learner = "acting" /\ outbox # <<>> /\ Playing /\ outbox' = <<>> /\ Answered
          /\ UNCHANGED <<env, mode, pc, task, opponents>>
          /\ \A i \in DOMAIN finished' :
               \/ i \in DOMAIN finished /\ finished'[i] = finished[i]
               \/ \E e \in DOMAIN ended : finished'[i].info = ended[e].info
      BY <1>2, ScoringKeeps DEF ScoreStep, TakeStep
    <2>2. \A e \in DOMAIN ended : ended[e].info.players = {Who}
      BY <2>1 DEF PlayersInv
    <2>3. \A i \in DOMAIN finished' : finished'[i].info.players = {Who}
      BY <2>1, <2>2 DEF PlayersInv
    <2>4. Who' = Who /\ Players(mode, SentIn(task))' = Players(mode, SentIn(task)) /\ pc' = "receive"
      BY <2>1 DEF Who, PlayersOf, SentIn, Players, Answered
    <2>5. QED
      BY <2>1, <2>3, <2>4 DEF PlayersInv
  <1>3. CASE EvaluateOn
    <2>1. /\ learner = "ready" /\ learner' = "acting"
          /\ UNCHANGED <<env, finished, mode, ended, outbox, pc, hungUp, task, opponents>>
      BY <1>3 DEF EvaluateOn, poolVars
    <2>2. outbox = <<>>
      BY <2>1, Connected DEF Holding
    <2>3. Playing' => Playing
      BY <2>1 DEF Playing, Live
    <2>4. QED
      BY <2>1, <2>2, <2>3, PlayersStay
  <1>4. ASSUME NEW t, Enter(t), learner \in {"ready", "left"}, t = "baseline" => Baseline # NoPolicy
        PROVE  PlayersInv'
    <2>1. finished' = <<>> /\ learner' = "entering" /\ outbox' = outbox /\ task' = t
      BY <1>4 DEF Enter
    <2>2. outbox = <<>>
      BY <1>4, Connected DEF Holding
    <2>3. ~Answered'
      <3>1. PICK x : x = [shows |-> env, ended |-> ended]'
        OBVIOUS
      <3>2. <<x>> # <<>>
        BY Queues
      <3>3. QED
        BY <2>1, <2>2, <3>1, <3>2 DEF Answered
    <2>4. QED
      BY <1>4, <2>1, <2>3, PlayersIdle DEF Playing
  <1>5. CASE Evaluate
    BY <1>4, <1>5 DEF Evaluate
  <1>6. CASE EvaluateNext
    <2>1. PICK t \in AfterTask(task) \cap Evaluations : Enter(t)
      BY <1>6 DEF EvaluateNext
    <2>2. t # "baseline"
      BY DEF AfterTask
    <2>3. QED
      BY <1>4, <1>6, <2>1, <2>2 DEF EvaluateNext
  <1>7. CASE TrainOn \/ ReceiveLeft
    <2>1. UNCHANGED <<finished, task, opponents>> /\ (learner' = "left" \/ task' = "train")
      BY <1>7 DEF TrainOn, ReceiveLeft, TakeStep
    <2>2. QED
      BY <2>1, PlayersIdle DEF Playing, PlayersInv
  <1>8. CASE Leave
    BY <1>8, PlayersIdle DEF Leave, Playing, PlayersInv
  <1>9. CASE SendReplay \/ Connect
    <2>1. finished = <<>>
      BY <1>9 DEF SendReplay, Connect, LearnerInv
    <2>2. finished' = <<>> /\ task' = "train"
      BY <1>9, <2>1 DEF SendReplay, Connect
    <2>3. QED
      BY <2>2, PlayersIdle DEF Playing
  <1>10. CASE LoseSim \/ Die \/ Finish
    BY <1>10, PlayersIdle DEF LoseSim, Die, Finish, Leaves, Playing
  <1>11. QED
    BY <1>1, <1>2, <1>3, <1>5, <1>6, <1>7, <1>8, <1>9, <1>10 DEF Learner

\* Every episode a running evaluation scores was played by those it asked for,
\* none of whom an earlier mode, a mode switch or a death has put there.
THEOREM PlayersInvariant == Spec => [](IInv /\ DataInv /\ PlayersInv)
  <1>1. Init => PlayersInv
    BY DEF Init, PlayersInv, Playing, Live
  <1>2. IInv /\ DataInv /\ PlayersInv /\ [Next]_vars => PlayersInv'
    <2> SUFFICES ASSUME IInv, DataInv, PlayersInv, [Next]_vars
                 PROVE  PlayersInv'
      OBVIOUS
    <2>1. CASE Next
      BY <2>1, SimPlayers, LearnerPlayers DEF Next
    <2>2. CASE UNCHANGED vars
      <3>1. UNCHANGED <<env, mode, ended, pc, inbox, hungUp, outbox, learner, task, opponents, finished>>
        BY <2>2 DEF vars, poolVars, simVars, learnerVars
      <3>2. Playing' = Playing
        BY <3>1 DEF Playing, Live, Answered
      <3>3. QED
        BY <3>1, <3>2, PlayersStay
    <2>3. QED
      BY <2>1, <2>2
  <1>3. QED
    BY <1>1, <1>2, DataInvariant, PTL DEF Spec

\* run_evaluation returns with seeds missing.
GivesUp == Leave /\ DOMAIN finished # Seeds /\ decisions = MaxDecisions

\* It does so only when its decisions are used up.
LEMMA ReturnsWhenDone ==
    ASSUME LearnerInv, Leave
    PROVE  DOMAIN finished = Seeds \/ GivesUp
  <1>1. decisions \in 0 .. MaxDecisions /\ MaxDecisions \in Nat /\ DOMAIN finished \subseteq Seeds
    BY Budget DEF LearnerInv
  <1>2. ~LoopsOn
    BY DEF Leave
  <1>3. IsFiniteSet(Seeds) /\ Cardinality(Seeds) = Episodes /\ Episodes \in Nat
    BY EvaluationAssumption, FS_Interval DEF Seeds
  <1>4. Cardinality(DOMAIN finished) \in Nat /\ Cardinality(DOMAIN finished) <= Episodes
        /\ (Cardinality(DOMAIN finished) = Episodes => DOMAIN finished = Seeds)
    BY <1>1, <1>3, FS_Subset, FS_CardinalityType
  <1>5. QED
    BY <1>1, <1>2, <1>3, <1>4 DEF LoopsOn, GivesUp

LEMMA NothingScored ==
    ASSUME NEW f, f = <<>>
    PROVE  [i \in DOMAIN f |-> [by |-> f[i].info.players, build |-> f[i].info.build]] = <<>>
  OBVIOUS

\* The sim's part of an evaluation is invisible to the caller.
LEMMA SimStutters ==
    ASSUME Sim
    PROVE  UNCHANGED Promised!vars
  <1>1. UNCHANGED <<learner, task, opponents, finished>>
    BY DEF Sim, AcceptClient, AcceptDead, Decide, ReceiveAct, ReceiveMode, ReceiveUnknownPolicy, ReceiveReplay,
           ReceiveClose, ReceiveNothing, learnerVars
  <1>2. Asked' = Asked /\ Scores' = Scores /\ (learner # "gone")' = (learner # "gone")
    BY <1>1 DEF Asked, Scores, PlayersOf, SentIn
  <1>3. QED
    BY <1>2 DEF Promised!vars

\* A STEP that ends new seeds is a Score; one that does not is not seen.
LEMMA ScoringScores ==
    ASSUME IInv, DataInv, PlayersInv, PlayersInv', ScoreStep
    PROVE  Promised!Score \/ UNCHANGED Promised!vars
  <1> DEFINE S == DOMAIN finished' \ DOMAIN finished
  <1>1. /\ Playing /\ ScoreInv' /\ learner = "acting" /\ learner' = "ready" /\ task # "train"
        /\ UNCHANGED <<task, opponents>>
        /\ DOMAIN finished' = DOMAIN finished
             \cup {ended[e].seed : e \in {e \in DOMAIN ended : ended[e].seed \in Seeds}}
        /\ \A i \in DOMAIN finished' : i \in DOMAIN finished => finished'[i] = finished[i]
    BY ScoringKeeps DEF ScoreStep, TakeStep
  <1>2. S \subseteq Seeds \ DOMAIN finished /\ DOMAIN finished' = S \cup DOMAIN finished
    BY <1>1
  <1>3. Asked = {Who} /\ Asked' = Asked /\ (learner # "gone")' = (learner # "gone")
    BY <1>1 DEF Asked, Who, PlayersOf, SentIn
  <1>4. ASSUME NEW i \in S
        PROVE  finished'[i].info.players = {Who} /\ finished'[i].info.build = <<SeedBase, i>>
    <2>1. finished'[i].info.players = {Who}
      BY <1>1 DEF PlayersInv, Who, PlayersOf, SentIn
    <2>2. Sound(finished'[i].info) /\ finished'[i].info.seed = i
      BY <1>1 DEF ScoreInv, Scored
    <2>3. i # NoSeed
      BY <1>2, PoolAssumption, EvaluationAssumption DEF Seeds
    <2>4. QED
      BY <2>1, <2>2, <2>3 DEF Sound, Seeded
  <1>5. DOMAIN Scores = DOMAIN finished /\ DOMAIN Scores' = DOMAIN finished'
    BY DEF Scores
  <1>6. Scores' = [i \in S \cup DOMAIN finished |->
                     IF i \in S THEN [by |-> Asked, build |-> <<SeedBase, i>>] ELSE Scores[i]]
    <2>1. ASSUME NEW i \in S \cup DOMAIN finished
          PROVE  [by |-> finished'[i].info.players, build |-> finished'[i].info.build]
                   = IF i \in S THEN [by |-> Asked, build |-> <<SeedBase, i>>] ELSE Scores[i]
      <3>1. CASE i \in S
        BY <1>3, <1>4, <3>1
      <3>2. CASE i \notin S
        <4>1. i \in DOMAIN finished /\ finished'[i] = finished[i]
          BY <1>1, <2>1, <3>2
        <4>2. Scores[i] = [by |-> finished[i].info.players, build |-> finished[i].info.build]
          BY <4>1 DEF Scores
        <4>3. QED
          BY <3>2, <4>1, <4>2
      <3>3. QED
        BY <3>1, <3>2
    <2>2. Scores' = [i \in S \cup DOMAIN finished |->
                       [by |-> finished'[i].info.players, build |-> finished'[i].info.build]]
      BY <1>2 DEF Scores
    <2>3. QED
      BY <2>1, <2>2
  <1>7. CASE S = {}
    <2>1. Scores' = Scores
      <3>1. Scores' = [i \in DOMAIN finished |-> Scores[i]]
        BY <1>6, <1>7
      <3>2. Scores = [i \in DOMAIN finished |-> Scores[i]]
        BY DEF Scores
      <3>3. QED
        BY <3>1, <3>2
    <2>2. QED
      BY <1>3, <2>1 DEF Promised!vars
  <1>8. CASE S # {}
    <2>1. S \in SUBSET (Promised!Seeds \ DOMAIN Scores) /\ S # {}
      BY <1>2, <1>5, <1>8 DEF Promised!Seeds, Seeds
    <2>2. Scores' = [i \in S \cup DOMAIN Scores |->
                       IF i \in S THEN [by |-> Asked, build |-> <<SeedBase, i>>] ELSE Scores[i]]
      BY <1>5, <1>6
    <2>3. Asked # {}
      BY <1>3
    <2>4. QED
      BY <1>3, <2>1, <2>2, <2>3 DEF Promised!Score
  <1>9. QED
    BY <1>7, <1>8

\* And so for the other steps of a learner, and its coming and going.
LEMMA LearnerPromises ==
    ASSUME IInv, DataInv, PlayersInv, PlayersInv', Learner \/ Connect \/ Die \/ Finish
    PROVE  Promised!Next \/ GivesUp \/ UNCHANGED Promised!vars
  <1> USE DEF IInv, DataInv
  <1>1. ASSUME UNCHANGED finished, Asked' = Asked, (learner # "gone")' = (learner # "gone")
        PROVE  UNCHANGED Promised!vars
    BY <1>1 DEF Promised!vars, Scores
  <1>2. CASE ScoreStep
    BY <1>2, ScoringScores DEF Promised!Next
  <1>3. CASE ReceiveStep
    <2>1. /\ learner \in {"awaiting", "entering"} \/ (learner = "acting" /\ task = "train")
          /\ learner' = "ready" /\ UNCHANGED <<task, finished, opponents>>
      BY <1>3 DEF ReceiveStep, TakeStep
    <2>2. learner = "awaiting" => task = "train"
      BY DEF Connection
    <2>3. Asked' = Asked
      BY <2>1, <2>2 DEF Asked, PlayersOf, SentIn
    <2>4. QED
      BY <1>1, <2>1, <2>3
  <1>4. CASE EvaluateOn \/ TrainOn
    <2>1. learner = "ready" /\ learner' = "acting" /\ UNCHANGED <<task, finished, opponents>>
      BY <1>4 DEF EvaluateOn, TrainOn
    <2>2. Asked' = Asked
      BY <2>1 DEF Asked, PlayersOf, SentIn
    <2>3. QED
      BY <1>1, <2>1, <2>2
  <1>5. CASE ReceiveLeft \/ SendReplay
    <2>1. /\ learner \in {"leaving", "left"} /\ learner' # "gone" /\ UNCHANGED finished
          /\ learner' = "left" \/ task' = "train"
      BY <1>5 DEF ReceiveLeft, SendReplay
    <2>2. Asked' = Asked
      BY <2>1 DEF Asked
    <2>3. QED
      BY <1>1, <2>1, <2>2
  <1>6. ASSUME NEW t \in Evaluations, Enter(t), learner = "left" \/ (learner = "ready" /\ task = "train")
        PROVE  Promised!Ask
    <2>1. finished = <<>>
      BY <1>6 DEF LearnerInv
    <2>2. finished' = <<>> /\ learner' = "entering" /\ task' = t /\ opponents' = opponents
      BY <1>6 DEF Enter
    <2>3. Scores = <<>> /\ Scores' = <<>>
      BY <2>1, <2>2, NothingScored DEF Scores
    <2>4. Asked = {}
      BY <1>6 DEF Asked
    <2>5. Asked' = {PlayersOf(t, opponents)}
      BY <2>2 DEF Asked, Evaluations, PlayersOf, SentIn
    <2>6. opponents \in Opponents
      BY DEF LearnerInv
    <2>7. learner # "gone" /\ learner' # "gone"
      BY <1>6, <2>2
    <2>8. QED
      BY <2>3, <2>4, <2>5, <2>6, <2>7 DEF Promised!Ask
  <1>7. CASE Evaluate
    BY <1>6, <1>7 DEF Evaluate, Evaluations, Promised!Next
  <1>8. CASE EvaluateNext
    BY <1>6, <1>8 DEF EvaluateNext, Promised!Next
  <1>9. CASE Leave
    <2>1. /\ learner = "ready" /\ task # "train" /\ learner' = "leaving" /\ finished' = <<>>
      BY <1>9 DEF Leave
    <2>2. Asked # {} /\ Asked' = {}
      BY <2>1 DEF Asked
    <2>3. Scores' = <<>>
      BY <2>1, NothingScored DEF Scores
    <2>4. DOMAIN Scores = DOMAIN finished
      BY DEF Scores
    <2>5. CASE DOMAIN finished = Seeds
      BY <2>1, <2>2, <2>3, <2>4, <2>5 DEF Promised!Next, Promised!Answer, Promised!Seeds, Seeds
    <2>6. QED
      BY <1>9, <2>5, ReturnsWhenDone
  <1>10. CASE LoseSim \/ Die \/ Finish
    <2>1. learner # "gone" /\ learner' = "gone" /\ task' = "train" /\ finished' = <<>>
      BY <1>10 DEF LoseSim, Die, Finish, Leaves
    <2>2. Asked' = {}
      BY <2>1 DEF Asked
    <2>3. Scores' = <<>>
      BY <2>1, NothingScored DEF Scores
    <2>4. QED
      BY <2>1, <2>2, <2>3 DEF Promised!Next, Promised!Die
  <1>11. CASE Connect
    <2>1. learner = "gone" /\ learner' = "awaiting" /\ UNCHANGED finished
      BY <1>11 DEF Connect
    <2>2. Asked = {} /\ Asked' = {} /\ Scores' = Scores
      BY <2>1 DEF Asked, Scores
    <2>3. QED
      BY <2>1, <2>2 DEF Promised!Next, Promised!Connect
  <1>12. QED
    BY <1>2, <1>3, <1>4, <1>5, <1>7, <1>8, <1>9, <1>10, <1>11 DEF Learner

\* run_evaluation's docstring, step by step: whatever the envs, the messages and
\* the deaths in between, the caller sees evaluations asked for, their seeds
\* scored once each, by the players and from the build asked for, and an answer
\* when all are; unless the learner dies, or its decisions are used up first.
THEOREM StepsKeepThePromise ==
    Spec => Promised!Init /\ [][Promised!Next \/ GivesUp]_(Promised!vars)
  <1>1. Init => Promised!Init
    <2> SUFFICES ASSUME Init
                 PROVE  Promised!Init
      OBVIOUS
    <2>1. learner = "gone" /\ finished = <<>>
      BY DEF Init
    <2>2. Scores = <<>>
      BY <2>1, NothingScored DEF Scores
    <2>3. QED
      BY <2>1, <2>2 DEF Promised!Init, Asked
  <1>2. ASSUME IInv, DataInv, PlayersInv, PlayersInv', [Next]_vars
        PROVE  [Promised!Next \/ GivesUp]_(Promised!vars)
    <2>1. CASE Sim
      BY <2>1, SimStutters
    <2>2. CASE Learner \/ Connect \/ Die \/ Finish
      BY <1>2, <2>2, LearnerPromises
    <2>3. CASE UNCHANGED vars
      <3>1. UNCHANGED <<learner, task, opponents, finished>>
        BY <2>3 DEF vars, learnerVars
      <3>2. Asked' = Asked /\ Scores' = Scores /\ (learner # "gone")' = (learner # "gone")
        BY <3>1 DEF Asked, Scores, PlayersOf, SentIn
      <3>3. QED
        BY <3>2 DEF Promised!vars
    <2>4. QED
      BY <1>2, <2>1, <2>2, <2>3 DEF Next
  <1>3. QED
    BY <1>1, <1>2, PlayersInvariant, PTL DEF Spec
=============================================================================
