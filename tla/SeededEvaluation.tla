-------------------------- MODULE SeededEvaluation --------------------------
(***************************************************************************)
(* What run_evaluation promises its caller (the docstrings of              *)
(* src/python/animus/evaluation.py): every seed index 0 .. Episodes - 1 is *)
(* played once, built from its own seed and by the players asked for, and  *)
(* the call returns when all have been, unless the learner dies.           *)
(***************************************************************************)
EXTENDS Naturals

CONSTANTS Episodes,  \* seeded episodes of one evaluation
          SeedBase,  \* their seed base
          Requests   \* what may be asked for

VARIABLES alive,  \* is there a learner?
          asked,  \* the players of the evaluation under way: {} or {who}
          scores  \* seed index -> who played it, and which build

Seeds == 0 .. Episodes - 1

vars == <<alive, asked, scores>>

Init == alive = FALSE /\ asked = {} /\ scores = <<>>

Connect == ~alive /\ alive' = TRUE /\ UNCHANGED <<asked, scores>>

Ask == /\ alive /\ asked = {}
       /\ \E who \in Requests : asked' = {who}
       /\ UNCHANGED <<alive, scores>>

Score == /\ asked # {}
         /\ \E S \in SUBSET (Seeds \ DOMAIN scores) :
              /\ S # {}
              /\ scores' = [i \in S \cup DOMAIN scores |->
                              IF i \in S THEN [by |-> asked, build |-> <<SeedBase, i>>]
                                         ELSE scores[i]]
         /\ UNCHANGED <<alive, asked>>

Answer == /\ asked # {}
          /\ DOMAIN scores = Seeds
          /\ asked' = {} /\ scores' = <<>>
          /\ UNCHANGED alive

\* The only way out without an answer.
Die == alive /\ alive' = FALSE /\ asked' = {} /\ scores' = <<>>

Next == Connect \/ Ask \/ Score \/ Answer \/ Die

Spec == Init /\ [][Next]_vars /\ WF_vars(Score \/ Answer)
=============================================================================
