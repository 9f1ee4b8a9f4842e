------------------------ MODULE MCForgeController ------------------------
(* Values of ForgeController's constants for the model checker. *)
EXTENDS ForgeController

OneStage == {"stageA"}
TwoStages == {"stageA", "stageB"}
LastStage == {"stageB"}
Nothing == {}
RealRuns == {"runs"} \X OneStage
EveryRun == Dirs \X OneStage
NoGrid == <<>>
\* Two thread counts, the smaller envs first, as CommandBench orders them.
SmallGrid == << <<1, 4>>, <<1, 8>>, <<2, 4>>, <<2, 8>> >>

=============================================================================
