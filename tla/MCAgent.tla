------------------------------ MODULE MCAgent -------------------------------
(* One client of the model API at a time: the agent loop or a hybrid batch.*)
EXTENDS AgentRuntime, Categorisers

VARIABLE client

vars == <<call, run, batch, client>>

MCUseBlocks ==
  {[id |-> "a", tool |-> "compare", args |-> "gold"], [id |-> "a", tool |-> "explain", args |-> "invalid"],
   [id |-> "b", tool |-> "unknown", args |-> "other"], [id |-> NoId, tool |-> "compare", args |-> "gold"]}
MCGold == <<[tool |-> "compare", args |-> "gold"], [tool |-> "compare", args |-> "gold"],
            [tool |-> "explain", args |-> "gold"]>>

MCInit == RetryInit /\ RunInit /\ BatchInit /\ client \in {"agent", "batch"}

MCRetry == RetryStep /\ UNCHANGED <<run, batch, client>>
MCAgentStep == client = "agent" /\ AgentStep /\ UNCHANGED <<batch, client>>
MCBatchStep == client = "batch" /\ BatchStep /\ UNCHANGED <<run, client>>
MCNext == MCRetry \/ MCAgentStep \/ MCBatchStep

\* One thread does the steps one after another: it takes the next one.
MCSpec == MCInit /\ [][MCNext]_vars /\ WF_vars(MCNext)

\* What a run or a batch reports of itself adds up (see UsageAddsUp for the
\* paid calls of a batch, ScoresAreRatios for the score of a run's calls).
FiguresAddUp == UsageAddsUp /\ ScoresAreRatios

\* Within the retry and turn limits every run of the agent stops and every batch
\* is finished, whatever the API answers.
EveryRunEnds == <>(IF client = "agent" THEN run.phase \in Stopped ELSE BatchDone)
=============================================================================
