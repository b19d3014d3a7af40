---------------------------- MODULE Categorisers ----------------------------
(***************************************************************************)
(* A batch of rows through the rules, the model, or the hybrid of the two  *)
(* (evaluation/llm_categoriser.py): what is routed where, what a failed or *)
(* foreign answer becomes, and what the run says it cost.                  *)
(***************************************************************************)
EXTENDS LlmRetry

CONSTANTS
  Labels,       \* LABEL_SPACE
  Foreign,      \* a label outside it
  Abstain,      \* the label of an abstention
  Confidences,  \* in percent
  Threshold,    \* DEFAULT_ROUTING_THRESHOLD
  MaxRows       \* bound: rows of the batch

VARIABLE batch

Prediction(label, confidence) == [label |-> label, confidence |-> confidence]
Abstention == Prediction(Abstain, 0)
Rules == {Abstention} \cup [label : Labels, confidence : Confidences]
Abstained(p) == p.label = Abstain

BatchInit ==
  batch = [phase |-> "next", rule |-> Abstention, last |-> Abstention, rows |-> 0, ruleAnswers |-> 0,
           escalations |-> 0, calls |-> 0, failures |-> 0, rejected |-> 0]

\* HybridCategoriser.predict: a sure rule answers at once.
RuleAnswers ==
  /\ batch.phase = "next" /\ batch.rows < MaxRows
  /\ \E rule \in Rules :
       /\ ~Abstained(rule) /\ rule.confidence >= Threshold
       /\ batch' = [batch EXCEPT !.rule = rule, !.last = rule, !.rows = @ + 1, !.ruleAnswers = @ + 1]
  /\ UNCHANGED call

Escalate ==
  /\ batch.phase = "next" /\ batch.rows < MaxRows
  /\ \E rule \in Rules :
       /\ Abstained(rule) \/ rule.confidence < Threshold
       /\ batch' = [batch EXCEPT !.phase = "asking", !.rule = rule, !.rows = @ + 1, !.escalations = @ + 1]
  /\ BeginCall

\* Mutant: the model's word is final, also when it has none.
SettledByModel(model) == model
\* What the hybrid makes of the model's prediction.
Settled(model) == IF Abstained(model) /\ ~Abstained(batch.rule) THEN batch.rule ELSE model

\* LLMCategoriser.predict: any exception of the provider is an abstention.
ModelFails ==
  /\ batch.phase = "asking" /\ call.phase \in Failed
  /\ batch' = [batch EXCEPT !.phase = "next", !.failures = @ + 1, !.last = Settled(Abstention)]
  /\ EndCall

Believed(label) == label \in Labels

\* An answered call is paid for, believed or not.
ModelAnswersRow ==
  /\ batch.phase = "asking" /\ call.phase = "answered"
  /\ \E label \in Labels \cup {Foreign}, confidence \in Confidences :
       batch' = [batch EXCEPT !.phase = "next", !.calls = @ + 1,
                              !.rejected = IF Believed(label) THEN @ ELSE @ + 1,
                              !.last = Settled(IF Believed(label) THEN Prediction(label, confidence)
                                                                  ELSE Abstention)]
  /\ EndCall

BatchStep == RuleAnswers \/ Escalate \/ ModelFails \/ ModelAnswersRow

\* One batch, with the calls it makes.
BatchSpec == RetryInit /\ BatchInit /\ [][(RetryStep /\ UNCHANGED batch) \/ BatchStep]_<<call, batch>>

BatchDone == batch.phase = "next" /\ batch.rows = MaxRows

-----------------------------------------------------------------------------
(* Properties *)

BatchTypeOK ==
  /\ batch.phase \in {"next", "asking"}
  /\ batch.rule \in Rules
  /\ batch.last \in [label : Labels \cup {Abstain}, confidence : Nat]
  /\ \A f \in {"rows", "ruleAnswers", "escalations", "calls", "failures", "rejected"} :
       batch[f] \in 0 .. MaxRows

\* Whatever fails or is thrown away, a row is never answered outside the
\* taxonomy, never abstained on while a rule had a word for it, and the cost
\* report adds up: every row is the rules' or escalated, every escalation is a
\* paid call or a failure ("the escalation rate and the token count can never
\* disagree", llm_categoriser.py:177), rejections are among the paid calls.
UsageAddsUp ==
  /\ batch.rows = batch.ruleAnswers + batch.escalations
  /\ batch.escalations = batch.calls + batch.failures + (IF batch.phase = "asking" THEN 1 ELSE 0)
  /\ batch.rejected <= batch.calls
  /\ batch.last.label \in Labels \cup {Abstain}
  /\ batch.phase = "next" /\ ~Abstained(batch.rule) => ~Abstained(batch.last)
=============================================================================
