---------------------------- MODULE AgentRuntime ----------------------------
(***************************************************************************)
(* The bounded tool loop of agent/runtime.py over the registry of          *)
(* agent/tools/registry.py.  Each model turn is one LlmRetry call.         *)
(***************************************************************************)
EXTENDS LlmRetry, SequencesExt

CONSTANTS
  MaxTurns,   \* max_model_turns
  Tools,      \* names the registry knows
  UseBlocks,  \* tool calls the model may write: [id, tool, args]
  Gold        \* the gold trace an evaluation scores a run against

ASSUME TurnsAreBounded == MaxTurns \in Nat \ {0}
ASSUME GoldIsATrace == Gold \in Seq(ToSet(Gold))

VARIABLE run

NoId == ""
Text == [kind |-> "text", id |-> NoId, tool |-> "", args |-> "none"]
Use(b) == [kind |-> "use", id |-> b.id, tool |-> b.tool, args |-> b.args]
Blocks == {Text} \cup {Use(b) : b \in UseBlocks}

\* _parse refuses a response without a usable block.
Contents == {<<b>> : b \in Blocks} \cup {<<b, c>> : b \in Blocks, c \in Blocks}
IsUse(block) == block.kind = "use"
Calls(content) == FlattenSeq([i \in DOMAIN content |-> IF IsUse(content[i]) THEN <<content[i]>> ELSE <<>>])
Answers(id, ok) == [kind |-> "result", id |-> id, ok |-> ok]
Message(role, content) == [role |-> role, content |-> content]
Record(block, ok) == [id |-> block.id, tool |-> block.tool, args |-> block.args, ok |-> ok]

Stopped == {"completed", "provider_failure", "turn_limit"}

RunInit ==
  run = [phase |-> "asking", turns |-> 1, messages |-> <<Message("user", <<Text>>)>>,
         pending |-> <<>>, results |-> <<>>, records |-> <<>>, seen |-> {}, executed |-> <<>>,
         answers |-> 0]

-----------------------------------------------------------------------------
(* The loop *)

AskModel ==
  /\ run.phase = "asking"
  /\ BeginCall
  /\ run' = [run EXCEPT !.phase = "thinking"]

\* Any exception of respond, with the calls made so far kept.
ProviderFails ==
  /\ run.phase = "thinking" /\ call.phase \in Failed
  /\ run' = [run EXCEPT !.phase = "provider_failure"]
  /\ EndCall

ModelAnswers ==
  /\ run.phase = "thinking" /\ call.phase = "answered"
  /\ \E content \in Contents :
       run' = [run EXCEPT !.phase = IF Calls(content) = <<>> THEN "completed" ELSE "acting",
                          !.messages = Append(@, Message("assistant", content)),
                          !.pending = Calls(content), !.results = <<>>,
                          !.answers = @ + 1]
  /\ EndCall

\* ToolRegistry.call never raises: an unknown tool, arguments its schema
\* refuses and any exception of the tool are results like another.
RegistryCall(block) == IF block.tool \in Tools /\ block.args # "invalid" THEN BOOLEAN ELSE {FALSE}

\* Mutant: forgets which ids it has executed.
MayExecuteAlways(block) == block.id # NoId
MayExecute(block) == block.id # NoId /\ block.id \notin run.seen

\* Mutant: a call with a used id is left unanswered.
ExecuteFresh ==
  /\ run.phase = "acting" /\ run.pending # <<>> /\ MayExecute(Head(run.pending))
  /\ LET block == Head(run.pending) IN
     \E ok \in RegistryCall(block) :
       run' = [run EXCEPT !.pending = Tail(@), !.seen = @ \cup {block.id},
                          !.executed = Append(@, block.id),
                          !.results = Append(@, Answers(block.id, ok)),
                          !.records = Append(@, Record(block, ok))]
  /\ UNCHANGED call

Execute ==
  /\ run.phase = "acting" /\ run.pending # <<>>
  /\ LET block == Head(run.pending) IN
     \E ok \in IF MayExecute(block) THEN RegistryCall(block) ELSE {FALSE} :
       run' = [run EXCEPT !.pending = Tail(@),
                          !.seen = IF MayExecute(block) THEN @ \cup {block.id} ELSE @,
                          !.executed = IF MayExecute(block) THEN Append(@, block.id) ELSE @,
                          !.results = Append(@, Answers(block.id, ok)),
                          !.records = Append(@, Record(block, ok))]
  /\ UNCHANGED call

\* The results go back as one user message, and the next turn or the limit follows.
ReturnResults ==
  /\ run.phase = "acting" /\ run.pending = <<>>
  /\ run' = [run EXCEPT !.phase = IF run.turns = MaxTurns THEN "turn_limit" ELSE "asking",
                        !.turns = IF run.turns = MaxTurns THEN @ ELSE @ + 1,
                        !.messages = Append(@, Message("user", run.results)),
                        !.results = <<>>]
  /\ UNCHANGED call

AgentStep == AskModel \/ ProviderFails \/ ModelAnswers \/ Execute \/ ReturnResults

\* One run of the agent, with the calls it makes.
AgentSpec == RetryInit /\ RunInit /\ [][(RetryStep /\ UNCHANGED run) \/ AgentStep]_<<call, run>>

-----------------------------------------------------------------------------
(* Scoring a finished run: evaluation/agent/trace.py *)

GoldCall(record) == [tool |-> record.tool, args |-> record.args]
Tool(goldCall) == goldCall.tool
Count(x, seq) == Cardinality({i \in DOMAIN seq : seq[i] = x})
Each(Op(_), seq) == [i \in DOMAIN seq |-> Op(seq[i])]

\* Sum over the gold names of min(expected, actual), which is the number of
\* pairs of a name and a number up to its minimum.
Shared(expected, actual) ==
  Cardinality({p \in ToSet(expected) \X (1..Len(expected)) :
                 p[2] <= Least(Count(p[1], expected), Count(p[1], actual))})

CorrectlySelected(records) == Shared(Each(Tool, Gold), Each(Tool, records))

\* The positions of the calls not matched yet after n expected ones: each
\* expected call takes the first call equal to it out.
EqualTo(expected, records, left) == {i \in left : GoldCall(records[i]) = expected}
Unmatched(records) ==
  LET left[n \in 0..Len(Gold)] ==
        IF n = 0 THEN DOMAIN records
        ELSE LET equal == EqualTo(Gold[n], records, left[n - 1])
             IN left[n - 1] \ {i \in equal : \A j \in equal : i <= j}
  IN left

ExactArguments(records) ==
  LET left == Unmatched(records)
  IN Cardinality({n \in 1..Len(Gold) : EqualTo(Gold[n], records, left[n - 1]) # {}})

-----------------------------------------------------------------------------
(* Properties *)

RunTypeOK ==
  /\ run.phase \in {"asking", "thinking", "acting"} \cup Stopped
  /\ run.turns \in 1 .. MaxTurns /\ run.answers \in 0 .. MaxTurns
  /\ run.pending \in Seq(Blocks)
  /\ \A i \in DOMAIN run.messages : run.messages[i].role \in {"user", "assistant"}

UsesOf(message) == Each(LAMBDA b : b.id, Calls(message.content))
AnswersOf(message) == Each(LAMBDA b : b.id, message.content)
\* What the user messages after the question hold, one after another.
Replies(messages) ==
  FlattenSeq([i \in DOMAIN messages |->
                IF i > 1 /\ messages[i].role = "user" THEN messages[i].content ELSE <<>>])

\* Roles alternate from the question on; the reply to an assistant message
\* answers each of its calls once, in order, and nothing else; the records are
\* the results in the order they were given, whatever ids the model repeats or
\* leaves empty; no id reaches a tool twice; and the provider is called once a
\* turn, a failed call being the last.
EveryCallAnsweredOnce ==
  /\ \A i \in DOMAIN run.messages :
       /\ run.messages[i].role = (IF i % 2 = 1 THEN "user" ELSE "assistant")
       /\ i % 2 = 0 /\ i < Len(run.messages) =>
            AnswersOf(run.messages[i + 1]) = UsesOf(run.messages[i])
  /\ run.phase \in {"asking", "thinking", "turn_limit", "provider_failure"} =>
       Last(run.messages).role = "user"
  /\ run.phase = "completed" => Calls(Last(run.messages).content) = <<>>
  /\ Each(LAMBDA r : Answers(r.id, r.ok), run.records) =
       Replies(run.messages) \o run.results
  /\ \A i, j \in DOMAIN run.executed : run.executed[i] = run.executed[j] => i = j
  /\ run.answers = Len(run.messages) \div 2
  /\ run.phase \in Stopped => run.answers = run.turns - (IF run.phase = "provider_failure" THEN 1 ELSE 0)
  /\ \A r \in ToSet(run.records) : r.ok => r.id \in ToSet(run.executed)

\* score_trace: exact calls are correctly selected ones, those are expected and
\* made, and the greedy matching loses none that another order would find.
ScoresAreRatios ==
  LET exact == ExactArguments(run.records)
      selected == CorrectlySelected(run.records)
  IN run.phase \in Stopped =>
       /\ exact = Shared(Gold, Each(GoldCall, run.records))
       /\ exact <= selected /\ selected <= Len(Gold) /\ selected <= Len(run.records)

=============================================================================
