---------------------------- MODULE Classification ----------------------------
(***************************************************************************)
(* One tenant's labels: categorise.py suggests them, review.py and         *)
(* POST /v1/transactions/{id}/label confirm them, all at once.             *)
(*                                                                         *)
(* A row has four columns here: the suggestion (label, confidence, by) and *)
(* the confirmed label.  A write is what SQLAlchemy makes of it: a SELECT  *)
(* that loads the row, attribute assignments, and an UPDATE of the columns *)
(* whose value differs from the loaded one.  The UPDATE locks the row until *)
(* the session commits; another session's UPDATE of it waits, and is then  *)
(* applied to the row as it is by then (READ COMMITTED).                   *)
(***************************************************************************)
EXTENDS Naturals, FiniteSets

CONSTANTS
    Rows,         \* transactions, numbered in the order of (posted_on, id)
    Posted,       \* posted_on of each row
    Merchant,     \* normalised_merchant of each row
    Labels,       \* LABEL_SPACE without ABSTAIN
    Abstain,      \* 'UNKNOWN': examined, no answer
    Null,         \* the SQL NULL
    RuleSays,     \* the rule tier's prediction for each row
    Rules,        \* its name
    Models,       \* model-and-prompt names
    ModelSays,    \* what a provider may return: [label, confidence]
    Runs,         \* categorise.py processes
    People,       \* review sessions and label requests
    ChunkSize,    \* _CHUNK_ROWS
    Limits,       \* values of --limit
    Choices,      \* bound: the labels people give
    Nothing       \* no job, no row loaded

Label      == Labels \cup {Abstain}
Confidence == {"zero", "low", "high"}    \* low < REVIEW_THRESHOLD <= high
Verdict    == [label : Label, confidence : Confidence]
Abstention == [label |-> Abstain, confidence |-> "zero"]

ASSUME RowAssumption == Rows \subseteq Nat /\ IsFiniteSet(Rows)
ASSUME PostedAssumption ==
    Posted \in [Rows -> Nat] /\ \A q, r \in Rows : q < r => Posted[q] <= Posted[r]
ASSUME ProcessAssumption == Runs \cap People = {}
ASSUME LabelAssumption ==
    Null \notin Label /\ Abstain \notin Labels /\ Choices \subseteq Label
ASSUME VerdictAssumption ==
    RuleSays \in [Rows -> Verdict] /\ \A answer \in ModelSays : answer.confidence \in Confidence
ASSUME BoundAssumption == ChunkSize \in Nat \ {0} /\ Limits \subseteq Nat

VARIABLES
    table,     \* committed columns of every row
    pc,        \* where each process is
    job,       \* what it was started to do
    later,     \* rows it has still to ask about (the model, or the person)
    group,     \* rows of a split merchant still to be asked about
    plan,      \* the assignments it will make in this transaction, by row
    loaded,    \* the row its SELECT loaded, while its UPDATE is not sent
    pending,   \* its uncommitted UPDATEs, by row
    exit,      \* how each run ended last: exit code 0, or not
    selected,  \* history: the rows a run set out to examine
    chunk,     \* history: the rows whose answers this transaction records
    paid       \* history: rows whose answer from the model was committed

vars == <<table, pc, job, later, group, plan, loaded, pending, exit, selected, chunk, paid>>

Processes == Runs \cup People
Columns   == {"label", "confidence", "by", "confirmed"}
Row == [label : Label \cup {Null}, confidence : Confidence \cup {Null},
        by : Models \cup {Rules, Null}, confirmed : Label \cup {Null}]
Job == [reclassify : BOOLEAN, by : Models]
Empty == [r \in {} |-> Nothing]

Effective(row) == IF row.confirmed # Null THEN row.confirmed ELSE row.label

Unclassified(row) == row.label = Null
AwaitingReview(row) ==
    /\ row.confirmed = Null
    /\ row.label \in {Null, Abstain} \/ row.confidence # "high"

Unconfirmed(row) == row.confirmed = Null     \* awaiting_review(1.001)

\* ORDER BY posted_on, id, or posted_on DESC, id: of one date the lower id
\* comes first either way.
ComesBefore(q, r, newestFirst) ==
    IF newestFirst THEN Posted[q] > Posted[r] \/ (Posted[q] = Posted[r] /\ q < r) ELSE q < r

FirstOf(S) == CHOOSE r \in S : \A q \in S \ {r} : ComesBefore(r, q, TRUE)

\* The first n of S, oldest first or newest first.
Leading(S, n, newestFirst) ==
    {r \in S : Cardinality({q \in S : ComesBefore(q, r, newestFirst)}) < n}

----------------------------------------------------------------------------
(* The unit of work *)

\* The order in which p writes the rows it planned: a run records answers
\* before abstentions, each in the order it selected them; a person works
\* through the queue, newest first.
Precedes(p, r, q) ==
    LET late(x) == p \in Runs /\ plan[p][x].label = Abstain IN
    IF late(r) # late(q) THEN late(q)
    ELSE ComesBefore(r, q, p \notin Runs \/ job[p].reclassify)

IsNext(p, r) == r \in DOMAIN plan[p] /\ \A q \in DOMAIN plan[p] \ {r} : Precedes(p, r, q)

WaitsFor(p, q) ==
    /\ p # q /\ pc[p] = "write" /\ loaded[p] # Nothing
    /\ \E r \in DOMAIN plan[p] : IsNext(p, r) /\ r \in DOMAIN pending[q]

Blocked(p) == \E q \in Processes : WaitsFor(p, q)

InWaitCycle(p) ==
    \E C \in SUBSET Processes :
        /\ p \in C
        /\ \A q \in C : (\E t \in C : WaitsFor(q, t)) /\ (\E t \in C : WaitsFor(t, q))

\* The columns an UPDATE sends: those whose value is not the loaded one.
Changes(patch, row) == [c \in {d \in DOMAIN patch : patch[d] # row[d]} |-> patch[c]]

Apply(row, patch) == [c \in Columns |-> IF c \in DOMAIN patch THEN patch[c] ELSE row[c]]

Without(f, r) == [x \in DOMAIN f \ {r} |-> f[x]]

Init ==
    /\ table    = [r \in Rows |-> [c \in Columns |-> Null]]
    /\ pc       = [p \in Processes |-> "idle"]
    /\ job      = [p \in Processes |-> Nothing]
    /\ later    = [p \in Processes |-> {}]
    /\ group    = [p \in Processes |-> {}]
    /\ plan     = [p \in Processes |-> Empty]
    /\ loaded   = [p \in Processes |-> Nothing]
    /\ pending  = [p \in Processes |-> Empty]
    /\ exit     = [c \in Runs |-> "none"]
    /\ selected = [p \in Processes |-> {}]
    /\ chunk    = [p \in Processes |-> {}]
    /\ paid     = {}

\* _require_own_transaction: the SELECT before the assignments.
Load(p) ==
    /\ pc[p] = "write" /\ loaded[p] = Nothing
    /\ \E r \in Rows :
        /\ IsNext(p, r)
        /\ loaded' = [loaded EXCEPT ![p] = table[r]]
    /\ UNCHANGED <<table, pc, job, later, group, plan, pending, exit, selected, chunk, paid>>

\* session.flush(): the UPDATE.  A split merchant's next row is asked about
\* before anything is committed.
Flush(p) ==
    /\ pc[p] = "write" /\ loaded[p] # Nothing /\ ~Blocked(p)
    /\ \E r \in Rows :
        /\ IsNext(p, r)
        /\ pending' = [pending EXCEPT ![p] =
                          [x \in DOMAIN @ \cup {r} |->
                              IF x = r THEN Changes(plan[p][r], loaded[p]) ELSE @[x]]]
        /\ plan' = [plan EXCEPT ![p] = Without(@, r)]
    /\ loaded' = [loaded EXCEPT ![p] = Nothing]
    /\ pc' = [pc EXCEPT ![p] = IF group[p] # {} THEN "row" ELSE @]
    /\ UNCHANGED <<table, job, later, group, exit, selected, chunk, paid>>

\* What p updated becomes visible and its row locks are released.
Publish(p) ==
    /\ table' = [r \in Rows |-> IF r \in DOMAIN pending[p] THEN Apply(table[r], pending[p][r])
                                ELSE table[r]]
    /\ pending' = [pending EXCEPT ![p] = Empty]

Leave(p, code) ==
    /\ pc'     = [pc EXCEPT ![p] = "idle"]
    /\ job'    = [job EXCEPT ![p] = Nothing]
    /\ later'  = [later EXCEPT ![p] = {}]
    /\ group'  = [group EXCEPT ![p] = {}]
    /\ plan'   = [plan EXCEPT ![p] = Empty]
    /\ loaded' = [loaded EXCEPT ![p] = Nothing]
    /\ selected' = [selected EXCEPT ![p] = {}]
    /\ chunk'  = [chunk EXCEPT ![p] = {}]
    /\ exit'   = [c \in Runs |-> IF c = p THEN code ELSE exit[c]]

\* session.commit(), and on to the next chunk or merchant, if there is one.
Commit(p) ==
    /\ pc[p] = "write" /\ DOMAIN plan[p] = {} /\ group[p] = {}
    /\ Publish(p)
    /\ paid' = paid \cup chunk[p]
    /\ \/ /\ later[p] = {}
          /\ Leave(p, "done")
       \/ /\ later[p] # {}
          /\ pc' = [pc EXCEPT ![p] = IF p \in Runs THEN "model" ELSE "merchant"]
          /\ chunk' = [chunk EXCEPT ![p] = {}]
          /\ UNCHANGED <<job, later, group, plan, loaded, exit, selected>>

\* The process dies, the connection drops, Ctrl-C, or PostgreSQL aborts the
\* transaction: what is not committed is gone.
Abort(p) ==
    /\ pc[p] # "idle"
    /\ pending' = [pending EXCEPT ![p] = Empty]
    /\ Leave(p, "failed")
    /\ UNCHANGED <<table, paid>>

DeadlockAbort(p) == InWaitCycle(p) /\ Abort(p)

----------------------------------------------------------------------------
(* categorise.py *)

\* Mutant of Suggest: a new suggestion asks for a new decision.
SuggestAfresh(verdict, by) ==
    [label |-> verdict.label, confidence |-> verdict.confidence, by |-> by,
     confirmed |-> Null]

\* record_suggestion: the columns a suggestion is written to.
Suggest(verdict, by) == [label |-> verdict.label, confidence |-> verdict.confidence, by |-> by]

\* Select the rows, predict them with the rules, and past the --yes gate write
\* what the rules answered; the rest is for the model.
StartRun(c, reclassify, model, limit) ==
    LET all   == {r \in Rows : IF reclassify THEN Unconfirmed(table[r])
                               ELSE Unclassified(table[r])}
        mine  == Leading(all, limit, reclassify)
        known == {r \in mine : RuleSays[r].label # Abstain}
    IN
    /\ pc[c] = "idle"
    /\ pc'    = [pc EXCEPT ![c] = "write"]
    /\ job'   = [job EXCEPT ![c] = [reclassify |-> reclassify, by |-> model]]
    /\ plan'  = [plan EXCEPT ![c] = [r \in known |-> Suggest(RuleSays[r], Rules)]]
    /\ later' = [later EXCEPT ![c] = mine \ known]
    /\ selected' = [selected EXCEPT ![c] = mine]
    /\ exit' = [exit EXCEPT ![c] = "none"]
    /\ UNCHANGED <<table, group, loaded, pending, chunk, paid>>

\* LLMCategoriser.predict: an answer outside the taxonomy is an abstention, and
\* so is a provider call that failed.
Said(answer) == IF answer.label \in Labels THEN answer ELSE Abstention

\* Mutants of AskModel: the next chunk starts one row late; the same chunk comes
\* again; abstentions are printed and not recorded.
AskModelOffByOne(c) ==
    LET next == Leading(later[c], ChunkSize, job[c].reclassify) IN
    /\ pc[c] = "model"
    /\ \E answers \in [next -> ModelSays] :
        plan' = [plan EXCEPT ![c] = [r \in next |-> Suggest(Said(answers[r]), job[c].by)]]
    /\ chunk' = [chunk EXCEPT ![c] = next]
    /\ later' = [later EXCEPT ![c] = @ \ Leading(@, ChunkSize + 1, job[c].reclassify)]
    /\ pc'    = [pc EXCEPT ![c] = "write"]
    /\ UNCHANGED <<table, job, group, loaded, pending, exit, selected, paid>>
AskModelAgain(c) ==
    LET next == Leading(later[c], ChunkSize, job[c].reclassify) IN
    /\ pc[c] = "model"
    /\ \E answers \in [next -> ModelSays] :
        plan' = [plan EXCEPT ![c] = [r \in next |-> Suggest(Said(answers[r]), job[c].by)]]
    /\ chunk' = [chunk EXCEPT ![c] = next]
    /\ pc'    = [pc EXCEPT ![c] = "write"]
    /\ UNCHANGED <<table, job, later, group, loaded, pending, exit, selected, paid>>
AskModelDropping(c) ==
    LET next == Leading(later[c], ChunkSize, job[c].reclassify) IN
    /\ pc[c] = "model"
    /\ \E answers \in [next -> ModelSays] :
        plan' = [plan EXCEPT ![c] =
                    [r \in {x \in next : Said(answers[x]) # Abstention} |->
                        Suggest(Said(answers[r]), job[c].by)]]
    /\ chunk' = [chunk EXCEPT ![c] = next]
    /\ later' = [later EXCEPT ![c] = @ \ next]
    /\ pc'    = [pc EXCEPT ![c] = "write"]
    /\ UNCHANGED <<table, job, group, loaded, pending, exit, selected, paid>>

\* The model is asked about the next chunk; no transaction is open meanwhile.
AskModel(c) ==
    LET next == Leading(later[c], ChunkSize, job[c].reclassify) IN
    /\ pc[c] = "model"
    /\ \E answers \in [next -> ModelSays] :
        plan' = [plan EXCEPT ![c] = [r \in next |-> Suggest(Said(answers[r]), job[c].by)]]
    /\ chunk' = [chunk EXCEPT ![c] = next]
    /\ later' = [later EXCEPT ![c] = @ \ next]
    /\ pc'    = [pc EXCEPT ![c] = "write"]
    /\ UNCHANGED <<table, job, group, loaded, pending, exit, selected, paid>>

----------------------------------------------------------------------------
(* review.py work, and the label route *)

Decide(label) == [confirmed |-> label]

\* The queue is read once, for the whole session.
StartReview(p) ==
    LET queue == {r \in Rows : AwaitingReview(table[r])} IN
    /\ pc[p] = "idle" /\ queue # {}
    /\ pc'    = [pc EXCEPT ![p] = "merchant"]
    /\ later' = [later EXCEPT ![p] = queue]
    /\ UNCHANGED <<table, job, group, plan, loaded, pending, exit, selected, chunk, paid>>

\* The merchant of the newest row still in the queue.
Current(p) == {r \in later[p] : Merchant[r] = Merchant[FirstOf(later[p])]}

\* One label for all the rows of the merchant.
AnswerAll(p, label) ==
    /\ pc[p] = "merchant"
    /\ plan'  = [plan EXCEPT ![p] = [r \in Current(p) |-> Decide(label)]]
    /\ later' = [later EXCEPT ![p] = @ \ Current(p)]
    /\ pc'    = [pc EXCEPT ![p] = "write"]
    /\ UNCHANGED <<table, job, group, loaded, pending, exit, selected, chunk, paid>>

\* The rows of the merchant one by one.
Split(p) ==
    /\ pc[p] = "merchant" /\ Cardinality(Current(p)) > 1
    /\ group' = [group EXCEPT ![p] = Current(p)]
    /\ later' = [later EXCEPT ![p] = @ \ Current(p)]
    /\ pc'    = [pc EXCEPT ![p] = "row"]
    /\ UNCHANGED <<table, job, plan, loaded, pending, exit, selected, chunk, paid>>

AnswerRow(p, label) ==
    /\ pc[p] = "row"
    /\ plan'  = [plan EXCEPT ![p] = [r \in {FirstOf(group[p])} |-> Decide(label)]]
    /\ group' = [group EXCEPT ![p] = @ \ {FirstOf(@)}]
    /\ pc'    = [pc EXCEPT ![p] = "write"]
    /\ UNCHANGED <<table, job, later, loaded, pending, exit, selected, chunk, paid>>

\* q, or the end of the input: what was answered is committed.
Quit(p) ==
    /\ pc[p] \in {"merchant", "row"}
    /\ Publish(p)
    /\ Leave(p, "done")
    /\ UNCHANGED paid

\* POST /v1/transactions/{id}/label, for any row.
ConfirmOne(p, r, label) ==
    /\ pc[p] = "idle"
    /\ pc'   = [pc EXCEPT ![p] = "write"]
    /\ plan' = [plan EXCEPT ![p] = [x \in {r} |-> Decide(label)]]
    /\ UNCHANGED <<table, job, later, group, loaded, pending, exit, selected, chunk, paid>>

----------------------------------------------------------------------------
Answer(p) == (\E l \in Choices : AnswerAll(p, l) \/ AnswerRow(p, l)) \/ Split(p) \/ Quit(p)

Proceed(p) == Load(p) \/ Commit(p) \/ (p \in Runs /\ AskModel(p))

Next ==
    \/ \E c \in Runs, reclassify \in BOOLEAN, m \in Models, n \in Limits :
            StartRun(c, reclassify, m, n)
    \/ \E p \in People : StartReview(p) \/ Answer(p)
    \/ \E p \in People, r \in Rows, l \in Choices : ConfirmOne(p, r, l)
    \/ \E p \in Processes : Proceed(p) \/ Flush(p) \/ DeadlockAbort(p) \/ Abort(p)

Spec == Init /\ [][Next]_vars

\* Statements, provider calls and commits complete (the transport times out),
\* PostgreSQL detects a deadlock, and a session woken from a row lock again and
\* again gets it.  Nothing makes a person answer.
Fairness ==
    \A p \in Processes : WF_vars(Proceed(p)) /\ WF_vars(DeadlockAbort(p)) /\ SF_vars(Flush(p))

FairSpec == Spec /\ Fairness

----------------------------------------------------------------------------
(* Properties *)

\* Every column holds what the code may store: labels are in the taxonomy
\* whatever a provider returned, and no two sessions hold the same row.
TypeOK ==
    /\ table \in [Rows -> Row]
    /\ pc \in [Processes -> {"idle", "write", "model", "merchant", "row"}]
    /\ job \in [Processes -> Job \cup {Nothing}]
    /\ later \in [Processes -> SUBSET Rows]
    /\ group \in [Processes -> SUBSET Rows]
    /\ loaded \in [Processes -> Row \cup {Nothing}]
    /\ exit \in [Runs -> {"none", "done", "failed"}]
    /\ selected \in [Processes -> SUBSET Rows]
    /\ chunk \in [Processes -> SUBSET Rows]
    /\ paid \subseteq Rows
    /\ \A p \in Processes : DOMAIN plan[p] \subseteq Rows /\ DOMAIN pending[p] \subseteq Rows
    /\ \A p, q \in Processes : p # q => DOMAIN pending[p] \cap DOMAIN pending[q] = {}

\* What a person decided is what a row reports, until a person decides again:
\* no categoriser, whatever it had read before, takes a decision back.
DecisionsStand ==
    [][\A r \in Rows :
        (table[r].confirmed # Null /\ Effective(table'[r]) # Effective(table[r])) =>
            \E p \in People : r \in DOMAIN pending[p] /\ r \notin DOMAIN pending'[p]]_vars

\* A run that ends by itself has examined every row it set out to examine: no
\* row is lost between the tiers or at a chunk boundary.
FinishedMeansExamined ==
    [][\A c \in Runs :
        (pc[c] # "idle" /\ pc'[c] = "idle" /\ exit'[c] = "done") =>
            \A r \in selected[c] : table'[r].label # Null]_vars

\* "Re-running the command is resume": after any crash, a plain run asks the
\* model only about rows whose answer was never committed.  It is a promise to
\* one run at a time: two that overlap select the same rows and both ask.
ResumeAsksOnlyTheRest ==
    \A c \in Runs :
        (pc[c] = "model" /\ ~job[c].reclassify) => later[c] \cap paid = {}

AtPrompt(p) == p \in People /\ pc[p] \in {"merchant", "row"}

\* A categoriser run ends, unless it waits for a row somebody at a prompt holds:
\* `_split_group` asks its next question with the last answer's row locked.
RunsEndUnlessAtPrompt ==
    \A c \in Runs : (pc[c] # "idle") ~>
        (pc[c] = "idle" \/ \E p \in People : AtPrompt(p) /\ DOMAIN pending[p] # {})
================================================================================
