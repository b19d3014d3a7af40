# A TLA+ model of the finance backend

This directory holds TLA+ specifications of the Python backend under
`src/backend`, TLC configurations that model-check them, and TLAPS proofs about
them. The specifications follow the code at statement level where statements of
different requests can interleave, and abstract everything else.

- [The system](#the-system): inventory of its components
- [Modules](#modules): what models what, action by action
- [Runs](#runs): what TLC checks, the bounds, the fairness
- [Proofs](#proofs): what TLAPS proves and how the argument goes
- [Where the code and its documentation disagree](#where-the-code-and-its-documentation-disagree)
- [Not modelled](#not-modelled) and [Plan](#plan)

Paths in this file are below `src/backend/src/offerdelta/` unless they start with
`src/`.

## The system

A FastAPI application (`api/main.py`) with one uvicorn process, and command-line
programs (`src/backend/transactions.py`, `categorise.py`, `review.py`, `users.py`)
that use the same application services against the same PostgreSQL database. Route
handlers are plain functions, which FastAPI runs in a thread pool: requests of one
process run concurrently. `infrastructure/postgres/engine.py` sets no isolation
level, so every transaction runs at PostgreSQL's default, READ COMMITTED: each
statement sees what is committed when it runs, and an INSERT or UPDATE that meets
another transaction's uncommitted row waits for it.

| component | state | operations | what is hard | what makes it correct |
|---|---|---|---|---|
| **Transaction store** `infrastructure/postgres/repositories.py`, `application/transactions/` | tables `transactions`, `import_batches`; unique keys (account, fingerprint, occurrence), (account, external id), (account, checksum) | `import_csv` snapshot and incremental, `enter_transaction`, `add_many`, `open` batch | statements of overlapping imports interleave; row identity is a number computed from an earlier SELECT; conflicts, deadlocks, crashes | no charge lost or counted twice; identities gapless; a batch implies its rows; every operation is one indivisible ledger step and ends |
| **Import planning** `ingest/`, `records/transactions.py` | none (a file, a plan) | map headers, infer dates and signs; set lines aside; check ids and the declared window; digest before and after reading | the file changes while read; boundaries of the window; ambiguous dates | a plan is the whole of one version of the file, and asks where it cannot know |
| **Idempotency** `application/idempotency.py`, `infrastructure/memory/idempotency.py` | one dictionary per process | `begin`, `complete`, `abandon` around `POST /v1/comparisons` | threads interleave between dictionary operations; TTL; a handler fails; a restart | work done once per key, replays are the original answer, no key stuck |
| **Classification and review** `src/backend/categorise.py`, `src/backend/review.py`, label route | four columns of `transactions` | rule pass, model pass in chunks, review queue, label request | read minutes before write; column-wise UPDATEs; row locks held while a person thinks; resume after a crash | decisions stand; nothing skipped or paid for twice |
| **Login limiter** `api/rate_limit.py` | one dictionary of windows per process | `check`, sweep of expired windows | no lock between threads; the boundary of a fixed window | at most the limit per window and address; nobody refused by a window that is over |
| **Users, accounts, tokens** `application/auth.py`, `infrastructure/auth/`, repositories, `src/backend/users.py` | tables `users`, `accounts`; signed tokens, nowhere stored | create, set-password, deactivate, register; login, authorise, enter | SELECT then INSERT on a unique key; a row loaded before a rival's commit; a token that outlives its user | a deactivated user is refused and stays so; one row per address and key; tenants apart |
| **Reports and investigations** `application/reports/`, `application/queries/`, `domain/reports/` | none (reads) | monthly report, list of months, observed debits, spend change | several SELECTs per report; merging windows; December; a tree that drops a branch | a report covers exactly the rows it sums; coverage is not overstated |
| **LLM transport** `infrastructure/llm/` | attempts and a clock | call with retry | Retry-After against the budget; last attempt; jitter | bounded attempts and waiting, no retry of what cannot succeed |
| **Hybrid categoriser** `evaluation/llm_categoriser.py` | usage counters | rules, escalation to the model | failures and answers outside the taxonomy | answers in the taxonomy, costs add up |
| **Operations agent** `agent/` | a transcript, turns | run a turn, execute calls, stop | limit reached with calls unanswered; repeated and empty call ids | each call answered exactly once, every run ends |
| **Comparison engine and solvers** `domain/comparisons/`, `domain/solvers/`, `domain/costs/`, `domain/employment/` | none | monthly projection of two lives, deltas, break-even, equivalent salary, negotiation levers | first and last months, sign changes, bisection termination | impacts add up to the total and are explained; the break-even month is the first that stays positive; a salary found is a match |
| **Money, periods** `domain/common/` | none | allocate, scale, walk months | remainders and rounding; short months | shares sum to the whole; no month skipped or repeated |
| **Recurrence** `domain/transactions/recurrence.py` | none | detect regular charges | spacing and amount tolerances, order of the export | found whatever the order; an unchanged price really is |
| **Public demo** `application/queries/operations_demo.py` | a synthetic ledger | four read-only tools, a scripted investigation | ids, duplicates, periods that overlap | findings are rows of the ledger |
| **Annotation tool** `src/backend/annotate.py` | the dataset file; memory per merchant | two annotators' passes, adjudication, undo, skip, save | undo after a save; a kill; a terminal that goes away | little lost, nothing forgotten, annotators independent |
| **Evaluation** `evaluation/` | files | validate, split, score, sweep | a row usable for one step and not the next | validated means scorable; no leak across the split |
| **Comparison runs**, **HTTP schemas and static client**, **demo seeding**, **migrations** | | `save`, formatting, fixed rows, DDL | | |

How they interact. A route opens one database transaction for the request
(`api/main.py`, `_session`), calls an application service, which calls
repositories, and the dependency commits after the handler returned; the
command-line programs do the same with one transaction per import, and one per
chunk or merchant when classifying. Import planning is finished before the
transaction reads anything. Every request but login reads the user row its token
names before anything else. Categoriser runs, review sessions and label requests
meet in the columns of one row and nowhere else; reports read those columns and
the batches beside them. The idempotency store and the login limiter are shared
by the threads of one process and lost with it. The agent and the categoriser call
the model through the same retry loop. No component sends messages; what they
share is the database and two dictionaries.

PROJECT.json lists the same components with their sources and status, and every
behaviour found that is hard to test, each with its line and the properties that
cover it, or why none does yet.

## Modules

| module | stands for | extends |
|---|---|---|
| `TransactionStore` | the transaction store of one account, statement by statement | |
| `Ledger` | what that store promises, with no sessions, statements or occurrence numbers | |
| `Idempotency` | the idempotency service and store, one dictionary operation at a time | |
| `Classification` | categoriser runs, review sessions and label requests on one tenant's rows | |
| `LoginLimiter` | the limiter's dictionary between the points where threads may switch | |
| `Access` | users, accounts and tokens: requests beside operators' shells | |
| `ReportReads` | reports read SELECT by SELECT beside everything that writes | |
| `ReportTree` | what is computed from the rows that were read | |
| `LlmRetry` | one call of the model API, with a clock | |
| `AgentRuntime`, `Categorisers` | the two clients of that call: the tool loop and the hybrid batch | `LlmRetry` |
| `Shares`, `Months` | exact division of money; months of a horizon | |
| `Projection` | the comparison engine | `Shares`, `Months` |
| `Solvers` | break-even, equivalent salary, negotiation | `Projection` |
| `ImportPlanning` | from a bank's file to its planned records | `Shares` |
| `Investigation`, `Recurrence` | the demo tools; recurring charges | |
| `Annotation`, `Evaluation` | the annotation tool; what becomes of its file | |
| `MC...` | constants, small inputs and compositions for TLC | |
| `TransactionStoreProofs` | theorems about the store and that it implements `Ledger` | `TransactionStore` |
| `AccessProofs` | theorems about the limiter and about users, accounts and tokens | `Access`, `LoginLimiter` |
| `AgentProofs` | theorems about the retry loop, the agent, its score and the batch | `MCAgent` |
| `AlgorithmProofs` | theorems about money, months and break-even | `MCAlgorithms` |
| `ReportReadsProofs` | theorems about reading reports and about what is computed from the rows | `MCReports` |
| `IdempotencyProofs`, `ClassificationProofs`, `AnnotationProofs` | theorems about these modules | |

Some modules hold, next to a definition, variants of it marked *mutant* in their
comment, such as `RowAfterWhole` beside `RowAfter`. They are not part of any
specification. Each is the definition as a plausible mistake would leave it, and
putting it in the definition's place makes a property of some run fail; it shows
that the property depends on that line of the code.

### TransactionStore and Ledger

One account, because nothing crosses accounts: `add_many` refuses a batch of
several, a fingerprint contains the account id and every unique key starts with
it. A session is a request or a CLI process: one database transaction, and one
action per SQL statement together with the Python that uses its result.

| action | code |
|---|---|
| `BeginImport` | `plan_records`: `Records` numbers the identical rows of the file, `Plannable` refuses an empty file and, for incremental imports, missing and repeated ids |
| `CheckModes` | `import_csv` reads the account's earlier modes and refuses the other one |
| `FindBatch`, `OpenBatch` | `ImportBatchRepository.open`: the SELECT, then the INSERT in a savepoint that waits for a rival's uncommitted batch and, once that commits, finds it |
| `BeginEntry`, `ReadHighest` | `enter_transaction`: `max(occurrence)`, then a report of the duplicate or the next number |
| `ReadKeys` | `add_many` for rows without a bank id: stored already when (fingerprint, occurrence) is |
| `ReadIds`, `ReadOffsets` | `add_many` for rows with one: stored already when the id is; numbered after everything under their fingerprint |
| `InsertRow`, `InsertConflict` | the flush: one row after the other in file order, waiting for an uncommitted row with the same key, failing on a committed one (`IntegrityError`, reported as a conflict to retry) |
| `Commit` | the unit of work ends; batch and rows become visible together |
| `DeadlockAbort`, `Crash` | PostgreSQL resolves a wait cycle; the process, the connection or the COMMIT fails |

`rows` and `batches` are the committed tables. `todo`, `held`, `opened` and `job`
are a session's local variables and its uncommitted rows. A row keeps what
identifies it (fingerprint, occurrence, external id) and the line it came from,
which decides the order of the INSERTs; amount, merchant and date are inside the
fingerprint. `outcome` is what the caller is told. `disturbed` is a history
variable: has anyone else committed rows since this session's job began?

`Ledger` states the promise. It has a count per fingerprint, the set of bank ids
and the set of imports, and three atomic operations: a snapshot tops each count up
to what the file lists, an incremental file adds the charges whose ids are new, a
hand entry adds one. `TransactionStore` implements it under the refinement mapping
`Promise`: counts and ids are read off the committed rows, imports are the
batches. It is a strong statement. It says that no interleaving of statements has
an outcome that some order of whole operations would not have.

### Idempotency

`run_comparison` reads the clock, then makes its store calls one by one, with
other handler threads in between: `Arrive` (clock read), `Get` and `Expire` and
`Claim` (`begin`), `Work` (the comparison), `Reread` and `Store` (`complete`),
`Fail` (`abandon` and the error), `Tick`, and `Restart`, which empties the
dictionary. One action is one dictionary operation, which the interpreter lock
makes indivisible. The response is computed from the body alone, so it is named by
the body it answers. `done` (claims answered 201) and `overlapped` (keys two
requests used at the same time) are history variables; the second separates
clients that wait for an answer before they retry from those that do not.

### Classification

One tenant's rows, each with a suggestion (label, confidence, who made it) and a
confirmed label. A write is what SQLAlchemy makes of it: `Load` is the SELECT of
`_require_own_transaction`, `Flush` the UPDATE, which contains **only the columns
whose value differs from the loaded row**, waits for another session's lock on the
row and is then applied to the row as it is by then. `Commit` publishes.

A categoriser run selects its rows and writes the answers of the rules
(`StartRun`), then asks the model about one chunk at a time, outside any
transaction (`AskModel`); `Said` is `LLMCategoriser`'s check against the taxonomy.
A person answers a whole merchant (`AnswerAll`), splits it and answers row by row
with the locks of the answered rows held (`Split`, `AnswerRow`), leaves (`Quit`),
or labels one row over HTTP (`ConfirmOne`). `Abort` is a crash, Ctrl-C or a lost
connection at any point. `selected`, `chunk` and `paid` are history variables.
Confidence has three values, because the code only compares it with the review
threshold and writes zero with an abstention.

### LoginLimiter and Access

`check` is plain Python in a thread pool. Under the interpreter lock another thread
can run at a call and at the backward jump of a loop and nowhere else, and the
steps of `LoginLimiter` are the code between two such points: `EnterCheck` (the
clock), `BeginSweep` and `EndSweep` (the comprehension over the dictionary, which
raises if its size changed), `DeleteExpired` (one `del` per iteration, a KeyError
if another sweep was faster), `GetWindow`, `OpenWindow`, `CountCall`. A window is
an object that two threads can both hold, so `heap` keeps windows and the
dictionary maps addresses to them. `log` is history: what was answered to whom,
when.

`Access` has request threads and operators' shells over the tables `users` and
`accounts`. A request logs in (`BeginLogin`, `Throttle`, `Authenticate`,
`IssueToken`) or enters a transaction with a token (`BeginEntry`, `DecodeToken`,
`LoadActiveUser`, `FindAccount`, `AnswerEntry`, `CommitEntry`): the answer leaves
before the commit, and `LoseRequest` can come between. A shell selects
(`SelectUser`, `SelectAccount`), flushes (`Write`) and commits. `dirty` stands for
the lock or index entry that its uncommitted row holds, on which `Write` of another
shell waits (`Blocked`). An UPDATE names the changed column only (`RowAfter`).
`goneAtStart` is history: was the user deactivated when this request began?

### ReportReads and ReportTree

Every SELECT of `load_month`, `available_months`, the spend comparison and the
review count is a step, in the order of the code (`plan` is what is left to read),
and imports, hand entries, suggestions and confirmations commit in between.
`MergeWindows` and `MonthBounds` are `_merge_windows` and `_month_bounds`. What the
tree, the explanation of a change and the comparison of debits make of the rows
that were read is `ReportTree`; a `ValidationError` is a node whose `ok` is FALSE,
so "the report builds" is itself a property. The rows of a month and the children of a
node are functions, from ids and from codes, because no figure depends on their order;
a place in the tree is the codes that lead to it, and `Walk` is the set of all places.
`build_monthly_report` refuses rows of another month; its caller reads them with
`for_month`, which selects the month, so that check is left out.

### LlmRetry, AgentRuntime and Categorisers

`LlmRetry` is `call_with_retry` around a transport that answers, fails or never
answers, with a clock in ticks: `Send` takes up to `LongestAttempt`, `Backoff` waits the
jittered delay or what Retry-After asks, and the call ends in an answer or one of
three failures. `AgentRuntime` and `Categorisers` begin such a call, wait for its
end and go on: the composition is one module per client that extends it, and
`MCAgent` lets a behaviour be one of either. The agent executes the calls of a
turn one by one (`Execute`), answers them in one message (`ReturnResults`) and stops
at the turn limit, at a provider's failure or at an answer without calls.

### The pure algorithms

`Shares`, `Months`, `Projection`, `Solvers`, `ImportPlanning`, `Investigation` and
`Recurrence` are operators without variables, translated from pure Python. Each
property compares a result with a definition that says what it should be, not how
it is computed: `SplitsExactly`, `BreakEvenIsRight`, `ProjectionIsDue`,
`PlanIsWhole` and so on stand at the end of the module they are about. `MCAlgorithms`
asks one question per behaviour (`AskBill` ... `AskFile`) and the invariants look at
the answer. Amounts are whole units of which `Cent` make one cent, so that an
amount that is no multiple of `Cent` is one that cannot be paid exactly; percentages
go in steps of one over `Whole`; years have `MonthsPerYear` months.
`ImportPlanning` takes the versions of a file that the digest, the read and the
second digest find, and plans records only if the digests agree.

### Annotation and Evaluation

`Annotation` is `annotate.py` prompt by prompt: two annotators and an adjudicator
take passes (`Begin`), answer a label, the question of ambiguity and its reason,
skip, undo or quit. Decisions are in memory until `SaveEvery` of them are written;
`Crash` loses what was not, `TerminalGoes` makes every further answer empty. Saving is
`Truncate` and then `Write`. A crash between the two leaves what was flushed
(`Flushed`): no line, some of the lines, or some and a part of the next. What
`load_dataset` and the validator read of such a line is `Torn`: the columns before the
cut as they were, the column it falls into shortened, the later ones blank, with
`posted_on` the last of them. A shortened label is a text of its own that counts as
settled and is suggested to the next pass, a shortened amount parses or does not, a
shortened description may be another merchant's, and of a shortened date only that
it is none is kept. A blank description makes `load_dataset` raise, so that no
further pass begins (`Opens`). `decided` and `skipped` are history.

`Evaluation` is what the validator, the loader, the split by merchant, the scores and
the threshold sweep make of the file. The validator first looks at every row
(`RowErrors`, which has no word on `posted_on`) and, if nothing is wrong with them,
calls the loader, whose exception it does not catch: `Usable` and `Raises` are its two
ways on from there. `SystemResult` is one system's scores on one side of the split: all
rows and the unambiguous ones have to be some, and a side of ambiguous rows only is
`Refused` ("cannot score an empty subset"); the other strata may be empty and then have
no report. `MCAnnotation` applies all this to every file the tool can leave behind.

## Runs

### Passing

| run | shows | distinct states |
|---|---|---|
| `store` | two sessions import overlapping files in either mode and enter rows by hand, with races, deadlocks and crashes: identities, batches, conflicts, the ledger, liveness | 71 527 |
| `idempotency` | two threads, expiry, failures, restarts: no orphaned key; the contract for clients that wait | 1 336 038 |
| `classification` | one run beside one person: decisions stand, resuming is exact, nothing is skipped, and only an open prompt can hold a run up | 325 716 |
| `access` | the limiter shared by threads, or requests beside operators' shells: how often someone may try and who may act | 2 844 093 |
| `reports` | reports read SELECT by SELECT beside imports, hand entries and labelling, and everything computed from what they read | 354 408 |
| `agent` | the agent loop or a hybrid batch against an API that answers, refuses, stalls or says when to come back | 829 913 |
| `algorithms` | every small bill, horizon, offer, ledger and bank file | 28 114 |
| `annotation` | passes over three rows with undo, ambiguity, a dying terminal and kills within a save or a line of it, and the evaluation of every file they leave | 3 366 405 |

The properties, and why they could fail:

- `OccurrencesContiguous`: while an account holds no bank ids, identical rows are
  numbered 1..n. The number is computed from a SELECT and used several statements
  later, so it takes the unique key, the wait for it *and* the rollback of the
  whole transaction to keep it.
- `BatchIsComplete`: a committed batch has all its rows, whatever crashed.
- `AnswersAreTrue`: "already imported" is only said where all rows of the file are
  committed, also to the loser of a race who waited on a batch that may yet have been
  rolled back (`AlreadyImportedIsTrue`); an entry nobody calls a repeat is stored only
  where no charge like it was, and one reported as a duplicate has its like in the
  table, although the count it goes by is several statements old (`EntriesAreTrue`).
- `SoloNeverConflicts`: a reported conflict means that somebody else committed
  meanwhile, so that "retry" is good advice and no file conflicts with itself.
- `ModesMixOnlyByOverlap`: the mode check, which takes no lock, is enough for
  imports made one after the other. (For imports that overlap it is not: see
  `store_mode_race`.)
- `ImplementsLedger`, `EveryOperationEnds`: see above; the second is liveness.
- `NoOrphanedClaim`: a key in flight has a request that will finish it.
- `KeyWorksOnce`, `ReplayIsOriginal`: the contract at the head of
  `application/idempotency.py`, for keys that no two requests used at once.
- `DecisionsStand`: what a row reports changes only by a person once a person has
  decided, although a run may write a suggestion it computed from an older read.
- `ResumeAsksOnlyTheRest`, `FinishedMeansExamined`: resuming never asks the model
  about an answer already committed; a run that finishes missed no row.
- `RunsEndUnlessAtPrompt`: the liveness that the code really gives: a run waits
  for ever only behind a person who split a merchant and does not answer.
- `SequentialBudget`: without overlapping calls no interval of one window's length
  admits more than `2 * MaxAttempts - 1` calls for one user row, however the address
  is spelled, and no call fails. `NoFalseRefusal` holds with overlaps too: whoever is
  refused really was preceded by `MaxAttempts` admitted calls, although windows are
  swept and opened anew by other threads in between.
- `DeactivationTakesEffect`, `DeactivationStands`: a request that began after a
  deactivation gets neither a token nor a 201, and no `set-password` that loaded
  the user before turns it on again.
- `RegistrationIsDecided`: of two shells that create the same thing one wins, and
  the other is told so only if that is true. `TenantsAreSeparate`: an entry lies in
  an account that its own user registered, although keys repeat between users.
- `CompleteMeansEveryDay`: the merged windows cover a month exactly if each of its
  days lies in some window. `ListedCompleteIsWhole`: a listing that calls a month
  complete has the rows of the imports that made it so, because it reads windows
  first. `EveryRowInOneMonth`: no row falls between two months or into both.
- `ReportsBuild`, `DebitsAreAccountedFor`: no combination of labels, confirmations
  and signs makes the tree of a report or a comparison inconsistent, and each
  accounts for every row.
- `RetriesKeepTheBudget`: no attempt starts after the deadline or before the server
  allows, and the loop gives up only when it must.
- `EveryCallAnsweredOnce`: whatever ids the model repeats or leaves empty, each call
  gets one answer, in order, and none runs twice. `FiguresAddUp`: what a run and a
  batch report of themselves agrees with what happened. `EveryRunEnds`: liveness.
- `BillsAreSplitExactly`, `MonthsAreCountedRight`, `ComparisonsAddUp`,
  `SolversAnswer`, `InvestigationsStand`, `PlansAreWhole`: the pure algorithms
  against their definitions. Behind the names stand, among others: no cent lost in
  a split and nobody off by one; what a month is charged is what is due by its
  dates; the lines of a comparison, the roots of its trees and the end of its series
  are one number; granting a feasible ask really closes the gap; every line of a
  file with content is a record, or there are no records.
- `SuggestionsAreOnesOwn`: nothing of one annotator's pass reaches the other's.
  `CrashCostsLittle`: a crash at a prompt loses fewer than `SaveEvery` labels, also
  where some were undone and entered again since the last save.
  `FinishedLeavesOnlySkipped`: also after undoing. `DeadTerminalEnds`: liveness.
- `EvaluationStands`, of every file that is left, whole or torn: what the loader takes
  has no row error; what the validator finds none in opens for the next pass, and the
  loader refuses it for a cut date only. What is usable is split with no merchant on
  both sides; a side is scored unless all its rows are ambiguous, and then strata,
  classes and recorded predictions add up to the report; the threshold separates as
  promised.

**Bounds.** What matters is that each interesting case occurs within them.

- Store: two sessions, since every hazard above is between two; two fingerprints,
  three ids and both modes; file `f1` lists identical charges, `f2` overlaps it and
  lists the shared rows in the opposite order (deadlock); `MaxOccurrence = 2`, above
  which nobody *starts* another repeat (imports may go further).
- Idempotency: two threads, one key and the absent one (keys do not interact), two
  bodies, TTL 2 and a clock up to 3: time to claim, expire and claim again.
- Classification: four rows of two merchants, two answered by the rules and two
  left to the model in chunks of one, so that there are two chunks to crash between
  and a merchant to split; the model's answers are one confident label and one
  outside the taxonomy; one run and one person; `--limit` large enough for all. The
  last two rows are of one date, where oldest and newest first put them in the same
  order.
- Access: for the limiter two threads, two addresses in three spellings, two
  attempts per window of two ticks, times 0 to 2 and four calls, enough to fill a
  window, let it expire and be swept by both threads. For the rest two users with
  the same account key, one request thread that serves two requests, two shells with
  two commands each, and tokens that live one tick. The two machines share no state,
  so a behaviour is one of either.
- Reports: two years of two months of three days, hence a month boundary within a
  year and one across it; four rows, two snapshots a day apart, one that overlaps and
  outlasts the second, and an incremental file; either one hand entry, suggestion or
  confirmation between the SELECTs, or everything imported and any state of the labels
  from the start. A behaviour ends with one request.
- Agent: three attempts, deadline 4, an attempt of at most one tick, Retry-After of 1 and 5 against a cap
  of 3; two turns of up to two calls, among them repeated and empty ids, an unknown
  tool and invalid arguments; batches of two rows.
- Algorithms: amounts of up to seven cents and fractions of cents; up to three
  shares; horizons of up to six months starting on any day; months of two to four
  days, percentages in quarters; a bisection over 0..512 with tolerance 32, cut off
  after two iterations or converging within four; files of two or three lines from
  ten kinds of lines, with two lines sampled; ledgers of five rows; recurrence with
  the real tolerances and cadences over three or four bills.
- Annotation: three rows of two merchants in two statements, one merchant's name the
  beginning of the other's; two labels that are cut to the same text; a save after every
  second label, so that decisions are undone and entered again before, at and after a
  save; a terminal given up after two empty answers. `MaxPasses = 3` is a pass of
  each annotator and the adjudicator, which a file needs to become usable with a
  disagreement, or two passes and one that finds what a crash left. `MaxDetours = 2` is
  one budget for skips, undos, questions of ambiguity and crashes: any two of them meet
  in a behaviour, as an undo after a skip or a crash after a crash. For the evaluation
  every prediction over three labels and every confidence over three thresholds. With
  two rows to a save an undo takes back the one unsaved label or a saved one, so a count
  that `_rewind` set to zero would do no harm yet: that takes `SaveEvery = 3` and four rows,
  which is out of TLC's reach and in that of `FewAreUnsaved`, which is about every
  `SaveEvery`.

**Deadlock** is checked where every process can always start again: `store`,
`idempotency`, `classification`. In `access`, `reports`, `agent` and
the runs of `MCAlgorithms` behaviours end at their bounds, with the request or with
the answer, and the check is off. So it is in `annotation`, where they end with the
last pass, and sooner where a save died in a description: every later pass refuses
such a file.

**Fairness.** Only the runs with liveness assume any. Store: weak fairness of a
session's statements, because a running handler goes on; weak fairness of
`DeadlockAbort`, because PostgreSQL's detector fires when a wait cycle persists;
strong fairness of `OpenBatch` and `InsertRow`, the two statements that wait for
another transaction, because PostgreSQL queues the waiters of a lock, so that one
which is released again and again gets its turn. No fairness of beginning a job or
of crashing. Classification: the same for statements, provider calls (the
transport has a timeout per socket operation, and answers end) and UPDATEs, and none
for what a person does at a prompt. Agent: one thread does everything, so weak
fairness of the next step, of which time passing within an attempt is one.
Annotation: weak fairness of the answers of a terminal that is gone, which `input()`
gives at once, and of the two steps of a save; none of a person's answers.

### Violated

Four further runs check one property each that the repository states and TLC
refutes; they are listed below.

## Proofs

TLAPS checks 2759 obligations in `TransactionStoreProofs`, 4022 in `AlgorithmProofs`, 574
in `IdempotencyProofs`, 827 in `ClassificationProofs`, 3086 in `AccessProofs`, 3642 in
`ReportReadsProofs`, 2239 in `AgentProofs` and 2595 in `AnnotationProofs`. The theorems
hold for any number of sessions, threads, shells, people, annotators, users, rows, files,
fingerprints and keys, any calendar, any amounts and labels, any retry policy and turn limit, and any bounds.

| theorem | statement |
|---|---|
| `TransactionStoreProofs!TypeCorrect` | `Spec => []TypeOK` |
| `TransactionStoreProofs!NumberedWithoutGaps` | `Spec => []OccurrencesContiguous` |
| `TransactionStoreProofs!BatchesComplete` | `Spec => []BatchIsComplete` |
| `TransactionStoreProofs!AlreadyImportedHolds` | `Spec => AlreadyImportedIsTrue` |
| `TransactionStoreProofs!StoreImplementsLedger` | `Spec => ImplementsLedger` |
| `TransactionStoreProofs!SoloConflictsNever` | `Spec => SoloNeverConflicts` |
| `TransactionStoreProofs!ModesMixByOverlap` | `Spec => ModesMixOnlyByOverlap` |
| `TransactionStoreProofs!AnswersHold` | `IdsNameCharges => (Spec => AnswersAreTrue)` |
| `IdempotencyProofs!TypeCorrect` | `Spec => []TypeOK` |
| `IdempotencyProofs!NoKeyIsOrphaned` | `Spec => []NoOrphanedClaim` |
| `IdempotencyProofs!WorkIsDoneOnce` | `Spec => KeyWorksOnce` |
| `IdempotencyProofs!ReplaysAreOriginal` | `Spec => ReplayIsOriginal` |
| `ClassificationProofs!TypeCorrect` | `Spec => []TypeOK` |
| `ClassificationProofs!DecisionsAreKept` | `Spec => DecisionsStand` |
| `ClassificationProofs!FinishedRunsExamined` | `Spec => FinishedMeansExamined` |
| `ClassificationProofs!ResumingAsksTheRest` | `OneRun => (Spec => []ResumeAsksOnlyTheRest)` |
| `AccessProofs!RefusalsAreRight` | `LimiterSpec => []NoFalseRefusal` |
| `AccessProofs!BudgetHolds` | `LimiterSpec => []SequentialBudget` |
| `AccessProofs!TypeCorrect` | `AccessSpec => []AccessTypeOK` |
| `AccessProofs!DeactivationsTakeEffect` | `AccessSpec => []DeactivationTakesEffect` |
| `AccessProofs!DeactivationsStand` | `AccessSpec => DeactivationStands` |
| `AccessProofs!RegistrationsAreDecided` | `AccessSpec => []RegistrationIsDecided` |
| `AccessProofs!TenantsStayApart` | `AccessSpec => []TenantsAreSeparate` |
| `ReportReadsProofs!CompleteIsEveryDay` | `ReadsSpec => []CompleteMeansEveryDay` |
| `ReportReadsProofs!ListedIsWhole` | `ReadsSpec => []ListedCompleteIsWhole` |
| `ReportReadsProofs!RowsAreListedOnce` | `ReadsSpec => []EveryRowInOneMonth` |
| `ReportReadsProofs!ReportsDoBuild` | `MCSpec => []ReportsBuild` |
| `ReportReadsProofs!DebitsAreAccounted` | `MCSpec => []DebitsAreAccountedFor` |
| `AgentProofs!BudgetIsKept` | `RetrySpec => []RetriesKeepTheBudget` |
| `AgentProofs!ClientsRefineTheLoop` | `(AgentSpec => RetrySpec) /\ (BatchSpec => RetrySpec)` |
| `AgentProofs!CallsAreAnswered` | `AgentSpec => []EveryCallAnsweredOnce` |
| `AgentProofs!BatchesAddUp` | `BatchSpec => []UsageAddsUp` |
| `AgentProofs!FiguresDoAddUp` | `MCSpec => []FiguresAddUp` |
| `AgentProofs!ComposedClientsStand` | `MCSpec => [](RetriesKeepTheBudget /\ EveryCallAnsweredOnce)` |
| `AnnotationProofs!MemoryIsOnesOwn` | `Spec => []SuggestionsAreOnesOwn` |
| `AnnotationProofs!FewAreUnsaved` | `Spec => []CrashCostsLittle` |
| `AnnotationProofs!NothingIsForgotten` | `Spec => []FinishedLeavesOnlySkipped` |
| `AnnotationProofs!FilesAreEvaluated` | `Spec => []EvaluationStands` |
| `AlgorithmProofs!AllocationIsExact` | `SplitsExactly(amount, weights)`, of all amounts and weights that can be allocated |
| `AlgorithmProofs!HouseholdPaysItsBill` | `SplitsTheBill(home, cost)`, of all valid homes and bills |
| `AlgorithmProofs!BillsAreSplit` | `Spec => []BillsAreSplitExactly` |
| `AlgorithmProofs!HorizonsAreCounted` | `StepsThroughEveryMonth(start, n)`, of all days and lengths |
| `AlgorithmProofs!BreakEvensAreRight` | `BreakEvenIsRight(series)`, of all series |
| `AlgorithmProofs!MonthsAreCounted` | `Spec => []MonthsAreCountedRight` |
| `AlgorithmProofs!PlanningIsWhole` | `PlanIsWhole(ImportCsv(versions, request), ...)`, of all files and requests |
| `AlgorithmProofs!FilesArePlanned` | `Spec => []PlansAreWhole` |
| `AlgorithmProofs!LedgersAreInvestigated` | `InvestigationStands(rows)`, of all ledgers |
| `AlgorithmProofs!RecurrencesAreCommitments` | `RecurrencesStand(rows)`, of all exports |
| `AlgorithmProofs!InvestigationsDoStand` | `Spec => []InvestigationsStand` |

`RetrySpec`, `AgentSpec`, `BatchSpec` and `ReadsSpec` are those of the modules. The runs
put them in a larger frame: `agent` lets a behaviour be one of either client (`MCSpec` of
`MCAgent`), for which the last two theorems of `AgentProofs` state the run's invariants
again, and `reports` also starts
with everything imported, which only saves TLC the writes that lead there (`MCSpec` of
`MCReports`, which the two theorems about trees and debits are about).

**Assumptions** are those of the modules: `NoId` is not a bank id, `Nothing` is no
job, files are sequences of rows, modes and entered fingerprints are of the right
sets, `MaxOccurrence` is a natural number; TTL is positive and `NoKey` no key; the
rows are a finite set of numbers in the order of their dates, runs are not people, the rules and a provider name
one of the three confidences; the absent user, key and password of `Access` are none of the real ones and its bounds
are natural numbers; the retry policy is one of natural numbers with a base delay not
above the largest, an agent has at least one turn and the gold trace is a sequence; statements are sequences of rows,
what is left of an id, a merchant or a label whose line was cut is one of those that a file may
hold, a merchant's name is not blank, labels are entered with at least one row between saves and one empty answer before a
terminal counts as gone; an abstention is one of the labels of the evaluation, and its grid of
thresholds ascends from zero; rows lie in the years of the calendar, which is not empty; the rows of a ledger are finitely many, none
is named like a branch or a category, amounts are integers, a label is a spending category or one of the three
kinds and no category is called like a kind or like an abstention; a cent has at least one unit and
months at least one day; a preview samples at least one line and every field has aliases; the window
of a duplicate is a natural number; three occurrences are at least two, a gap is regular within less
than its median, amounts are stable within a quarter, and the cadences are so far apart that no
gap fits two of them. The tolerances of `recurrence.py` (25, 35 and 25 percent) and its cadences are within
these. TLC evaluates them in every run. Three theorems have a hypothesis about the
world, without which they are false. `PlanningIsWhole` is about a file that does not change and
change back between the two digests (the files of a behaviour do not). `AnswersHold` needs `IdsNameCharges`: a bank
describes the charge of an id alike in every export (see below for one that does not).
`ResumingAsksTheRest` needs `OneRun`: two runs of `categorise.py` that overlap select
the same rows, and both ask and pay for them.

**The store.** Neither gapless numbering nor completeness is inductive: `Commit`
adds rows that were chosen many steps before. The invariant `IInv` therefore adds,
for every session `s`, `SInv(s)`: the job and the statement counter agree
(`JobOK`); every row an incremental import works on has an id (`IdsOK`); the rows
without one that it will insert or has inserted leave no gap together with the
committed ones, unless the account already holds ids (`Numbered`); every row of the
file is still to be written, held, or stored (`Planned`). It also says that occurrences are
bounded, so that `Highest`, a CHOOSE of the maximum, exists. The counting of
identical rows in a file (`FileIsContiguous`) needs facts on cardinalities and
least elements, proved as lemmas first. Two lemmas carry most steps: a session that
does not move keeps its part while the tables only grow (`BystanderKeeps`), and a
step that leaves the tables alone needs to carry only its own session
(`OwnStep`). Then there is one lemma per action, and `NextKeeps`
combines them. `AlreadyImportedHolds` adds that only `FindBatch` and `OpenBatch`
give that answer (`AlreadyFoundBatch`), and with a committed batch at hand.

**The ledger.** `StoreImplementsLedger` shows that `Commit` is one operation of
`Ledger` and every other step none. The invariant `LInv` says what a commit needs to
know of rows collected over many statements. The committed tables keep their unique
keys (`TablesSound`). What a session has inserted clashes with nothing committed
(`Apart`) and with nothing another session has inserted (`ApartFrom`), because an
INSERT waits for the one and fails on the other. The rows of an import are lines of
its file, one each, behind its batch row (`ImportWork`), and an entry has one row
(`EntryWork`). So a commit adds as many rows as it holds (`CommitAdds`). For a
snapshot the new total is then read off: the rows are numbered without gaps, so the
number of rows of a kind is the highest occurrence (`CountIsHighest`), which becomes
the larger of what was there and what the file lists. For an incremental file
there is a bijection between the lines whose id is new and the rows held, and for an
account with both modes an injection. `CalmStep` covers the steps that leave the tables
alone, and `TablesChangeOnCommit` says there are no others.

**Conflicts and answers.** `QInv` says of a session that nobody has disturbed that
what it read still holds: the rows it is about to insert clash with no committed row,
and the committed batches have its mode (`Quiet`). Hence it can neither conflict nor mix
the modes. `AnswersHold` rests on `EInv`: where there is a row of a kind, committed or
in a session's hands, there is one with occurrence 1 (`FirstIn`). An entry that is no
repeat is stored with occurrence 1, so a like charge in the table would have clashed
with it. `FirstIn` is weaker than gapless numbering, which accounts with ids do not
have. It survives `ReadIds`, which drops rows whose id is stored, only if the stored
row is of the same kind, and that is what `IdsNameCharges` is for.

**The API's clients.** `RetryInv` ties the log of attempts to the clock and the phase
(`LogAgrees`), says that each attempt was allowed after the one before
(`Follows`), and that a call which gave up had to (`GivesUpRightly`). The arithmetic is
in `DelaysAreBounded`: a delay is at least what the server asks, up to the cap, and at
most the cap or the largest delay. `ClientsRefineTheLoop` carries the budget over to both
clients: whatever the agent or a batch does, what they do to `call` is what `RetrySpec`
allows. `AgentInv` is about the conversation. Its length follows from the turns taken
(`Placed`) and its roles alternate (`RolesAlternate`), so a message's number says whether
it asks or answers. Every message of the model that was left behind is answered by the next one
(`RepliesAnswer`); the calls of the last are the results given so far followed by the
calls pending (`HalfAnswered`); and what was recorded, call by call, is what was given
back in all messages together (`RecordsAreReplies`), a statement about a concatenation of
concatenations that `ReturnResults` keeps because a flattened sequence grows at its
end (`FlattenGrows`). An id runs once because `seen` is the set of the ids executed. Of a
batch `UsageAddsUp` is inductive with the types.

**The score of a run.** `score_trace` takes the gold calls one after another and lets each
take the first equal call that is left. `FiguresDoAddUp` says that this loses nothing,
whatever the gold trace and the calls: as many are matched as two bags of calls have in
common. The matched gold calls and the calls they took stand in a one-to-one relation, and
it leaves no gold call unmatched that an equal call was left for (`MatchingIsMaximal`).
So of each kind of call one side is matched entirely, and the number matched of that kind
is the smaller of its two counts (`MatchedOfCall`). `Classwise` puts the kinds together: two
finite sets whose elements fall into classes are as large as each other if they
are so class by class, which spares every sum. That exact calls are at most the correctly
selected ones compares the same pairs by name (`TakersAreFew`, `SelectedIsBetween`).
`ComposedSteps` says that in `MCSpec` each step is one of the loop, of the agent or of the batch.

**Idempotency.** `NoOrphanedClaim` says that a key in flight is held by *some*
request. It becomes inductive with `Knows(r)`: a handler past its
entry knows its request, one that makes a store call has a key, and one about to
store has the record it read.
The delicate steps are `Fail`, which deletes whatever is under its key by then, and
`Store`, which puts back a completed record over whatever is there: both can
destroy a rival's claim but cannot leave one in flight behind. The two action properties
are about keys that no two requests used at once. For such a key `Contract` says that
one request at most uses it, and that its claim is what the dictionary holds
(`Exclusive`); that a completed record is the last work done under the key
(`Completed`); and that the key is free only when everything done under it has
expired (`FreeInTime`). The last is what lets a request that finds nothing, after
others failed or expired, know that it came late enough to work (`CameLate`), although
it read the clock before it asked. A request that finds a record finds a completed one
(`FoundIsCompleted`): one in flight would have another request, by `NoOrphanedClaim`.

**Classification.** An answer is decided when a row is selected, loaded or asked about,
and written much later, so `CInv` follows it: for every process it says what its plan
and its uncommitted UPDATEs may contain (`Typed`: a run's never contain `confirmed`, from
which `DecisionsAreKept` follows), what its statement counter implies (`Phased`), and
where every row a run selected is now: still to be asked about, planned, or settled
(`Accounted`). Settled means that the row has a label or gets one from the session's
UPDATE. An UPDATE leaves out a label equal to the one that was loaded, and so the
invariant needs that a row which had a label when it was loaded still has one
(`LoadHolds`, `TableGrows`), and that a load and the UPDATE after it are of the same
row (`NextIsUnique`). `PlanKeeps` and `LeaveKeeps` carry the actions that plan and
those that end a session; `PublishProperties` is about what becomes visible.

**The limiter.** Windows are overwritten, dropped and counted in after they were dropped,
so the dictionary says little about how often someone was let through. `LInv` therefore
speaks of all windows ever built: each belongs to one address (`Owns`), the calls that
found it there are for that address, and every call it counted, up to the limit, is one
the log shows as let through since the window opened (`Backed`). Counting is exact on
one window because `count += 1` and the test after it run without a switch of threads;
`BackedGrows` and `CountedIsBacked` carry this along the log. A call is refused by a
window that is not over at its instant and has counted up to the limit, so those calls
lie within the last window's length (`RefusalsStand`).

`SequentialBudget` is about calls that do not overlap, and its invariant is `~overlapped
=> Sequential`. A call under way is the only one (`Sole`), so what it read of the
dictionary still holds (`KnowsTable`) and neither the comprehension nor a `del` can fail.
A window stays in the dictionary until it is over, so the windows of an address follow
each other at least a window's length apart (`InTurn`). Each let through at most
`MaxAttempts` calls, among them the one that opened it, and every call let through lies in
one (`Accounts`). An interval of one window's length meets at most two windows of an
address, and if it meets two it misses the opening call of the first: hence
`2 * MaxAttempts - 1`, which the proof counts over the positions of the log.

**Access.** `AccessInv` is the types together with what a request knows
(`RequestIsSound`: past the check of its user it did not begin after that user's
deactivation, and the account it inserts into is its own user's), what a shell knows
(`ShellIsSound`: its command has the right arguments, and one about to commit a new
row holds the index entry for it while the table has none) and that no two shells
are about to commit the same new row (`CreatesApart`), which `Blocked` ensures at
`Write` and nothing else. Deactivation is kept because the tables only grow and no
write names `deactivated_at` but the one that sets it (`RowAfterIsTyped`,
`RequestsOutliveTheStore`). The proof goes actor by actor: a step of a request moves
that request alone (`RequestsMoveAlone`), a step of a shell its shell and the tables
(`ShellsMoveAlone`, `ShellGrows`), and `StepsKeepSound` combines the two.

**Reports.** Half of the argument is arithmetic. A day has one year and one month, and the
bounds of a month enclose its days and no others (`DayIsInMonth`, `BoundsOfMonth`), for any
lengths of month and year. `WindowsMerge` says what merging does: the merged windows
contain the days of the windows and no others, and touch nowhere, so a month lies in one
of them exactly if each of its days lies in some window. The fold over the sorted
windows is followed by an invariant on how far it has come (`Merged`). That a finite set
can be put in ascending order at all, which is what the model's sort chooses, is proved
by taking least elements (`AscendingExists`). The other half is `RInv`. A batch becomes
visible with its rows (`TablesAreSound`), and a loaded month was judged by the windows it names
(`Judged`). A listing reads rows and queue of one month after the other (`InPairs`), none of
them twice (`Once`); every row whose date it found has a month loaded or still to come
(`Foreseen`); and a month has the rows of the dates and of the batches in hand when
it began (`Whole`). `Whole` is the reason why windows are read first: tables only grow, so
the rows of a batch that was read are there when its months are.

**The tree of a month.** The invariant is small: a report keeps its rows with verdicts of the
right type, and its coverage counted those same rows (`RowsAreEntered`). The rest is about
any rows (`IsMonth`). Each sum is one over all rows in which the others count as nothing, so that
sums are compared row by row: `SumByClass` adds up a sum class by class, and with it the groups of
a branch (`DetailedAdds`), the branches of the root (`BranchesAdd`) and the merchants of a month
(`MerchantsExplain`, `DebitsByMerchant`) come to the sum of their rows, because each label has one branch
(`LabelsHaveOneBranch`) and each row one merchant. Groups and merchants that are left out add
zero (`SumOnSubset`). Hence the root's independent total agrees with its branches and every node builds.
A walk meets one place for each row, at the end of the path that its label prescribes, and
no other place with a row's code (`RowLeavesAre`, `UnclassifiedLeavesAre`), so leaves are counted by a bijection
(`OnePlaceEach`). Evidence goes up by levels: a group, a branch or a month is confirmed exactly if it
holds rows and all of them are (`WeakestOfGroups`). What a debit is explained as is decided by
comparing the definitions row by row (`DebitsAreBucketed`, `TreeAndNetDiffer`).

**Annotation.** `AInv` says of a pass that its history is in ascending order and behind the prompt
(`InOrder`), that what a merchant is remembered by was entered by that
annotator (`Remembered`), that behind the prompt only skipped rows are open (`PassedOver`), and that
the labels no file holds are at most as many as were entered since the last save (`Lost`,
`Ready`). The delicate step is undo, which goes back to the row decided last: the rows
between were skipped or labelled before, because the history is ascending. What `Merge`
computes from a file and what a fold over statements collects are lemmas, by
induction on the number of rows. The file itself is one of `FileRow`s, which a torn
line may leave with a blank description (`TornAreFileRows`, `FlushedIsAFile`); a pass
only begins where none is (`OpenRows`), so its own rows have a merchant each.

`FilesAreEvaluated` is about every file the tool leaves behind, torn or whole. A row the validator
has no error for is `Sensible`, which is all the loader asks besides a date that is not cut
(`SensibleLoads`): hence what `Raises` has a cut date, and what is `Usable` has none. Each side
of a usable file `IsScored`. A side without a row annotated twice has no kappa (`KappaOfNone`).
A stratum without rows has a total and hits of zero, as `NoReport` has
(`StratumTotal`, `StratumHits`), and a side without unambiguous rows is the one that is refused
(`ReportsAddUp`). The two sides of the split are told apart by a
merchant's bucket alone, so no merchant is on both. Scores are counts of rows, and a finite set is
as large as the classes it falls into (`CountByClass`): hits by gold label, answers by
predicted label, rows by pair of both. That chance agrees at most as often as there are rows
is a sum of products, each with a factor of at most their number (`SumOfProducts`), so kappa's
denominator is positive and kappa at most one. The chosen threshold is the first of the
best (`ChosenIsFirstBest`), zero queues nothing (`ZeroQueuesNothing`), and a higher threshold queues
whatever a lower one does (`QueuesGrow`).

**Money and months.** `AllocationIsExact` is about `Money.allocate` and every amount and weights, not
only those TLC asks about. The fold that sums a sequence is reached by `SumOfOneMore`:
one index more adds its value, whichever the fold takes first, and from it follow the sum of sums, of
multiples and of ones, and that a part is at most the sum. Each share is floored, so a floor times the total
falls short of the exact share by its remainder (`FloorsAndLosses`), and the cents left over are the
sum of the remainders divided by the total. As each remainder is less than the total, there are fewer
cents left than shares that lost something (`FewerAreLeft`). The places the code sorts the
remainders into are a bijection onto the first numbers (`PlacesAreTaken`), so exactly as many
shares are served as there are cents (`SharesAddUp`), each of them one that lost
(`OnlyLosersAreServed`), which is why no weight gets nothing and none is a cent off
(`SharesAreFair`). Among equal weights the first is served first, so the user's part of an
even split is the largest (`FirstShare`). `HouseholdPaysItsBill` leaves out negative fixed amounts,
for which it is false. Multiplication, quotient and remainder are hidden behind operators
(`Times`, `Quotient`, `Remainder`) with a lemma for each fact that is used of them. The months of
a horizon are counted from its start, and the break-even months are least elements of the
months ahead and of those after which none is behind. `BillsAreSplit` and
`MonthsAreCounted` apply these theorems to whatever is asked in a behaviour (`ListedQuestion`), as do
`FilesArePlanned` and `InvestigationsDoStand` for what follows.

**Plans.** `PlanningIsWhole` is about any file of any cells, any request and three versions of the file.
If the digests agree, the version read is the one whose digest is recorded (`WhatIsPlanned`), and
the mapping is one that `ColumnMapping` accepts, whether stated or detected (`ResolvedIsValid`). Then
all mapped columns exist, so a line set aside has nothing in any of them, and a preview without errors has a
row for every other line (`PreviewIsWhole`). A debit is money out because the mapping has no
column of amounts beside it (`DebitsAreOutflows`). The keys are told apart by counting: rows that share
a key are numbered apart (`SameAreNumbered`), and one that is not the first follows one that is one
behind (`OneIsBehind`).

**Ledgers.** A ledger has two months, so each row is in the latest or in the one before
(`TwoMonthsOfALedger`), and a row's part in the change has its sign from that. The change is a sum
over all rows (`ChangeIsASum`), the merchants' totals are the same sum class by class, and
merchants without a change add nothing (`TotalsAreTheChange`). That a proposal succeeds exactly for
a row with a twin is compared pair by pair (`ProposalsArePairs`): an id finds its own row
(`IdsFindTheirRow`) and a pair has no order (`PairsAreAlike`).

**Recurring charges.** A merchant's rows are taken by turns: each row has one turn and each turn one
row (`TurnsAreTaken`), by day and then by place (`GroupIsSorted`). A group that recurs has no two
bills of one day (`RecurringIsStrict`), which is why the order of the export does not matter: in the
reversed export every row has the same turn (`MirroredGroups`). It is its own group once alone
(`GroupOfAGroup`), so no other row had a say. The rest is arithmetic of tolerances. What lies within less than
all of a median is on its side of zero (`NearTheMedian`), so payments and refunds never mix; the two
tolerances multiplied stay below two periods (`GapIsShort`); a confidence that is not capped is
below the cap (`ConfidenceIsNeverCertain`).

**Induction** over data is out of reach in general, since the library's theorems take
a predicate as a parameter. Where a proof needs it over natural numbers, it goes over a
set of numbers (`NaturalInduction`, from the well-foundedness of `<`), and a fold is then
reached through the recursive function by which the library defines it.

**Model-checked only.** Liveness (`EveryOperationEnds`, `RunsEndUnlessAtPrompt`,
`EveryRunEnds`, `DeadTerminalEnds`) is out of the prover's reach. TLC alone checks what
else is computed by the pure algorithms: `ComparisonsAddUp`, which follows a comparison through
every impact, month and tree, and `SolversAnswer`, which needs amounts that divide
exactly and so does not hold for all constants.

## Where the code and its documentation disagree

Each is a run that TLC reports as violated, with a shortest trace.

| run | what the repository says | what the code does |
|---|---|---|
| `store_mode_race` | importing one account under both modes is "Refused before any batch or transaction row exists" (`application/transactions/import_transactions.py:122-128`) | the modes are read in a SELECT under no lock: two overlapping imports of different modes both find none and both commit |
| `idempotency_race` | "same key + same body -> replay the original response" (`application/idempotency.py:7`) | two requests with one key can both find it free; one's response is then stored under the other's fingerprint and replayed to it |
| `offers_first_month` | an inherited cost stops when the replacement starts, "otherwise both would be charged after the move" (`domain/comparisons/engine.py:184-185`) | an impact counts in the horizon's first month whatever its date: with a move later in that month both homes are charged |
| `import_dates` | a column that cannot settle its order is ambiguous: "The importer asks instead of picking" (`ingest/dates.py:8-12`) | one ISO date settles the column, and the other dates in it are read month first |

What else was met while modelling, and is stated here rather than as a run:

- Store. A hand entry on an account imported by bank id leaves rows of both identity
  schemes, which `repositories.py:601-607` asks callers not to do; after such imports
  the count it reports is `max(occurrence)` and may exceed the rows there are
  (`enter_transaction.py:61`). Two classification runs that overlap on one row can leave
  a label of one with the confidence or the author of the other, because an UPDATE names
  only the columns that differ from what it had loaded. The 201 leaves before COMMIT.
  If a bank describes an id differently in a later export, the row of that id is skipped
  while an identical line of the same file keeps its higher number; a hand entry that
  overlaps the import can then be stored, with number 1, beside that like charge.
  `EntriesAreTrue` fails on such files; the run's files do not have one.
- Import. The digest taken before and after reading does not see a file that changes and
  changes back. A column of reference numbers passes as money. A short line whose
  mapped cells are all blank is set aside instead of refused.
- Reports. `load_month` reads rows, windows and the number awaiting review in three
  SELECTs; a single report may claim an import's coverage and miss its rows, which the
  listing cannot. December of the year 9999 has no next month and ends in a 500.
- LLM transport. The timeout handed to `urlopen` holds per socket operation, so nothing
  in the code bounds an attempt that trickles in; `LongestAttempt` is the bound of the model
  and `RetriesKeepTheBudget` is relative to it. A Retry-After date without a zone raises a TypeError that leaves the
  retry loop (`errors.py:149`).
- Comparison. The residual that the engine checks is zero by construction. A tree's root
  and the annualised difference ignore effective dates, and annual totals are mixed with
  cumulative ones in wealth and time. A one-time impact is matched by calendar month. An
  equivalent salary exactly at the upper bound is refused. A raise is called feasible
  also where the bisection did not converge. A shared commuting cost that cannot be
  split in cents at some number of days raises an error and loses all four levers,
  which are documented as independent. A schedule that is not in half days never
  tests fully remote. Inherited costs are split by the candidate's household. A fixed
  household share may be negative; the others then pay more than the bill.
- Annotation. Undo does not rewind what a merchant is remembered by; undo and `?` of one
  annotator change the ambiguity fields the other wrote; a label with the code `u` could
  not be entered; empty answers of a terminal that is gone accept what is suggested
  before they are counted out; `save()` truncates the file before it writes; passes of
  two processes overwrite each other. A kill in the middle of a save may leave a file that no
  pass opens (a blank description), a label that is none but counts as settled and is
  offered as a suggestion, or an amount that lost its last digits and that nothing
  can tell from another.
- Evaluation. `posted_on` is parsed by the loader and checked by nothing before it: a file
  whose last line was cut in its date has no row error, and `validate_labelled_csv`, which is to
  "report everything wrong with it at once" (`evaluation/validation.py:104`), ends in the
  loader's exception (`:117`). `EvaluationStands` says that this is the only such case. A side of
  the split whose rows are all ambiguous passes the validator and is refused by the
  evaluation, which needs an unambiguous stratum (`evaluation/report.py:280`). Where the
  gold label is the abstention, precision may exceed one.
- Recurrence. `price_changed` compares the latest bill with the median, and nothing but
  its tests calls `detect_recurring`.

## Not modelled

- Pure I/O, formatting and validation: HTTP schemas and presenters, the static
  client, wire formats of the LLM providers, prompts, currencies, rendering, logging.
- Programs without state of interest: demo seeding, publishing of evaluation results,
  the scripts that call the evaluation, demo profiles. The MCP server, which forwards to
  the tools that `Investigation` and `AgentRuntime` model.
- Migrations. The constraints they create are in `TransactionStore` and `Access`.
- `ComparisonRunRepository`: nothing calls it in this version.
- Inside modelled components: the prompt parsing of `review.py`, encodings and quoting
  of files, the signature of tokens and the hash of passwords, the wording of errors.
- Several web processes: the idempotency store and the login limiter are per
  process, and `render.yaml` and the Dockerfile start one.

## Plan

What is left, most important first:

1. Proofs: `ComparisonsAddUp`, the largest figure still only model-checked.
2. Two categoriser runs beside a person, with what a resumed run may rely on stated for
   overlapping runs, which the proofs cover except for what is asked and paid twice.
3. A demo and MCP session as a client of `Investigation`, composed with `AgentRuntime`.
4. The review prompt as a state machine of its own, like `Annotation`.
