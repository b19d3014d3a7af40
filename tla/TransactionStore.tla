--------------------------- MODULE TransactionStore ---------------------------
(***************************************************************************)
(* One account's bank rows in PostgreSQL, and the sessions that write them *)
(* concurrently: CSV imports (snapshot and incremental) and hand entries.  *)
(*                                                                         *)
(* Every session is one database transaction at READ COMMITTED, PostgreSQL's *)
(* default and the only level engine.py ever asks for: each SELECT sees    *)
(* what is committed when it runs, so an action below is one SQL statement *)
(* that reads or writes shared state together with the Python that uses    *)
(* its result.  An INSERT that meets an uncommitted row with the same      *)
(* unique key waits for the transaction holding it; one that meets a       *)
(* committed row fails.                                                    *)
(*                                                                         *)
(* One account is enough: add_many refuses a batch of several, a           *)
(* fingerprint contains the account id, and every unique key starts with   *)
(* it, so rows of two accounts can neither match nor collide.              *)
(***************************************************************************)
EXTENDS Naturals, FiniteSets, Sequences

CONSTANTS
    Sessions,          \* requests and CLI processes, one transaction each
    Fingerprints,      \* account + date + merchant + amount, hashed
    ExternalIds,       \* transaction ids a bank puts in an export
    NoId,              \* the NULL external_id, and a blank cell in a file
    Files,             \* distinct byte contents, i.e. distinct SHA-256 digests
    FileRows,          \* what a file parses to, line by line
    Modes,             \* the import modes people use on this account
    Entered,           \* fingerprints somebody may type by hand
    MaxOccurrence,     \* bound: nobody starts a further repeat above this
    Nothing            \* the job of a session that is not running

ASSUME NoIdAssumption == NoId \notin ExternalIds

ASSUME FileAssumption ==
    FileRows \in [Files -> Seq([fp : Fingerprints, id : ExternalIds \cup {NoId}])]

ASSUME JobAssumption ==
    /\ Modes \subseteq {"snapshot", "incremental"}
    /\ Entered \subseteq Fingerprints
    /\ MaxOccurrence \in Nat

VARIABLES
    rows,       \* committed rows of `transactions`
    batches,    \* committed rows of `import_batches`
    pc,         \* the statement each session runs next
    job,        \* what each session was asked to do
    todo,       \* records a session still has to look up or INSERT
    held,       \* rows a session has inserted and not yet committed
    opened,     \* has the session inserted its (uncommitted) batch row?
    outcome,    \* what the last finished job told its caller, and the number of
                \* identical rows a refused hand entry reports
    disturbed   \* history: has another session committed since this job began?

store == <<rows, batches>>
vars  == <<rows, batches, pc, job, todo, held, opened, outcome, disturbed>>

Row   == [line : Nat, fp : Fingerprints, occ : Nat \ {0}, ext : ExternalIds \cup {NoId}]
Batch == [file : Files, mode : {"snapshot", "incremental"}]
Results == {"none", "refused", "already", "duplicate", "conflict",
            "deadlock", "crashed", "imported", "stored"}
Entry == [mode : {"entry"}, fp : Fingerprints, repeat : BOOLEAN]
Job   == Batch \cup Entry

ASSUME NothingAssumption == Nothing \notin Job

----------------------------------------------------------------------------
(* Planning a file: pure, and finished before the transaction reads anything. *)

Lines(f)   == DOMAIN FileRows[f]
Of(f, fp)  == {l \in Lines(f) : FileRows[f][l].fp = fp}

OccurrenceIsLine(f, l) == l

\* Which of the identical rows of this file line l is, counting from 1.
Occurrence(f, l) == Cardinality({k \in Of(f, FileRows[f][l].fp) : k <= l})

\* A snapshot never maps an id column; an incremental import always does.
Records(f, mode) ==
    {[line |-> l,
      fp   |-> FileRows[f][l].fp,
      occ  |-> Occurrence(f, l),
      ext  |-> IF mode = "incremental" THEN FileRows[f][l].id ELSE NoId] : l \in Lines(f)}

\* What plan_records accepts; a refused request never reaches the database.
Plannable(f, mode) ==
    /\ Lines(f) # {}
    /\ mode = "incremental" =>
         \A k, l \in Lines(f) :
            /\ FileRows[f][l].id # NoId
            /\ FileRows[f][k].id = FileRows[f][l].id => k = l

----------------------------------------------------------------------------
(* The unique keys of `transactions`, and the reads add_many makes. *)

SameKey(r, q) == r.fp = q.fp /\ r.occ = q.occ
SameId(r, q)  == r.ext = q.ext /\ r.ext # NoId
Clash(r, q)   == SameKey(r, q) \/ SameId(r, q)

\* max(occurrence) of a fingerprint's committed rows, 0 when there is none.
Highest(fp) ==
    IF \E r \in rows : r.fp = fp
    THEN CHOOSE n \in {r.occ : r \in {q \in rows : q.fp = fp}} :
            \A r \in rows : r.fp = fp => r.occ <= n
    ELSE 0

\* Rows are flushed in the order the file lists them.
IsNext(s, r) == r \in todo[s] /\ \A q \in todo[s] : r.line <= q.line

\* s waits for t: t holds, uncommitted, a unique key s is about to insert.
WaitsFor(s, t) ==
    /\ s # t
    /\ \/ /\ pc[s] = "open" /\ opened[t]
          /\ job[t].file = job[s].file
       \/ /\ pc[s] = "insert"
          /\ \E r \in todo[s] : IsNext(s, r) /\ \E q \in held[t] : Clash(q, r)

Blocked(s) == \E t \in Sessions : WaitsFor(s, t)

InWaitCycle(s) ==
    \E C \in SUBSET Sessions :
        /\ s \in C
        /\ \A t \in C : /\ \E u \in C : WaitsFor(t, u)
                        /\ \E u \in C : WaitsFor(u, t)

----------------------------------------------------------------------------
Init ==
    /\ rows = {} /\ batches = {}
    /\ pc        = [s \in Sessions |-> "idle"]
    /\ job       = [s \in Sessions |-> Nothing]
    /\ todo      = [s \in Sessions |-> {}]
    /\ held      = [s \in Sessions |-> {}]
    /\ opened    = [s \in Sessions |-> FALSE]
    /\ outcome   = [s \in Sessions |-> [result |-> "none", count |-> 0]]
    /\ disturbed = [s \in Sessions |-> FALSE]

Begin(s, first, what, records) ==
    /\ pc[s] = "idle"
    /\ pc'   = [pc EXCEPT ![s] = first]
    /\ job'  = [job EXCEPT ![s] = what]
    /\ todo' = [todo EXCEPT ![s] = records]
    /\ outcome' = [outcome EXCEPT ![s] = [result |-> "none", count |-> 0]]
    /\ UNCHANGED <<store, held, opened, disturbed>>

Goto(s, here, next) ==
    /\ pc[s] = here
    /\ pc' = [pc EXCEPT ![s] = next]

\* The transaction is over: its locks are gone and the caller has its answer.
Close(s, result, count) ==
    /\ pc'      = [pc EXCEPT ![s] = "idle"]
    /\ job'     = [job EXCEPT ![s] = Nothing]
    /\ todo'    = [todo EXCEPT ![s] = {}]
    /\ held'    = [held EXCEPT ![s] = {}]
    /\ opened'  = [opened EXCEPT ![s] = FALSE]
    /\ outcome' = [outcome EXCEPT ![s] = [result |-> result, count |-> count]]

\* It ends without writing: by choice, or because an exception rolled it back.
Rollback(s, result, count) ==
    /\ Close(s, result, count)
    /\ disturbed' = [disturbed EXCEPT ![s] = FALSE]
    /\ UNCHANGED store

----------------------------------------------------------------------------
(* import_csv *)

BeginImport(s, f, mode) ==
    /\ Plannable(f, mode)
    /\ Begin(s, "modes", [file |-> f, mode |-> mode], Records(f, mode))

\* Mutant of CheckModes: the modes of earlier batches are not read back.
CheckModesNot(s) ==
    /\ Goto(s, "modes", "find")
    /\ UNCHANGED <<store, job, todo, held, opened, outcome, disturbed>>

\* Refuse an account whose committed batches used the other mode.
CheckModes(s) ==
    \/ /\ pc[s] = "modes"
       /\ \E b \in batches : b.mode # job[s].mode
       /\ Rollback(s, "refused", 0)
    \/ /\ Goto(s, "modes", "find")
       /\ \A b \in batches : b.mode = job[s].mode
       /\ UNCHANGED <<store, job, todo, held, opened, outcome, disturbed>>

\* ImportBatchRepository.open: the same bytes were committed before.
FindBatch(s) ==
    \/ /\ pc[s] = "find"
       /\ \E b \in batches : b.file = job[s].file
       /\ Rollback(s, "already", 0)
    \/ /\ Goto(s, "find", "open")
       /\ \A b \in batches : b.file # job[s].file
       /\ UNCHANGED <<store, job, todo, held, opened, outcome, disturbed>>

\* Mutants of OpenBatch: the batch is committed on its own, before its rows;
\* a rival's uncommitted batch is taken for one already imported.
OpenBatchAlone(s) ==
    /\ ~Blocked(s)
    /\ \/ /\ pc[s] = "open"
          /\ \E b \in batches : b.file = job[s].file
          /\ Rollback(s, "already", 0)
       \/ /\ pc[s] = "open"
          /\ \A b \in batches : b.file # job[s].file
          /\ Goto(s, "open", IF job[s].mode = "incremental" THEN "ids" ELSE "keys")
          /\ batches' = batches \cup {job[s]}
          /\ opened' = [opened EXCEPT ![s] = TRUE]
          /\ UNCHANGED <<rows, job, todo, held, outcome, disturbed>>
OpenBatchDirty(s) ==
    \/ /\ pc[s] = "open"
       /\ Blocked(s) \/ \E b \in batches : b.file = job[s].file
       /\ Rollback(s, "already", 0)
    \/ /\ pc[s] = "open" /\ ~Blocked(s)
       /\ \A b \in batches : b.file # job[s].file
       /\ Goto(s, "open", IF job[s].mode = "incremental" THEN "ids" ELSE "keys")
       /\ opened' = [opened EXCEPT ![s] = TRUE]
       /\ UNCHANGED <<store, job, todo, held, outcome, disturbed>>

\* ImportBatchRepository._insert: INSERT under a savepoint.  A rival's
\* uncommitted batch makes it wait; a committed one makes it fail, and the
\* second lookup then finds that batch.
OpenBatch(s) ==
    /\ ~Blocked(s)
    /\ \/ /\ pc[s] = "open"
          /\ \E b \in batches : b.file = job[s].file
          /\ Rollback(s, "already", 0)
       \/ /\ pc[s] = "open"
          /\ \A b \in batches : b.file # job[s].file
          /\ Goto(s, "open", IF job[s].mode = "incremental" THEN "ids" ELSE "keys")
          /\ opened' = [opened EXCEPT ![s] = TRUE]
          /\ UNCHANGED <<store, job, todo, held, outcome, disturbed>>

----------------------------------------------------------------------------
(* enter_transaction *)

BeginEntry(s, fp, repeat) ==
    /\ repeat => Highest(fp) < MaxOccurrence
    /\ Begin(s, "highest", [mode |-> "entry", fp |-> fp, repeat |-> repeat], {})

\* Report the rows already there, or take the occurrence after the highest.
ReadHighest(s) ==
    LET fp == job[s].fp IN
    \/ /\ pc[s] = "highest"
       /\ Highest(fp) > 0 /\ ~job[s].repeat
       /\ Rollback(s, "duplicate", Highest(fp))
    \/ /\ pc[s] = "highest"
       /\ Highest(fp) = 0 \/ job[s].repeat
       /\ Goto(s, "highest", "keys")
       /\ todo' = [todo EXCEPT ![s] =
                     {[line |-> 0, fp |-> fp, occ |-> Highest(fp) + 1, ext |-> NoId]}]
       /\ UNCHANGED <<store, job, held, opened, outcome, disturbed>>

----------------------------------------------------------------------------
(* TransactionRepository.add_many *)

\* Mutants of ReadKeys: content rows are offset like rows with an id; the
\* existing rows are not looked up.
ReadKeysOffset(s) ==
    LET new == {r \in todo[s] : \A q \in rows : ~SameKey(q, r)} IN
    /\ Goto(s, "keys", "insert")
    /\ todo' = [todo EXCEPT ![s] = {[r EXCEPT !.occ = @ + Highest(r.fp)] : r \in new}]
    /\ UNCHANGED <<store, job, held, opened, outcome, disturbed>>
ReadKeysBlind(s) ==
    /\ Goto(s, "keys", "insert")
    /\ UNCHANGED <<store, job, todo, held, opened, outcome, disturbed>>

\* Records without an id are stored already when their (fingerprint,
\* occurrence) is.  A hand entry is one record: when it turns out stored, one
\* match is reported and nothing is written.
ReadKeys(s) ==
    LET new == {r \in todo[s] : \A q \in rows : ~SameKey(q, r)} IN
    \/ /\ pc[s] = "keys"
       /\ job[s].mode = "entry" /\ new = {}
       /\ Rollback(s, "duplicate", 1)
    \/ /\ Goto(s, "keys", "insert")
       /\ job[s].mode = "entry" => new # {}
       /\ todo' = [todo EXCEPT ![s] = new]
       /\ UNCHANGED <<store, job, held, opened, outcome, disturbed>>

\* Records with an id are stored already when the id is.
ReadIds(s) ==
    /\ Goto(s, "ids", "offsets")
    /\ todo' = [todo EXCEPT ![s] = {r \in @ : \A q \in rows : ~SameId(q, r)}]
    /\ UNCHANGED <<store, job, held, opened, outcome, disturbed>>

\* ... and are numbered after everything stored under their fingerprint.
ReadOffsets(s) ==
    /\ Goto(s, "offsets", "insert")
    /\ todo' = [todo EXCEPT ![s] = {[r EXCEPT !.occ = @ + Highest(r.fp)] : r \in @}]
    /\ UNCHANGED <<store, job, held, opened, outcome, disturbed>>

InsertRow(s) ==
    /\ pc[s] = "insert" /\ ~Blocked(s)
    /\ \E r \in todo[s] :
        /\ IsNext(s, r)
        /\ \A q \in rows : ~Clash(q, r)
        /\ held' = [held EXCEPT ![s] = @ \cup {r}]
        /\ todo' = [todo EXCEPT ![s] = @ \ {r}]
    /\ UNCHANGED <<store, pc, job, opened, outcome, disturbed>>

\* Mutant of InsertConflict: the error is swallowed and the row sent again.
InsertConflictRetried(s) ==
    /\ pc[s] = "insert"
    /\ \E r \in todo[s] : IsNext(s, r) /\ \E q \in rows : Clash(q, r)
    /\ UNCHANGED vars

\* A committed row has the key: IntegrityError, reported as a conflict.
InsertConflict(s) ==
    /\ pc[s] = "insert"
    /\ \E r \in todo[s] : IsNext(s, r) /\ \E q \in rows : Clash(q, r)
    /\ Rollback(s, "conflict", 0)

----------------------------------------------------------------------------
(* The end of the unit of work *)

\* The batch row and all its rows become visible in one step.
Commit(s) ==
    /\ pc[s] = "insert" /\ todo[s] = {}
    /\ rows' = rows \cup held[s]
    /\ batches' = batches \cup (IF opened[s] THEN {job[s]} ELSE {})
    /\ disturbed' = [t \in Sessions |->
                        t # s /\ (disturbed[t] \/ (pc[t] # "idle" /\ (held[s] # {} \/ opened[s])))]
    /\ Close(s, IF opened[s] THEN "imported" ELSE "stored", 0)

\* PostgreSQL aborts one of the transactions that wait for each other.
DeadlockAbort(s) ==
    /\ InWaitCycle(s)
    /\ Rollback(s, "deadlock", 0)

\* The process dies, the connection drops, or the COMMIT itself fails.
Crash(s) ==
    /\ pc[s] # "idle"
    /\ Rollback(s, "crashed", 0)

Statement(s) ==
    \/ CheckModes(s) \/ FindBatch(s) \/ ReadHighest(s)
    \/ ReadKeys(s) \/ ReadIds(s) \/ ReadOffsets(s)
    \/ InsertConflict(s) \/ Commit(s)

Step(s) ==
    \/ \E f \in Files, mode \in Modes : BeginImport(s, f, mode)
    \/ \E fp \in Entered, repeat \in BOOLEAN : BeginEntry(s, fp, repeat)
    \/ Statement(s)
    \/ OpenBatch(s)
    \/ InsertRow(s)
    \/ DeadlockAbort(s)
    \/ Crash(s)

Next == \E s \in Sessions : Step(s)

Spec == Init /\ [][Next]_vars

\* A running statement completes; PostgreSQL detects a deadlock that stays;
\* a transaction woken from a lock wait again and again eventually gets its turn.
Fairness ==
    \A s \in Sessions :
        /\ WF_vars(Statement(s))
        /\ WF_vars(DeadlockAbort(s))
        /\ SF_vars(OpenBatch(s))
        /\ SF_vars(InsertRow(s))

FairSpec == Spec /\ Fairness

----------------------------------------------------------------------------
(* Properties *)

\* Every variable holds what the tables and the code can hold; in particular
\* an occurrence is positive (CHECK ck_transactions_occurrence_positive).
TypeOK ==
    /\ rows \subseteq Row
    /\ batches \subseteq Batch
    /\ pc \in [Sessions -> {"idle", "modes", "find", "open", "highest",
                            "keys", "ids", "offsets", "insert"}]
    /\ job \in [Sessions -> Job \cup {Nothing}]
    /\ todo \in [Sessions -> SUBSET Row]
    /\ held \in [Sessions -> SUBSET Row]
    /\ opened \in [Sessions -> BOOLEAN]
    /\ outcome \in [Sessions -> [result : Results, count : Nat]]
    /\ disturbed \in [Sessions -> BOOLEAN]

HasIds(S) == \E r \in S : r.ext # NoId

\* While no row of the account carries a bank id, the rows of a fingerprint
\* are numbered 1..n without a gap, whatever imports and hand entries raced.
\* Occurrence is the identity of such a row: a gap is a slot a later real
\* charge falls into and is written a second time (add_many, and the count
\* enter_transaction reports).
OccurrencesContiguous ==
    \/ HasIds(rows)
    \/ \A r \in rows : \A n \in 1..r.occ : \E q \in rows : q.fp = r.fp /\ q.occ = n

\* A bank gives an id to one charge and describes it alike in every export.
IdsNameCharges ==
    \A f, g \in Files : \A k \in Lines(f), l \in Lines(g) :
        (FileRows[f][k].id = FileRows[g][l].id /\ FileRows[f][k].id # NoId) =>
            FileRows[f][k].fp = FileRows[g][l].fp

Stored(r) == \E q \in rows : IF r.ext = NoId THEN SameKey(q, r) ELSE SameId(q, r)

\* A committed batch means every row of its file is stored.  This is what
\* makes answering "already imported" without reading the file's rows safe,
\* after any crash, conflict or race.
BatchIsComplete ==
    \A b \in batches : \A r \in Records(b.file, b.mode) : Stored(r)

Ends(s, result) == pc[s] # "idle" /\ pc'[s] = "idle" /\ outcome'[s].result = result

\* "Already imported" is only ever said of a file whose rows are committed,
\* even to the loser of a race for the same bytes.
AlreadyImportedIsTrue ==
    [][\A s \in Sessions :
        Ends(s, "already") =>
            \E b \in batches : /\ b.file = job[s].file
                               /\ \A r \in Records(b.file, b.mode) : Stored(r)]_vars

\* A hand entry that nobody calls a repeat is only stored where no charge like
\* it was, and one reported as a duplicate really has its like in the table,
\* although the count it goes by was read several statements before.
EntriesAreTrue ==
    [][\A s \in Sessions :
        LET like == {q \in rows : q.fp = job[s].fp}
        IN  /\ Ends(s, "stored") /\ ~job[s].repeat => like = {}
            /\ Ends(s, "duplicate") => like # {}]_vars

\* What a caller is told about the tables is true when it is told.
AnswersAreTrue == AlreadyImportedIsTrue /\ EntriesAreTrue

\* "Conflicted with another import; retry" is only said when another session
\* really committed meanwhile: a retry by itself cannot hit it again.
SoloNeverConflicts ==
    [][\A s \in Sessions : Ends(s, "conflict") => disturbed[s]]_vars

\* An account ends up with both modes only through imports that overlapped: one
\* that had the account to itself is refused when the other mode was used.
ModesMixOnlyByOverlap ==
    [][\A s \in Sessions :
        (Ends(s, "imported") /\ \E b \in batches : b.mode # job[s].mode) => disturbed[s]]_vars

\* Seen from outside, every import and entry is one indivisible step of the
\* ledger: snapshots top up by the count they list, incremental files add
\* their new ids, and nothing is lost even when the modes of an account mix.
Promise == INSTANCE Ledger WITH
    total   <- [fp \in Fingerprints |-> Cardinality({r \in rows : r.fp = fp})],
    ids     <- {r.ext : r \in rows} \ {NoId},
    imports <- batches

ImplementsLedger == Promise!LedgerSpec

\* Every import and entry that starts gets an answer: no session waits for
\* ever on rivals that hold its keys, nor on one that waits for it.
EveryOperationEnds ==
    \A s \in Sessions : (pc[s] # "idle") ~> (pc[s] = "idle")

\* An account is imported in one mode only (import_csv, "mixing modes on one
\* account can duplicate or drop charges").  It holds of imports made one after
\* the other, and not of imports that overlap.
OneModePerAccount == \A b, c \in batches : b.mode = c.mode
================================================================================
