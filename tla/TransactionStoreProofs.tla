------------------------ MODULE TransactionStoreProofs ------------------------
(***************************************************************************)
(* Theorems about TransactionStore, for any number of sessions, any files  *)
(* and modes and any bound on repeats: the types, the gapless numbering of *)
(* rows without a bank id, the completeness of every committed batch.  It   *)
(* implements Ledger: a commit is one operation of the ledger, every other  *)
(* step none.  And its callers are told the truth: a job during which no    *)
(* other session commits never ends in a conflict and never adds a second   *)
(* import mode, and a hand entry that nobody calls a repeat is stored once. *)
(***************************************************************************)
EXTENDS TransactionStore, FiniteSetTheorems, FunctionTheorems, WellFoundedInduction, SequenceTheorems, TLAPS

----------------------------------------------------------------------------
(* Natural numbers and counting *)

\* A nonempty set of naturals has a least element.
LEMMA LeastNatural ==
    ASSUME NEW T \in SUBSET Nat, T # {}
    PROVE  \E m \in T : \A y \in T : m <= y
<1>1. PICK m \in T : \A y \in T : ~(<<y, m>> \in OpToRel(<, Nat))
    BY WFMin, NatLessThanWellFounded, Zenon
<1>2. \A y \in T : ~(y < m)
    BY <1>1 DEF OpToRel
<1>3. QED  BY <1>2

\* Occurrences in S are bounded, so that the highest one exists.
Bounded(S) == \E n \in Nat : \A r \in S : r.occ <= n

LEMMA HighestProperties ==
    ASSUME rows \subseteq Row, Bounded(rows), NEW fp
    PROVE  /\ Highest(fp) \in Nat
           /\ \A r \in rows : r.fp = fp => r.occ <= Highest(fp)
           /\ Highest(fp) > 0 => \E r \in rows : r.fp = fp /\ r.occ = Highest(fp)
<1> DEFINE S == {r.occ : r \in {q \in rows : q.fp = fp}}
           U == {n \in Nat : \A x \in S : x <= n}
<1>1. S \subseteq Nat
    BY DEF Row
<1>2. CASE ~\E r \in rows : r.fp = fp
    BY <1>2 DEF Highest
<1>3. CASE \E r \in rows : r.fp = fp
  <2>1. U # {}
    BY DEF Bounded
  <2>2. PICK m \in U : \A y \in U : m <= y
    BY <2>1, LeastNatural
  <2>3. m \in S
    <3>1. SUFFICES ASSUME m \notin S PROVE FALSE
        OBVIOUS
    <3>2. \A x \in S : x < m
        BY <3>1, <1>1
    <3>3. PICK x \in S : TRUE
        BY <1>3
    <3>4. m - 1 \in Nat /\ \A y \in S : y <= m - 1
      <4>1. m \in Nat /\ x \in Nat /\ x < m
        BY <3>2, <3>3, <1>1
      <4>2. \A y \in S : y \in Nat /\ y < m
        BY <3>2, <1>1
      <4> HIDE DEF S
      <4>3. QED  BY <4>1, <4>2
    <3>5. QED
      <4>1. m - 1 \in U
        BY <3>4
      <4>2. QED  BY <4>1, <2>2
  <2>4. \E n \in S : \A r \in rows : r.fp = fp => r.occ <= n
    BY <2>3
  <2>5. Highest(fp) = CHOOSE n \in S : \A r \in rows : r.fp = fp => r.occ <= n
    BY <1>3 DEF Highest
  <2>6. /\ Highest(fp) \in S
        /\ \A r \in rows : r.fp = fp => r.occ <= Highest(fp)
    BY <2>4, <2>5
  <2>7. QED  BY <2>6, <1>1
<1>4. QED  BY <1>2, <1>3

----------------------------------------------------------------------------
(* Numbering the identical rows of one file *)

Upto(f, fp, m) == {k \in Of(f, fp) : k <= m}

LEMMA UptoProperties ==
    ASSUME NEW f \in Files, NEW fp, NEW m \in Nat
    PROVE  /\ IsFiniteSet(Upto(f, fp, m))
           /\ Cardinality(Upto(f, fp, m)) \in Nat
           /\ Cardinality(Upto(f, fp, m)) <= m
           /\ Upto(f, fp, m) \subseteq 1..m
<1>1. Upto(f, fp, m) \subseteq 1..m
    BY FileAssumption DEF Upto, Of, Lines
<1>2. IsFiniteSet(1..m) /\ Cardinality(1..m) = m
    BY FS_Interval
<1>3. IsFiniteSet(Upto(f, fp, m)) /\ Cardinality(Upto(f, fp, m)) <= m
    BY <1>1, <1>2, FS_Subset
<1>4. QED  BY <1>1, <1>3, FS_CardinalityType

LEMMA OccurrenceProperties ==
    ASSUME NEW f \in Files, NEW l \in Lines(f)
    PROVE  /\ FileRows[f][l].fp \in Fingerprints
           /\ FileRows[f][l].id \in ExternalIds \cup {NoId}
           /\ l \in Nat \ {0}
           /\ l <= Len(FileRows[f])
           /\ Occurrence(f, l) \in Nat \ {0}
           /\ Occurrence(f, l) <= Len(FileRows[f])
<1> DEFINE fp == FileRows[f][l].fp
<1>1. /\ fp \in Fingerprints
      /\ FileRows[f][l].id \in ExternalIds \cup {NoId}
      /\ l \in Nat \ {0} /\ l <= Len(FileRows[f]) /\ Len(FileRows[f]) \in Nat
  <2>1. FileRows[f] \in Seq([fp : Fingerprints, id : ExternalIds \cup {NoId}])
    BY FileAssumption
  <2>2. /\ Len(FileRows[f]) \in Nat
        /\ l \in 1..Len(FileRows[f])
    BY <2>1 DEF Lines
  <2>3. FileRows[f][l] \in [fp : Fingerprints, id : ExternalIds \cup {NoId}]
    BY <2>1, <2>2, ElementOfSeq
  <2>4. QED  BY <2>2, <2>3
<1>2. Occurrence(f, l) = Cardinality(Upto(f, fp, l))
    BY DEF Occurrence, Upto
<1>3. l \in Upto(f, fp, l)
    BY <1>1 DEF Upto, Of
<1>4. Cardinality(Upto(f, fp, l)) # 0
    BY <1>1, <1>3, UptoProperties, FS_EmptySet
<1>5. QED  BY <1>1, <1>2, <1>4, UptoProperties

\* Every number up to a line's own was given to a line of the same fingerprint.
LEMMA FileIsContiguous ==
    ASSUME NEW f \in Files, NEW l \in Lines(f), NEW n \in 1..Occurrence(f, l)
    PROVE  \E k \in Lines(f) : /\ FileRows[f][k].fp = FileRows[f][l].fp
                               /\ Occurrence(f, k) = n
<1> DEFINE fp == FileRows[f][l].fp
           C(m) == Upto(f, fp, m)
           T == {m \in Nat : Cardinality(C(m)) >= n}
<1>1. l \in Nat /\ Occurrence(f, l) \in Nat /\ n \in Nat \ {0}
    BY OccurrenceProperties
<1>2. l \in T
    BY <1>1, UptoProperties DEF Occurrence, Upto
<1>3. PICK m \in T : \A y \in T : m <= y
    BY <1>2, LeastNatural
<1>4. m # 0
  <2>1. Cardinality(C(0)) <= 0 /\ Cardinality(C(0)) \in Nat
    BY UptoProperties
  <2>2. QED  BY <2>1, <1>1
<1>5. m - 1 \in Nat /\ ~(Cardinality(C(m - 1)) >= n)
    BY <1>3, <1>4
<1>6. m \in Of(f, fp)
  <2>1. SUFFICES ASSUME m \notin Of(f, fp) PROVE FALSE
    OBVIOUS
  <2>2. C(m) = C(m - 1)
    BY <2>1, <1>5, FileAssumption DEF Upto, Of, Lines
  <2>3. QED  BY <2>2, <1>5
<1>7. C(m) = C(m - 1) \cup {m} /\ m \notin C(m - 1)
    BY <1>6, <1>5, FileAssumption DEF Upto, Of, Lines
<1>8. Cardinality(C(m)) = Cardinality(C(m - 1)) + 1
    BY <1>7, <1>5, UptoProperties, FS_AddElement
<1>9. Cardinality(C(m)) = n
    BY <1>8, <1>5, <1>1, UptoProperties
<1>10. m \in Lines(f) /\ FileRows[f][m].fp = fp
    BY <1>6 DEF Of
<1>11. QED  BY <1>9, <1>10 DEF Occurrence, Upto

----------------------------------------------------------------------------
(* The inductive invariant *)

\* What a session has planned, whether inserted or not.
Work(s) == todo[s] \cup held[s]

\* A stored or planned row q stands for the record r.
Matches(q, r) == IF r.ext = NoId THEN SameKey(q, r) ELSE SameId(q, r)

\* The statement a session is at says what kind of job it has.
JobOK(s) ==
    /\ (pc[s] \in {"modes", "find", "open", "ids", "offsets"} \/ opened[s]) => job[s] \in Batch
    /\ pc[s] = "highest" => job[s] \in Entry
    /\ pc[s] \in {"ids", "offsets"} => job[s].mode = "incremental"
    /\ pc[s] = "keys" => job[s] \in Job /\ job[s].mode # "incremental"
    /\ pc[s] # "insert" => held[s] = {}
    /\ opened[s] => pc[s] \in {"keys", "ids", "offsets", "insert"}
    /\ job[s] \in Batch => Plannable(job[s].file, job[s].mode)

\* All or none of an incremental import's rows carry an id.
IdsOK(s) ==
    (job[s] \in Batch /\ job[s].mode = "incremental") => \A r \in Work(s) : r.ext # NoId

\* Below every planned row without an id, every number is planned or stored;
\* once a row with an id is committed the account is out of scope.
Numbered(s) ==
    \/ HasIds(rows)
    \/ \A r \in Work(s) : r.ext # NoId
    \/ \A r \in Work(s) : \A n \in 1..r.occ :
          \E q \in rows \cup Work(s) : q.fp = r.fp /\ q.occ = n

\* No record of the file has been dropped on the way to the table.
Planned(s) ==
    job[s] \in Batch =>
        \A r \in Records(job[s].file, job[s].mode) :
            \E q \in rows \cup Work(s) : Matches(q, r)

SInv(s) == JobOK(s) /\ IdsOK(s) /\ Numbered(s) /\ Planned(s) /\ Bounded(Work(s))

IInv ==
    /\ TypeOK
    /\ Bounded(rows)
    /\ OccurrencesContiguous
    /\ BatchIsComplete
    /\ \A s \in Sessions : SInv(s)

----------------------------------------------------------------------------
(* What a plan contains *)

LEMMA RecordsProperties ==
    ASSUME NEW f \in Files, NEW mode \in {"snapshot", "incremental"}
    PROVE  /\ Records(f, mode) \subseteq Row
           /\ Bounded(Records(f, mode))
           /\ \A r \in Records(f, mode) : \A n \in 1..r.occ :
                 \E q \in Records(f, mode) : q.fp = r.fp /\ q.occ = n
           /\ mode = "incremental" /\ Plannable(f, mode) =>
                 \A r \in Records(f, mode) : r.ext # NoId
<1> DEFINE R(l) == [line |-> l, fp |-> FileRows[f][l].fp, occ |-> Occurrence(f, l),
                    ext |-> IF mode = "incremental" THEN FileRows[f][l].id ELSE NoId]
<1>1. Records(f, mode) = {R(l) : l \in Lines(f)}
    BY DEF Records
<1>2. \A l \in Lines(f) : R(l) \in Row /\ R(l).occ <= Len(FileRows[f])
    BY OccurrenceProperties DEF Row
<1>3. Len(FileRows[f]) \in Nat
    BY FileAssumption, LenProperties
<1>4. Bounded(Records(f, mode))
    BY <1>1, <1>2, <1>3 DEF Bounded
<1>5. ASSUME NEW r \in Records(f, mode), NEW n \in 1..r.occ
      PROVE  \E q \in Records(f, mode) : q.fp = r.fp /\ q.occ = n
  <2>1. PICK l \in Lines(f) : r = R(l)
    BY <1>1
  <2>2. PICK k \in Lines(f) : FileRows[f][k].fp = FileRows[f][l].fp /\ Occurrence(f, k) = n
    BY <2>1, FileIsContiguous
  <2>3. R(k) \in Records(f, mode) /\ R(k).fp = r.fp /\ R(k).occ = n
    BY <1>1, <2>1, <2>2
  <2>4. QED  BY <2>3
<1>6. mode = "incremental" /\ Plannable(f, mode) => \A r \in Records(f, mode) : r.ext # NoId
    BY <1>1 DEF Plannable
<1>7. QED  BY <1>1, <1>2, <1>4, <1>5, <1>6

LEMMA BoundedUnion ==
    ASSUME NEW S, NEW T, S \subseteq Row, T \subseteq Row, Bounded(S), Bounded(T)
    PROVE  Bounded(S \cup T)
<1>1. PICK m \in Nat : \A r \in S : r.occ <= m
    BY DEF Bounded
<1>2. PICK n \in Nat : \A r \in T : r.occ <= n
    BY DEF Bounded
<1>3. m + n \in Nat /\ \A r \in S \cup T : r.occ <= m + n
    BY <1>1, <1>2 DEF Row
<1>4. QED  BY <1>3 DEF Bounded

LEMMA BoundedSubset ==
    ASSUME NEW S, NEW T, T \subseteq S, Bounded(S)
    PROVE  Bounded(T)
    BY DEF Bounded

----------------------------------------------------------------------------
(* How a step of one session carries the invariant to all of them *)

\* A session that did not move keeps its part while committed rows only grow.
LEMMA BystanderKeeps ==
    ASSUME NEW t \in Sessions, SInv(t), rows \subseteq rows',
           pc'[t] = pc[t], job'[t] = job[t], todo'[t] = todo[t],
           held'[t] = held[t], opened'[t] = opened[t]
    PROVE  SInv(t)'
<1>1. Work(t)' = Work(t)
    BY DEF Work
<1>2. JobOK(t)' /\ IdsOK(t)' /\ Bounded(Work(t))'
    BY <1>1 DEF SInv, JobOK, IdsOK, Bounded
<1>3. Numbered(t)'
    BY <1>1 DEF SInv, Numbered, HasIds
<1>4. Planned(t)'
    BY <1>1 DEF SInv, Planned
<1>5. QED  BY <1>2, <1>3, <1>4 DEF SInv

\* A step that leaves the tables alone only has to carry its own session.
LEMMA OwnStep ==
    ASSUME IInv, NEW s \in Sessions, UNCHANGED store, TypeOK', SInv(s)',
           \A t \in Sessions \ {s} :
              /\ pc'[t] = pc[t] /\ job'[t] = job[t] /\ todo'[t] = todo[t]
              /\ held'[t] = held[t] /\ opened'[t] = opened[t]
    PROVE  IInv'
<1>1. rows' = rows /\ batches' = batches
    BY DEF store
<1>2. Bounded(rows)' /\ OccurrencesContiguous' /\ BatchIsComplete'
    BY <1>1 DEF IInv, Bounded, OccurrencesContiguous, HasIds, BatchIsComplete, Stored
<1>3. ASSUME NEW t \in Sessions PROVE SInv(t)'
    BY <1>1, BystanderKeeps DEF IInv
<1>4. QED  BY <1>2, <1>3 DEF IInv

LEMMA RollbackKeeps ==
    ASSUME IInv, NEW s \in Sessions, NEW result \in Results, NEW count \in Nat,
           Rollback(s, result, count)
    PROVE  IInv'
<1>1. TypeOK'
    BY DEF IInv, TypeOK, Rollback, Close, store
<1>2. /\ pc'[s] = "idle" /\ job'[s] = Nothing /\ todo'[s] = {} /\ held'[s] = {}
      /\ opened'[s] = FALSE
    BY DEF IInv, TypeOK, Rollback, Close
<1>3. SInv(s)'
  <2>1. Nothing \notin Batch
    BY NothingAssumption DEF Job
  <2>2. Work(s)' = {}
    BY <1>2 DEF Work
  <2>3. JobOK(s)'
    BY <1>2, <2>1 DEF JobOK
  <2>4. QED  BY <1>2, <2>1, <2>2, <2>3 DEF SInv, IdsOK, Numbered, Planned, Bounded
<1>4. UNCHANGED store
    BY DEF Rollback
<1>5. \A t \in Sessions \ {s} :
        /\ pc'[t] = pc[t] /\ job'[t] = job[t] /\ todo'[t] = todo[t]
        /\ held'[t] = held[t] /\ opened'[t] = opened[t]
    BY DEF IInv, TypeOK, Rollback, Close
<1>6. QED  BY <1>1, <1>3, <1>4, <1>5, OwnStep

----------------------------------------------------------------------------
(* Each action carries the invariant *)

\* The other sessions do not move.
Alone(s) ==
    \A t \in Sessions \ {s} :
        /\ pc'[t] = pc[t] /\ job'[t] = job[t] /\ todo'[t] = todo[t]
        /\ held'[t] = held[t] /\ opened'[t] = opened[t]

\* A batch job and a hand entry are told apart by their mode.
LEMMA JobKinds ==
    /\ \A j \in Batch : j.file \in Files /\ j.mode \in {"snapshot", "incremental"} /\ j \in Job
    /\ \A j \in Entry : j.fp \in Fingerprints /\ j.repeat \in BOOLEAN /\ j.mode = "entry" /\ j \in Job
    /\ \A j \in Batch : j \notin Entry
BY DEF Batch, Entry, Job

LEMMA BeginImportKeeps ==
    ASSUME IInv, NEW s \in Sessions, NEW f \in Files, NEW mode \in Modes,
           BeginImport(s, f, mode)
    PROVE  IInv'
<1> DEFINE b == [file |-> f, mode |-> mode]
<1>1. b \in Batch /\ b.file = f /\ b.mode = mode /\ mode \in {"snapshot", "incremental"}
    BY JobAssumption DEF Batch
<1>2. /\ pc[s] = "idle" /\ pc'[s] = "modes" /\ job'[s] = b
      /\ todo'[s] = Records(f, mode) /\ held'[s] = held[s] /\ opened'[s] = opened[s]
      /\ UNCHANGED store /\ rows' = rows
    BY DEF BeginImport, Begin, IInv, TypeOK, store
<1>3. held[s] = {} /\ opened[s] = FALSE
    BY <1>2 DEF IInv, SInv, JobOK, TypeOK
<1>4. Work(s)' = Records(f, mode)
    BY <1>2, <1>3 DEF Work
<1>5. TypeOK'
  <2>1. Records(f, mode) \in SUBSET Row
    BY <1>1, RecordsProperties
  <2>2. b \in Job \cup {Nothing}
    BY <1>1, JobKinds
  <2>3. QED  BY <2>1, <2>2 DEF BeginImport, Begin, IInv, TypeOK, store, Results
<1>6. Plannable(f, mode)
    BY DEF BeginImport
<1>7. JobOK(s)' /\ IdsOK(s)'
    BY <1>1, <1>2, <1>3, <1>4, <1>6, JobKinds, RecordsProperties DEF JobOK, IdsOK
<1>8. Numbered(s)' /\ Bounded(Work(s))'
    BY <1>1, <1>4, RecordsProperties DEF Numbered, Bounded
<1>9. Planned(s)'
  <2>1. \A r \in Records(f, mode) : Matches(r, r)
    BY DEF Matches, SameKey, SameId
  <2>2. QED  BY <2>1, <1>1, <1>2, <1>4 DEF Planned, Matches, SameKey, SameId
<1>10. QED  BY <1>2, <1>5, <1>7, <1>8, <1>9, OwnStep DEF SInv, BeginImport, Begin, IInv, TypeOK

LEMMA BeginEntryKeeps ==
    ASSUME IInv, NEW s \in Sessions, NEW fp \in Entered, NEW repeat \in BOOLEAN,
           BeginEntry(s, fp, repeat)
    PROVE  IInv'
<1> DEFINE e == [mode |-> "entry", fp |-> fp, repeat |-> repeat]
<1>1. e \in Entry /\ e \in Job /\ e \notin Batch
    BY JobAssumption, JobKinds DEF Entry
<1>2. /\ pc[s] = "idle" /\ pc'[s] = "highest" /\ job'[s] = e
      /\ todo'[s] = {} /\ held'[s] = held[s] /\ opened'[s] = opened[s]
      /\ UNCHANGED store
    BY DEF BeginEntry, Begin, IInv, TypeOK, store
<1>3. held[s] = {} /\ opened[s] = FALSE
    BY <1>2 DEF IInv, SInv, JobOK, TypeOK
<1>4. Work(s)' = {}
    BY <1>2, <1>3 DEF Work
<1>5. TypeOK'
    BY <1>1 DEF BeginEntry, Begin, IInv, TypeOK, store, Results
<1>6. SInv(s)'
    BY <1>1, <1>2, <1>3, <1>4 DEF SInv, JobOK, IdsOK, Numbered, Planned, Bounded
<1>7. QED  BY <1>2, <1>5, <1>6, OwnStep DEF BeginEntry, Begin, IInv, TypeOK

\* A statement that only decides what comes next.
LEMMA GotoKeeps ==
    ASSUME IInv, NEW s \in Sessions, NEW here, NEW next,
           <<here, next>> \in {<<"modes", "find">>, <<"find", "open">>},
           Goto(s, here, next),
           UNCHANGED <<store, job, todo, held, opened, outcome, disturbed>>
    PROVE  IInv'
<1>1. /\ pc[s] = here /\ pc'[s] = next /\ here # "insert" /\ next # "insert"
      /\ UNCHANGED store /\ rows' = rows
    BY DEF Goto, IInv, TypeOK, store
<1>2. TypeOK'
    BY DEF Goto, IInv, TypeOK, store
<1>3. Work(s)' = Work(s)
    BY DEF Work
<1>4. JobOK(s)'
    BY <1>1 DEF IInv, SInv, JobOK, TypeOK
<1>5. IdsOK(s)' /\ Numbered(s)' /\ Planned(s)' /\ Bounded(Work(s))'
    BY <1>1, <1>3 DEF IInv, SInv, IdsOK, Numbered, HasIds, Planned, Bounded
<1>6. QED  BY <1>1, <1>2, <1>4, <1>5, OwnStep DEF SInv, Goto, IInv, TypeOK

LEMMA CheckModesKeeps ==
    ASSUME IInv, NEW s \in Sessions, CheckModes(s)
    PROVE  IInv'
BY RollbackKeeps, GotoKeeps DEF CheckModes, Results

LEMMA FindBatchKeeps ==
    ASSUME IInv, NEW s \in Sessions, FindBatch(s)
    PROVE  IInv'
BY RollbackKeeps, GotoKeeps DEF FindBatch, Results

LEMMA OpenBatchKeeps ==
    ASSUME IInv, NEW s \in Sessions, OpenBatch(s)
    PROVE  IInv'
<1>1. CASE Rollback(s, "already", 0)
    BY <1>1, RollbackKeeps DEF Results
<1>2. CASE /\ Goto(s, "open", IF job[s].mode = "incremental" THEN "ids" ELSE "keys")
           /\ opened' = [opened EXCEPT ![s] = TRUE]
           /\ UNCHANGED <<store, job, todo, held, outcome, disturbed>>
  <2>1. /\ pc[s] = "open" /\ UNCHANGED store /\ rows' = rows /\ opened'[s] = TRUE
        /\ pc'[s] = IF job[s].mode = "incremental" THEN "ids" ELSE "keys"
    BY <1>2 DEF Goto, IInv, TypeOK, store
  <2>2. job[s] \in Batch /\ job[s] \in Job
    BY <2>1, JobKinds DEF IInv, SInv, JobOK
  <2>3. TypeOK'
    BY <1>2 DEF Goto, IInv, TypeOK, store
  <2>4. Work(s)' = Work(s)
    BY <1>2 DEF Work
  <2>5. JobOK(s)'
    BY <1>2, <2>1, <2>2 DEF IInv, SInv, JobOK
  <2>6. IdsOK(s)' /\ Numbered(s)' /\ Planned(s)' /\ Bounded(Work(s))'
    BY <1>2, <2>1, <2>4 DEF IInv, SInv, IdsOK, Numbered, HasIds, Planned, Bounded
  <2>7. QED  BY <1>2, <2>1, <2>3, <2>5, <2>6, OwnStep DEF SInv, Goto, IInv, TypeOK
<1>3. QED  BY <1>1, <1>2 DEF OpenBatch

LEMMA ReadHighestKeeps ==
    ASSUME IInv, NEW s \in Sessions, ReadHighest(s)
    PROVE  IInv'
<1> DEFINE fp == job[s].fp
           r == [line |-> 0, fp |-> fp, occ |-> Highest(fp) + 1, ext |-> NoId]
<1>1. pc[s] = "highest" /\ job[s] \in Entry /\ fp \in Fingerprints
    BY JobKinds DEF ReadHighest, Goto, IInv, SInv, JobOK
<1>2. /\ Highest(fp) \in Nat
      /\ Highest(fp) > 0 => \E q \in rows : q.fp = fp /\ q.occ = Highest(fp)
    BY HighestProperties DEF IInv, TypeOK
<1>3. CASE Rollback(s, "duplicate", Highest(fp))
    BY <1>2, <1>3, RollbackKeeps DEF Results
<1>4. CASE /\ Goto(s, "highest", "keys")
           /\ todo' = [todo EXCEPT ![s] = {r}]
           /\ UNCHANGED <<store, job, held, opened, outcome, disturbed>>
  <2>1. /\ pc'[s] = "keys" /\ todo'[s] = {r} /\ held'[s] = {} /\ opened'[s] = FALSE
        /\ job'[s] = job[s] /\ job[s].mode = "entry" /\ job[s] \in Job /\ job[s] \notin Batch
        /\ UNCHANGED store /\ rows' = rows
    BY <1>1, <1>4, JobKinds DEF Goto, IInv, TypeOK, SInv, JobOK, store
  <2>2. r \in Row
    BY <1>1, <1>2 DEF Row
  <2>3. TypeOK'
    BY <1>4, <2>2 DEF Goto, IInv, TypeOK, store
  <2>4. Work(s)' = {r}
    BY <2>1 DEF Work
  <2>5. JobOK(s)' /\ IdsOK(s)' /\ Planned(s)'
    BY <2>1 DEF JobOK, IdsOK, Planned
  <2>6. Numbered(s)'
    <3>1. CASE HasIds(rows)
        BY <2>1, <3>1 DEF Numbered, HasIds
    <3>2. CASE ~HasIds(rows)
      <4>1. ASSUME NEW n \in 1..r.occ
            PROVE  \E q \in rows \cup {r} : q.fp = r.fp /\ q.occ = n
        <5>1. CASE n = r.occ
            BY <5>1
        <5>2. CASE n # r.occ
          <6>1. n \in 1..Highest(fp)
            BY <5>2, <1>2
          <6>2. PICK q \in rows : q.fp = fp /\ q.occ = Highest(fp)
            BY <6>1, <1>2
          <6>3. QED  BY <6>1, <6>2, <3>2 DEF IInv, OccurrencesContiguous
        <5>3. QED  BY <5>1, <5>2
      <4>2. QED  BY <4>1, <2>1, <2>4 DEF Numbered
    <3>3. QED  BY <3>1, <3>2
  <2>7. Bounded(Work(s))'
    BY <2>2, <2>4 DEF Bounded, Row
  <2>8. QED  BY <1>4, <2>1, <2>3, <2>5, <2>6, <2>7, OwnStep DEF SInv, Goto, IInv, TypeOK
<1>5. QED  BY <1>3, <1>4 DEF ReadHighest

LEMMA ReadKeysKeeps ==
    ASSUME IInv, NEW s \in Sessions, ReadKeys(s)
    PROVE  IInv'
<1> DEFINE new == {r \in todo[s] : \A q \in rows : ~SameKey(q, r)}
<1>1. CASE Rollback(s, "duplicate", 1)
    BY <1>1, RollbackKeeps DEF Results
<1>2. CASE /\ Goto(s, "keys", "insert")
           /\ todo' = [todo EXCEPT ![s] = new]
           /\ UNCHANGED <<store, job, held, opened, outcome, disturbed>>
  <2>1. /\ pc[s] = "keys" /\ pc'[s] = "insert" /\ todo'[s] = new /\ held[s] = {} /\ held'[s] = {}
        /\ job'[s] = job[s] /\ job[s] \in Job /\ job[s].mode # "incremental"
        /\ UNCHANGED store /\ rows' = rows /\ opened'[s] = opened[s]
    BY <1>2 DEF Goto, IInv, TypeOK, SInv, JobOK, store
  <2>2. TypeOK'
    BY <1>2 DEF Goto, IInv, TypeOK, store
  <2>3. Work(s) = todo[s] /\ Work(s)' = new
    BY <2>1 DEF Work
  <2>4. JobOK(s)' /\ IdsOK(s)' /\ Bounded(Work(s))'
    BY <2>1, <2>3 DEF IInv, SInv, JobOK, IdsOK, Bounded
  <2>5. \A q \in todo[s] : q \in new \/ \E p \in rows : SameKey(p, q)
    OBVIOUS
  <2>6. Numbered(s)'
    BY <2>1, <2>3, <2>5 DEF IInv, SInv, Numbered, HasIds, SameKey
  <2>7. Planned(s)'
    <3>1. SUFFICES ASSUME job[s] \in Batch, NEW r \in Records(job[s].file, job[s].mode)
                   PROVE  \E q \in rows \cup new : Matches(q, r)
        BY <2>1, <2>3 DEF Planned
    <3>2. r.ext = NoId
        BY <2>1 DEF Records
    <3>3. PICK q \in rows \cup todo[s] : Matches(q, r)
        BY <2>3, <3>1 DEF IInv, SInv, Planned
    <3>4. QED  BY <2>5, <3>2, <3>3 DEF Matches, SameKey
  <2>8. QED  BY <1>2, <2>1, <2>2, <2>4, <2>6, <2>7, OwnStep DEF SInv, Goto, IInv, TypeOK
<1>3. QED  BY <1>1, <1>2 DEF ReadKeys

LEMMA ReadIdsKeeps ==
    ASSUME IInv, NEW s \in Sessions, ReadIds(s)
    PROVE  IInv'
<1> DEFINE new == {r \in todo[s] : \A q \in rows : ~SameId(q, r)}
<1>1. /\ pc[s] = "ids" /\ pc'[s] = "offsets" /\ todo'[s] = new /\ held[s] = {} /\ held'[s] = {}
      /\ job'[s] = job[s] /\ job[s] \in Batch /\ job[s].mode = "incremental"
      /\ UNCHANGED store /\ rows' = rows /\ opened'[s] = opened[s]
    BY DEF ReadIds, Goto, IInv, TypeOK, SInv, JobOK, store
<1>2. TypeOK'
    BY DEF ReadIds, Goto, IInv, TypeOK, store
<1>3. Work(s) = todo[s] /\ Work(s)' = new
    BY <1>1 DEF Work
<1>4. JobOK(s)' /\ IdsOK(s)' /\ Bounded(Work(s))'
    BY <1>1, <1>3 DEF IInv, SInv, JobOK, IdsOK, Bounded
<1>5. Numbered(s)'
    BY <1>1, <1>3 DEF IInv, SInv, IdsOK, Numbered
<1>6. Planned(s)'
  <2>1. SUFFICES ASSUME NEW r \in Records(job[s].file, job[s].mode)
                 PROVE  \E q \in rows \cup new : Matches(q, r)
    BY <1>1, <1>3 DEF Planned
  <2>2. r.ext # NoId
    BY <1>1, JobKinds, RecordsProperties DEF IInv, SInv, JobOK
  <2>3. PICK q \in rows \cup todo[s] : Matches(q, r)
    BY <1>1, <1>3, <2>1 DEF IInv, SInv, Planned
  <2>4. QED  BY <2>2, <2>3 DEF Matches, SameId
<1>7. QED  BY <1>1, <1>2, <1>4, <1>5, <1>6, OwnStep DEF SInv, ReadIds, Goto, IInv, TypeOK

LEMMA ReadOffsetsKeeps ==
    ASSUME IInv, NEW s \in Sessions, ReadOffsets(s)
    PROVE  IInv'
<1> DEFINE Shift(r) == [r EXCEPT !.occ = @ + Highest(r.fp)]
           new == {Shift(r) : r \in todo[s]}
<1>1. /\ pc[s] = "offsets" /\ pc'[s] = "insert" /\ todo'[s] = new /\ held[s] = {} /\ held'[s] = {}
      /\ job'[s] = job[s] /\ job[s] \in Batch /\ job[s].mode = "incremental"
      /\ UNCHANGED store /\ rows' = rows /\ opened'[s] = opened[s] /\ todo[s] \subseteq Row
    BY DEF ReadOffsets, Goto, IInv, TypeOK, SInv, JobOK, store
<1>2. \A r \in todo[s] :
        /\ Highest(r.fp) \in Nat
        /\ Highest(r.fp) > 0 => \E q \in rows : q.occ = Highest(r.fp)
    BY HighestProperties DEF IInv, TypeOK
<1>3. \A r \in todo[s] :
        /\ Shift(r) \in Row /\ Shift(r).ext = r.ext /\ Shift(r).fp = r.fp
        /\ Shift(r).occ = r.occ + Highest(r.fp)
    BY <1>1, <1>2 DEF Row
<1>4. TypeOK'
  <2>1. new \in SUBSET Row
    BY <1>3
  <2>2. QED  BY <2>1 DEF ReadOffsets, Goto, IInv, TypeOK, store
<1>5. Work(s) = todo[s] /\ Work(s)' = new
    BY <1>1 DEF Work
<1>6. \A r \in new : r.ext # NoId
  <2>1. \A r \in todo[s] : r.ext # NoId
    BY <1>1, <1>5 DEF IInv, SInv, IdsOK
  <2>2. QED  BY <2>1, <1>3
<1>7. Bounded(new)
  <2>1. PICK m \in Nat : \A r \in rows : r.occ <= m
    BY DEF IInv, Bounded
  <2>2. PICK n \in Nat : \A r \in todo[s] : r.occ <= n
    BY <1>5 DEF IInv, SInv, Bounded
  <2>3. \A r \in todo[s] : Highest(r.fp) <= m
    BY <1>2, <2>1
  <2>4. \A r \in todo[s] : r.occ \in Nat
    BY <1>1 DEF Row
  <2>5. \A r \in todo[s] : Shift(r).occ <= n + m
    BY <1>2, <1>3, <2>2, <2>3, <2>4
  <2>6. n + m \in Nat
    OBVIOUS
  <2>7. QED  BY <2>5, <2>6 DEF Bounded
<1>8. JobOK(s)' /\ IdsOK(s)' /\ Numbered(s)' /\ Bounded(Work(s))'
    BY <1>1, <1>5, <1>6, <1>7 DEF IInv, SInv, JobOK, IdsOK, Numbered, Bounded
<1>9. Planned(s)'
  <2>1. SUFFICES ASSUME NEW r \in Records(job[s].file, job[s].mode)
                 PROVE  \E q \in rows \cup new : Matches(q, r)
    BY <1>1, <1>5 DEF Planned
  <2>2. r.ext # NoId
    BY <1>1, JobKinds, RecordsProperties DEF IInv, SInv, JobOK
  <2>3. PICK q \in rows \cup todo[s] : Matches(q, r)
    BY <1>1, <1>5, <2>1 DEF IInv, SInv, Planned
  <2>4. CASE q \in rows
    BY <2>3, <2>4
  <2>5. CASE q \in todo[s]
    <3>1. Shift(q) \in new /\ Shift(q).ext = q.ext
        BY <1>3, <2>5
    <3>2. Matches(Shift(q), r)
        BY <2>2, <2>3, <3>1 DEF Matches, SameId
    <3>3. QED  BY <3>1, <3>2
  <2>6. QED  BY <2>3, <2>4, <2>5
<1>10. QED  BY <1>1, <1>4, <1>8, <1>9, OwnStep DEF SInv, ReadOffsets, Goto, IInv, TypeOK

LEMMA InsertRowKeeps ==
    ASSUME IInv, NEW s \in Sessions, InsertRow(s)
    PROVE  IInv'
<1>1. PICK r \in todo[s] : /\ held' = [held EXCEPT ![s] = @ \cup {r}]
                           /\ todo' = [todo EXCEPT ![s] = @ \ {r}]
    BY DEF InsertRow
<1>2. /\ pc[s] = "insert" /\ pc' = pc /\ job' = job /\ opened' = opened
      /\ UNCHANGED store /\ rows' = rows
    BY DEF InsertRow, store
<1>3. held'[s] = held[s] \cup {r} /\ todo'[s] = todo[s] \ {r}
    BY <1>1 DEF IInv, TypeOK
<1>4. Work(s)' = Work(s)
    BY <1>1, <1>3 DEF Work
<1>5. TypeOK'
    BY <1>1 DEF InsertRow, IInv, TypeOK, store
<1>6. SInv(s)'
    BY <1>2, <1>4 DEF IInv, SInv, JobOK, IdsOK, Numbered, HasIds, Planned, Bounded
<1>7. QED  BY <1>1, <1>2, <1>5, <1>6, OwnStep DEF IInv, TypeOK

LEMMA CommitKeeps ==
    ASSUME IInv, NEW s \in Sessions, Commit(s)
    PROVE  IInv'
<1>1. /\ pc[s] = "insert" /\ todo[s] = {} /\ rows' = rows \cup held[s]
      /\ batches' = batches \cup (IF opened[s] THEN {job[s]} ELSE {})
    BY DEF Commit
<1>2. /\ pc'[s] = "idle" /\ job'[s] = Nothing /\ todo'[s] = {} /\ held'[s] = {}
      /\ opened'[s] = FALSE
    BY DEF Commit, Close, IInv, TypeOK
<1>3. Work(s) = held[s] /\ Work(s)' = {}
    BY <1>1, <1>2 DEF Work
<1>4. opened[s] => job[s] \in Batch
    BY DEF IInv, SInv, JobOK
<1>5. TypeOK'
    BY <1>1, <1>4 DEF Commit, Close, IInv, TypeOK, Results
<1>6. SInv(s)'
  <2>1. Nothing \notin Batch
    BY NothingAssumption DEF Job
  <2>2. QED  BY <1>2, <1>3, <2>1 DEF SInv, JobOK, IdsOK, Numbered, Planned, Bounded
<1>7. ASSUME NEW t \in Sessions PROVE SInv(t)'
  <2>1. CASE t = s
    BY <1>6, <2>1
  <2>2. CASE t # s
    <3>1. /\ pc'[t] = pc[t] /\ job'[t] = job[t] /\ todo'[t] = todo[t]
          /\ held'[t] = held[t] /\ opened'[t] = opened[t]
        BY <2>2 DEF Commit, Close, IInv, TypeOK
    <3>2. QED  BY <3>1, <1>1, BystanderKeeps DEF IInv
  <2>3. QED  BY <2>1, <2>2
<1>8. Bounded(rows)'
  <2>1. Bounded(held[s]) /\ held[s] \subseteq Row /\ rows \subseteq Row
    BY <1>3 DEF IInv, SInv, TypeOK
  <2>2. Bounded(rows \cup held[s])
    BY <2>1, BoundedUnion DEF IInv
  <2>3. QED  BY <2>2, <1>1 DEF Bounded
<1>9. OccurrencesContiguous'
  <2>1. CASE HasIds(rows')
    BY <2>1 DEF OccurrencesContiguous
  <2>2. CASE ~HasIds(rows')
    <3>1. ~HasIds(rows) /\ \A r \in held[s] : r.ext = NoId
        BY <2>2, <1>1 DEF HasIds
    <3>2. \A r \in held[s] : \A n \in 1..r.occ : \E q \in rows' : q.fp = r.fp /\ q.occ = n
        BY <3>1, <1>1, <1>3 DEF IInv, SInv, Numbered
    <3>3. \A r \in rows : \A n \in 1..r.occ : \E q \in rows' : q.fp = r.fp /\ q.occ = n
        BY <3>1, <1>1 DEF IInv, OccurrencesContiguous
    <3>4. QED  BY <1>1, <3>2, <3>3 DEF OccurrencesContiguous
  <2>3. QED  BY <2>1, <2>2
<1>10. BatchIsComplete'
  <2>1. ASSUME NEW b \in batches', NEW r \in Records(b.file, b.mode)
        PROVE  \E q \in rows' : Matches(q, r)
    <3>1. CASE b \in batches
        BY <3>1, <1>1 DEF IInv, BatchIsComplete, Stored, Matches
    <3>2. CASE opened[s] /\ b = job[s]
        BY <3>2, <1>1, <1>3, <1>4 DEF IInv, SInv, Planned
    <3>3. QED  BY <1>1, <3>1, <3>2
  <2>2. QED  BY <2>1 DEF BatchIsComplete, Stored, Matches
<1>11. QED  BY <1>5, <1>7, <1>8, <1>9, <1>10 DEF IInv

----------------------------------------------------------------------------
(* The theorems *)

LEMMA InitEstablishes == Init => IInv
<1> SUFFICES ASSUME Init PROVE IInv
    OBVIOUS
<1>1. TypeOK
    BY DEF Init, TypeOK, Results
<1>2. Bounded(rows) /\ OccurrencesContiguous /\ BatchIsComplete
    BY DEF Init, Bounded, OccurrencesContiguous, BatchIsComplete
<1>3. ASSUME NEW s \in Sessions PROVE SInv(s)
  <2>1. Nothing \notin Batch
    BY NothingAssumption DEF Job
  <2>2. Work(s) = {}
    BY DEF Init, Work
  <2>3. QED  BY <2>1, <2>2 DEF Init, SInv, JobOK, IdsOK, Numbered, Planned, Bounded
<1>4. QED  BY <1>1, <1>2, <1>3 DEF IInv

LEMMA NextKeeps == IInv /\ [Next]_vars => IInv'
<1> SUFFICES ASSUME IInv, [Next]_vars PROVE IInv'
    OBVIOUS
<1>1. CASE UNCHANGED vars
  <2>1. TypeOK'
    BY <1>1 DEF vars, store, IInv, TypeOK
  <2>2. rows' = rows /\ batches' = batches
    BY <1>1 DEF vars, store
  <2>3. Bounded(rows)' /\ OccurrencesContiguous' /\ BatchIsComplete'
    BY <2>2 DEF IInv, Bounded, OccurrencesContiguous, HasIds, BatchIsComplete, Stored
  <2>4. ASSUME NEW t \in Sessions PROVE SInv(t)'
    BY <1>1, <2>2, BystanderKeeps DEF vars, IInv
  <2>5. QED  BY <2>1, <2>3, <2>4 DEF IInv
<1>2. ASSUME NEW s \in Sessions, Step(s) PROVE IInv'
  <2>1. CASE \E f \in Files, mode \in Modes : BeginImport(s, f, mode)
    BY <2>1, BeginImportKeeps
  <2>2. CASE \E fp \in Entered, repeat \in BOOLEAN : BeginEntry(s, fp, repeat)
    BY <2>2, BeginEntryKeeps
  <2>3. CASE CheckModes(s) \/ FindBatch(s) \/ OpenBatch(s)
    BY <2>3, CheckModesKeeps, FindBatchKeeps, OpenBatchKeeps
  <2>4. CASE ReadHighest(s) \/ ReadKeys(s) \/ ReadIds(s) \/ ReadOffsets(s)
    BY <2>4, ReadHighestKeeps, ReadKeysKeeps, ReadIdsKeeps, ReadOffsetsKeeps
  <2>5. CASE InsertRow(s)
    BY <2>5, InsertRowKeeps
  <2>6. CASE InsertConflict(s) \/ DeadlockAbort(s) \/ Crash(s)
    BY <2>6, RollbackKeeps DEF InsertConflict, DeadlockAbort, Crash, Results
  <2>7. CASE Commit(s)
    BY <2>7, CommitKeeps
  <2>8. QED  BY <1>2, <2>1, <2>2, <2>3, <2>4, <2>5, <2>6, <2>7 DEF Step, Statement
<1>3. QED  BY <1>1, <1>2 DEF Next

LEMMA Invariance == Spec => []IInv
BY InitEstablishes, NextKeeps, PTL DEF Spec

\* Every table and session variable keeps its type; in particular no row is
\* ever stored, held or planned with an occurrence below 1.
THEOREM TypeCorrect == Spec => []TypeOK
<1>1. IInv => TypeOK
    BY DEF IInv
<1>2. QED  BY <1>1, Invariance, PTL

\* However imports and hand entries interleave, fail and are retried, the rows
\* of a fingerprint are numbered 1..n without a gap until the account holds a
\* row with a bank id.
THEOREM NumberedWithoutGaps == Spec => []OccurrencesContiguous
<1>1. IInv => OccurrencesContiguous
    BY DEF IInv
<1>2. QED  BY <1>1, Invariance, PTL

\* A committed batch is never missing a row of its file.
THEOREM BatchesComplete == Spec => []BatchIsComplete
<1>1. IInv => BatchIsComplete
    BY DEF IInv
<1>2. QED  BY <1>1, Invariance, PTL

----------------------------------------------------------------------------
(* What a caller is told *)

\* Only the two looks at committed batches answer "already imported".
LEMMA AlreadyFoundBatch ==
    ASSUME TypeOK, [Next]_vars, NEW s \in Sessions, Ends(s, "already")
    PROVE  \E b \in batches : b.file = job[s].file
<1>1. pc[s] # "idle" /\ pc'[s] = "idle" /\ outcome'[s].result = "already"
    BY DEF Ends
<1>2. PICK t \in Sessions : Step(t)
    BY <1>1 DEF Next, vars
<1>3. ASSUME NEW result, NEW count, Close(t, result, count) PROVE t = s /\ result = "already"
  <2>1. t = s
    BY <1>1, <1>3 DEF Close, TypeOK
  <2>2. outcome'[s] = [result |-> result, count |-> count]
    BY <1>3, <2>1 DEF Close, TypeOK
  <2>3. QED  BY <1>1, <2>1, <2>2
<1>4. ASSUME NEW result, NEW count, result # "already" PROVE ~Rollback(t, result, count)
    BY <1>3, <1>4 DEF Rollback
<1>5. ASSUME NEW here, NEW next, next # "idle", Goto(t, here, next) PROVE FALSE
    BY <1>1, <1>5 DEF Goto, TypeOK
<1>6. ASSUME NEW first, NEW what, NEW records, Begin(t, first, what, records) PROVE FALSE
    BY <1>1, <1>6 DEF Begin, TypeOK
<1>7. CASE FindBatch(t)
  <2>1. Rollback(t, "already", 0) => t = s
    BY <1>3 DEF Rollback
  <2>2. QED  BY <1>5, <1>7, <2>1 DEF FindBatch
<1>8. CASE OpenBatch(t)
  <2>1. Rollback(t, "already", 0) => t = s
    BY <1>3 DEF Rollback
  <2>2. (IF job[t].mode = "incremental" THEN "ids" ELSE "keys") # "idle"
    OBVIOUS
  <2>3. ~Goto(t, "open", IF job[t].mode = "incremental" THEN "ids" ELSE "keys")
    BY <1>5, <2>2
  <2>4. QED  BY <1>8, <2>1, <2>3 DEF OpenBatch
<1>9. CASE InsertRow(t)
    BY <1>1, <1>9 DEF InsertRow
<1>10. CASE Commit(t)
  <2>1. (IF opened[t] THEN "imported" ELSE "stored") # "already"
    OBVIOUS
  <2>2. QED  BY <1>3, <1>10, <2>1 DEF Commit
<1>11. CASE CheckModes(t) \/ ReadHighest(t) \/ ReadKeys(t) \/ ReadIds(t) \/ ReadOffsets(t)
    BY <1>4, <1>5, <1>11 DEF CheckModes, ReadHighest, ReadKeys, ReadIds, ReadOffsets
<1>12. CASE InsertConflict(t) \/ DeadlockAbort(t) \/ Crash(t)
    BY <1>4, <1>12 DEF InsertConflict, DeadlockAbort, Crash
<1>13. QED
    BY <1>2, <1>6, <1>7, <1>8, <1>9, <1>10, <1>11, <1>12
       DEF Step, Statement, BeginImport, BeginEntry

\* A caller told "already imported" can rely on every row of the file being
\* committed, the loser of a race for the same bytes included.
THEOREM AlreadyImportedHolds == Spec => AlreadyImportedIsTrue
<1>1. ASSUME IInv, [Next]_vars
      PROVE  \A s \in Sessions :
                Ends(s, "already") =>
                    \E b \in batches : /\ b.file = job[s].file
                                       /\ \A r \in Records(b.file, b.mode) : Stored(r)
    BY <1>1, AlreadyFoundBatch DEF IInv, BatchIsComplete
<1>2. QED  BY <1>1, Invariance, PTL DEF Spec, AlreadyImportedIsTrue

----------------------------------------------------------------------------
(* The ledger: the invariant *)

\* The row stands for its line of the file.
Describes(f, mode, r) ==
    /\ r.line \in Lines(f) /\ r.fp = FileRows[f][r.line].fp
    /\ r.ext = IF mode = "incremental" THEN FileRows[f][r.line].id ELSE NoId
    /\ mode # "incremental" => r.occ = Occurrence(f, r.line)

\* An import works on rows of its file, one for a line, behind its batch row.
ImportWork(s) ==
    job[s] \in Batch =>
        /\ \A r \in Work(s) : Describes(job[s].file, job[s].mode, r)
        /\ \A q, r \in Work(s) : q.line = r.line => q = r
        /\ pc[s] \in {"keys", "ids", "offsets", "insert"} => opened[s]

\* A hand entry works on one row, once it has read the highest occurrence.
EntryWork(s) ==
    job[s] \in Entry =>
        /\ \A r \in Work(s) : r.fp = job[s].fp /\ r.ext = NoId
        /\ \A q, r \in Work(s) : q = r
        /\ pc[s] \in {"keys", "insert"} => Work(s) # {}

Sound(s) ==
    /\ IsFiniteSet(Work(s))
    /\ \A q, r \in Work(s) : SameKey(q, r) => q = r
    /\ pc[s] # "idle" => job[s] \in Job
    /\ ImportWork(s) /\ EntryWork(s)

\* What a session has inserted clashes with nothing committed.
Apart(s) ==
    /\ \A r \in held[s], q \in rows : ~Clash(q, r)
    /\ opened[s] => \A b \in batches : b.file # job[s].file

\* Nor with what another session has inserted.
ApartFrom(s, t) ==
    /\ \A r \in held[s], q \in held[t] : ~Clash(q, r)
    /\ opened[s] /\ opened[t] => job[s].file # job[t].file

\* The tables keep their unique keys, and ids come from incremental imports.
TablesSound ==
    /\ IsFiniteSet(rows)
    /\ \A q, r \in rows : SameKey(q, r) => q = r
    /\ HasIds(rows) => \E b \in batches : b.mode = "incremental"

LInv ==
    /\ TablesSound
    /\ \A s \in Sessions : Sound(s) /\ Apart(s)
    /\ \A s, t \in Sessions : s # t => ApartFrom(s, t)

----------------------------------------------------------------------------
(* Counting *)

\* Two lines of one fingerprint are not given the same number.
LEMMA OccurrencesDiffer ==
    ASSUME NEW f \in Files, NEW k \in Lines(f), NEW l \in Lines(f),
           FileRows[f][k].fp = FileRows[f][l].fp, Occurrence(f, k) = Occurrence(f, l)
    PROVE  k = l
<1> DEFINE fp == FileRows[f][l].fp
<1>1. k \in Nat /\ l \in Nat /\ k \in Of(f, fp) /\ l \in Of(f, fp)
    BY OccurrenceProperties DEF Of
<1>2. /\ Cardinality(Upto(f, fp, k)) = Occurrence(f, k)
      /\ Cardinality(Upto(f, fp, l)) = Occurrence(f, l)
    BY DEF Occurrence, Upto
<1>3. ASSUME NEW x \in Of(f, fp), NEW y \in Of(f, fp), x \in Nat, y \in Nat, x < y,
             Cardinality(Upto(f, fp, x)) = Cardinality(Upto(f, fp, y))
      PROVE  FALSE
  <2>1. Upto(f, fp, x) \subseteq Upto(f, fp, y) /\ y \in Upto(f, fp, y) /\ y \notin Upto(f, fp, x)
    BY <1>3, FileAssumption DEF Upto, Of, Lines
  <2>2. Upto(f, fp, x) = Upto(f, fp, y)
    BY <1>3, <2>1, UptoProperties, FS_Subset
  <2>3. QED  BY <2>1, <2>2
<1>4. ~(k < l) /\ ~(l < k)
    BY <1>1, <1>2, <1>3
<1>5. QED  BY <1>1, <1>4
----------------------------------------------------------------------------
(* How a step carries the invariant *)

LEMMA ClashIsSymmetric == \A q, r : Clash(q, r) => Clash(r, q)
    BY DEF Clash, SameKey, SameId

\* The session t neither moves nor is told anything.
Still(t) ==
    /\ pc'[t] = pc[t] /\ job'[t] = job[t] /\ todo'[t] = todo[t]
    /\ held'[t] = held[t] /\ opened'[t] = opened[t]

LEMMA StillIsSound ==
    ASSUME NEW t \in Sessions, Sound(t), Still(t)
    PROVE  Sound(t)'
<1>1. Work(t)' = Work(t)
    BY DEF Still, Work
<1>2. ImportWork(t)'
    BY <1>1 DEF Sound, ImportWork, Still
<1>3. EntryWork(t)'
    BY <1>1 DEF Sound, EntryWork, Still
<1>4. QED  BY <1>1, <1>2, <1>3 DEF Sound, Still

\* A step that inserts nothing and leaves the tables alone has only its own
\* session's plan to account for.
LEMMA CalmStep ==
    ASSUME LInv, NEW s \in Sessions, UNCHANGED store, Sound(s)',
           held'[s] \subseteq held[s],
           opened'[s] => opened[s] /\ job'[s] = job[s],
           \A t \in Sessions \ {s} : Still(t)
    PROVE  LInv'
<1>1. rows' = rows /\ batches' = batches
    BY DEF store
<1>2. TablesSound'
    BY <1>1 DEF LInv, TablesSound, HasIds
<1>3. ASSUME NEW t \in Sessions
      PROVE  /\ held'[t] \subseteq held[t]
             /\ opened'[t] => opened[t] /\ job'[t] = job[t]
    BY <1>3 DEF Still
<1>4. ASSUME NEW t \in Sessions PROVE Sound(t)' /\ Apart(t)'
  <2>1. Sound(t)'
    BY StillIsSound DEF LInv
  <2>2. Apart(t)'
    BY <1>1, <1>3 DEF LInv, Apart
  <2>3. QED  BY <2>1, <2>2
<1>5. ASSUME NEW t \in Sessions, NEW u \in Sessions, t # u PROVE ApartFrom(t, u)'
  <2>1. ApartFrom(t, u)
    BY <1>5 DEF LInv
  <2>2. QED  BY <1>3, <2>1 DEF ApartFrom
<1>6. QED  BY <1>2, <1>4, <1>5 DEF LInv

LEMMA RollbackIsSound ==
    ASSUME TypeOK, LInv, NEW s \in Sessions, NEW result, NEW count, Rollback(s, result, count)
    PROVE  LInv'
<1>1. /\ pc'[s] = "idle" /\ job'[s] = Nothing /\ todo'[s] = {} /\ held'[s] = {}
      /\ opened'[s] = FALSE /\ UNCHANGED store
    BY DEF Rollback, Close, TypeOK
<1>2. \A t \in Sessions \ {s} : Still(t)
    BY DEF Rollback, Close, TypeOK, Still
<1>3. Nothing \notin Batch /\ Nothing \notin Entry
    BY NothingAssumption DEF Job
<1>4. Work(s)' = {}
    BY <1>1 DEF Work
<1>5. Sound(s)'
    BY <1>1, <1>3, <1>4, FS_EmptySet DEF Sound, ImportWork, EntryWork
<1>6. QED  BY <1>1, <1>2, <1>5, CalmStep

LEMMA LinesAreFinite ==
    ASSUME NEW f \in Files
    PROVE  IsFiniteSet(Lines(f))
<1>1. Lines(f) = 1..Len(FileRows[f]) /\ Len(FileRows[f]) \in Nat
    BY FileAssumption DEF Lines
<1>2. QED  BY <1>1, FS_Interval

\* A set of rows that each stand for a line of its own is finite.
LEMMA DescribedIsFinite ==
    ASSUME NEW f \in Files, NEW S,
           \A r \in S : r.line \in Lines(f),
           \A q, r \in S : q.line = r.line => q = r
    PROVE  IsFiniteSet(S)
<1> DEFINE F == [r \in S |-> r.line]
<1>1. F \in [S -> Lines(f)] /\ \A q, r \in S : F[q] = F[r] => q = r
    OBVIOUS
<1>2. F \in Injection(S, Lines(f))
    BY <1>1, Fun_IsInj
<1>3. QED  BY <1>2, LinesAreFinite, FS_Injection

LEMMA RecordsAreSound ==
    ASSUME NEW f \in Files, NEW mode \in {"snapshot", "incremental"}
    PROVE  /\ \A r \in Records(f, mode) : Describes(f, mode, r)
           /\ \A q, r \in Records(f, mode) : q.line = r.line => q = r
           /\ \A q, r \in Records(f, mode) : SameKey(q, r) => q = r
           /\ IsFiniteSet(Records(f, mode))
<1> DEFINE R(l) == [line |-> l, fp |-> FileRows[f][l].fp, occ |-> Occurrence(f, l),
                    ext |-> IF mode = "incremental" THEN FileRows[f][l].id ELSE NoId]
<1>1. Records(f, mode) = {R(l) : l \in Lines(f)}
    BY DEF Records
<1>2. \A l \in Lines(f) : /\ R(l).line = l /\ R(l).fp = FileRows[f][l].fp
                          /\ R(l).occ = Occurrence(f, l)
                          /\ R(l).ext = IF mode = "incremental" THEN FileRows[f][l].id ELSE NoId
    OBVIOUS
<1>3. \A r \in Records(f, mode) : Describes(f, mode, r)
    BY <1>1, <1>2 DEF Describes
<1>4. \A q, r \in Records(f, mode) : q.line = r.line => q = r
    BY <1>1, <1>2
<1>5. ASSUME NEW k \in Lines(f), NEW l \in Lines(f), SameKey(R(k), R(l)) PROVE k = l
    BY <1>2, <1>5, OccurrencesDiffer DEF SameKey
<1>6. \A q, r \in Records(f, mode) : SameKey(q, r) => q = r
    BY <1>1, <1>5
<1>7. IsFiniteSet(Records(f, mode))
    BY <1>3, <1>4, DescribedIsFinite DEF Describes
<1>8. QED  BY <1>3, <1>4, <1>6, <1>7
----------------------------------------------------------------------------
(* One lemma per action *)

LEMMA BeginImportIsSound ==
    ASSUME IInv, LInv, NEW s \in Sessions, NEW f \in Files, NEW mode \in Modes,
           BeginImport(s, f, mode)
    PROVE  LInv'
<1> DEFINE b == [file |-> f, mode |-> mode]
<1>1. b \in Batch /\ b.file = f /\ b.mode = mode /\ mode \in {"snapshot", "incremental"}
    BY JobAssumption DEF Batch
<1>2. /\ pc[s] = "idle" /\ pc'[s] = "modes" /\ job'[s] = b
      /\ todo'[s] = Records(f, mode) /\ held'[s] = held[s] /\ opened'[s] = opened[s]
      /\ UNCHANGED store
    BY DEF BeginImport, Begin, IInv, TypeOK
<1>3. held[s] = {} /\ opened[s] = FALSE
    BY <1>2 DEF IInv, SInv, JobOK, TypeOK
<1>4. Work(s)' = Records(f, mode)
    BY <1>2, <1>3 DEF Work
<1>5. Sound(s)'
  <2>1. b \in Job /\ b \notin Entry
    BY <1>1, JobKinds
  <2>2. QED  BY <1>1, <1>2, <1>4, <2>1, RecordsAreSound DEF Sound, ImportWork, EntryWork
<1>6. \A t \in Sessions \ {s} : Still(t)
    BY DEF BeginImport, Begin, IInv, TypeOK, Still
<1>7. QED  BY <1>2, <1>3, <1>5, <1>6, CalmStep

LEMMA BeginEntryIsSound ==
    ASSUME IInv, LInv, NEW s \in Sessions, NEW fp \in Entered, NEW repeat \in BOOLEAN,
           BeginEntry(s, fp, repeat)
    PROVE  LInv'
<1> DEFINE e == [mode |-> "entry", fp |-> fp, repeat |-> repeat]
<1>1. e \in Entry /\ e \in Job /\ e \notin Batch
    BY JobAssumption, JobKinds DEF Entry
<1>2. /\ pc[s] = "idle" /\ pc'[s] = "highest" /\ job'[s] = e
      /\ todo'[s] = {} /\ held'[s] = held[s] /\ opened'[s] = opened[s]
      /\ UNCHANGED store
    BY DEF BeginEntry, Begin, IInv, TypeOK
<1>3. held[s] = {} /\ opened[s] = FALSE
    BY <1>2 DEF IInv, SInv, JobOK, TypeOK
<1>4. Work(s)' = {}
    BY <1>2, <1>3 DEF Work
<1>5. Sound(s)'
    BY <1>1, <1>2, <1>4, FS_EmptySet DEF Sound, ImportWork, EntryWork
<1>6. \A t \in Sessions \ {s} : Still(t)
    BY DEF BeginEntry, Begin, IInv, TypeOK, Still
<1>7. QED  BY <1>2, <1>3, <1>5, <1>6, CalmStep

\* A statement that looks something up, drops rows it finds and goes on.
LEMMA LookupIsSound ==
    ASSUME TypeOK, LInv, NEW s \in Sessions, NEW here, NEW next, NEW plan,
           Goto(s, here, next), todo' = [todo EXCEPT ![s] = plan],
           plan \subseteq todo[s], here # "idle",
           next \in {"keys", "ids", "offsets", "insert"} =>
              here \in {"keys", "ids", "offsets", "insert"},
           job[s] \in Entry => next \notin {"keys", "insert"} \/ plan # {},
           UNCHANGED <<store, job, held, opened>>
    PROVE  LInv'
<1>1. /\ pc[s] = here /\ pc'[s] = next /\ todo'[s] = plan /\ job'[s] = job[s]
      /\ held'[s] = held[s] /\ opened'[s] = opened[s]
    BY DEF Goto, TypeOK
<1>2. Work(s)' \subseteq Work(s)
    BY <1>1 DEF Work
<1>3. IsFiniteSet(Work(s)')
    BY <1>2, FS_Subset DEF LInv, Sound
<1>4. ImportWork(s)'
    BY <1>1, <1>2 DEF LInv, Sound, ImportWork
<1>5. EntryWork(s)'
    BY <1>1, <1>2 DEF LInv, Sound, EntryWork, Work
<1>6. Sound(s)'
    BY <1>1, <1>2, <1>3, <1>4, <1>5 DEF LInv, Sound
<1>7. \A t \in Sessions \ {s} : Still(t)
    BY DEF Goto, TypeOK, Still
<1>8. QED  BY <1>1, <1>6, <1>7, CalmStep

LEMMA CheckModesIsSound ==
    ASSUME IInv, LInv, NEW s \in Sessions, CheckModes(s)
    PROVE  LInv'
<1>1. TypeOK /\ (pc[s] = "modes" => job[s] \notin Entry)
    BY JobKinds DEF IInv, SInv, JobOK
<1>2. CASE Rollback(s, "refused", 0)
    BY <1>1, <1>2, RollbackIsSound
<1>3. CASE /\ Goto(s, "modes", "find")
           /\ UNCHANGED <<store, job, todo, held, opened, outcome, disturbed>>
  <2>1. todo' = [todo EXCEPT ![s] = todo[s]]
    BY <1>1, <1>3 DEF TypeOK
  <2>2. QED  BY <1>1, <1>3, <2>1, LookupIsSound
<1>4. QED  BY <1>2, <1>3 DEF CheckModes

LEMMA FindBatchIsSound ==
    ASSUME IInv, LInv, NEW s \in Sessions, FindBatch(s)
    PROVE  LInv'
<1>1. TypeOK /\ (pc[s] = "find" => job[s] \notin Entry)
    BY JobKinds DEF IInv, SInv, JobOK
<1>2. CASE Rollback(s, "already", 0)
    BY <1>1, <1>2, RollbackIsSound
<1>3. CASE /\ Goto(s, "find", "open")
           /\ UNCHANGED <<store, job, todo, held, opened, outcome, disturbed>>
  <2>1. todo' = [todo EXCEPT ![s] = todo[s]]
    BY <1>1, <1>3 DEF TypeOK
  <2>2. QED  BY <1>1, <1>3, <2>1, LookupIsSound
<1>4. QED  BY <1>2, <1>3 DEF FindBatch

\* Nobody else holds, or has committed, a batch of these bytes.
LEMMA OpenBatchIsSound ==
    ASSUME IInv, LInv, NEW s \in Sessions, OpenBatch(s)
    PROVE  LInv'
<1> DEFINE next == IF job[s].mode = "incremental" THEN "ids" ELSE "keys"
<1>1. TypeOK
    BY DEF IInv
<1>2. CASE Rollback(s, "already", 0)
    BY <1>1, <1>2, RollbackIsSound
<1>3. CASE /\ \A b \in batches : b.file # job[s].file
           /\ Goto(s, "open", next)
           /\ opened' = [opened EXCEPT ![s] = TRUE]
           /\ UNCHANGED <<store, job, todo, held, outcome, disturbed>>
  <2>1. /\ pc[s] = "open" /\ pc'[s] = next /\ opened'[s] = TRUE
        /\ rows' = rows /\ batches' = batches /\ job' = job /\ todo' = todo /\ held' = held
    BY <1>1, <1>3 DEF Goto, TypeOK, store
  <2>2. /\ job[s] \in Batch /\ job[s] \notin Entry /\ held[s] = {}
    BY <2>1, JobKinds DEF IInv, SInv, JobOK
  <2>3. \A t \in Sessions : opened[t] /\ t # s => job[t].file # job[s].file
    BY <2>1 DEF OpenBatch, Blocked, WaitsFor
  <2>4. \A t \in Sessions \ {s} : Still(t)
    BY <1>1, <1>3 DEF Goto, TypeOK, Still
  <2>5. Work(s)' = Work(s)
    BY <2>1 DEF Work
  <2>6. Sound(s)'
    BY <2>1, <2>2, <2>5 DEF LInv, Sound, ImportWork, EntryWork
  <2>7. ASSUME NEW t \in Sessions PROVE Sound(t)' /\ Apart(t)'
    <3>1. Sound(t)'
        BY <2>4, <2>6, StillIsSound DEF LInv
    <3>2. Apart(t)'
        BY <1>3, <2>1, <2>4 DEF LInv, Apart, Still
    <3>3. QED  BY <3>1, <3>2
  <2>8. ASSUME NEW t \in Sessions, NEW u \in Sessions, t # u PROVE ApartFrom(t, u)'
    <3>1. ApartFrom(t, u)
        BY <2>8 DEF LInv
    <3>2. \A r \in held'[t], q \in held'[u] : ~Clash(q, r)
        BY <2>1, <3>1 DEF ApartFrom
    <3>3. opened'[t] /\ opened'[u] => job'[t].file # job'[u].file
        BY <2>1, <2>3, <2>4, <2>8, <3>1 DEF ApartFrom, Still
    <3>4. QED  BY <3>2, <3>3 DEF ApartFrom
  <2>9. TablesSound'
    BY <2>1 DEF LInv, TablesSound, HasIds
  <2>10. QED  BY <2>7, <2>8, <2>9 DEF LInv
<1>4. QED  BY <1>2, <1>3 DEF OpenBatch

LEMMA ReadHighestIsSound ==
    ASSUME IInv, LInv, NEW s \in Sessions, ReadHighest(s)
    PROVE  LInv'
<1> DEFINE fp == job[s].fp
           r == [line |-> 0, fp |-> fp, occ |-> Highest(fp) + 1, ext |-> NoId]
<1>1. /\ TypeOK
      /\ pc[s] = "highest" => job[s] \in Entry /\ job[s] \notin Batch /\ job[s] \in Job
    BY JobKinds DEF IInv, SInv, JobOK
<1>2. CASE Rollback(s, "duplicate", Highest(fp))
    BY <1>1, <1>2, RollbackIsSound
<1>3. CASE /\ Goto(s, "highest", "keys")
           /\ todo' = [todo EXCEPT ![s] = {r}]
           /\ UNCHANGED <<store, job, held, opened, outcome, disturbed>>
  <2>1. /\ pc[s] = "highest" /\ pc'[s] = "keys" /\ todo'[s] = {r} /\ job'[s] = job[s]
        /\ held'[s] = held[s] /\ opened'[s] = opened[s] /\ UNCHANGED store
    BY <1>1, <1>3 DEF Goto, TypeOK
  <2>2. held[s] = {}
    BY <2>1 DEF IInv, SInv, JobOK
  <2>3. Work(s)' = {r}
    BY <2>1, <2>2 DEF Work
  <2>4. Sound(s)'
    <3>1. IsFiniteSet({r})
        BY FS_Singleton
    <3>2. r.fp = fp /\ r.ext = NoId /\ job'[s] \in Entry /\ job'[s] \notin Batch
        BY <1>1, <2>1
    <3>3. ImportWork(s)' /\ EntryWork(s)'
        BY <2>1, <2>3, <3>2 DEF ImportWork, EntryWork
    <3>4. QED  BY <1>1, <2>1, <2>3, <3>1, <3>3 DEF Sound
  <2>5. \A t \in Sessions \ {s} : Still(t)
    BY <1>1, <1>3 DEF Goto, TypeOK, Still
  <2>6. QED  BY <2>1, <2>4, <2>5, CalmStep
<1>4. QED  BY <1>2, <1>3 DEF ReadHighest

LEMMA ReadKeysIsSound ==
    ASSUME IInv, LInv, NEW s \in Sessions, ReadKeys(s)
    PROVE  LInv'
<1> DEFINE new == {r \in todo[s] : \A q \in rows : ~SameKey(q, r)}
<1>1. TypeOK /\ (job[s] \in Entry => job[s].mode = "entry")
    BY JobKinds DEF IInv
<1>2. CASE Rollback(s, "duplicate", 1)
    BY <1>1, <1>2, RollbackIsSound
<1>3. CASE /\ Goto(s, "keys", "insert")
           /\ job[s].mode = "entry" => new # {}
           /\ todo' = [todo EXCEPT ![s] = new]
           /\ UNCHANGED <<store, job, held, opened, outcome, disturbed>>
    BY <1>1, <1>3, LookupIsSound
<1>4. QED  BY <1>2, <1>3 DEF ReadKeys

LEMMA ReadIdsIsSound ==
    ASSUME IInv, LInv, NEW s \in Sessions, ReadIds(s)
    PROVE  LInv'
<1> DEFINE new == {r \in todo[s] : \A q \in rows : ~SameId(q, r)}
<1>1. TypeOK
    BY DEF IInv
<1>2. /\ Goto(s, "ids", "offsets") /\ todo' = [todo EXCEPT ![s] = new]
      /\ UNCHANGED <<store, job, held, opened>>
    BY DEF ReadIds
<1>3. QED  BY <1>1, <1>2, LookupIsSound

LEMMA ReadOffsetsIsSound ==
    ASSUME IInv, LInv, NEW s \in Sessions, ReadOffsets(s)
    PROVE  LInv'
<1> DEFINE Shift(r) == [r EXCEPT !.occ = @ + Highest(r.fp)]
           new == {Shift(r) : r \in todo[s]}
           f == job[s].file
<1>1. /\ pc[s] = "offsets" /\ pc'[s] = "insert" /\ todo'[s] = new /\ held[s] = {} /\ held'[s] = {}
      /\ job'[s] = job[s] /\ job[s] \in Batch /\ job[s].mode = "incremental"
      /\ UNCHANGED store /\ opened'[s] = opened[s] /\ todo[s] \subseteq Row
    BY DEF ReadOffsets, Goto, IInv, TypeOK, SInv, JobOK
<1>2. Work(s) = todo[s] /\ Work(s)' = new
    BY <1>1 DEF Work
<1>3. \A r \in todo[s] :
        /\ Shift(r).line = r.line /\ Shift(r).ext = r.ext /\ Shift(r).fp = r.fp
        /\ Shift(r).occ = r.occ + Highest(r.fp) /\ r.occ \in Nat
    BY <1>1 DEF Row
<1>4. \A fp : Highest(fp) \in Nat
    BY HighestProperties DEF IInv, TypeOK
<1>5. ImportWork(s) /\ Sound(s)
    BY DEF LInv, Sound
<1>6. \A r \in new : Describes(f, "incremental", r)
  <2>1. \A r \in todo[s] : Describes(f, "incremental", r)
    BY <1>1, <1>2, <1>5 DEF ImportWork
  <2>2. ASSUME NEW r \in todo[s] PROVE Describes(f, "incremental", Shift(r))
    BY <1>3, <2>1 DEF Describes
  <2>3. QED  BY <2>2
<1>7. \A q, r \in new : q.line = r.line => q = r
  <2>1. ASSUME NEW q \in todo[s], NEW r \in todo[s], Shift(q).line = Shift(r).line PROVE q = r
    BY <1>1, <1>2, <1>3, <1>5, <2>1 DEF ImportWork
  <2>2. QED  BY <2>1
<1>8. \A q, r \in new : SameKey(q, r) => q = r
  <2>1. ASSUME NEW q \in todo[s], NEW r \in todo[s], SameKey(Shift(q), Shift(r)) PROVE q = r
    <3>1. q.fp = r.fp /\ q.occ = r.occ
        BY <1>3, <1>4, <2>1 DEF SameKey
    <3>2. QED  BY <1>2, <1>5, <3>1 DEF Sound, SameKey
  <2>2. QED  BY <2>1
<1>9. IsFiniteSet(new)
    BY <1>1, <1>6, <1>7, JobKinds, DescribedIsFinite DEF Describes
<1>10. Sound(s)'
  <2>1. job[s] \in Job /\ job[s] \notin Entry
    BY <1>1, JobKinds
  <2>2. opened[s]
    BY <1>1, <1>5 DEF ImportWork
  <2>3. QED
    BY <1>1, <1>2, <1>6, <1>7, <1>8, <1>9, <2>1, <2>2 DEF Sound, ImportWork, EntryWork
<1>11. \A t \in Sessions \ {s} : Still(t)
    BY DEF ReadOffsets, Goto, IInv, TypeOK, Still
<1>12. QED  BY <1>1, <1>10, <1>11, CalmStep

\* A row is inserted only when nobody holds or has committed one like it.
LEMMA InsertRowIsSound ==
    ASSUME IInv, LInv, NEW s \in Sessions, InsertRow(s)
    PROVE  LInv'
<1>1. PICK r \in todo[s] : /\ IsNext(s, r)
                           /\ \A q \in rows : ~Clash(q, r)
                           /\ held' = [held EXCEPT ![s] = @ \cup {r}]
                           /\ todo' = [todo EXCEPT ![s] = @ \ {r}]
    BY DEF InsertRow
<1>2. /\ pc[s] = "insert" /\ pc' = pc /\ job' = job /\ opened' = opened
      /\ rows' = rows /\ batches' = batches
      /\ held'[s] = held[s] \cup {r} /\ todo'[s] = todo[s] \ {r}
      /\ \A t \in Sessions \ {s} : held'[t] = held[t] /\ Still(t)
    BY <1>1 DEF InsertRow, store, IInv, TypeOK, Still
<1>3. Work(s)' = Work(s)
    BY <1>1, <1>2 DEF Work
<1>4. Sound(s)'
    BY <1>2, <1>3 DEF LInv, Sound, ImportWork, EntryWork
<1>5. \A t \in Sessions : t # s => \A q \in held[t] : ~Clash(q, r)
    BY <1>1, <1>2 DEF InsertRow, Blocked, WaitsFor
<1>6. ASSUME NEW t \in Sessions PROVE Sound(t)' /\ Apart(t)'
  <2>1. Sound(t)'
    BY <1>2, <1>4, StillIsSound DEF LInv
  <2>2. Apart(t)'
    BY <1>1, <1>2 DEF LInv, Apart
  <2>3. QED  BY <2>1, <2>2
<1>7. ASSUME NEW t \in Sessions, NEW u \in Sessions, t # u PROVE ApartFrom(t, u)'
  <2>1. ApartFrom(t, u)
    BY <1>7 DEF LInv
  <2>2. \A p \in held'[t], q \in held'[u] : ~Clash(q, p)
    <3>1. CASE t # s /\ u # s
        BY <1>2, <2>1, <3>1 DEF ApartFrom
    <3>2. CASE t = s
        BY <1>2, <1>5, <1>7, <2>1, <3>2 DEF ApartFrom
    <3>3. CASE u = s
        BY <1>2, <1>5, <1>7, <2>1, <3>3, ClashIsSymmetric DEF ApartFrom
    <3>4. QED  BY <3>1, <3>2, <3>3
  <2>3. QED  BY <1>2, <2>1, <2>2 DEF ApartFrom
<1>8. TablesSound'
    BY <1>2 DEF LInv, TablesSound, HasIds
<1>9. QED  BY <1>6, <1>7, <1>8 DEF LInv

LEMMA CommitIsSound ==
    ASSUME IInv, LInv, NEW s \in Sessions, Commit(s)
    PROVE  LInv'
<1>1. /\ pc[s] = "insert" /\ todo[s] = {} /\ rows' = rows \cup held[s]
      /\ batches' = batches \cup (IF opened[s] THEN {job[s]} ELSE {})
      /\ pc'[s] = "idle" /\ job'[s] = Nothing /\ todo'[s] = {} /\ held'[s] = {}
      /\ opened'[s] = FALSE
      /\ \A t \in Sessions \ {s} : Still(t)
    BY DEF Commit, Close, IInv, TypeOK, Still
<1>2. Work(s) = held[s] /\ Work(s)' = {}
    BY <1>1 DEF Work
<1>3. Sound(s) /\ Apart(s) /\ (opened[s] => job[s] \in Batch)
    BY DEF LInv, IInv, SInv, JobOK
<1>4. Sound(s)'
  <2>1. Nothing \notin Batch /\ Nothing \notin Entry
    BY NothingAssumption DEF Job
  <2>2. QED  BY <1>1, <1>2, <2>1, FS_EmptySet DEF Sound, ImportWork, EntryWork
<1>5. ASSUME NEW t \in Sessions PROVE Sound(t)' /\ Apart(t)'
  <2>1. Sound(t)'
    BY <1>1, <1>4, StillIsSound DEF LInv
  <2>2. CASE t = s
    BY <1>1, <2>1, <2>2 DEF Apart
  <2>3. CASE t # s
    <3>1. ApartFrom(t, s) /\ Apart(t) /\ Still(t)
        BY <1>1, <2>3 DEF LInv
    <3>2. \A r \in held'[t], q \in rows' : ~Clash(q, r)
        BY <1>1, <3>1 DEF ApartFrom, Apart, Still
    <3>3. opened'[t] => \A b \in batches' : b.file # job'[t].file
        BY <1>1, <3>1 DEF ApartFrom, Apart, Still
    <3>4. QED  BY <2>1, <3>2, <3>3 DEF Apart
  <2>4. QED  BY <2>2, <2>3
<1>6. ASSUME NEW t \in Sessions, NEW u \in Sessions, t # u PROVE ApartFrom(t, u)'
  <2>1. ApartFrom(t, u)
    BY <1>6 DEF LInv
  <2>2. \A x \in Sessions : /\ held'[x] \subseteq held[x]
                            /\ opened'[x] => opened[x] /\ job'[x] = job[x]
    BY <1>1 DEF Still
  <2>3. QED  BY <2>1, <2>2 DEF ApartFrom
<1>7. TablesSound'
  <2>1. IsFiniteSet(rows')
    BY <1>1, <1>2, <1>3, FS_Union DEF LInv, TablesSound, Sound
  <2>2. ASSUME NEW q \in rows', NEW r \in rows', SameKey(q, r) PROVE q = r
    <3>1. CASE q \in rows /\ r \in rows
        BY <2>2, <3>1 DEF LInv, TablesSound
    <3>2. CASE q \in held[s] /\ r \in held[s]
        BY <1>2, <1>3, <2>2, <3>2 DEF Sound
    <3>3. CASE q \in rows /\ r \in held[s]
        BY <1>3, <2>2, <3>3 DEF Apart, Clash
    <3>4. CASE q \in held[s] /\ r \in rows
        BY <1>3, <2>2, <3>4 DEF Apart, Clash, SameKey
    <3>5. QED  BY <1>1, <3>1, <3>2, <3>3, <3>4
  <2>3. HasIds(rows') => \E b \in batches' : b.mode = "incremental"
    <3>1. CASE HasIds(rows)
        BY <1>1, <3>1 DEF LInv, TablesSound
    <3>2. ASSUME NEW r \in held[s], r.ext # NoId
          PROVE  \E b \in batches' : b.mode = "incremental"
      <4>1. job[s] \in Batch
        BY <1>1, <1>2, <1>3, <3>2 DEF Sound, EntryWork, Job
      <4>2. job[s].mode = "incremental" /\ opened[s]
        BY <1>1, <1>2, <1>3, <3>2, <4>1 DEF Sound, ImportWork, Describes
      <4>3. QED  BY <1>1, <4>2
    <3>3. QED  BY <1>1, <3>1, <3>2 DEF HasIds
  <2>4. QED  BY <2>1, <2>2, <2>3 DEF TablesSound
<1>8. QED  BY <1>5, <1>6, <1>7 DEF LInv

LEMMA InitIsSound == Init => LInv
<1> SUFFICES ASSUME Init PROVE LInv
    OBVIOUS
<1>1. TablesSound
    BY FS_EmptySet DEF Init, TablesSound, HasIds
<1>2. ASSUME NEW s \in Sessions PROVE Sound(s) /\ Apart(s)
  <2>1. Nothing \notin Batch /\ Nothing \notin Entry
    BY NothingAssumption DEF Job
  <2>2. Work(s) = {} /\ pc[s] = "idle" /\ job[s] = Nothing /\ held[s] = {} /\ opened[s] = FALSE
    BY DEF Init, Work
  <2>3. Sound(s)
    BY <2>1, <2>2, FS_EmptySet DEF Sound, ImportWork, EntryWork
  <2>4. QED  BY <2>2, <2>3 DEF Apart
<1>3. \A s, t \in Sessions : ApartFrom(s, t)
    BY DEF Init, ApartFrom
<1>4. QED  BY <1>1, <1>2, <1>3 DEF LInv

LEMMA NextIsSound == IInv /\ LInv /\ [Next]_vars => LInv'
<1> SUFFICES ASSUME IInv, LInv, [Next]_vars PROVE LInv'
    OBVIOUS
<1>1. TypeOK
    BY DEF IInv
<1>2. CASE UNCHANGED vars
  <2>1. \A t \in Sessions : Still(t)
    BY <1>2 DEF vars, Still
  <2>2. CASE Sessions = {}
    BY <1>2, <2>2 DEF vars, store, LInv, TablesSound, HasIds
  <2>3. ASSUME NEW s \in Sessions PROVE LInv'
    <3>1. Sound(s)'
        BY <2>1, StillIsSound DEF LInv
    <3>2. UNCHANGED store
        BY <1>2 DEF vars, store
    <3>3. QED  BY <2>1, <3>1, <3>2, CalmStep DEF Still
  <2>4. QED  BY <2>2, <2>3
<1>3. ASSUME NEW s \in Sessions, Step(s) PROVE LInv'
  <2>1. CASE \E f \in Files, mode \in Modes : BeginImport(s, f, mode)
    BY <2>1, BeginImportIsSound
  <2>2. CASE \E fp \in Entered, repeat \in BOOLEAN : BeginEntry(s, fp, repeat)
    BY <2>2, BeginEntryIsSound
  <2>3. CASE CheckModes(s) \/ FindBatch(s) \/ OpenBatch(s)
    BY <2>3, CheckModesIsSound, FindBatchIsSound, OpenBatchIsSound
  <2>4. CASE ReadHighest(s) \/ ReadKeys(s) \/ ReadIds(s) \/ ReadOffsets(s)
    BY <2>4, ReadHighestIsSound, ReadKeysIsSound, ReadIdsIsSound, ReadOffsetsIsSound
  <2>5. CASE InsertRow(s)
    BY <2>5, InsertRowIsSound
  <2>6. CASE InsertConflict(s) \/ DeadlockAbort(s) \/ Crash(s)
    BY <1>1, <2>6, RollbackIsSound DEF InsertConflict, DeadlockAbort, Crash
  <2>7. CASE Commit(s)
    BY <2>7, CommitIsSound
  <2>8. QED  BY <1>3, <2>1, <2>2, <2>3, <2>4, <2>5, <2>6, <2>7 DEF Step, Statement
<1>4. QED  BY <1>2, <1>3 DEF Next

LEMMA SoundInvariance == Spec => [](IInv /\ LInv)
<1>1. Init => IInv /\ LInv
    BY InitEstablishes, InitIsSound
<1>2. (IInv /\ LInv) /\ [Next]_vars => (IInv /\ LInv)'
    BY NextKeeps, NextIsSound
<1>3. QED  BY <1>1, <1>2, PTL DEF Spec
----------------------------------------------------------------------------
(* What a commit adds *)

Charges(S, fp) == {r \in S : r.fp = fp}

\* Ledger counts as this module does.
LEMMA LedgerCounts == \A S : Promise!Cardinality(S) = Cardinality(S)
    BY DEF Promise!Cardinality, Cardinality

LEMMA RecordOfLine ==
    ASSUME NEW f \in Files, NEW mode, NEW l \in Lines(f)
    PROVE  \E r \in Records(f, mode) :
              /\ r.line = l /\ r.fp = FileRows[f][l].fp /\ r.occ = Occurrence(f, l)
              /\ r.ext = IF mode = "incremental" THEN FileRows[f][l].id ELSE NoId
<1> DEFINE R == [line |-> l, fp |-> FileRows[f][l].fp, occ |-> Occurrence(f, l),
                 ext |-> IF mode = "incremental" THEN FileRows[f][l].id ELSE NoId]
<1>1. R \in Records(f, mode)
    BY DEF Records
<1>2. QED  BY <1>1

\* The last of the identical lines of a file is numbered by how many there are.
LEMMA ListedIsReached ==
    ASSUME NEW f \in Files, NEW fp
    PROVE  /\ IsFiniteSet(Of(f, fp)) /\ Cardinality(Of(f, fp)) \in Nat
           /\ Cardinality(Of(f, fp)) <= Len(FileRows[f])
           /\ \A l \in Of(f, fp) : Occurrence(f, l) <= Cardinality(Of(f, fp))
           /\ Cardinality(Of(f, fp)) > 0 =>
                 \E l \in Of(f, fp) : Occurrence(f, l) = Cardinality(Of(f, fp))
<1> DEFINE T == {m \in Nat : Upto(f, fp, m) = Of(f, fp)}
<1>1. Len(FileRows[f]) \in Nat /\ Of(f, fp) \subseteq 1..Len(FileRows[f])
    BY FileAssumption DEF Of, Lines
<1>2. Len(FileRows[f]) \in T
    BY <1>1 DEF Upto
<1>3. /\ IsFiniteSet(Of(f, fp)) /\ Cardinality(Of(f, fp)) \in Nat
      /\ Cardinality(Of(f, fp)) <= Len(FileRows[f])
    BY <1>2, UptoProperties
<1>4. ASSUME NEW l \in Of(f, fp)
      PROVE  /\ Occurrence(f, l) = Cardinality(Upto(f, fp, l))
             /\ Occurrence(f, l) <= Cardinality(Of(f, fp))
  <2>1. Occurrence(f, l) = Cardinality(Upto(f, fp, l))
    BY <1>4 DEF Occurrence, Upto, Of
  <2>2. Upto(f, fp, l) \subseteq Of(f, fp)
    BY DEF Upto
  <2>3. QED  BY <1>3, <2>1, <2>2, FS_Subset
<1>5. ASSUME Cardinality(Of(f, fp)) > 0
      PROVE  \E l \in Of(f, fp) : Occurrence(f, l) = Cardinality(Of(f, fp))
  <2>1. PICK m \in T : \A y \in T : m <= y
    BY <1>2, LeastNatural
  <2>2. Upto(f, fp, m) = Of(f, fp) /\ m \in Nat
    BY <2>1
  <2>3. m # 0
    <3>1. Cardinality(Upto(f, fp, 0)) <= 0
        BY UptoProperties
    <3>2. QED  BY <1>3, <1>5, <2>2, <3>1
  <2>4. m - 1 \in Nat /\ m - 1 \notin T
    BY <2>1, <2>3
  <2>5. m \in Of(f, fp)
    <3>1. SUFFICES ASSUME m \notin Of(f, fp) PROVE FALSE
        OBVIOUS
    <3>2. Upto(f, fp, m - 1) = Upto(f, fp, m)
        BY <1>1, <2>2, <2>4, <3>1 DEF Upto
    <3>3. QED  BY <2>2, <2>4, <3>2
  <2>6. QED  BY <1>4, <2>2, <2>5
<1>6. QED  BY <1>3, <1>4, <1>5

\* Where rows are numbered without gaps and without doubles, the number of them
\* is the highest of their numbers.
LEMMA CountIsHighest ==
    ASSUME NEW S \in SUBSET Row, NEW fp, Bounded(S),
           \A q, r \in S : SameKey(q, r) => q = r,
           \A r \in S : \A n \in 1..r.occ : \E q \in S : q.fp = r.fp /\ q.occ = n
    PROVE  /\ Cardinality(Charges(S, fp)) \in Nat
           /\ \A n \in Nat \ {0} :
                 n <= Cardinality(Charges(S, fp)) <=> \E r \in S : r.fp = fp /\ r.occ = n
<1> DEFINE Used(n) == \E r \in S : r.fp = fp /\ r.occ = n
           U == {n \in Nat : n # 0 /\ ~Used(n)}
<1>1. PICK top \in Nat : \A r \in S : r.occ <= top
    BY DEF Bounded
<1>2. top + 1 \in U
  <2>1. top + 1 \in Nat /\ top + 1 # 0 /\ ~(top + 1 <= top)
    OBVIOUS
  <2>2. ~Used(top + 1)
    BY <1>1, <2>1
  <2>3. QED  BY <2>1, <2>2
<1>3. PICK m \in U : \A y \in U : m <= y
    BY <1>2, LeastNatural
<1>4. m \in Nat /\ m # 0 /\ ~Used(m)
    BY <1>3
<1>5. ASSUME NEW n \in Nat \ {0} PROVE Used(n) <=> n < m
  <2>1. CASE n < m
    BY <1>3, <1>4, <2>1
  <2>2. CASE ~(n < m)
    <3>1. ~Used(n)
      <4>1. SUFFICES ASSUME NEW r \in S, r.fp = fp, r.occ = n PROVE FALSE
        OBVIOUS
      <4>2. m \in 1..r.occ
        BY <1>4, <2>2, <4>1
      <4>3. QED  BY <1>4, <4>1, <4>2
    <3>2. QED  BY <2>2, <3>1
  <2>3. QED  BY <2>1, <2>2
<1>6. Cardinality(Charges(S, fp)) = m - 1
  <2> DEFINE A == Charges(S, fp)
             F == [r \in A |-> r.occ]
  <2>1. \A r \in A : r \in S /\ r.fp = fp /\ r.occ \in Nat \ {0}
    BY DEF Charges, Row
  <2>2. \A r \in A : r.occ \in 1..(m - 1)
    BY <1>4, <1>5, <2>1
  <2>3. F \in [A -> 1..(m - 1)] /\ \A q, r \in A : F[q] = F[r] => q = r
    BY <2>1, <2>2 DEF SameKey
  <2>4. \A n \in 1..(m - 1) : \E r \in A : F[r] = n
    <3>1. SUFFICES ASSUME NEW n \in 1..(m - 1) PROVE \E r \in A : r.occ = n
        OBVIOUS
    <3>2. Used(n)
        BY <1>4, <1>5
    <3>3. QED  BY <3>2 DEF Charges
  <2>5. F \in Injection(A, 1..(m - 1)) /\ F \in Surjection(A, 1..(m - 1))
    BY <2>3, <2>4, Fun_IsInj, Fun_IsSurj
  <2>6. IsFiniteSet(1..(m - 1)) /\ Cardinality(1..(m - 1)) = m - 1
    BY <1>4, FS_Interval
  <2>7. QED  BY <2>5, <2>6, FS_Injection
<1>7. QED  BY <1>4, <1>5, <1>6

LEMMA CommitAdds ==
    ASSUME LInv, NEW s \in Sessions, NEW fp, todo[s] = {}, rows' = rows \cup held[s]
    PROVE  /\ Cardinality(Charges(rows, fp)) \in Nat
           /\ IsFiniteSet(Charges(held[s], fp)) /\ Cardinality(Charges(held[s], fp)) \in Nat
           /\ Cardinality(Charges(rows', fp)) =
                 Cardinality(Charges(rows, fp)) + Cardinality(Charges(held[s], fp))
<1>1. IsFiniteSet(rows) /\ IsFiniteSet(held[s])
    BY DEF LInv, TablesSound, Sound, Work
<1>2. IsFiniteSet(Charges(rows, fp)) /\ IsFiniteSet(Charges(held[s], fp))
    BY <1>1, FS_Subset DEF Charges
<1>3. Charges(rows', fp) = Charges(rows, fp) \cup Charges(held[s], fp)
    BY DEF Charges
<1>4. Charges(rows, fp) \cap Charges(held[s], fp) = {}
    BY DEF Charges, LInv, Apart, Clash, SameKey
<1>5. /\ Cardinality(Charges(rows, fp)) \in Nat
      /\ Cardinality(Charges(held[s], fp)) \in Nat
    BY <1>2, FS_CardinalityType
<1>6. \A A, B : IsFiniteSet(A) /\ IsFiniteSet(B) =>
         Cardinality(A \cup B) = Cardinality(A) + Cardinality(B) - Cardinality(A \cap B)
    BY FS_Union
<1>7. Cardinality(Charges(rows', fp)) =
         Cardinality(Charges(rows, fp)) + Cardinality(Charges(held[s], fp)) - 0
    BY <1>2, <1>3, <1>4, <1>6, FS_EmptySet
<1>8. QED  BY <1>2, <1>5, <1>7

----------------------------------------------------------------------------
(* A commit is a step of the ledger *)

\* Where an import stands when it commits: its rows lie in the table afterwards.
LEMMA CommitOfImport ==
    ASSUME IInv, LInv, NEW s \in Sessions, Commit(s), job[s] \in Batch
    PROVE  LET f == job[s].file
               mode == job[s].mode
           IN  /\ opened[s] /\ \A b \in batches : b.file # f
               /\ batches' = batches \cup {[file |-> f, mode |-> mode]}
               /\ \A r \in held[s] : Describes(f, mode, r)
               /\ \A q, r \in held[s] : q.line = r.line => q = r
               /\ \A r \in held[s], q \in rows : ~Clash(q, r)
               /\ \A r \in Records(f, mode) : \E q \in rows \cup held[s] : Matches(q, r)
<1>1. pc[s] = "insert" /\ Work(s) = held[s]
    BY DEF Commit, Work
<1>2. Sound(s) /\ Apart(s) /\ SInv(s)
    BY DEF IInv, LInv
<1>3. opened[s]
    BY <1>1, <1>2 DEF Sound, ImportWork
<1>4. job[s] = [file |-> job[s].file, mode |-> job[s].mode]
    BY DEF Batch
<1>5. batches' = batches \cup {[file |-> job[s].file, mode |-> job[s].mode]}
    BY <1>3, <1>4 DEF Commit
<1>6. \A r \in Records(job[s].file, job[s].mode) : \E q \in rows \cup held[s] : Matches(q, r)
    BY <1>1, <1>2 DEF SInv, Planned
<1>7. QED  BY <1>1, <1>2, <1>3, <1>5, <1>6 DEF Sound, ImportWork, Apart

\* No import adds more charges of a kind than its file lists.
LEMMA AddsAtMostListed ==
    ASSUME NEW f \in Files, NEW mode, NEW S, NEW fp,
           \A r \in S : Describes(f, mode, r),
           \A q, r \in S : q.line = r.line => q = r
    PROVE  Cardinality(Charges(S, fp)) <= Cardinality(Of(f, fp))
<1> DEFINE A == Charges(S, fp)
           F == [r \in A |-> r.line]
<1>1. F \in [A -> Of(f, fp)] /\ \A q, r \in A : F[q] = F[r] => q = r
    BY DEF Charges, Describes, Of
<1>2. F \in Injection(A, Of(f, fp))
    BY <1>1, Fun_IsInj
<1>3. QED  BY <1>2, ListedIsReached, FS_Injection

\* The ids held after an incremental import are those from before and the file's.
LEMMA IdsAfterIncremental ==
    ASSUME IInv, LInv, NEW s \in Sessions, Commit(s), job[s] \in Batch,
           job[s].mode = "incremental"
    PROVE  {r.ext : r \in rows'} \ {NoId} =
              ({r.ext : r \in rows} \ {NoId})
                 \cup {FileRows[job[s].file][l].id : l \in DOMAIN FileRows[job[s].file]}
<1> DEFINE f == job[s].file
<1>1. /\ \A r \in held[s] : Describes(f, "incremental", r)
      /\ \A r \in Records(f, "incremental") : \E q \in rows \cup held[s] : Matches(q, r)
    BY CommitOfImport
<1>2. \A l \in Lines(f) : FileRows[f][l].id # NoId
    BY DEF IInv, SInv, JobOK, Plannable
<1>3. rows' = rows \cup held[s]
    BY DEF Commit
<1>4. ASSUME NEW l \in Lines(f) PROVE \E q \in rows' : q.ext = FileRows[f][l].id
  <2>1. PICK r \in Records(f, "incremental") : r.ext = FileRows[f][l].id
    BY RecordOfLine, JobKinds
  <2>2. PICK q \in rows \cup held[s] : Matches(q, r)
    BY <1>1
  <2>3. q.ext = r.ext
    BY <1>2, <2>1, <2>2 DEF Matches, SameId
  <2>4. QED  BY <1>3, <2>1, <2>3
<1>5. \A r \in held[s] : \E l \in Lines(f) : r.ext = FileRows[f][l].id
    BY <1>1 DEF Describes
<1>6. QED  BY <1>2, <1>3, <1>4, <1>5 DEF Lines

LEMMA IncrementalIsLedgerStep ==
    ASSUME IInv, LInv, NEW s \in Sessions, Commit(s), job[s] \in Batch,
           job[s].mode = "incremental", \A b \in batches : b.mode = "incremental",
           NEW f, f = job[s].file
    PROVE  Promise!ImportIncremental(f)
<1> DEFINE Ids == {r.ext : r \in rows} \ {NoId}
           New(fp) == {l \in Of(f, fp) : FileRows[f][l].id \notin Ids}
<1>1. f \in Files /\ rows' = rows \cup held[s] /\ todo[s] = {}
    BY JobKinds DEF Commit
<1>2. /\ \A b \in batches : b.file # f
      /\ batches' = batches \cup {[file |-> f, mode |-> "incremental"]}
      /\ \A r \in held[s] : Describes(f, "incremental", r)
      /\ \A q, r \in held[s] : q.line = r.line => q = r
      /\ \A r \in held[s], q \in rows : ~Clash(q, r)
      /\ \A r \in Records(f, "incremental") : \E q \in rows \cup held[s] : Matches(q, r)
    BY CommitOfImport
<1>3. /\ \A l \in Lines(f) : FileRows[f][l].id # NoId
      /\ \A k, l \in Lines(f) : FileRows[f][k].id = FileRows[f][l].id => k = l
    BY DEF IInv, SInv, JobOK, Plannable
<1>4. ASSUME NEW fp PROVE Cardinality(Charges(held[s], fp)) = Cardinality(New(fp))
  <2> DEFINE A == Charges(held[s], fp)
             F == [r \in A |-> r.line]
  <2>1. \A r \in A : r.line \in New(fp)
    <3>1. SUFFICES ASSUME NEW r \in A PROVE r.line \in New(fp)
        OBVIOUS
    <3>2. r \in held[s] /\ r.fp = fp /\ r.line \in Lines(f)
        BY <1>2 DEF Charges, Describes
    <3>3. r.line \in Of(f, fp) /\ r.ext = FileRows[f][r.line].id /\ r.ext # NoId
        BY <1>2, <1>3, <3>2 DEF Describes, Of
    <3>4. \A q \in rows : q.ext # r.ext
        BY <1>2, <3>2, <3>3 DEF Clash, SameId
    <3>5. QED  BY <3>3, <3>4
  <2>2. F \in [A -> New(fp)] /\ \A q, r \in A : F[q] = F[r] => q = r
    BY <1>2, <2>1 DEF Charges
  <2>3. ASSUME NEW l \in New(fp) PROVE \E r \in A : F[r] = l
    <3>1. l \in Lines(f) /\ FileRows[f][l].fp = fp /\ FileRows[f][l].id \notin Ids
        BY DEF Of
    <3>2. PICK r \in Records(f, "incremental") : r.ext = FileRows[f][l].id
        BY <1>1, <3>1, RecordOfLine
    <3>3. PICK q \in rows \cup held[s] : Matches(q, r)
        BY <1>2
    <3>4. q.ext = FileRows[f][l].id /\ q.ext # NoId
        BY <1>3, <3>1, <3>2, <3>3 DEF Matches, SameId
    <3>5. q \in held[s]
        BY <3>1, <3>4
    <3>6. q.line = l /\ q.fp = fp
        BY <1>2, <1>3, <3>1, <3>4, <3>5 DEF Describes
    <3>7. QED  BY <3>5, <3>6 DEF Charges
  <2>4. F \in Injection(A, New(fp)) /\ F \in Surjection(A, New(fp))
    BY <2>2, <2>3, Fun_IsInj, Fun_IsSurj
  <2>5. IsFiniteSet(New(fp))
    BY <1>1, ListedIsReached, FS_Subset
  <2> HIDE DEF A, F, New
  <2>6. Cardinality(A) = Cardinality(New(fp))
    BY <2>4, <2>5, FS_Injection
  <2>7. QED  BY <2>6 DEF A
<1>5. ASSUME NEW fp
      PROVE  Cardinality(Charges(rows', fp)) = Cardinality(Charges(rows, fp)) + Cardinality(New(fp))
  <2>1. Cardinality(Charges(rows', fp)) =
           Cardinality(Charges(rows, fp)) + Cardinality(Charges(held[s], fp))
    BY <1>1, CommitAdds
  <2>2. QED  BY <1>4, <2>1
<1>6. {r.ext : r \in rows'} \ {NoId} = Ids \cup {FileRows[f][l].id : l \in DOMAIN FileRows[f]}
    BY IdsAfterIncremental
<1>7. QED
    BY <1>2, <1>5, <1>6, LedgerCounts
       DEF Promise!ImportIncremental, Promise!FirstUse, Promise!OneMode, Promise!InFile,
           Charges, Of, Lines

LEMMA SnapshotIsLedgerStep ==
    ASSUME IInv, IInv', LInv, LInv', NEW s \in Sessions, Commit(s), job[s] \in Batch,
           job[s].mode = "snapshot", \A b \in batches : b.mode = "snapshot"
    PROVE  Promise!ImportSnapshot(job[s].file)
<1> DEFINE f == job[s].file
           Before(fp) == Cardinality(Charges(rows, fp))
           After(fp) == Cardinality(Charges(rows', fp))
           Listed(fp) == Cardinality(Of(f, fp))
<1>1. f \in Files /\ rows' = rows \cup held[s] /\ todo[s] = {}
    BY JobKinds DEF Commit
<1>2. /\ \A b \in batches : b.file # f
      /\ batches' = batches \cup {[file |-> f, mode |-> "snapshot"]}
      /\ \A r \in held[s] : Describes(f, "snapshot", r)
      /\ \A r \in Records(f, "snapshot") : \E q \in rows \cup held[s] : Matches(q, r)
    BY CommitOfImport
<1>3. ~HasIds(rows) /\ ~HasIds(rows')
  <2>1. ~HasIds(rows)
    BY DEF LInv, TablesSound
  <2>2. \A r \in held[s] : r.ext = NoId
    BY <1>2 DEF Describes
  <2>3. QED  BY <1>1, <2>1, <2>2 DEF HasIds
<1>4. ASSUME NEW fp
      PROVE  /\ Before(fp) \in Nat
             /\ \A n \in Nat \ {0} : n <= Before(fp) <=> \E r \in rows : r.fp = fp /\ r.occ = n
  <2>1. /\ rows \in SUBSET Row /\ Bounded(rows)
        /\ \A q, r \in rows : SameKey(q, r) => q = r
        /\ \A r \in rows : \A n \in 1..r.occ : \E q \in rows : q.fp = r.fp /\ q.occ = n
    BY <1>3 DEF IInv, TypeOK, OccurrencesContiguous, LInv, TablesSound
  <2>2. QED  BY <2>1, CountIsHighest
<1>5. ASSUME NEW fp
      PROVE  /\ After(fp) \in Nat
             /\ \A n \in Nat \ {0} : n <= After(fp) <=> \E r \in rows' : r.fp = fp /\ r.occ = n
  <2>1. /\ rows' \in SUBSET Row /\ Bounded(rows')
        /\ \A q, r \in rows' : SameKey(q, r) => q = r
        /\ \A r \in rows' : \A n \in 1..r.occ : \E q \in rows' : q.fp = r.fp /\ q.occ = n
    BY <1>3 DEF IInv, TypeOK, OccurrencesContiguous, LInv, TablesSound, HasIds, Bounded, SameKey
  <2>2. QED  BY <2>1, CountIsHighest
<1>6. ASSUME NEW fp
      PROVE  After(fp) = IF Listed(fp) > Before(fp) THEN Listed(fp) ELSE Before(fp)
  <2>1. Listed(fp) \in Nat /\ Before(fp) \in Nat /\ After(fp) \in Nat
    BY <1>1, <1>4, <1>5, ListedIsReached
  <2>2. Before(fp) <= After(fp)
    <3>1. CASE Before(fp) = 0
        BY <2>1, <3>1
    <3>2. CASE Before(fp) # 0
      <4>1. PICK r \in rows : r.fp = fp /\ r.occ = Before(fp)
        BY <1>4, <2>1, <3>2
      <4>2. QED  BY <1>1, <1>5, <2>1, <3>2, <4>1
    <3>3. QED  BY <3>1, <3>2
  <2>3. Listed(fp) <= After(fp)
    <3>1. CASE Listed(fp) = 0
        BY <2>1, <3>1
    <3>2. CASE Listed(fp) > 0
      <4>1. PICK l \in Of(f, fp) : Occurrence(f, l) = Listed(fp)
        BY <1>1, <3>2, ListedIsReached
      <4>2. PICK r \in Records(f, "snapshot") :
               r.fp = fp /\ r.occ = Listed(fp) /\ r.ext = NoId
        BY <1>1, <4>1, RecordOfLine DEF Of
      <4>3. PICK q \in rows' : q.fp = fp /\ q.occ = Listed(fp)
        BY <1>1, <1>2, <4>2 DEF Matches, SameKey
      <4>4. QED  BY <1>5, <2>1, <3>2, <4>3
    <3>3. QED  BY <2>1, <3>1, <3>2
  <2>4. After(fp) <= Listed(fp) \/ After(fp) <= Before(fp)
    <3>1. CASE After(fp) = 0
        BY <2>1, <3>1
    <3>2. CASE After(fp) # 0
      <4>1. PICK r \in rows' : r.fp = fp /\ r.occ = After(fp)
        BY <1>5, <2>1, <3>2
      <4>2. CASE r \in rows
        BY <1>4, <2>1, <3>2, <4>1, <4>2
      <4>3. CASE r \in held[s]
        <5>1. r.line \in Of(f, fp) /\ r.occ = Occurrence(f, r.line)
            BY <1>2, <4>1, <4>3 DEF Describes, Of
        <5>2. QED  BY <1>1, <4>1, <5>1, ListedIsReached
      <4>4. QED  BY <1>1, <4>1, <4>2, <4>3
    <3>3. QED  BY <3>1, <3>2
  <2>5. QED  BY <2>1, <2>2, <2>3, <2>4
<1>7. {r.ext : r \in rows'} \ {NoId} = {r.ext : r \in rows} \ {NoId}
    BY <1>3 DEF HasIds
<1>8. QED
    BY <1>2, <1>6, <1>7, LedgerCounts
       DEF Promise!ImportSnapshot, Promise!FirstUse, Promise!OneMode, Promise!InFile,
           Charges, Of, Lines

LEMMA MixedIsLedgerStep ==
    ASSUME IInv, LInv, NEW s \in Sessions, Commit(s), job[s] \in Batch,
           ~\A b \in batches : b.mode = job[s].mode,
           NEW f, f = job[s].file, NEW mode, mode = job[s].mode
    PROVE  Promise!ImportMixed(f, mode)
<1> DEFINE added == [fp \in Fingerprints |-> Cardinality(Charges(held[s], fp))]
<1>1. /\ f \in Files /\ mode \in {"snapshot", "incremental"}
      /\ rows' = rows \cup held[s] /\ todo[s] = {}
    BY JobKinds DEF Commit
<1>2. /\ \A b \in batches : b.file # f
      /\ batches' = batches \cup {[file |-> f, mode |-> mode]}
      /\ \A r \in held[s] : Describes(f, mode, r)
      /\ \A q, r \in held[s] : q.line = r.line => q = r
    BY CommitOfImport
<1>3. ASSUME NEW fp
      PROVE  /\ Cardinality(Charges(held[s], fp)) \in 0..Len(FileRows[f])
             /\ Cardinality(Charges(held[s], fp)) <= Cardinality(Of(f, fp))
             /\ Cardinality(Charges(rows', fp)) =
                   Cardinality(Charges(rows, fp)) + Cardinality(Charges(held[s], fp))
  <2>1. Cardinality(Charges(held[s], fp)) <= Cardinality(Of(f, fp))
    BY <1>1, <1>2, AddsAtMostListed
  <2>2. /\ Cardinality(Of(f, fp)) \in Nat /\ Cardinality(Of(f, fp)) <= Len(FileRows[f])
        /\ Len(FileRows[f]) \in Nat
    BY <1>1, ListedIsReached, FileAssumption, LenProperties
  <2>3. /\ Cardinality(Charges(held[s], fp)) \in Nat
        /\ Cardinality(Charges(rows', fp)) =
              Cardinality(Charges(rows, fp)) + Cardinality(Charges(held[s], fp))
    BY <1>1, CommitAdds
  <2>4. QED  BY <2>1, <2>2, <2>3
<1>4. added \in [Fingerprints -> 0..Len(FileRows[f])]
    BY <1>3
<1>5. {r.ext : r \in rows'} \ {NoId} \in
         {{r.ext : r \in rows} \ {NoId},
          ({r.ext : r \in rows} \ {NoId}) \cup {FileRows[f][l].id : l \in DOMAIN FileRows[f]}}
  <2>1. CASE mode = "incremental"
    BY <2>1, IdsAfterIncremental
  <2>2. CASE mode = "snapshot"
    <3>1. \A r \in held[s] : r.ext = NoId
        BY <1>2, <2>2 DEF Describes
    <3>2. {r.ext : r \in rows'} \ {NoId} = {r.ext : r \in rows} \ {NoId}
        BY <1>1, <3>1
    <3>3. QED  BY <3>2
  <2>3. QED  BY <1>1, <2>1, <2>2
<1>6. \A fp \in Fingerprints : added[fp] <= Cardinality(Of(f, fp))
    BY <1>3
<1>7. [fp \in Fingerprints |-> Cardinality(Charges(rows', fp))] =
         [fp \in Fingerprints |->
            [x \in Fingerprints |-> Cardinality(Charges(rows, x))][fp] + added[fp]]
    BY <1>3
<1>8. QED
    BY <1>2, <1>4, <1>5, <1>6, <1>7, LedgerCounts
       DEF Promise!ImportMixed, Promise!FirstUse, Promise!OneMode, Promise!InFile,
           Charges, Of, Lines

LEMMA EntryIsLedgerStep ==
    ASSUME IInv, LInv, NEW s \in Sessions, Commit(s), job[s] \in Entry
    PROVE  Promise!Enter(job[s].fp)
<1> DEFINE fp == job[s].fp
<1>1. /\ fp \in Fingerprints /\ job[s] \notin Batch
      /\ pc[s] = "insert" /\ todo[s] = {} /\ rows' = rows \cup held[s]
    BY JobKinds DEF Commit
<1>2. Work(s) = held[s]
    BY <1>1 DEF Work
<1>3. PICK r \in held[s] : TRUE
    BY <1>1, <1>2 DEF LInv, Sound, EntryWork
<1>4. held[s] = {r} /\ r.fp = fp /\ r.ext = NoId
    BY <1>2, <1>3 DEF LInv, Sound, EntryWork
<1>5. batches' = batches
  <2>1. ~opened[s]
    BY <1>1 DEF IInv, SInv, JobOK
  <2>2. QED  BY <2>1 DEF Commit
<1>6. ASSUME NEW x
      PROVE  /\ Cardinality(Charges(rows, x)) \in Nat
             /\ Cardinality(Charges(rows', x)) =
                   Cardinality(Charges(rows, x)) + (IF x = fp THEN 1 ELSE 0)
  <2>1. Charges(held[s], x) = IF x = fp THEN {r} ELSE {}
    BY <1>4 DEF Charges
  <2>2. Cardinality(Charges(held[s], x)) = IF x = fp THEN 1 ELSE 0
    BY <2>1, FS_Singleton, FS_EmptySet
  <2>3. QED  BY <1>1, <2>2, CommitAdds
<1>7. {q.ext : q \in rows'} \ {NoId} = {q.ext : q \in rows} \ {NoId}
    BY <1>1, <1>4
<1>8. [x \in Fingerprints |-> Cardinality(Charges(rows', x))] =
         [[x \in Fingerprints |-> Cardinality(Charges(rows, x))] EXCEPT ![fp] = @ + 1]
  <2> DEFINE Now == [x \in Fingerprints |-> Cardinality(Charges(rows, x))]
             Then == [x \in Fingerprints |-> Cardinality(Charges(rows', x))]
  <2>1. ASSUME NEW x \in Fingerprints
        PROVE  Then[x] = IF x = fp THEN Now[fp] + 1 ELSE Now[x]
    <3>1. Then[x] = Now[x] + (IF x = fp THEN 1 ELSE 0) /\ Now[x] \in Nat
        BY <1>6
    <3> HIDE DEF Now, Then
    <3>2. QED  BY <3>1
  <2>2. Then \in [Fingerprints -> Nat] /\ Now \in [Fingerprints -> Nat]
    BY <1>6
  <2> HIDE DEF fp, Now, Then
  <2>3. Then = [Now EXCEPT ![fp] = @ + 1]
    BY <1>1, <2>1, <2>2
  <2>4. QED  BY <2>3 DEF Now, Then
<1>9. QED  BY <1>5, <1>7, <1>8 DEF Promise!Enter, Charges

LEMMA CommitIsLedgerStep ==
    ASSUME IInv, LInv, IInv', LInv', NEW s \in Sessions, Commit(s)
    PROVE  Promise!LedgerNext
<1>1. job[s] \in Batch \/ job[s] \in Entry
    BY DEF Commit, LInv, Sound, Job
<1>2. CASE job[s] \in Entry
  <2>1. Promise!Enter(job[s].fp) /\ job[s].fp \in Fingerprints
    BY <1>2, EntryIsLedgerStep, JobKinds
  <2>2. QED  BY <2>1 DEF Promise!LedgerNext
<1>3. CASE job[s] \in Batch
  <2>1. job[s].file \in Files /\ job[s].mode \in {"snapshot", "incremental"}
    BY <1>3, JobKinds
  <2>2. CASE ~\A b \in batches : b.mode = job[s].mode
    <3>1. \E f \in Files, mode \in {"snapshot", "incremental"} : Promise!ImportMixed(f, mode)
        BY <1>3, <2>1, <2>2, MixedIsLedgerStep
    <3>2. QED  BY <3>1 DEF Promise!LedgerNext
  <2>3. CASE (\A b \in batches : b.mode = job[s].mode) /\ job[s].mode = "snapshot"
    BY <1>3, <2>1, <2>3, SnapshotIsLedgerStep DEF Promise!LedgerNext
  <2>4. CASE (\A b \in batches : b.mode = job[s].mode) /\ job[s].mode = "incremental"
    <3>1. \E f \in Files : Promise!ImportIncremental(f)
        BY <1>3, <2>1, <2>4, IncrementalIsLedgerStep
    <3>2. QED  BY <3>1 DEF Promise!LedgerNext
  <2>5. QED  BY <2>1, <2>2, <2>3, <2>4
<1>4. QED  BY <1>1, <1>2, <1>3

\* Only a commit touches the tables.
LEMMA TablesChangeOnCommit ==
    ASSUME [Next]_vars
    PROVE  UNCHANGED store \/ \E s \in Sessions : Commit(s)
<1>1. CASE UNCHANGED vars
    BY <1>1 DEF vars, store
<1>2. ASSUME NEW s \in Sessions, Step(s), ~Commit(s) PROVE UNCHANGED store
  <2>1. ASSUME NEW result, NEW count, Rollback(s, result, count) PROVE UNCHANGED store
    BY <2>1 DEF Rollback
  <2>2. CASE \E f \in Files, mode \in Modes : BeginImport(s, f, mode)
    BY <2>2 DEF BeginImport, Begin
  <2>3. CASE \E fp \in Entered, repeat \in BOOLEAN : BeginEntry(s, fp, repeat)
    BY <2>3 DEF BeginEntry, Begin
  <2>4. CASE CheckModes(s) \/ FindBatch(s) \/ OpenBatch(s)
    BY <2>1, <2>4 DEF CheckModes, FindBatch, OpenBatch
  <2>5. CASE ReadHighest(s) \/ ReadKeys(s) \/ ReadIds(s) \/ ReadOffsets(s) \/ InsertRow(s)
    BY <2>1, <2>5 DEF ReadHighest, ReadKeys, ReadIds, ReadOffsets, InsertRow
  <2>6. CASE InsertConflict(s) \/ DeadlockAbort(s) \/ Crash(s)
    BY <2>1, <2>6 DEF InsertConflict, DeadlockAbort, Crash
  <2>7. QED  BY <1>2, <2>2, <2>3, <2>4, <2>5, <2>6 DEF Step, Statement
<1>3. QED  BY <1>1, <1>2 DEF Next

\* Whatever sessions race, fail, deadlock and crash: seen from the tables,
\* every import and every entry happens in one step, and adds what it should.
THEOREM StoreImplementsLedger == Spec => ImplementsLedger
<1>1. Init => Promise!LedgerInit
  <2> SUFFICES ASSUME Init PROVE Promise!LedgerInit
    OBVIOUS
  <2>1. rows = {} /\ batches = {}
    BY DEF Init
  <2>2. \A fp : {r \in rows : r.fp = fp} = {}
    BY <2>1
  <2>3. \A fp : Cardinality({r \in rows : r.fp = fp}) = 0
    BY <2>2, FS_EmptySet
  <2>4. QED  BY <2>1, <2>3 DEF Promise!LedgerInit
<1>2. (IInv /\ LInv) /\ [Next]_vars /\ (IInv /\ LInv)' => [Promise!LedgerNext]_(Promise!ledger)
  <2> SUFFICES ASSUME IInv, LInv, [Next]_vars, IInv', LInv'
               PROVE  [Promise!LedgerNext]_(Promise!ledger)
    OBVIOUS
  <2>1. CASE UNCHANGED store
    BY <2>1 DEF store, Promise!ledger
  <2>2. CASE \E s \in Sessions : Commit(s)
    BY <2>2, CommitIsLedgerStep
  <2>3. QED  BY <2>1, <2>2, TablesChangeOnCommit
<1>3. QED
    BY <1>1, <1>2, SoundInvariance, PTL DEF Spec, ImplementsLedger, Promise!LedgerSpec

----------------------------------------------------------------------------
(* What the callers are told: the invariant *)

\* Only an incremental import works on rows with an id.
NoIds(s) ==
    (pc[s] # "idle" /\ job[s].mode # "incremental") => \A r \in todo[s] : r.ext = NoId

\* What an undisturbed session read of the tables still holds: its rows are
\* new, as far as it has looked, and the committed batches have its mode.
Quiet(s) ==
    /\ pc[s] = "offsets" => \A r \in todo[s], q \in rows : ~SameId(q, r)
    /\ pc[s] = "insert" => \A r \in todo[s], q \in rows : ~Clash(q, r)
    /\ (pc[s] \notin {"idle", "modes"} /\ job[s] \in Batch) =>
          \A b \in batches : b.mode = job[s].mode

QInv == \A s \in Sessions : NoIds(s) /\ (~disturbed[s] => Quiet(s))

----------------------------------------------------------------------------
(* Steps *)

\* A session that did not move stays quiet if it is not disturbed meanwhile.
LEMMA BystanderStaysQuiet ==
    ASSUME NEW t \in Sessions, NoIds(t), ~disturbed[t] => Quiet(t),
           pc'[t] = pc[t], job'[t] = job[t], todo'[t] = todo[t],
           ~disturbed'[t] => ~disturbed[t] /\ (pc[t] # "idle" => UNCHANGED store)
    PROVE  NoIds(t)' /\ (~disturbed'[t] => Quiet(t)')
<1>1. NoIds(t)'
    BY DEF NoIds
<1>2. ASSUME ~disturbed'[t] PROVE Quiet(t)'
    BY <1>2 DEF Quiet, store
<1>3. QED  BY <1>1, <1>2

\* A step that leaves the tables alone only has to carry its own session.
LEMMA OwnQuietStep ==
    ASSUME QInv, NEW s \in Sessions, UNCHANGED store,
           NoIds(s)', ~disturbed'[s] => Quiet(s)',
           \A t \in Sessions \ {s} :
              /\ pc'[t] = pc[t] /\ job'[t] = job[t] /\ todo'[t] = todo[t]
              /\ disturbed'[t] = disturbed[t]
    PROVE  QInv'
<1>1. ASSUME NEW t \in Sessions, t # s
      PROVE  NoIds(t)' /\ (~disturbed'[t] => Quiet(t)')
  <2>1. NoIds(t) /\ (~disturbed[t] => Quiet(t))
    BY DEF QInv
  <2>2. QED  BY <1>1, <2>1, BystanderStaysQuiet
<1>2. QED  BY <1>1 DEF QInv

LEMMA ClosedIsQuiet ==
    ASSUME NEW s \in Sessions, pc'[s] = "idle"
    PROVE  NoIds(s)' /\ Quiet(s)'
    BY DEF NoIds, Quiet

LEMMA RollbackStaysQuiet ==
    ASSUME TypeOK, QInv, NEW s \in Sessions, NEW result, NEW count, Rollback(s, result, count)
    PROVE  QInv'
<1>1. pc'[s] = "idle" /\ UNCHANGED store
    BY DEF Rollback, Close, TypeOK
<1>2. \A t \in Sessions \ {s} :
         /\ pc'[t] = pc[t] /\ job'[t] = job[t] /\ todo'[t] = todo[t]
         /\ disturbed'[t] = disturbed[t]
    BY DEF Rollback, Close, TypeOK
<1>3. QED  BY <1>1, <1>2, ClosedIsQuiet, OwnQuietStep

LEMMA BeginStaysQuiet ==
    ASSUME TypeOK, QInv, NEW s \in Sessions, NEW first \in {"modes", "highest"},
           NEW what, NEW records, Begin(s, first, what, records),
           first = "highest" => what \notin Batch,
           what.mode # "incremental" => \A r \in records : r.ext = NoId
    PROVE  QInv'
<1>1. /\ pc'[s] = first /\ job'[s] = what /\ todo'[s] = records
      /\ UNCHANGED store /\ disturbed' = disturbed
    BY DEF Begin, TypeOK
<1>2. NoIds(s)' /\ Quiet(s)'
    BY <1>1 DEF NoIds, Quiet
<1>3. \A t \in Sessions \ {s} :
         /\ pc'[t] = pc[t] /\ job'[t] = job[t] /\ todo'[t] = todo[t]
         /\ disturbed'[t] = disturbed[t]
    BY DEF Begin, TypeOK
<1>4. QED  BY <1>1, <1>2, <1>3, OwnQuietStep

\* A statement that looks something up and goes on.
LEMMA LookupStaysQuiet ==
    ASSUME TypeOK, QInv, NEW s \in Sessions, NEW here, NEW next, NEW plan, Goto(s, here, next),
           todo' = [todo EXCEPT ![s] = plan],
           UNCHANGED <<store, job, disturbed>>,
           NoIds(s)', ~disturbed[s] => Quiet(s)'
    PROVE  QInv'
<1>1. \A t \in Sessions \ {s} :
         /\ pc'[t] = pc[t] /\ job'[t] = job[t] /\ todo'[t] = todo[t]
         /\ disturbed'[t] = disturbed[t]
    BY DEF Goto, TypeOK
<1>2. QED  BY <1>1, OwnQuietStep

LEMMA CheckModesStaysQuiet ==
    ASSUME TypeOK, QInv, NEW s \in Sessions, CheckModes(s)
    PROVE  QInv'
<1>1. CASE Rollback(s, "refused", 0)
    BY <1>1, RollbackStaysQuiet
<1>2. CASE /\ Goto(s, "modes", "find")
           /\ \A b \in batches : b.mode = job[s].mode
           /\ UNCHANGED <<store, job, todo, held, opened, outcome, disturbed>>
  <2>1. /\ pc[s] = "modes" /\ pc'[s] = "find" /\ job' = job /\ UNCHANGED store
        /\ todo' = [todo EXCEPT ![s] = todo[s]]
    BY <1>2 DEF Goto, TypeOK
  <2>2. NoIds(s)' /\ Quiet(s)'
    BY <1>2, <2>1 DEF QInv, NoIds, Quiet, store
  <2>3. QED  BY <1>2, <2>1, <2>2, LookupStaysQuiet
<1>3. QED  BY <1>1, <1>2 DEF CheckModes

LEMMA FindBatchStaysQuiet ==
    ASSUME TypeOK, QInv, NEW s \in Sessions, FindBatch(s)
    PROVE  QInv'
<1>1. CASE Rollback(s, "already", 0)
    BY <1>1, RollbackStaysQuiet
<1>2. CASE /\ Goto(s, "find", "open")
           /\ UNCHANGED <<store, job, todo, held, opened, outcome, disturbed>>
  <2>1. /\ pc[s] = "find" /\ pc'[s] = "open" /\ job' = job /\ UNCHANGED store
        /\ todo' = [todo EXCEPT ![s] = todo[s]]
    BY <1>2 DEF Goto, TypeOK
  <2>2. NoIds(s)' /\ (~disturbed[s] => Quiet(s)')
    BY <1>2, <2>1 DEF QInv, NoIds, Quiet, store
  <2>3. QED  BY <1>2, <2>1, <2>2, LookupStaysQuiet
<1>3. QED  BY <1>1, <1>2 DEF FindBatch

LEMMA OpenBatchStaysQuiet ==
    ASSUME TypeOK, QInv, NEW s \in Sessions, OpenBatch(s)
    PROVE  QInv'
<1> DEFINE next == IF job[s].mode = "incremental" THEN "ids" ELSE "keys"
<1>1. CASE Rollback(s, "already", 0)
    BY <1>1, RollbackStaysQuiet
<1>2. CASE /\ Goto(s, "open", next)
           /\ UNCHANGED <<store, job, todo, held, outcome, disturbed>>
  <2>1. /\ pc[s] = "open" /\ pc'[s] = next /\ job' = job /\ UNCHANGED store
        /\ todo' = [todo EXCEPT ![s] = todo[s]]
    BY <1>2 DEF Goto, TypeOK
  <2>2. NoIds(s)' /\ (~disturbed[s] => Quiet(s)')
    BY <1>2, <2>1 DEF QInv, NoIds, Quiet, store
  <2>3. QED  BY <1>2, <2>1, <2>2, LookupStaysQuiet
<1>3. QED  BY <1>1, <1>2 DEF OpenBatch

LEMMA ReadHighestStaysQuiet ==
    ASSUME IInv, QInv, NEW s \in Sessions, ReadHighest(s)
    PROVE  QInv'
<1> DEFINE fp == job[s].fp
           r == [line |-> 0, fp |-> fp, occ |-> Highest(fp) + 1, ext |-> NoId]
<1>1. TypeOK /\ (pc[s] = "highest" => job[s] \notin Batch)
    BY JobKinds DEF IInv, SInv, JobOK
<1>2. CASE Rollback(s, "duplicate", Highest(fp))
    BY <1>1, <1>2, RollbackStaysQuiet
<1>3. CASE /\ Goto(s, "highest", "keys")
           /\ todo' = [todo EXCEPT ![s] = {r}]
           /\ UNCHANGED <<store, job, held, opened, outcome, disturbed>>
  <2>1. /\ pc[s] = "highest" /\ pc'[s] = "keys" /\ job' = job /\ todo'[s] = {r}
    BY <1>1, <1>3 DEF Goto, TypeOK
  <2>2. NoIds(s)' /\ Quiet(s)'
    BY <1>1, <2>1 DEF NoIds, Quiet
  <2>3. QED  BY <1>1, <1>3, <2>1, <2>2, LookupStaysQuiet
<1>4. QED  BY <1>2, <1>3 DEF ReadHighest

LEMMA ReadKeysStaysQuiet ==
    ASSUME IInv, QInv, NEW s \in Sessions, ReadKeys(s)
    PROVE  QInv'
<1> DEFINE new == {r \in todo[s] : \A q \in rows : ~SameKey(q, r)}
<1>1. TypeOK /\ (pc[s] = "keys" => job[s].mode # "incremental")
    BY DEF IInv, SInv, JobOK
<1>2. CASE Rollback(s, "duplicate", 1)
    BY <1>1, <1>2, RollbackStaysQuiet
<1>3. CASE /\ Goto(s, "keys", "insert")
           /\ todo' = [todo EXCEPT ![s] = new]
           /\ UNCHANGED <<store, job, held, opened, outcome, disturbed>>
  <2>1. /\ pc[s] = "keys" /\ pc'[s] = "insert" /\ job' = job /\ todo'[s] = new
        /\ rows' = rows /\ batches' = batches
    BY <1>1, <1>3 DEF Goto, TypeOK, store
  <2>2. \A r \in new : r.ext = NoId
    BY <1>1, <2>1 DEF QInv, NoIds
  <2>3. \A r \in new, q \in rows : ~Clash(q, r)
    BY <2>2 DEF Clash, SameId
  <2>4. NoIds(s)' /\ (~disturbed[s] => Quiet(s)')
    BY <2>1, <2>2, <2>3 DEF QInv, NoIds, Quiet
  <2>5. QED  BY <1>1, <1>3, <2>1, <2>4, LookupStaysQuiet
<1>4. QED  BY <1>2, <1>3 DEF ReadKeys

LEMMA ReadIdsStaysQuiet ==
    ASSUME IInv, QInv, NEW s \in Sessions, ReadIds(s)
    PROVE  QInv'
<1> DEFINE new == {r \in todo[s] : \A q \in rows : ~SameId(q, r)}
<1>1. TypeOK
    BY DEF IInv
<1>2. /\ Goto(s, "ids", "offsets") /\ todo' = [todo EXCEPT ![s] = new]
      /\ UNCHANGED <<store, job, disturbed>>
    BY DEF ReadIds
<1>3. /\ pc[s] = "ids" /\ pc'[s] = "offsets" /\ job' = job /\ todo'[s] = new
      /\ rows' = rows /\ batches' = batches
    BY <1>1, <1>2 DEF Goto, TypeOK, store
<1>4. NoIds(s)' /\ (~disturbed[s] => Quiet(s)')
    BY <1>3 DEF QInv, NoIds, Quiet
<1>5. QED  BY <1>1, <1>2, <1>4, LookupStaysQuiet

\* A row numbered after the highest of its fingerprint has a key of its own.
LEMMA ReadOffsetsStaysQuiet ==
    ASSUME IInv, QInv, NEW s \in Sessions, ReadOffsets(s)
    PROVE  QInv'
<1> DEFINE Shift(r) == [r EXCEPT !.occ = @ + Highest(r.fp)]
           new == {Shift(r) : r \in todo[s]}
<1>1. TypeOK /\ (pc[s] = "offsets" => job[s].mode = "incremental")
    BY DEF IInv, SInv, JobOK
<1>2. /\ Goto(s, "offsets", "insert") /\ todo' = [todo EXCEPT ![s] = new]
      /\ UNCHANGED <<store, job, disturbed>>
    BY DEF ReadOffsets
<1>3. /\ pc[s] = "offsets" /\ pc'[s] = "insert" /\ job' = job /\ todo'[s] = new
      /\ rows' = rows /\ batches' = batches
    BY <1>1, <1>2 DEF Goto, TypeOK, store
<1>4. ASSUME NEW r \in todo[s], NEW q \in rows, ~SameId(q, r)
      PROVE  ~Clash(q, Shift(r))
  <2>1. r \in Row /\ q \in Row
    BY <1>1 DEF TypeOK
  <2>2. Highest(r.fp) \in Nat /\ (q.fp = r.fp => q.occ <= Highest(r.fp))
    BY HighestProperties DEF IInv, TypeOK
  <2>3. Shift(r).fp = r.fp /\ Shift(r).ext = r.ext /\ Shift(r).occ = r.occ + Highest(r.fp)
    BY <2>1 DEF Row
  <2>4. q.occ \in Nat /\ r.occ \in Nat \ {0}
    BY <2>1 DEF Row
  <2>5. ~SameKey(q, Shift(r))
    BY <2>2, <2>3, <2>4 DEF SameKey
  <2>6. ~SameId(q, Shift(r))
    BY <1>4, <2>3 DEF SameId
  <2>7. QED  BY <2>5, <2>6 DEF Clash
<1>5. NoIds(s)' /\ (~disturbed[s] => Quiet(s)')
    BY <1>1, <1>3, <1>4 DEF QInv, NoIds, Quiet
<1>6. QED  BY <1>1, <1>2, <1>5, LookupStaysQuiet

LEMMA InsertRowStaysQuiet ==
    ASSUME TypeOK, QInv, NEW s \in Sessions, InsertRow(s)
    PROVE  QInv'
<1>1. PICK r \in todo[s] : todo' = [todo EXCEPT ![s] = @ \ {r}]
    BY DEF InsertRow
<1>2. /\ pc' = pc /\ job' = job /\ UNCHANGED store /\ disturbed' = disturbed
      /\ todo'[s] = todo[s] \ {r}
    BY <1>1 DEF InsertRow, TypeOK
<1>3. NoIds(s)' /\ (~disturbed[s] => Quiet(s)')
    BY <1>2 DEF QInv, NoIds, Quiet, store
<1>4. QED  BY <1>1, <1>2, <1>3, OwnQuietStep DEF TypeOK

\* A commit that changes the tables disturbs every other running session.
LEMMA CommitStaysQuiet ==
    ASSUME TypeOK, QInv, NEW s \in Sessions, Commit(s)
    PROVE  QInv'
<1>1. pc'[s] = "idle"
    BY DEF Commit, Close, TypeOK
<1>2. ASSUME NEW t \in Sessions, t # s PROVE NoIds(t)' /\ (~disturbed'[t] => Quiet(t)')
  <2>1. /\ pc'[t] = pc[t] /\ job'[t] = job[t] /\ todo'[t] = todo[t]
    BY <1>2 DEF Commit, Close, TypeOK
  <2>2. ~disturbed'[t] => ~disturbed[t] /\ (pc[t] # "idle" => held[s] = {} /\ ~opened[s])
    BY <1>2 DEF Commit
  <2>3. held[s] = {} /\ ~opened[s] => UNCHANGED store
    BY DEF Commit, store
  <2>4. NoIds(t) /\ (~disturbed[t] => Quiet(t))
    BY DEF QInv
  <2>5. QED  BY <2>1, <2>2, <2>3, <2>4, BystanderStaysQuiet
<1>3. QED  BY <1>1, <1>2, ClosedIsQuiet DEF QInv

----------------------------------------------------------------------------
(* The invariant holds *)

LEMMA InitIsQuiet == Init => QInv
    BY DEF Init, QInv, NoIds, Quiet

LEMMA NextStaysQuiet == IInv /\ QInv /\ [Next]_vars => QInv'
<1> SUFFICES ASSUME IInv, QInv, [Next]_vars PROVE QInv'
    OBVIOUS
<1>1. TypeOK
    BY DEF IInv
<1>2. CASE UNCHANGED vars
    BY <1>2 DEF vars, store, QInv, NoIds, Quiet
<1>3. ASSUME NEW s \in Sessions, Step(s) PROVE QInv'
  <2>1. ASSUME NEW f \in Files, NEW mode \in Modes, BeginImport(s, f, mode) PROVE QInv'
    <3> DEFINE what == [file |-> f, mode |-> mode]
    <3>1. what.mode # "incremental" => \A r \in Records(f, mode) : r.ext = NoId
        BY DEF Records
    <3>2. QED  BY <1>1, <2>1, <3>1, BeginStaysQuiet DEF BeginImport
  <2>2. ASSUME NEW fp \in Entered, NEW repeat \in BOOLEAN, BeginEntry(s, fp, repeat) PROVE QInv'
    <3> DEFINE what == [mode |-> "entry", fp |-> fp, repeat |-> repeat]
    <3>1. what \in Entry
        BY JobAssumption DEF Entry
    <3>2. what \notin Batch
        BY <3>1, JobKinds
    <3>3. QED  BY <1>1, <2>2, <3>2, BeginStaysQuiet DEF BeginEntry
  <2>3. CASE CheckModes(s) \/ FindBatch(s) \/ OpenBatch(s)
    BY <1>1, <2>3, CheckModesStaysQuiet, FindBatchStaysQuiet, OpenBatchStaysQuiet
  <2>4. CASE ReadHighest(s) \/ ReadKeys(s) \/ ReadIds(s) \/ ReadOffsets(s)
    BY <2>4, ReadHighestStaysQuiet, ReadKeysStaysQuiet, ReadIdsStaysQuiet, ReadOffsetsStaysQuiet
  <2>5. CASE InsertRow(s)
    BY <1>1, <2>5, InsertRowStaysQuiet
  <2>6. CASE InsertConflict(s) \/ DeadlockAbort(s) \/ Crash(s)
    BY <1>1, <2>6, RollbackStaysQuiet DEF InsertConflict, DeadlockAbort, Crash
  <2>7. CASE Commit(s)
    BY <1>1, <2>7, CommitStaysQuiet
  <2>8. QED  BY <1>3, <2>1, <2>2, <2>3, <2>4, <2>5, <2>6, <2>7 DEF Step, Statement
<1>4. QED  BY <1>2, <1>3 DEF Next

LEMMA QuietInvariance == Spec => [](IInv /\ QInv)
<1>1. Init => IInv /\ QInv
    BY InitEstablishes, InitIsQuiet
<1>2. (IInv /\ QInv) /\ [Next]_vars => (IInv /\ QInv)'
    BY NextKeeps, NextStaysQuiet
<1>3. QED  BY <1>1, <1>2, PTL DEF Spec

----------------------------------------------------------------------------
(* What a caller is told *)

\* A job that ends is ended by its own session, with the answer it gives.
LEMMA OnlyOwnersEnd ==
    ASSUME TypeOK, NEW s \in Sessions, NEW t \in Sessions, NEW told,
           Ends(s, told), Step(t)
    PROVE  /\ t = s
           /\ told = "conflict" => InsertConflict(s)
           /\ told = "imported" => Commit(s) /\ opened[s]
           /\ told = "stored" => Commit(s) /\ ~opened[s]
           /\ told = "duplicate" => ReadHighest(s) \/ ReadKeys(s)
<1>1. pc[s] # "idle" /\ pc'[s] = "idle" /\ outcome'[s].result = told
    BY DEF Ends
<1>2. ASSUME NEW result, NEW count, Close(t, result, count) PROVE t = s /\ result = told
  <2>1. t = s
    BY <1>1, <1>2 DEF Close, TypeOK
  <2>2. outcome'[s] = [result |-> result, count |-> count]
    BY <1>2, <2>1 DEF Close, TypeOK
  <2>3. QED  BY <1>1, <2>1, <2>2
<1>3. ASSUME NEW result, NEW count, Rollback(t, result, count) PROVE t = s /\ result = told
    BY <1>2, <1>3 DEF Rollback
<1>4. ASSUME NEW here, NEW next, next # "idle", Goto(t, here, next) PROVE FALSE
    BY <1>1, <1>4 DEF Goto, TypeOK
<1>5. ASSUME NEW first, NEW what, NEW records, Begin(t, first, what, records) PROVE FALSE
    BY <1>1, <1>5 DEF Begin, TypeOK
<1>6. CASE CheckModes(t)
    BY <1>3, <1>4, <1>6 DEF CheckModes
<1>7. CASE FindBatch(t)
    BY <1>3, <1>4, <1>7 DEF FindBatch
<1>8. CASE OpenBatch(t)
  <2>1. (IF job[t].mode = "incremental" THEN "ids" ELSE "keys") # "idle"
    OBVIOUS
  <2>2. ~Goto(t, "open", IF job[t].mode = "incremental" THEN "ids" ELSE "keys")
    BY <1>4, <2>1
  <2>3. QED  BY <1>3, <1>8, <2>2 DEF OpenBatch
<1>9. CASE ReadHighest(t) \/ ReadKeys(t) \/ ReadIds(t) \/ ReadOffsets(t)
    BY <1>3, <1>4, <1>9 DEF ReadHighest, ReadKeys, ReadIds, ReadOffsets
<1>10. CASE InsertRow(t)
    BY <1>1, <1>10 DEF InsertRow
<1>11. CASE InsertConflict(t)
  <2>1. t = s /\ told = "conflict"
    BY <1>3, <1>11 DEF InsertConflict
  <2>2. QED  BY <1>11, <2>1
<1>12. CASE DeadlockAbort(t) \/ Crash(t)
    BY <1>3, <1>12 DEF DeadlockAbort, Crash
<1>13. CASE Commit(t)
  <2>1. t = s /\ told = IF opened[t] THEN "imported" ELSE "stored"
    BY <1>2, <1>13 DEF Commit
  <2>2. QED  BY <1>13, <2>1
<1>14. QED
    BY <1>5, <1>6, <1>7, <1>8, <1>9, <1>10, <1>11, <1>12, <1>13
       DEF Step, Statement, BeginImport, BeginEntry

LEMMA EndingIsAStep ==
    ASSUME [Next]_vars, NEW s \in Sessions, NEW told, Ends(s, told)
    PROVE  \E t \in Sessions : Step(t)
    BY DEF Next, vars, Ends

\* "Conflicted with another import; retry" is only said to a session during
\* whose job another one really committed.
THEOREM SoloConflictsNever == Spec => SoloNeverConflicts
<1>1. ASSUME IInv, QInv, [Next]_vars, NEW s \in Sessions, Ends(s, "conflict")
      PROVE  disturbed[s]
  <2>1. InsertConflict(s)
    BY <1>1, EndingIsAStep, OnlyOwnersEnd DEF IInv
  <2>2. pc[s] = "insert" /\ \E r \in todo[s], q \in rows : Clash(q, r)
    BY <2>1 DEF InsertConflict
  <2>3. QED  BY <1>1, <2>2 DEF QInv, Quiet
<1>2. IInv /\ QInv /\ [Next]_vars => \A s \in Sessions : Ends(s, "conflict") => disturbed[s]
    BY <1>1
<1>3. QED  BY <1>2, QuietInvariance, PTL DEF Spec, SoloNeverConflicts

\* An import that had the account to itself never adds a second mode to it.
THEOREM ModesMixByOverlap == Spec => ModesMixOnlyByOverlap
<1>1. ASSUME IInv, QInv, [Next]_vars, NEW s \in Sessions, Ends(s, "imported"),
             \E b \in batches : b.mode # job[s].mode
      PROVE  disturbed[s]
  <2>1. Commit(s) /\ opened[s]
    BY <1>1, EndingIsAStep, OnlyOwnersEnd DEF IInv
  <2>2. pc[s] = "insert" /\ job[s] \in Batch
    BY <1>1, <2>1 DEF Commit, IInv, SInv, JobOK
  <2>3. QED  BY <1>1, <2>2 DEF QInv, Quiet
<1>2. IInv /\ QInv /\ [Next]_vars =>
         \A s \in Sessions :
            (Ends(s, "imported") /\ \E b \in batches : b.mode # job[s].mode) => disturbed[s]
    BY <1>1
<1>3. QED  BY <1>2, QuietInvariance, PTL DEF Spec, ModesMixOnlyByOverlap

----------------------------------------------------------------------------
(* Hand entries *)

\* Every row with an id is some file's description of that id.
Named(S) ==
    \A r \in S : r.ext # NoId =>
        \E f \in Files : \E l \in Lines(f) :
            FileRows[f][l].id = r.ext /\ FileRows[f][l].fp = r.fp

\* Where there is a charge of a kind, there is a first one.
FirstIn(S, T) == \A r \in S : \E q \in T : q.fp = r.fp /\ q.occ = 1

\* A row that is to be stored only if it is the first of its kind.
OnceIsFirst(s) == (job[s] \in Entry /\ ~job[s].repeat) => \A r \in Work(s) : r.occ = 1

EntrySound(s) == FirstIn(Work(s), rows \cup Work(s)) /\ OnceIsFirst(s)

EInv ==
    /\ Named(rows) /\ FirstIn(rows, rows)
    /\ \A s \in Sessions : EntrySound(s)

LEMMA StillIsEntrySound ==
    ASSUME NEW t \in Sessions, EntrySound(t), rows \subseteq rows', Still(t)
    PROVE  EntrySound(t)'
<1>1. Work(t)' = Work(t) /\ job'[t] = job[t]
    BY DEF Still, Work
<1>2. QED  BY <1>1 DEF EntrySound, FirstIn, OnceIsFirst

LEMMA OwnEntryStep ==
    ASSUME EInv, NEW s \in Sessions, UNCHANGED store, EntrySound(s)',
           \A t \in Sessions \ {s} : Still(t)
    PROVE  EInv'
<1>1. rows' = rows
    BY DEF store
<1>2. \A t \in Sessions : EntrySound(t)'
    BY <1>1, StillIsEntrySound DEF EInv
<1>3. QED  BY <1>1, <1>2 DEF EInv, Named, FirstIn

LEMMA RollbackIsEntrySound ==
    ASSUME TypeOK, EInv, NEW s \in Sessions, NEW result, NEW count, Rollback(s, result, count)
    PROVE  EInv'
<1>1. todo'[s] = {} /\ held'[s] = {} /\ UNCHANGED store
    BY DEF Rollback, Close, TypeOK
<1>2. EntrySound(s)'
    BY <1>1 DEF EntrySound, FirstIn, OnceIsFirst, Work
<1>3. \A t \in Sessions \ {s} : Still(t)
    BY DEF Rollback, Close, TypeOK, Still
<1>4. QED  BY <1>1, <1>2, <1>3, OwnEntryStep

LEMMA BeginIsEntrySound ==
    ASSUME IInv, EInv, NEW s \in Sessions, NEW first, NEW what, NEW records,
           Begin(s, first, what, records),
           FirstIn(records, records), what \in Entry => records = {}
    PROVE  EInv'
<1>1. /\ pc[s] = "idle" /\ job'[s] = what /\ todo'[s] = records /\ held' = held
      /\ UNCHANGED store
    BY DEF Begin, IInv, TypeOK
<1>2. held[s] = {}
    BY <1>1 DEF IInv, SInv, JobOK
<1>3. Work(s)' = records
    BY <1>1, <1>2 DEF Work
<1>4. EntrySound(s)'
    BY <1>1, <1>3 DEF EntrySound, FirstIn, OnceIsFirst
<1>5. \A t \in Sessions \ {s} : Still(t)
    BY DEF Begin, IInv, TypeOK, Still
<1>6. QED  BY <1>1, <1>4, <1>5, OwnEntryStep

\* A statement that moves on with the same rows.
LEMMA GoesOnEntrySound ==
    ASSUME TypeOK, EInv, NEW s \in Sessions, NEW here, NEW next, Goto(s, here, next),
           UNCHANGED <<store, job, todo, held>>,
           \A t \in Sessions \ {s} : opened'[t] = opened[t]
    PROVE  EInv'
<1>1. Work(s)' = Work(s) /\ rows' = rows /\ job' = job
    BY DEF Work, store
<1>2. EntrySound(s)'
    BY <1>1 DEF EInv, EntrySound, FirstIn, OnceIsFirst
<1>3. \A t \in Sessions \ {s} : Still(t)
    BY DEF Goto, TypeOK, Still
<1>4. QED  BY <1>2, <1>3, OwnEntryStep

LEMMA ReadHighestIsEntrySound ==
    ASSUME IInv, EInv, NEW s \in Sessions, ReadHighest(s)
    PROVE  EInv'
<1> DEFINE fp == job[s].fp
           r == [line |-> 0, fp |-> fp, occ |-> Highest(fp) + 1, ext |-> NoId]
<1>1. TypeOK
    BY DEF IInv
<1>2. CASE Rollback(s, "duplicate", Highest(fp))
    BY <1>1, <1>2, RollbackIsEntrySound
<1>3. CASE /\ Highest(fp) = 0 \/ job[s].repeat
           /\ Goto(s, "highest", "keys")
           /\ todo' = [todo EXCEPT ![s] = {r}]
           /\ UNCHANGED <<store, job, held, opened, outcome, disturbed>>
  <2>1. /\ pc[s] = "highest" /\ todo'[s] = {r} /\ held' = held /\ job' = job /\ rows' = rows
        /\ UNCHANGED store
    BY <1>1, <1>3 DEF Goto, TypeOK, store
  <2>2. held[s] = {}
    BY <2>1 DEF IInv, SInv, JobOK
  <2>3. Work(s)' = {r}
    BY <2>1, <2>2 DEF Work
  <2>4. /\ Highest(fp) \in Nat
        /\ Highest(fp) > 0 => \E q \in rows : q.fp = fp
    BY HighestProperties DEF IInv, TypeOK
  <2>5. r.fp = fp /\ r.occ = Highest(fp) + 1
    OBVIOUS
  <2>6. FirstIn(Work(s), rows \cup Work(s))'
    <3>1. CASE Highest(fp) = 0
        BY <2>3, <2>5, <3>1 DEF FirstIn
    <3>2. CASE Highest(fp) # 0
      <4>1. PICK q \in rows : q.fp = fp /\ q.occ = 1
        BY <2>4, <3>2 DEF EInv, FirstIn
      <4>2. QED  BY <2>1, <2>3, <2>5, <4>1 DEF FirstIn
    <3>3. QED  BY <3>1, <3>2
  <2>7. OnceIsFirst(s)'
    BY <1>3, <2>1, <2>3, <2>5 DEF OnceIsFirst
  <2>8. \A t \in Sessions \ {s} : Still(t)
    BY <1>1, <1>3 DEF Goto, TypeOK, Still
  <2>9. QED  BY <2>1, <2>6, <2>7, <2>8, OwnEntryStep DEF EntrySound
<1>4. QED  BY <1>2, <1>3 DEF ReadHighest

LEMMA ReadKeysIsEntrySound ==
    ASSUME IInv, EInv, NEW s \in Sessions, ReadKeys(s)
    PROVE  EInv'
<1> DEFINE new == {r \in todo[s] : \A q \in rows : ~SameKey(q, r)}
<1>1. TypeOK
    BY DEF IInv
<1>2. CASE Rollback(s, "duplicate", 1)
    BY <1>1, <1>2, RollbackIsEntrySound
<1>3. CASE /\ Goto(s, "keys", "insert")
           /\ todo' = [todo EXCEPT ![s] = new]
           /\ UNCHANGED <<store, job, held, opened, outcome, disturbed>>
  <2>1. /\ pc[s] = "keys" /\ todo'[s] = new /\ held' = held /\ job' = job /\ rows' = rows
        /\ UNCHANGED store
    BY <1>1, <1>3 DEF Goto, TypeOK, store
  <2>2. held[s] = {}
    BY <2>1 DEF IInv, SInv, JobOK
  <2>3. Work(s) = todo[s] /\ Work(s)' = new
    BY <2>1, <2>2 DEF Work
  <2>4. FirstIn(Work(s), rows \cup Work(s)) /\ OnceIsFirst(s)
    BY DEF EInv, EntrySound
  <2>5. \A q \in todo[s] : q \in new \/ \E p \in rows : SameKey(p, q)
    OBVIOUS
  <2>6. FirstIn(Work(s), rows \cup Work(s))'
    BY <2>1, <2>3, <2>4, <2>5 DEF FirstIn, SameKey
  <2>7. OnceIsFirst(s)'
    BY <2>1, <2>3, <2>4 DEF OnceIsFirst
  <2>8. \A t \in Sessions \ {s} : Still(t)
    BY <1>1, <1>3 DEF Goto, TypeOK, Still
  <2>9. QED  BY <2>1, <2>6, <2>7, <2>8, OwnEntryStep DEF EntrySound
<1>4. QED  BY <1>2, <1>3 DEF ReadKeys

\* A row that is dropped because its id is stored leaves a charge of its kind
\* behind: that is where a bank has to describe an id alike every time.
LEMMA ReadIdsIsEntrySound ==
    ASSUME IdsNameCharges, IInv, LInv, EInv, NEW s \in Sessions, ReadIds(s)
    PROVE  EInv'
<1> DEFINE new == {r \in todo[s] : \A q \in rows : ~SameId(q, r)}
           f == job[s].file
<1>1. /\ pc[s] = "ids" /\ todo'[s] = new /\ held' = held /\ job' = job /\ rows' = rows
      /\ UNCHANGED store
    BY DEF ReadIds, Goto, IInv, TypeOK, store
<1>2. held[s] = {} /\ job[s] \in Batch /\ job[s].mode = "incremental"
    BY <1>1 DEF IInv, SInv, JobOK
<1>3. Work(s) = todo[s] /\ Work(s)' = new
    BY <1>1, <1>2 DEF Work
<1>4. \A r \in todo[s] : Describes(f, "incremental", r)
    BY <1>2, <1>3 DEF LInv, Sound, ImportWork
<1>5. f \in Files
    BY <1>2, JobKinds
<1>6. ASSUME NEW r \in todo[s], NEW p \in rows, SameId(p, r) PROVE p.fp = r.fp
  <2>1. p.ext = r.ext /\ p.ext # NoId
    BY <1>6 DEF SameId
  <2>2. r.line \in Lines(f) /\ FileRows[f][r.line].fp = r.fp /\ FileRows[f][r.line].id = r.ext
    BY <1>4 DEF Describes
  <2>3. PICK g \in Files : \E l \in Lines(g) :
           FileRows[g][l].id = p.ext /\ FileRows[g][l].fp = p.fp
    BY <2>1 DEF EInv, Named
  <2>4. PICK l \in Lines(g) : FileRows[g][l].id = p.ext /\ FileRows[g][l].fp = p.fp
    BY <2>3
  <2>5. QED  BY <1>5, <2>1, <2>2, <2>4 DEF IdsNameCharges
<1>7. FirstIn(Work(s), rows \cup Work(s))'
  <2>1. SUFFICES ASSUME NEW r \in new
                 PROVE  \E q \in rows \cup new : q.fp = r.fp /\ q.occ = 1
    BY <1>1, <1>3 DEF FirstIn
  <2>2. PICK q \in rows \cup todo[s] : q.fp = r.fp /\ q.occ = 1
    BY <1>3 DEF EInv, EntrySound, FirstIn
  <2>3. CASE q \in rows \cup new
    BY <2>2, <2>3
  <2>4. CASE q \notin rows \cup new
    <3>1. PICK p \in rows : SameId(p, q)
        BY <2>4
    <3>2. p.fp = r.fp
        BY <1>6, <2>2, <2>4, <3>1
    <3>3. QED  BY <3>2 DEF EInv, FirstIn
  <2>5. QED  BY <2>3, <2>4
<1>8. OnceIsFirst(s)'
    BY <1>1, <1>2, JobKinds DEF OnceIsFirst
<1>9. \A t \in Sessions \ {s} : Still(t)
    BY DEF ReadIds, Goto, IInv, TypeOK, Still
<1>10. QED  BY <1>1, <1>7, <1>8, <1>9, OwnEntryStep DEF EntrySound

LEMMA ReadOffsetsIsEntrySound ==
    ASSUME IInv, EInv, NEW s \in Sessions, ReadOffsets(s)
    PROVE  EInv'
<1> DEFINE Shift(r) == [r EXCEPT !.occ = @ + Highest(r.fp)]
           new == {Shift(r) : r \in todo[s]}
<1>1. /\ pc[s] = "offsets" /\ todo'[s] = new /\ held' = held /\ job' = job /\ rows' = rows
      /\ UNCHANGED store /\ todo[s] \subseteq Row
    BY DEF ReadOffsets, Goto, IInv, TypeOK, store
<1>2. held[s] = {} /\ job[s] \in Batch
    BY <1>1 DEF IInv, SInv, JobOK
<1>3. Work(s) = todo[s] /\ Work(s)' = new
    BY <1>1, <1>2 DEF Work
<1>4. \A r \in todo[s] : Shift(r).fp = r.fp /\ Shift(r).occ = r.occ + Highest(r.fp)
    BY <1>1 DEF Row
<1>5. ASSUME NEW fp
      PROVE  /\ Highest(fp) \in Nat
             /\ \A r \in rows : r.fp = fp => r.occ <= Highest(fp)
             /\ Highest(fp) > 0 => \E q \in rows : q.fp = fp
    BY HighestProperties DEF IInv, TypeOK
<1>6. ASSUME NEW r \in todo[s]
      PROVE  \E q \in rows \cup new : q.fp = r.fp /\ q.occ = 1
  <2>1. CASE Highest(r.fp) > 0
    BY <1>5, <2>1 DEF EInv, FirstIn
  <2>2. CASE Highest(r.fp) = 0
    <3>1. PICK q \in rows \cup todo[s] : q.fp = r.fp /\ q.occ = 1
        BY <1>3 DEF EInv, EntrySound, FirstIn
    <3>2. CASE q \in rows
        BY <3>1, <3>2
    <3>3. CASE q \in todo[s]
      <4>1. Shift(q) \in new /\ Shift(q).fp = r.fp /\ Shift(q).occ = 1
        BY <1>4, <2>2, <3>1, <3>3
      <4>2. QED  BY <4>1
    <3>4. QED  BY <3>1, <3>2, <3>3
  <2>3. QED  BY <1>5, <2>1, <2>2
<1>7. FirstIn(Work(s), rows \cup Work(s))'
  <2>1. ASSUME NEW r \in todo[s]
        PROVE  \E q \in rows \cup new : q.fp = Shift(r).fp /\ q.occ = 1
    BY <1>4, <1>6
  <2>2. \A p \in new : \E q \in rows \cup new : q.fp = p.fp /\ q.occ = 1
    BY <2>1
  <2>3. FirstIn(new, rows \cup new)
    BY <2>2 DEF FirstIn
  <2>4. QED  BY <1>1, <1>3, <2>3
<1>8. OnceIsFirst(s)'
    BY <1>1, <1>2, JobKinds DEF OnceIsFirst
<1>9. \A t \in Sessions \ {s} : Still(t)
    BY DEF ReadOffsets, Goto, IInv, TypeOK, Still
<1>10. QED  BY <1>1, <1>7, <1>8, <1>9, OwnEntryStep DEF EntrySound

LEMMA InsertRowIsEntrySound ==
    ASSUME TypeOK, EInv, NEW s \in Sessions, InsertRow(s)
    PROVE  EInv'
<1>1. PICK r \in todo[s] : /\ held' = [held EXCEPT ![s] = @ \cup {r}]
                           /\ todo' = [todo EXCEPT ![s] = @ \ {r}]
    BY DEF InsertRow
<1>2. /\ pc' = pc /\ job' = job /\ opened' = opened /\ rows' = rows /\ UNCHANGED store
    BY DEF InsertRow, store
<1>3. Work(s)' = Work(s)
    BY <1>1 DEF Work, TypeOK
<1>4. EntrySound(s)'
    BY <1>2, <1>3 DEF EInv, EntrySound, FirstIn, OnceIsFirst
<1>5. \A t \in Sessions \ {s} : Still(t)
    BY <1>1, <1>2 DEF TypeOK, Still
<1>6. QED  BY <1>2, <1>4, <1>5, OwnEntryStep

LEMMA CommitIsEntrySound ==
    ASSUME IInv, LInv, EInv, NEW s \in Sessions, Commit(s)
    PROVE  EInv'
<1>1. /\ pc[s] = "insert" /\ todo[s] = {} /\ rows' = rows \cup held[s]
      /\ todo'[s] = {} /\ held'[s] = {} /\ \A t \in Sessions \ {s} : Still(t)
    BY DEF Commit, Close, IInv, TypeOK, Still
<1>2. Work(s) = held[s] /\ Work(s)' = {}
    BY <1>1 DEF Work
<1>3. Named(held[s])
  <2>1. SUFFICES ASSUME NEW r \in held[s], r.ext # NoId
                 PROVE  \E f \in Files : \E l \in Lines(f) :
                           FileRows[f][l].id = r.ext /\ FileRows[f][l].fp = r.fp
    BY DEF Named
  <2>2. job[s] \in Batch
    BY <1>1, <1>2, <2>1 DEF LInv, Sound, EntryWork, Job
  <2>3. Describes(job[s].file, job[s].mode, r) /\ job[s].file \in Files
    BY <1>2, <2>1, <2>2, JobKinds DEF LInv, Sound, ImportWork
  <2>4. QED  BY <2>1, <2>3 DEF Describes
<1>4. Named(rows') /\ FirstIn(rows', rows')
    BY <1>1, <1>2, <1>3 DEF EInv, EntrySound, Named, FirstIn
<1>5. EntrySound(s)'
    BY <1>2 DEF EntrySound, FirstIn, OnceIsFirst
<1>6. \A t \in Sessions : EntrySound(t)'
    BY <1>1, <1>5, StillIsEntrySound DEF EInv
<1>7. QED  BY <1>4, <1>6 DEF EInv

LEMMA NextIsEntrySound == IdsNameCharges /\ IInv /\ LInv /\ EInv /\ [Next]_vars => EInv'
<1> SUFFICES ASSUME IdsNameCharges, IInv, LInv, EInv, [Next]_vars PROVE EInv'
    OBVIOUS
<1>1. TypeOK
    BY DEF IInv
<1>2. CASE UNCHANGED vars
  <2>1. rows' = rows /\ \A t \in Sessions : Still(t)
    BY <1>2 DEF vars, Still
  <2>2. \A t \in Sessions : EntrySound(t)'
    BY <2>1, StillIsEntrySound DEF EInv
  <2>3. QED  BY <2>1, <2>2 DEF EInv, Named, FirstIn
<1>3. ASSUME NEW s \in Sessions, Step(s) PROVE EInv'
  <2>1. ASSUME NEW f \in Files, NEW mode \in Modes, BeginImport(s, f, mode) PROVE EInv'
    <3>1. FirstIn(Records(f, mode), Records(f, mode))
      <4>1. Records(f, mode) \subseteq Row
        BY JobAssumption, RecordsProperties
      <4>2. \A r \in Records(f, mode) : 1 \in 1..r.occ
        BY <4>1 DEF Row
      <4>3. QED  BY <4>2, JobAssumption, RecordsProperties DEF FirstIn
    <3>2. [file |-> f, mode |-> mode] \notin Entry
      <4>1. [file |-> f, mode |-> mode] \in Batch
        BY JobAssumption DEF Batch
      <4>2. QED  BY <4>1, JobKinds
    <3>3. QED  BY <2>1, <3>1, <3>2, BeginIsEntrySound DEF BeginImport
  <2>2. ASSUME NEW fp \in Entered, NEW repeat \in BOOLEAN, BeginEntry(s, fp, repeat) PROVE EInv'
    <3>1. FirstIn({}, {})
        BY DEF FirstIn
    <3>2. QED  BY <2>2, <3>1, BeginIsEntrySound DEF BeginEntry
  <2>3. CASE CheckModes(s)
    BY <1>1, <2>3, RollbackIsEntrySound, GoesOnEntrySound DEF CheckModes
  <2>4. CASE FindBatch(s)
    BY <1>1, <2>4, RollbackIsEntrySound, GoesOnEntrySound DEF FindBatch
  <2>5. CASE OpenBatch(s)
    <3>1. CASE Rollback(s, "already", 0)
        BY <1>1, <3>1, RollbackIsEntrySound
    <3>2. CASE /\ Goto(s, "open", IF job[s].mode = "incremental" THEN "ids" ELSE "keys")
               /\ opened' = [opened EXCEPT ![s] = TRUE]
               /\ UNCHANGED <<store, job, todo, held, outcome, disturbed>>
      <4>1. \A t \in Sessions \ {s} : opened'[t] = opened[t]
        BY <1>1, <3>2 DEF TypeOK
      <4>2. QED  BY <1>1, <3>2, <4>1, GoesOnEntrySound
    <3>3. QED  BY <2>5, <3>1, <3>2 DEF OpenBatch
  <2>6. CASE ReadHighest(s) \/ ReadKeys(s) \/ ReadIds(s) \/ ReadOffsets(s)
    BY <2>6, ReadHighestIsEntrySound, ReadKeysIsEntrySound, ReadIdsIsEntrySound,
       ReadOffsetsIsEntrySound
  <2>7. CASE InsertRow(s)
    BY <1>1, <2>7, InsertRowIsEntrySound
  <2>8. CASE InsertConflict(s) \/ DeadlockAbort(s) \/ Crash(s)
    BY <1>1, <2>8, RollbackIsEntrySound DEF InsertConflict, DeadlockAbort, Crash
  <2>9. CASE Commit(s)
    BY <2>9, CommitIsEntrySound
  <2>10. QED
    BY <1>3, <2>1, <2>2, <2>3, <2>4, <2>5, <2>6, <2>7, <2>8, <2>9 DEF Step, Statement
<1>4. QED  BY <1>2, <1>3 DEF Next

LEMMA InitIsEntrySound == Init => EInv
    BY DEF Init, EInv, Named, FirstIn, EntrySound, OnceIsFirst, Work

\* What an entry is told is true of the table at that moment.
LEMMA EntryIsToldTheTruth ==
    ASSUME IInv, LInv, EInv, [Next]_vars, NEW s \in Sessions
    PROVE  LET like == {q \in rows : q.fp = job[s].fp}
           IN  /\ Ends(s, "stored") /\ ~job[s].repeat => like = {}
               /\ Ends(s, "duplicate") => like # {}
<1> DEFINE fp == job[s].fp
<1>1. TypeOK
    BY DEF IInv
<1>2. ASSUME Ends(s, "stored"), ~job[s].repeat, NEW q \in rows, q.fp = fp PROVE FALSE
  <2>1. Commit(s) /\ ~opened[s]
    BY <1>1, <1>2, EndingIsAStep, OnlyOwnersEnd
  <2>2. pc[s] = "insert" /\ Work(s) = held[s]
    BY <2>1 DEF Commit, Work
  <2>3. job[s] \in Entry
    BY <2>1, <2>2 DEF LInv, Sound, ImportWork, Job
  <2>4. PICK r \in held[s] : r.fp = fp /\ r.occ = 1
    BY <1>2, <2>2, <2>3 DEF LInv, Sound, EntryWork, EInv, EntrySound, OnceIsFirst
  <2>5. PICK p \in rows : p.fp = fp /\ p.occ = 1
    BY <1>2 DEF EInv, FirstIn
  <2>6. QED  BY <2>4, <2>5 DEF LInv, Apart, Clash, SameKey
<1>3. ASSUME Ends(s, "duplicate") PROVE \E q \in rows : q.fp = fp
  <2>1. ReadHighest(s) \/ ReadKeys(s)
    BY <1>1, <1>3, EndingIsAStep, OnlyOwnersEnd
  <2>2. pc'[s] = "idle"
    BY <1>3 DEF Ends
  <2>3. CASE ReadHighest(s)
    <3>1. Highest(fp) > 0
        BY <1>1, <2>2, <2>3 DEF ReadHighest, Goto, TypeOK
    <3>2. QED  BY <3>1, HighestProperties DEF IInv, TypeOK
  <2>4. CASE ReadKeys(s)
    <3>1. /\ pc[s] = "keys" /\ job[s].mode = "entry"
          /\ {r \in todo[s] : \A q \in rows : ~SameKey(q, r)} = {}
        BY <1>1, <2>2, <2>4 DEF ReadKeys, Goto, TypeOK
    <3>2. job[s] \in Entry /\ Work(s) = todo[s]
        BY <3>1, JobKinds DEF IInv, SInv, JobOK, Job, Work
    <3>3. PICK r \in todo[s] : r.fp = fp
        BY <3>1, <3>2 DEF LInv, Sound, EntryWork
    <3>4. QED  BY <3>1, <3>3 DEF SameKey
  <2>5. QED  BY <2>1, <2>3, <2>4
<1>4. QED  BY <1>2, <1>3

\* "Already imported", "stored" and "duplicate" are true when they are said,
\* for banks that describe an id alike in every export.
THEOREM AnswersHold == IdsNameCharges => (Spec => AnswersAreTrue)
<1> SUFFICES ASSUME IdsNameCharges PROVE Spec => AnswersAreTrue
    OBVIOUS
<1>1. Init => EInv
    BY InitIsEntrySound
<1>2. IInv /\ LInv /\ EInv /\ [Next]_vars => EInv'
    BY NextIsEntrySound
<1>3. IInv /\ LInv /\ EInv /\ [Next]_vars =>
         \A s \in Sessions :
            LET like == {q \in rows : q.fp = job[s].fp}
            IN  /\ Ends(s, "stored") /\ ~job[s].repeat => like = {}
                /\ Ends(s, "duplicate") => like # {}
    BY EntryIsToldTheTruth
<1>4. Spec => EntriesAreTrue
    BY <1>1, <1>2, <1>3, SoundInvariance, PTL DEF Spec, EntriesAreTrue
<1>5. QED  BY <1>4, AlreadyImportedHolds DEF AnswersAreTrue

=============================================================================
