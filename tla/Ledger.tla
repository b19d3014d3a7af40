-------------------------------- MODULE Ledger --------------------------------
(***************************************************************************)
(* What the transaction store promises about one account, with no          *)
(* sessions, statements or occurrence numbers: how many charges it holds   *)
(* of each kind, which bank ids it has taken, and which files it imported. *)
(* Every operation is one indivisible step.                                *)
(***************************************************************************)
EXTENDS Naturals, FiniteSets, Sequences

CONSTANTS Fingerprints, ExternalIds, NoId, Files, FileRows

VARIABLES
    total,     \* charges held, by fingerprint
    ids,       \* bank ids held
    imports    \* [file, mode] of every import that happened

ledger == <<total, ids, imports>>

InFile(f, fp) == {l \in DOMAIN FileRows[f] : FileRows[f][l].fp = fp}

FirstUse(f) == \A i \in imports : i.file # f
OneMode(mode) == \A i \in imports : i.mode = mode

LedgerInit ==
    /\ total = [fp \in Fingerprints |-> 0]
    /\ ids = {}
    /\ imports = {}

\* A full export of a period tops the account up to what it lists, and never
\* adds a charge that is already counted.
ImportSnapshot(f) ==
    /\ FirstUse(f) /\ OneMode("snapshot")
    /\ imports' = imports \cup {[file |-> f, mode |-> "snapshot"]}
    /\ total' = [fp \in Fingerprints |->
                    LET listed == Cardinality(InFile(f, fp))
                    IN  IF listed > total[fp] THEN listed ELSE total[fp]]
    /\ UNCHANGED ids

\* An incremental export adds exactly the charges whose ids are new.
ImportIncremental(f) ==
    LET new(fp) == {l \in InFile(f, fp) : FileRows[f][l].id \notin ids} IN
    /\ FirstUse(f) /\ OneMode("incremental")
    /\ imports' = imports \cup {[file |-> f, mode |-> "incremental"]}
    /\ total' = [fp \in Fingerprints |-> total[fp] + Cardinality(new(fp))]
    /\ ids' = ids \cup {FileRows[f][l].id : l \in DOMAIN FileRows[f]}

\* An account that is imported in both modes is only promised that nothing is
\* lost and that no line is added twice: identity by content and identity by
\* bank id do not know of each other.
ImportMixed(f, mode) ==
    /\ FirstUse(f) /\ ~OneMode(mode)
    /\ imports' = imports \cup {[file |-> f, mode |-> mode]}
    /\ \E added \in [Fingerprints -> 0..Len(FileRows[f])] :
          /\ \A fp \in Fingerprints : added[fp] <= Cardinality(InFile(f, fp))
          /\ total' = [fp \in Fingerprints |-> total[fp] + added[fp]]
    /\ ids' \in {ids, ids \cup {FileRows[f][l].id : l \in DOMAIN FileRows[f]}}

\* A hand entry adds one charge.  When it may is between the store and the
\* person who enters it (EntriesAreTrue).
Enter(fp) ==
    /\ total' = [total EXCEPT ![fp] = @ + 1]
    /\ UNCHANGED <<ids, imports>>

LedgerNext ==
    \/ \E f \in Files : ImportSnapshot(f) \/ ImportIncremental(f)
    \/ \E f \in Files, mode \in {"snapshot", "incremental"} : ImportMixed(f, mode)
    \/ \E fp \in Fingerprints : Enter(fp)

LedgerSpec == LedgerInit /\ [][LedgerNext]_ledger
================================================================================
