------------------------------ MODULE Annotation ------------------------------
(***************************************************************************)
(* annotate.py: one person at a time labels the rows of the dataset file,  *)
(* in three passes, prompt by prompt.  The process may be killed, its      *)
(* terminal may go away, and the file it rewrites is the only thing that   *)
(* outlives it.                                                            *)
(***************************************************************************)
EXTENDS Naturals, FiniteSets, SequencesExt

CONSTANTS
  RowIds,         \* transaction ids: a statement's name and a line number
  MerchantNames,  \* what descriptions normalise to
  Merchant,       \* the normalised merchant of a row
  Statements,     \* bank exports somebody may add
  RowsOf,         \* the ids a statement parses to, in its order
  Labels,         \* LABEL_SPACE
  CutLabels,      \* what is left of a label whose line was cut in it
  CutTo,          \* what a text may read as when its line was cut in it
  Texts,          \* what may be typed at a label prompt besides the commands
  Meaning,        \* the label a text names, or NoLabel
  SaveEvery,      \* SAVE_EVERY
  NoInputLimit,   \* _NO_INPUT_LIMIT
  MaxPasses,      \* bound: passes begun
  MaxDetours      \* bound: skips, undos, ambiguities and crashes

NoLabel == ""
NoStatement == "--resume"
Annotators == {"a", "b", "final"}
LabelTexts == Labels \cup CutLabels

ASSUME LimitsArePositive == SaveEvery \in Nat \ {0} /\ NoInputLimit \in Nat \ {0}
ASSUME StatementsHaveRows == RowsOf \in [Statements -> Seq(RowIds)]
ASSUME RowsHaveMerchants == Merchant \in [RowIds -> MerchantNames] /\ "" \notin MerchantNames
ASSUME CutsAreTexts ==
  /\ \A id \in RowIds : CutTo[id] \subseteq RowIds
  /\ \A m \in MerchantNames : CutTo[m] \subseteq MerchantNames
  /\ \A l \in LabelTexts : CutTo[l] \subseteq LabelTexts
ASSUME TextsMeanLabels == Meaning \in [Texts -> Labels \cup {NoLabel}]

VARIABLES
  disk,     \* the rows of the dataset file
  term,     \* the pass that is running, or the one that ran last
  gone,     \* has its terminal gone away?
  passes,   \* passes begun, up to MaxPasses
  detours,  \* skips, undos, ambiguities and crashes, up to MaxDetours
  decided,  \* history: <<merchant, label>> the pass's annotator has entered
  skipped   \* history: rows this pass was told to skip

bounds == <<passes, detours>>
vars == <<disk, term, gone, bounds, decided, skipped>>

Prompts == {"label", "acceptable", "why", "primary"}

-----------------------------------------------------------------------------
(* Rows *)

\* amount: does the text parse?  posted: an ISO date, a cut one, or blank.
NewRow(id) ==
  [id |-> id, merchant |-> Merchant[id], amount |-> TRUE, labels |-> [x \in Annotators |-> NoLabel],
   acceptable |-> {}, note |-> FALSE, posted |-> "iso"]
IdsOf(rows) == {rows[i].id : i \in DOMAIN rows}

\* Both annotators labelled it, and they disagree.
Disputed(row) ==
  /\ row.labels["a"] # NoLabel /\ row.labels["b"] # NoLabel
  /\ row.labels["a"] # row.labels["b"]

Settled(row, who) == row.labels[who] # NoLabel \/ (who = "final" /\ ~Disputed(row))
Pending(rows, who) == {i \in DOMAIN rows : ~Settled(rows[i], who)}

\* Rows of a new statement go behind the ones there are, which keep their labels.
Merge(rows, statement) ==
  IF statement = NoStatement THEN rows
  ELSE FoldLeft(LAMBDA all, id : IF id \in IdsOf(rows) THEN all ELSE Append(all, NewRow(id)),
                rows, RowsOf[statement])

\* Mutant: remembers annotator A's label where there is one.
BuildMemoryOfA(rows, who) ==
  LET said(i) == IF rows[i].labels["a"] # NoLabel THEN rows[i].labels["a"] ELSE rows[i].labels[who]
  IN [m \in MerchantNames |->
        LET mine == {i \in DOMAIN rows : rows[i].merchant = m /\ said(i) # NoLabel}
        IN IF mine = {} THEN NoLabel ELSE said(Max(mine))]

\* What this annotator last said of each merchant.
BuildMemory(rows, who) ==
  [m \in MerchantNames |->
     LET mine == {i \in DOMAIN rows : rows[i].merchant = m /\ rows[i].labels[who] # NoLabel}
     IN IF mine = {} THEN NoLabel ELSE rows[Max(mine)].labels[who]]

\* load_dataset normalises every description, and a blank one raises.
Opens(rows) == \A i \in DOMAIN rows : rows[i].merchant # ""

-----------------------------------------------------------------------------
(* The loop of annotate *)

\* Prompt for the first unsettled row at or after t.index, or finish.
Continue(t) ==
  LET open == {i \in Pending(t.rows, t.who) : i >= t.index}
  IN IF open = {} THEN [t EXCEPT !.phase = "saving", !.outcome = "finished", !.index = Len(t.rows) + 1]
     ELSE [t EXCEPT !.phase = "label", !.index = Min(open)]

Stop(t, outcome) == [t EXCEPT !.phase = "saving", !.outcome = outcome]

Suggestion(t) == t.memory[t.rows[t.index].merchant]

\* Mutant: saves one decision late.
SaveDueLate(since) == since > SaveEvery
SaveDue(since) == since >= SaveEvery

Decide(t, label) ==
  LET next == [t EXCEPT !.rows[t.index].labels[t.who] = label,
                        !.memory[t.rows[t.index].merchant] = label,
                        !.history = Append(@, t.index),
                        !.index = @ + 1, !.since = @ + 1, !.streak = 0]
  IN IF SaveDue(next.since) THEN [next EXCEPT !.phase = "saving", !.since = 0] ELSE Continue(next)

\* Mutant: an empty answer does not count.
EmptyStreakForgotten(t, text) == 0
EmptyStreak(t, text) == IF text = "" THEN t.streak + 1 ELSE 0

\* The answer named no label.
Reprompt(t, text) ==
  LET streak == EmptyStreak(t, text)
  IN IF streak >= NoInputLimit THEN Stop([t EXCEPT !.streak = streak], "no-input")
     ELSE [t EXCEPT !.streak = streak, !.phase = "label"]

\* Enter accepts the suggestion; anything else has to name one label.
Entered(t, text) ==
  IF text = "" /\ Suggestion(t) # NoLabel THEN Suggestion(t)
  ELSE IF text \in Texts THEN Meaning[text] ELSE NoLabel

\* Mutant: resumes where the pass was.
RewindInPlace(t) ==
  LET last == Last(t.history)
  IN Continue([t EXCEPT !.rows[last].labels[t.who] = NoLabel, !.history = Front(@),
                        !.rows[last].acceptable = {}, !.rows[last].note = FALSE])

\* _rewind: the label and the ambiguity of the last decision are cleared, the
\* merchant's memory is not.
Rewind(t) ==
  LET last == Last(t.history)
  IN Continue([t EXCEPT !.rows[last].labels[t.who] = NoLabel, !.history = Front(@), !.index = last,
                        !.rows[last].acceptable = {}, !.rows[last].note = FALSE])

-----------------------------------------------------------------------------
(* Running a pass: main *)

Pass(who, rows) ==
  [phase |-> "label", who |-> who, rows |-> rows, memory |-> BuildMemory(rows, who),
   history |-> <<>>, since |-> 0, streak |-> 0, index |-> 1, offered |-> {}, outcome |-> ""]
NoPass == [Pass("a", <<>>) EXCEPT !.phase = "off"]

Init ==
  /\ disk = <<>> /\ term = NoPass /\ gone = FALSE
  /\ passes = 0 /\ detours = 0 /\ decided = {} /\ skipped = {}

\* The file is read once, and every pass asks for a terminal before it starts.
Begin(who, statement) ==
  LET rows == Merge(disk, statement)
      labelled == {i \in DOMAIN rows : rows[i].labels[who] # NoLabel}
  IN /\ term.phase = "off" /\ Opens(disk) /\ rows # <<>>
     /\ passes < MaxPasses /\ passes' = passes + 1
     /\ term' = Continue(Pass(who, rows))
     /\ decided' = {<<rows[i].merchant, rows[i].labels[who]>> : i \in labelled}
     /\ UNCHANGED <<disk, gone, detours, skipped>>

Saying(phase) == term.phase = phase /\ ~gone
Detour == detours < MaxDetours /\ detours' = detours + 1 /\ UNCHANGED passes

AnswerLabel(phase, text) ==
  /\ term.phase = phase /\ (gone => text = "")
  /\ LET label == Entered(term, text)
     IN IF label = NoLabel
        THEN term' = Reprompt(term, text) /\ UNCHANGED decided
        ELSE /\ term' = Decide(term, label)
             /\ decided' = decided \cup {<<term.rows[term.index].merchant, label>>}
  /\ UNCHANGED <<disk, gone, bounds, skipped>>

\* At the first prompt u, s, q and ? are commands, also where they are codes.
Skip ==
  /\ Saying("label") /\ Detour
  /\ term' = Continue([term EXCEPT !.index = @ + 1])
  /\ skipped' = skipped \cup {term.index}
  /\ UNCHANGED <<disk, gone, decided>>

Undo ==
  /\ Saying("label") /\ Detour /\ term.history # <<>>
  /\ term' = Rewind(term)
  /\ UNCHANGED <<disk, gone, decided, skipped>>

\* q, and end of input or Ctrl-C at any prompt.
Quit ==
  /\ term.phase \in Prompts /\ ~gone
  /\ term' = Stop(term, "quit")
  /\ UNCHANGED <<disk, gone, bounds, decided, skipped>>

AskAmbiguity ==
  /\ Saying("label") /\ Detour
  /\ term' = [term EXCEPT !.phase = "acceptable"]
  /\ UNCHANGED <<disk, gone, decided, skipped>>

\* The two fields of an ambiguity are written together or not at all.
AnswerAcceptable(labels) ==
  /\ term.phase = "acceptable" /\ (gone => labels = {})
  /\ term' = IF Cardinality(labels) < 2 THEN [term EXCEPT !.phase = "label"]
             ELSE [term EXCEPT !.phase = "why", !.offered = labels]
  /\ UNCHANGED <<disk, gone, bounds, decided, skipped>>

AnswerWhy(note) ==
  /\ term.phase = "why" /\ (gone => ~note)
  /\ term' = IF note THEN [term EXCEPT !.phase = "primary", !.offered = {},
                                       !.rows[term.index].acceptable = term.offered,
                                       !.rows[term.index].note = TRUE]
             ELSE [term EXCEPT !.phase = "label", !.offered = {}]
  /\ UNCHANGED <<disk, gone, bounds, decided, skipped>>

\* From here on every prompt is answered at once, with nothing.
TerminalGoes ==
  /\ term.phase \in Prompts /\ ~gone
  /\ gone' = TRUE
  /\ UNCHANGED <<disk, term, bounds, decided, skipped>>

-----------------------------------------------------------------------------
(* save *)

Over == gone' = FALSE /\ decided' = {} /\ skipped' = {}

\* open(path, "w") empties the file before a line is written.
Truncate ==
  /\ term.phase = "saving"
  /\ disk' = <<>>
  /\ term' = [term EXCEPT !.phase = "writing"]
  /\ UNCHANGED <<gone, bounds, decided, skipped>>

Write ==
  /\ term.phase = "writing"
  /\ disk' = term.rows
  /\ \/ term.outcome = "" /\ term' = Continue(term) /\ UNCHANGED <<gone, bounds, decided, skipped>>
     \/ term.outcome # "" /\ term' = NoPass /\ Over /\ UNCHANGED bounds

\* A text cut behind its first letter, or in front of it.
Cut(text) == IF text = "" THEN {""} ELSE CutTo[text] \cup {""}
\* The labels in front of the cut, and what is left of the one it cuts.
CutSet(labels) ==
  (SUBSET labels) \cup {rest \cup {cut} : rest \in SUBSET labels, cut \in UNION {CutTo[l] : l \in labels}}

\* COLUMNS, and a row with those up to column k as they were, the rest blank.
Column == [id |-> 1, merchant |-> 2, amount |-> 3, a |-> 4, b |-> 5, final |-> 6,
           acceptable |-> 7, note |-> 8, posted |-> 9]
Upto(row, k) ==
  [id |-> row.id,
   merchant |-> IF k >= Column.merchant THEN row.merchant ELSE "",
   amount |-> k >= Column.amount /\ row.amount,
   labels |-> [x \in Annotators |-> IF k >= Column[x] THEN row.labels[x] ELSE NoLabel],
   acceptable |-> IF k >= Column.acceptable THEN row.acceptable ELSE {},
   note |-> k >= Column.note /\ row.note,
   posted |-> IF k >= Column.posted THEN row.posted ELSE "none"]

\* What load_dataset reads of a line cut in one of its columns.
Torn(row) ==
  {[Upto(row, Column.id) EXCEPT !.id = cut] : cut \in CutTo[row.id]}
  \cup {[Upto(row, Column.id) EXCEPT !.merchant = cut] : cut \in Cut(row.merchant)}
  \cup {[Upto(row, Column.merchant) EXCEPT !.amount = parses] : parses \in {FALSE, row.amount}}
  \cup (UNION {{[Upto(row, Column[x] - 1) EXCEPT !.labels[x] = cut] : cut \in Cut(row.labels[x])} : x \in Annotators})
  \cup {[Upto(row, Column.final) EXCEPT !.acceptable = cut] : cut \in CutSet(row.acceptable)}
  \cup {[Upto(row, Column.acceptable) EXCEPT !.note = some] : some \in {FALSE, row.note}}
  \cup {[Upto(row, Column.note) EXCEPT !.posted = cut] : cut \in IF row.posted = "none" THEN {"none"} ELSE {"none", "cut"}}

\* The lines that had been flushed, the last of them whole or in part.
Flushed(rows) ==
  {SubSeq(rows, 1, n) : n \in 0..Len(rows)}
  \cup (UNION {{Append(SubSeq(rows, 1, n - 1), torn) : torn \in Torn(rows[n])} : n \in DOMAIN rows})

\* The process dies; in the middle of a save with the lines it had flushed.
Crash ==
  /\ term.phase # "off" /\ Detour
  /\ IF term.phase = "writing" THEN disk' \in Flushed(term.rows) ELSE disk' = disk
  /\ term' = NoPass /\ Over

Answer ==
  \/ \E phase \in {"label", "primary"}, text \in Texts \cup {""} : AnswerLabel(phase, text)
  \/ \E labels \in SUBSET Labels : AnswerAcceptable(labels)
  \/ \E note \in BOOLEAN : AnswerWhy(note)

Next ==
  \/ \E who \in Annotators, statement \in Statements \cup {NoStatement} : Begin(who, statement)
  \/ Answer \/ Skip \/ Undo \/ Quit \/ AskAmbiguity \/ TerminalGoes
  \/ Truncate \/ Write \/ Crash

Spec == Init /\ [][Next]_vars

\* The loop runs on, and a terminal that has gone away does answer.
FairSpec == Spec /\ WF_vars(gone /\ Answer) /\ WF_vars(Truncate \/ Write)

-----------------------------------------------------------------------------
(* Properties *)

\* What a pass offers for a merchant is something its own annotator said of
\* that merchant: nothing of pass A reaches pass B (build_memory, and "the B
\* pass never loads, displays, or remembers anything from the A pass").
SuggestionsAreOnesOwn ==
  \A m \in DOMAIN term.memory :
    term.memory[m] # NoLabel => <<m, term.memory[m]>> \in decided

\* Labels entered in this pass that a crash at a prompt would lose.
Unsaved ==
  {i \in DOMAIN term.rows :
     LET mine == term.rows[i].labels[term.who]
     IN mine # NoLabel /\ ~\E k \in DOMAIN disk : disk[k].id = term.rows[i].id /\ disk[k].labels[term.who] = mine}

\* A crash at a prompt loses fewer than SAVE_EVERY labels, whatever was undone
\* and entered again since the last save.
CrashCostsLittle == term.phase \in Prompts => Cardinality(Unsaved) < SaveEvery

\* A pass that says it finished left no row open but those it was told to skip;
\* in particular none whose decision was undone on the way.
FinishedLeavesOnlySkipped ==
  term.outcome = "finished" => Pending(term.rows, term.who) \subseteq skipped

\* A pass whose terminal has gone away ends (_NO_INPUT_LIMIT).
DeadTerminalEnds == []<>~gone
=============================================================================
