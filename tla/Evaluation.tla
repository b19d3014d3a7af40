------------------------------ MODULE Evaluation ------------------------------
(***************************************************************************)
(* What becomes of an annotated file: validate_dataset.py reports on it,   *)
(* the loader freezes it, a split by merchant keeps the rules' merchants   *)
(* out of the benchmark, systems are scored on it, and a review threshold  *)
(* is chosen from their recorded predictions.  A row is the record that    *)
(* Annotation writes; ratios are compared crosswise, never divided.        *)
(***************************************************************************)
EXTENDS Integers, FiniteSetsExt, SequencesExt

CONSTANTS
  Alphabet,       \* LABEL_SPACE, in the order its names sort
  Abstain,        \* ABSTAIN
  Bucket,         \* the hash bucket of a merchant
  HoldoutBelow,   \* holdout_fraction * _BUCKETS
  Thresholds      \* the grid of confidences, ascending

LabelSpace == Range(Alphabet)

ASSUME AbstainIsALabel == Alphabet \in Seq(STRING) /\ Abstain \in LabelSpace /\ "" \notin LabelSpace
ASSUME GridAscends ==
  /\ Thresholds \in Seq(Nat) /\ Thresholds # <<>> /\ Thresholds[1] = 0
  /\ \A i, j \in DOMAIN Thresholds : i < j => Thresholds[i] < Thresholds[j]

Unlabelled == ""
Blank(label) == label = Unlabelled
Primary(row) == row.labels["a"]
Secondary(row) == row.labels["b"]
Adjudicated(row) == row.labels["final"]
RowsWith(rows, Test(_)) == {i \in DOMAIN rows : Test(rows[i])}

-----------------------------------------------------------------------------
(* validation.py and the loader behind it *)

Gold(row) == IF Blank(Adjudicated(row)) THEN Primary(row) ELSE Adjudicated(row)
IsAmbiguous(row) == row.acceptable # {}
IsDouble(row) == ~Blank(Secondary(row))
Agreed(row) == IsDouble(row) /\ Primary(row) = Secondary(row)
Differed(row) == IsDouble(row) /\ Primary(row) # Secondary(row)

\* report.errors.append, as often as it may.
ErrorIf(fault, error) == IF fault THEN {error} ELSE {}

IdentityErrors(row) ==
  ErrorIf(row.id = "", "blank_id") \cup ErrorIf(row.merchant = "", "blank_description")
  \cup ErrorIf(~row.amount, "unparsed_amount")

LabelErrors(row) ==
  ErrorIf(Blank(Primary(row)), "blank_label")
  \cup ErrorIf(\E x \in DOMAIN row.labels : row.labels[x] \notin LabelSpace \cup {Unlabelled}, "invalid_label")

AmbiguityErrors(row) ==
  IF ~IsAmbiguous(row) THEN {}
  ELSE ErrorIf(~(row.acceptable \subseteq LabelSpace), "invalid_label")
       \cup ErrorIf(~row.note, "no_ambiguity_note")
       \cup ErrorIf(Cardinality(row.acceptable) = 1, "lists_one_label")
       \cup ErrorIf(~Blank(Gold(row)) /\ Gold(row) \notin row.acceptable, "gold_not_acceptable")

DuplicateIds(rows) == {i \in DOMAIN rows : \E k \in 1..(i - 1) : rows[k].id = rows[i].id}

RowErrors(rows) ==
  ErrorIf(DuplicateIds(rows) # {}, "duplicate_id")
  \cup UNION {IdentityErrors(rows[i]) \cup LabelErrors(rows[i]) \cup AmbiguityErrors(rows[i]) : i \in DOMAIN rows}

Unresolved(row) == Differed(row) /\ Blank(Adjudicated(row))

\* What load_labelled_csv and LabelledTransaction accept.
Loads(rows) ==
  /\ rows # <<>> /\ DuplicateIds(rows) = {}
  /\ \A i \in DOMAIN rows :
       LET row == rows[i]
       IN /\ row.id # "" /\ row.merchant # "" /\ row.amount
          /\ row.posted # "cut"
          /\ Primary(row) \in LabelSpace
          /\ {Secondary(row), Adjudicated(row)} \subseteq LabelSpace \cup {Unlabelled}
          /\ row.acceptable \subseteq LabelSpace
          /\ IsAmbiguous(row) => /\ row.note /\ Cardinality(row.acceptable) >= 2
                                 /\ Gold(row) \in row.acceptable

\* validate_labelled_csv finds no error: it loads the file once its rows have
\* none.  Its warnings and notes refuse nothing.
Usable(rows) ==
  /\ rows # <<>> /\ RowErrors(rows) = {} /\ Loads(rows)
  /\ RowsWith(rows, Unresolved) = {}
  /\ RowsWith(rows, IsDouble) # {}

\* validate_labelled_csv ends in the loader's exception, and reports nothing.
Raises(rows) == rows # <<>> /\ RowErrors(rows) = {} /\ ~Loads(rows)

-----------------------------------------------------------------------------
(* splitting.py and rule_baseline.py *)

InHoldout(row) == Bucket[row.merchant] < HoldoutBelow
\* Either side by the numbers its rows have in the file.
Holdout(rows) == Restrict(rows, RowsWith(rows, InHoldout))
Development(rows) == Restrict(rows, DOMAIN rows \ RowsWith(rows, InHoldout))
Splits(rows) == DOMAIN Holdout(rows) # {} /\ DOMAIN Development(rows) # {}
Merchants(rows) == {rows[i].merchant : i \in DOMAIN rows}

TimesLabelled(rows, merchant, label) ==
  Cardinality({i \in DOMAIN rows : rows[i].merchant = merchant /\ Gold(rows[i]) = label})

\* fit_rules: the majority label of each merchant, an exact tie in the order
\* the labels sort; the keyword and sign fallbacks are left out.
MerchantRule(rows, merchant) ==
  LET times(k) == TimesLabelled(rows, merchant, Alphabet[k])
      most == Max({times(k) : k \in DOMAIN Alphabet})
  IN Alphabet[Min({k \in DOMAIN Alphabet : times(k) = most})]
RulePrediction(rows, merchant) ==
  IF merchant \in Merchants(rows) THEN MerchantRule(rows, merchant) ELSE Abstain

-----------------------------------------------------------------------------
(* metrics.py, report.py: chosen is the stratum, predicted what a system said *)

IsHit(row, label) ==
  label # Abstain /\ IF IsAmbiguous(row) THEN label \in row.acceptable ELSE label = Gold(row)

Score(rows, predicted, chosen) ==
  [total |-> Cardinality(chosen),
   correct |-> Cardinality({i \in chosen : IsHit(rows[i], predicted[i])}),
   abstentions |-> Cardinality({i \in chosen : predicted[i] = Abstain}),
   support |-> [x \in LabelSpace |-> Cardinality({i \in chosen : Gold(rows[i]) = x})],
   truePositive |-> [x \in LabelSpace |->
                       Cardinality({i \in chosen : Gold(rows[i]) = x /\ IsHit(rows[i], predicted[i])})],
   named |-> [x \in LabelSpace \ {Abstain} |-> Cardinality({i \in chosen : predicted[i] = x})],
   confusion |-> [pair \in LabelSpace \X LabelSpace |->
                    Cardinality({i \in chosen : Gold(rows[i]) = pair[1] /\ predicted[i] = pair[2]})]]

\* _score_optional: no report of a stratum without rows, which has none to add.
NoReport == [total |-> 0, correct |-> 0]
ScoreOptional(rows, predicted, chosen) ==
  IF chosen = {} THEN NoReport ELSE Score(rows, predicted, chosen)

\* _run: scoring an empty subset raises where the stratum has to hold rows.
Unambiguous(row) == ~IsAmbiguous(row)
Refused == [refused |-> TRUE]
SystemResult(rows, predicted) ==
  IF DOMAIN rows = {} \/ RowsWith(rows, Unambiguous) = {} THEN Refused
  ELSE [refused |-> FALSE,
        overall |-> Score(rows, predicted, DOMAIN rows),
        unambiguous |-> Score(rows, predicted, RowsWith(rows, Unambiguous)),
        ambiguous |-> ScoreOptional(rows, predicted, RowsWith(rows, IsAmbiguous)),
        annotators_agreed |-> ScoreOptional(rows, predicted, RowsWith(rows, Agreed)),
        annotators_disagreed |-> ScoreOptional(rows, predicted, RowsWith(rows, Differed))]

\* RecordedPrediction.correct, recomputed from the file a run wrote.
Recorded(row, label, confidence) ==
  [predicted |-> label, confidence |-> confidence, abstained |-> label = Abstain,
   gold |-> Gold(row), acceptable |-> row.acceptable]
\* Mutant: scored against the gold label alone.
RecordedCorrectStrictly(r) == ~r.abstained /\ r.predicted = r.gold
RecordedCorrect(r) ==
  ~r.abstained /\ IF r.acceptable # {} THEN r.predicted \in r.acceptable ELSE r.predicted = r.gold

\* cohens_kappa as a fraction; none when chance alone would agree on every row.
Kappa(rows) ==
  LET double == RowsWith(rows, IsDouble)
      n == Cardinality(double)
      byA(x) == Cardinality({i \in double : Primary(rows[i]) = x})
      byB(x) == Cardinality({i \in double : Secondary(rows[i]) = x})
      chance == SumFunction([x \in LabelSpace |-> byA(x) * byB(x)])
  IN [defined |-> chance # n * n,
      over |-> n * Cardinality(RowsWith(rows, Agreed)) - chance, under |-> n * n - chance]

-----------------------------------------------------------------------------
(* sweep_threshold.py *)

Queued(recorded, threshold) == {i \in DOMAIN recorded : recorded[i].confidence < threshold}
Right(recorded) == {i \in DOMAIN recorded : RecordedCorrect(recorded[i])}
Wrong(recorded) == DOMAIN recorded \ Right(recorded)

\* Youden's J times the wrong and the right rows, and one such product more.
Separation(recorded, threshold) ==
  Cardinality(Wrong(recorded) \cap Queued(recorded, threshold)) * Cardinality(Right(recorded))
  + Cardinality(Right(recorded) \ Queued(recorded, threshold)) * Cardinality(Wrong(recorded))

CanChoose(recorded) == Right(recorded) # {} /\ Wrong(recorded) # {}

ChooseThreshold(recorded) ==
  LET best == Max({Separation(recorded, Thresholds[k]) : k \in DOMAIN Thresholds})
  IN Thresholds[Min({k \in DOMAIN Thresholds : Separation(recorded, Thresholds[k]) = best})]

-----------------------------------------------------------------------------
(* What the pipeline relies on *)

\* What the loader accepts has no row error.  What has none is refused only for
\* a date that was cut, and there the validator, which looks at no date, ends in
\* the loader's exception.  What it passes scores its own answers right and
\* every disagreement as adjudicated.
ValidatedMeansScorable(rows) ==
  /\ Loads(rows) => RowErrors(rows) = {}
  /\ Raises(rows) => \E i \in DOMAIN rows : rows[i].posted = "cut"
  /\ Usable(rows) =>
       \A i \in DOMAIN rows :
         /\ Gold(rows[i]) # Abstain => IsHit(rows[i], Gold(rows[i]))
         /\ Differed(rows[i]) => Gold(rows[i]) = Adjudicated(rows[i]) /\ Gold(rows[i]) \in LabelSpace

\* One side of a split is scored unless every row of it is ambiguous; then
\* strata, classes and confusions all add up to the overall report, and the
\* recorded predictions score as the report did.
ScoresAddUp(rows, predicted) ==
  LET result == SystemResult(rows, predicted)
      overall == result.overall
      sum(f) == SumFunction(f)
  IN IF result.refused THEN DOMAIN rows = RowsWith(rows, IsAmbiguous)
     ELSE /\ overall.correct = result.ambiguous.correct + result.unambiguous.correct
          /\ overall.total = result.ambiguous.total + result.unambiguous.total
          /\ result.annotators_agreed.total + result.annotators_disagreed.total
               = Cardinality(RowsWith(rows, IsDouble))
          /\ overall.correct = sum(overall.truePositive)
          /\ overall.correct + overall.abstentions <= overall.total
          /\ sum(overall.named) + overall.abstentions = overall.total
          /\ overall.total = sum(overall.confusion)
          /\ overall.correct =
               Cardinality({i \in DOMAIN rows : RecordedCorrect(Recorded(rows[i], predicted[i], 0))})

\* No merchant is on both sides, no row is lost, and the rules, fitted on one
\* side, know no merchant of the other.
SplitIsDisjoint(rows) ==
  Splits(rows) =>
    /\ Merchants(Holdout(rows)) \cap Merchants(Development(rows)) = {}
    /\ Cardinality(DOMAIN Holdout(rows)) + Cardinality(DOMAIN Development(rows)) = Len(rows)
    /\ \A m \in Merchants(Holdout(rows)) : RulePrediction(Development(rows), m) = Abstain

\* Kappa is at most one, and one only where the annotators never differ.
KappaIsAtMostOne(rows) ==
  LET kappa == Kappa(rows)
  IN kappa.defined =>
       /\ kappa.under > 0 /\ kappa.over <= kappa.under
       /\ kappa.over = kappa.under <=> RowsWith(rows, Differed) = {}

\* The chosen threshold separates at least as well as queueing nothing or
\* everything, and no threshold that queues fewer rows does as well.
ThresholdSeparates(recorded) ==
  CanChoose(recorded) =>
    LET chosen == ChooseThreshold(recorded)
        nothing == Cardinality(Wrong(recorded)) * Cardinality(Right(recorded))
    IN /\ Separation(recorded, chosen) >= nothing
       /\ \A k \in DOMAIN Thresholds :
            Separation(recorded, Thresholds[k]) >= Separation(recorded, chosen) =>
              Cardinality(Queued(recorded, chosen)) <= Cardinality(Queued(recorded, Thresholds[k]))
=============================================================================
