----------------------------- MODULE MCAnnotation -----------------------------
(***************************************************************************)
(* Statements, merchants and answers that give TLC a small instance, and   *)
(* the evaluation of every file the annotation tool leaves behind.         *)
(***************************************************************************)
EXTENDS Annotation, Evaluation, TLC

MCRowsOf == ("june" :> <<"june-2", "june-3">>) @@ ("july" :> <<"july-2">>)
MCMerchant == [id \in {"june-2", "june-3", "july-2"} |-> IF id = "june-3" THEN "cafe bar" ELSE "cafe"]
\* Both labels are cut to the same text, one merchant to the other, no id to another.
MCCutTo == [text \in {"june-2", "june-3", "july-2", "cafe", "cafe bar", "DINING", "DRINKS", "D"} |->
              IF text \in {"DINING", "DRINKS"} THEN {"D"}
              ELSE IF text = "cafe bar" THEN {"cafe"} ELSE {}]
MCMeaning == ("l2" :> "DINING") @@ ("l1" :> "DRINKS") @@ ("zz" :> NoLabel)
MCAlphabet == <<"DINING", "DRINKS", "UNKNOWN">>
MCBucket == ("cafe bar" :> 2) @@ ("cafe" :> 9)
MCThresholds == <<0, 1, 2>>

\* The recorded predictions of one side; a confidence counts as the last
\* threshold it reaches.
Recording(side, predicted, confidence) ==
  [i \in DOMAIN side |-> Recorded(side[i], predicted[i], confidence[i])]

\* Every file annotate.py leaves behind, also where it was killed in the middle
\* of a line: the validator's findings hold of the loader and of the next pass,
\* and what it calls usable splits, scores and sweeps as the report says (see
\* ValidatedMeansScorable, SplitIsDisjoint, KappaIsAtMostOne, ScoresAddUp and
\* ThresholdSeparates).
EvaluationStands ==
  term.phase = "off" =>
    /\ ValidatedMeansScorable(disk)
    /\ RowErrors(disk) = {} => Opens(disk)
    /\ Usable(disk) /\ Splits(disk) =>
         /\ SplitIsDisjoint(disk)
         /\ \A side \in {Holdout(disk), Development(disk)} :
              /\ KappaIsAtMostOne(side)
              /\ \A predicted \in [DOMAIN side -> LabelSpace] :
                   /\ ScoresAddUp(side, predicted)
                   /\ \A confidence \in [DOMAIN side -> Range(Thresholds)] :
                        ThresholdSeparates(Recording(side, predicted, confidence))
=============================================================================
