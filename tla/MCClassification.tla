---------------------------- MODULE MCClassification ----------------------------
(* Up to four rows of two merchants: the rules answer rows 1 and 2, the model is  *)
(* asked about 3 and 4, one at a time; a person settles a merchant newest first.  *)
EXTENDS Classification

CONSTANTS A, B, Other, shop, payroll

\* The last two rows are of one date.
MCPosted == [r \in Rows |-> IF r < 3 THEN r ELSE 3]
MCAnswer(l, c) == [label |-> l, confidence |-> c]

MCMerchant == [r \in Rows |-> IF r < 3 THEN payroll ELSE shop]
MCRuleSays == [r \in Rows |-> IF r < 3 THEN MCAnswer(A, "low") ELSE Abstention]

\* A label outside the taxonomy, and a confident answer.
MCModelSays == {MCAnswer(Other, "high"), MCAnswer(A, "high")}

================================================================================
