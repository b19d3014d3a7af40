------------------------------ MODULE Recurrence ------------------------------
(***************************************************************************)
(* Recurring charges: merchants that bill at regular gaps and stable        *)
(* amounts (domain/transactions/recurrence.py).  A row is [merchant, day,   *)
(* amount, kind], a day a number; medians are doubled and tolerances are    *)
(* percentages, so that every comparison is between integers.               *)
(***************************************************************************)
EXTENDS Integers, SequencesExt

CONSTANTS
  MinOccurrences,       \* _MIN_OCCURRENCES
  CadenceTolerance,     \* _CADENCE_TOLERANCE, in percent
  RegularityTolerance,  \* _REGULARITY_TOLERANCE, in percent
  AmountTolerance,      \* _AMOUNT_TOLERANCE, in percent
  ConfidenceCeiling,    \* _CONFIDENCE_CEILING
  NominalDays,          \* _NOMINAL_DAYS, in the order of Cadence
  PerYear               \* _PER_YEAR

ASSUME RecurrenceAssumption ==
  /\ MinOccurrences \in Nat \ {0, 1} /\ ConfidenceCeiling \in Nat \ {0}
  /\ CadenceTolerance \in Nat /\ RegularityTolerance \in 1..99 /\ AmountTolerance \in 0..25
  /\ (100 + RegularityTolerance) * (100 + CadenceTolerance) < 20000
  /\ \A j \in DOMAIN NominalDays : j \in Nat \ {0} /\ NominalDays[j] \in Nat \ {0}
  /\ \A j, k \in DOMAIN NominalDays :
       j < k => (100 + CadenceTolerance) * NominalDays[j] < (100 - CadenceTolerance) * NominalDays[k]

NoCadence == 0

Size(n) == IF n < 0 THEN -n ELSE n

\* The k-th smallest of a sequence's values, and statistics.median, times two.
KthOf(s, k) == Min({s[i] : i \in {i \in DOMAIN s : Cardinality({j \in DOMAIN s : s[j] <= s[i]}) >= k}})
TwiceMedian(s) == KthOf(s, (Len(s) + 1) \div 2) + KthOf(s, Len(s) \div 2 + 1)

\* Every value within percent of its median m2 / 2.
Within(s, m2, percent) == \A i \in DOMAIN s : 100 * Size(2 * s[i] - m2) <= percent * Size(m2)

\* The rows of a merchant by day; rows of one day keep their order.
Mine(rows, merchant) == {i \in DOMAIN rows : rows[i].merchant = merchant /\ rows[i].kind # "TRANSFER"}
TurnOf(rows, mine, i) ==
  Cardinality({j \in mine : rows[j].day < rows[i].day \/ (rows[j].day = rows[i].day /\ j <= i)})

Group(rows, merchant) ==
  LET mine == Mine(rows, merchant)
  IN [k \in 1..Cardinality(mine) |-> rows[CHOOSE i \in mine : TurnOf(rows, mine, i) = k]]

Gaps(group) == [i \in 1..(Len(group) - 1) |-> group[i + 1].day - group[i].day]
AmountsOf(group) == [i \in DOMAIN group |-> group[i].amount]

Fits(m2, cadence) ==
  100 * Size(m2 - 2 * NominalDays[cadence]) <= CadenceTolerance * 2 * NominalDays[cadence]

\* _nearest_cadence: the first that fits.
NearestCadence(m2) ==
  LET fitting == {k \in DOMAIN NominalDays : Fits(m2, k)}
  IN IF fitting = {} THEN NoCadence ELSE Min(fitting)

\* _confidence as a fraction, never more than 99 percent.
Confidence(group, gaps, m2) ==
  LET depth == Min({Len(group), ConfidenceCeiling})
      drift == Max({Size(2 * gaps[i] - m2) : i \in DOMAIN gaps})
      under == 100 * ConfidenceCeiling * RegularityTolerance * m2
      over == 70 * depth * RegularityTolerance * m2
              + 30 * ConfidenceCeiling * (RegularityTolerance * m2 - 100 * drift)
  IN IF 100 * over > 99 * under THEN [over |-> 99, under |-> 100] ELSE [over |-> over, under |-> under]

\* _classify: does the group bill at a cadence?
Recurs(group) ==
  LET gaps == Gaps(group)
      m2 == TwiceMedian(gaps)
  IN /\ Len(group) >= MinOccurrences
     /\ \A i \in DOMAIN gaps : gaps[i] > 0
     /\ Within(gaps, m2, RegularityTolerance)
     /\ NearestCadence(m2) # NoCadence
     /\ Within(AmountsOf(group), TwiceMedian(AmountsOf(group)), AmountTolerance)

ChargeOf(group) ==
  LET gaps == Gaps(group)
      cadence == NearestCadence(TwiceMedian(gaps))
      latest == Last(group).amount
      typical2 == TwiceMedian(AmountsOf(group))
  IN [merchant |-> Last(group).merchant, cadence |-> cadence, occurrences |-> Len(group),
      typical2 |-> typical2, latest |-> latest, annual |-> latest * PerYear[cadence],
      confidence |-> Confidence(group, gaps, TwiceMedian(gaps)), changed |-> 2 * latest # typical2]

\* detect_recurring, without the order in which it lists charges of one cost.
DetectRecurring(rows) ==
  {ChargeOf(Group(rows, m)) : m \in {n \in {rows[i].merchant : i \in DOMAIN rows} : Recurs(Group(rows, n))}}

-----------------------------------------------------------------------------
(* What detect_recurring finds does not depend on the order of the export;  *)
(* a merchant that also pays back or is paid is never one commitment; only  *)
(* one cadence fits and no gap skips a whole period of it; no charge is     *)
(* certain ("Capped below certainty") and an unchanged price was never more *)
(* than a quarter higher; and no other merchant's rows, and no transfer,    *)
(* has a say in it.                                                         *)
RecurrencesStand(rows) ==
  LET found == DetectRecurring(rows)
  IN /\ DetectRecurring(Reverse(rows)) = found
     /\ \A charge \in found :
          LET group == Group(rows, charge.merchant)
              nominal == NominalDays[charge.cadence]
          IN /\ \A i, k \in DOMAIN group : Size(group[i].amount + group[k].amount)
                                            = Size(group[i].amount) + Size(group[k].amount)
             /\ \A k \in DOMAIN NominalDays : Fits(TwiceMedian(Gaps(group)), k) => k = charge.cadence
             /\ \A i \in DOMAIN Gaps(group) : Gaps(group)[i] < 2 * nominal
             /\ 0 < charge.confidence.over /\ charge.confidence.over < charge.confidence.under
             /\ DetectRecurring(group) = {charge}
             /\ ~charge.changed => \A i \in DOMAIN group : 4 * Size(group[i].amount) <= 5 * Size(charge.latest)
=============================================================================
