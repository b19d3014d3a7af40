-------------------------------- MODULE Shares --------------------------------
(***************************************************************************)
(* Exact money: largest-remainder allocation, the split of a household and  *)
(* rates.  An amount is an integer count of units, Cent of which make one   *)
(* cent: what cannot be expressed in whole cents is an amount that is not a *)
(* multiple of Cent.  A ValidationError is a value whose `ok` is FALSE.     *)
(***************************************************************************)
EXTENDS Integers, Sequences, FiniteSets, Functions

CONSTANTS
  Cent,   \* units of an amount in one cent
  Whole   \* one hundred per cent

ASSUME SharesAssumption == Cent \in Nat \ {0} /\ Whole \in Nat \ {0}

Refused == [ok |-> FALSE, amount |-> 0]
Exactly(amount) == [ok |-> TRUE, amount |-> amount]

Magnitude(amount) == IF amount < 0 THEN -amount ELSE amount
Signed(amount, units) == IF amount < 0 THEN -units ELSE units

\* Mutant: ties served to everyone who tied.
PlaceOfTied(lost, i) == Cardinality({j \in DOMAIN lost : lost[j] > lost[i]})

\* Where a share stands when those that lost most come first, earlier first.
PlaceOf(lost, i) ==
  Cardinality({j \in DOMAIN lost : lost[j] > lost[i] \/ (lost[j] = lost[i] /\ j < i)})

CanAllocate(amount, weights) ==
  /\ weights # <<>> /\ \A i \in DOMAIN weights : weights[i] >= 0
  /\ SumFunction(weights) > 0
  /\ Magnitude(amount) % Cent = 0

\* Each share is floored; the cents left over go to the largest remainders.
SharesOf(cents, weights) ==
  LET total == SumFunction(weights)
      floor == [i \in DOMAIN weights |-> (cents * weights[i]) \div total]
      lost == [i \in DOMAIN weights |-> (cents * weights[i]) % total]
      left == cents - SumFunction(floor)
  IN [i \in DOMAIN weights |-> floor[i] + IF PlaceOf(lost, i) < left THEN 1 ELSE 0]

Allocate(amount, weights) ==
  LET shares == SharesOf(Magnitude(amount) \div Cent, weights)
  IN [i \in DOMAIN weights |-> Signed(amount, shares[i] * Cent)]

\* HouseholdProfile.__post_init__.
HouseholdIsValid(home) ==
  /\ home.size >= 1
  /\ home.size > 1 /\ home.method = "PERCENTAGE" => home.weight \in 0..Whole

\* share_of: the user is the first share, and gets any leftover cent.
Weights(home) ==
  IF home.method = "PERCENTAGE" THEN <<home.weight, Whole - home.weight>>
  ELSE [i \in 1..home.size |-> 1]

ShareOf(home, cost) ==
  IF home.size = 1 THEN Exactly(cost)
  ELSE IF home.method = "FIXED" THEN Exactly(IF home.fixed < cost THEN home.fixed ELSE cost)
  ELSE IF CanAllocate(cost, Weights(home)) THEN Exactly(Allocate(cost, Weights(home))[1])
  ELSE Refused

OthersShareOf(home, cost) == cost - ShareOf(home, cost).amount

\* Percentage.of: no rounding.  Inputs are such that every rate is exact.
Of(rate, amount) == (rate * amount) \div Whole

-----------------------------------------------------------------------------
(* Splitting a bill by weights (Money.allocate) hands out every cent once:  *)
(* the shares add up to the bill, nobody's differs from the exact           *)
(* proportion by a cent or more, a larger weight never gets less, and       *)
(* someone with no weight pays nothing.                                     *)
SplitsExactly(amount, weights) ==
  LET shares == Allocate(amount, weights)
      total == SumFunction(weights)
  IN /\ SumFunction(shares) = amount
     /\ \A i \in DOMAIN weights :
          /\ Magnitude(shares[i] * total - amount * weights[i]) < Cent * total
          /\ weights[i] = 0 => shares[i] = 0
          /\ \A j \in DOMAIN weights :
               weights[i] > weights[j] => Magnitude(shares[i]) >= Magnitude(shares[j])

(* A household's bill (HouseholdProfile.share_of and others_share_of) is    *)
(* paid in full by its members, each between nothing and the bill, and the  *)
(* user's part of an even split is the largest.                             *)
SplitsTheBill(home, cost) ==
  LET mine == ShareOf(home, cost)
      others == OthersShareOf(home, cost)
  IN mine.ok =>
       /\ mine.amount \in 0..cost /\ others \in 0..cost
       /\ home.method = "EVEN" =>
            mine.amount * home.size \in cost..(cost + Cent * (home.size - 1))
=============================================================================
