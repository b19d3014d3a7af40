-------------------------- MODULE MCTransactionStore --------------------------
(* Files and constants that give TLC a small instance of TransactionStore. *)
EXTENDS TransactionStore, TLC

CONSTANTS a, b, i1, i2, i3, f1, f2

Line(fp, id) == [fp |-> fp, id |-> id]

\* f1 lists two identical charges and another one.  f2 lists two of them in the
\* opposite order.
MCFileRows ==
    (f1 :> <<Line(a, i1), Line(a, i2), Line(b, i3)>>) @@
    (f2 :> <<Line(b, i3), Line(a, i1)>>)
================================================================================
