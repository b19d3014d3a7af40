----------------------------- MODULE MCIdempotency -----------------------------
(* Two handler threads, one key besides none, two bodies, and a clock that *)
(* passes the TTL and leaves time for one more claim after an expiry.         *)
EXTENDS Idempotency, TLC

Symmetry == Permutations(Requests)
================================================================================
