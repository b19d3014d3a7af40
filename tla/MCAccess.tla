------------------------------ MODULE MCAccess ------------------------------
(***************************************************************************)
(* One run for the two machines behind a login.  They share no state, so a  *)
(* behaviour is one of either: `machine` says which, the other stands still.*)
(***************************************************************************)
EXTENDS LoginLimiter, Access

VARIABLE machine

MCAddress == [s \in {"ann", "ann ", "bob"} |-> IF s = "bob" THEN "bob" ELSE "ann"]

MCInit == LimiterInit /\ AccessInit /\ machine \in {"limiter", "access"}

MCNext ==
  /\ UNCHANGED machine
  /\ \/ machine = "limiter" /\ LimiterNext /\ UNCHANGED accessVars
     \/ machine = "access" /\ AccessNext /\ UNCHANGED limiterVars

MCSpec == MCInit /\ [][MCNext]_<<limiterVars, accessVars, machine>>

=============================================================================
