----------------------------- MODULE AgentProofs ------------------------------
(***************************************************************************)
(* Proofs about the model API's clients, for any policy, any labels and any *)
(* number of turns and rows: no call goes over its budget or retries what   *)
(* it should not (LlmRetry), a run of the agent answers every tool call     *)
(* once (AgentRuntime), and a hybrid batch adds up (Categorisers).          *)
(***************************************************************************)
EXTENDS MCAgent, FiniteSetTheorems, SequenceTheorems, WellFoundedInduction, TLAPS

-----------------------------------------------------------------------------
(***************************************************************************)
(* LlmRetry                                                                 *)
(***************************************************************************)


Tries == [at : Nat, took : 0 .. LongestAttempt, response : Responses]
Phases == {"idle", "sending", "retrying", "answered"} \cup Failed

\* An attempt at this time keeps the promise of RetriesKeepTheBudget, given
\* the one before it.
MayFollow(before, at) ==
  /\ IsRetryable(before.response)
  /\ at < Deadline
  /\ at >= before.at + before.took + Least(before.response.header.wait, MaxHonoured)
  /\ at <= before.at + before.took
            + (IF before.response.header.kind = "asks" THEN MaxHonoured ELSE MaxDelay)

\* The log and the clock agree with the phase: while an attempt is sent the
\* log lacks it and the clock says when it began; afterwards the log ends
\* with it and the clock says when it ended.
LogAgrees ==
  /\ call.phase = "idle" => call = Idle
  /\ call.phase = "sending" =>
       /\ call.attempt = Len(call.log) + 1 /\ call.clock < Deadline
       /\ call.log # <<>> => MayFollow(LastAttempt, call.clock)
  /\ call.phase \notin {"idle", "sending"} =>
       /\ call.attempt = Len(call.log) /\ call.log # <<>>
       /\ call.clock = LastAttempt.at + LastAttempt.took
       /\ LastAttempt.at < Deadline
  /\ call.phase = "retrying" => IsRetryable(LastAttempt.response)

Follows == \A i \in 2 .. Len(call.log) : MayFollow(call.log[i - 1], call.log[i].at)

GivesUpRightly ==
  call.phase = "exhausted" =>
    \/ Len(call.log) = MaxAttempts
    \/ \E delay \in Delays(Len(call.log), LastAttempt.response) : call.clock + delay >= Deadline

CallIsRecord ==
  call = [phase |-> call.phase, attempt |-> call.attempt, clock |-> call.clock, log |-> call.log]

RetryInv == CallIsRecord /\ RetryTypeOK /\ LogAgrees /\ Follows /\ GivesUpRightly

-----------------------------------------------------------------------------
LEMMA ResponsesAreTyped ==
  ASSUME NEW r \in Responses
  PROVE  /\ r.header.wait \in Nat
         /\ r.header.kind = "asks" \/ r.header.wait = 0
  <1>1. r.header \in Headers  BY DEF Responses
  <1>2. CASE r.header \in {NoHint, NaiveDate}  BY <1>2 DEF NoHint, NaiveDate
  <1>3. CASE r.header \in [kind : {"asks"}, wait : Hints]  BY <1>3, PolicyIsValid
  <1> QED  BY <1>1, <1>2, <1>3 DEF Headers

\* A wait is a whole number of ticks between what was asked for and the cap.
LEMMA DelaysAreBounded ==
  ASSUME NEW r \in Responses, NEW n \in Nat, NEW delay \in Delays(n, r)
  PROVE  /\ delay \in Nat
         /\ delay >= Least(r.header.wait, MaxHonoured)
         /\ delay <= (IF r.header.kind = "asks" THEN MaxHonoured ELSE MaxDelay)
  <1>1. r.header.wait \in Nat /\ (r.header.kind = "asks" \/ r.header.wait = 0)
    BY ResponsesAreTyped
  <1>2. CASE r.header.kind = "asks"
    <2>1. delay = Least(r.header.wait, MaxHonoured)  BY <1>2 DEF Delays
    <2> QED  BY <1>1, <1>2, <2>1, PolicyIsValid DEF Least
  <1>3. CASE r.header.kind # "asks"
    <2>1. delay \in 0 .. MaxDelay  BY <1>3 DEF Delays
    <2>2. r.header.wait = 0  BY <1>1, <1>3
    <2> QED  BY <1>3, <2>1, <2>2, PolicyIsValid DEF Least
  <1> QED  BY <1>2, <1>3

LEMMA OutcomesArePhases ==
  ASSUME NEW r \in Responses
  PROVE  /\ Outcome(r) \in Phases \ {"idle", "sending", "exhausted"}
         /\ Outcome(r) = "retrying" => IsRetryable(r)
  BY DEF Outcome, Phases, Failed

-----------------------------------------------------------------------------
LEMMA InitHolds == RetryInit => RetryInv
  <1> SUFFICES ASSUME RetryInit PROVE RetryInv
    OBVIOUS
  <1>1. call = Idle  BY DEF RetryInit
  <1>2. /\ call.phase = "idle" /\ call.attempt = 0 /\ call.clock = 0 /\ call.log = <<>>
    BY <1>1 DEF Idle
  <1>3. CallIsRecord  BY <1>1, <1>2 DEF CallIsRecord, Idle
  <1>4. RetryTypeOK  BY <1>2, PolicyIsValid DEF RetryTypeOK
  <1>5. LogAgrees  BY <1>1, <1>2 DEF LogAgrees
  <1>6. Follows  BY <1>2 DEF Follows
  <1>7. GivesUpRightly  BY <1>2 DEF GivesUpRightly
  <1> QED  BY <1>3, <1>4, <1>5, <1>6, <1>7 DEF RetryInv

LEMMA EndHolds == EndCall => RetryInv'
  <1> SUFFICES ASSUME EndCall PROVE RetryInv'
    OBVIOUS
  <1>1. call' = Idle  BY DEF EndCall
  <1>2. /\ call'.phase = "idle" /\ call'.attempt = 0 /\ call'.clock = 0 /\ call'.log = <<>>
    BY <1>1 DEF Idle
  <1>3. CallIsRecord'  BY <1>1, <1>2 DEF CallIsRecord, Idle
  <1>4. RetryTypeOK'  BY <1>2, PolicyIsValid DEF RetryTypeOK
  <1>5. LogAgrees'  BY <1>1, <1>2 DEF LogAgrees, Idle
  <1>6. Follows'  BY <1>2 DEF Follows
  <1>7. GivesUpRightly'  BY <1>2 DEF GivesUpRightly
  <1> QED  BY <1>3, <1>4, <1>5, <1>6, <1>7 DEF RetryInv

LEMMA BeginHolds == BeginCall => RetryInv'
  <1> SUFFICES ASSUME BeginCall PROVE RetryInv'
    OBVIOUS
  <1>1. call' = [phase |-> "sending", attempt |-> 1, clock |-> 0, log |-> <<>>]  BY DEF BeginCall
  <1>2. /\ call'.phase = "sending" /\ call'.attempt = 1 /\ call'.clock = 0 /\ call'.log = <<>>
    BY <1>1
  <1>3. CallIsRecord'  BY <1>1, <1>2 DEF CallIsRecord
  <1>4. RetryTypeOK'  BY <1>2, PolicyIsValid DEF RetryTypeOK
  <1>5. LogAgrees'  BY <1>2, PolicyIsValid DEF LogAgrees
  <1>6. Follows'  BY <1>2 DEF Follows
  <1>7. GivesUpRightly'  BY <1>2 DEF GivesUpRightly
  <1> QED  BY <1>3, <1>4, <1>5, <1>6, <1>7 DEF RetryInv

LEMMA SendHolds == RetryInv /\ Send => RetryInv'
  <1> SUFFICES ASSUME RetryInv, Send PROVE RetryInv'
    OBVIOUS
  <1>1. call.phase = "sending"  BY DEF Send
  <1>2. PICK r \in Responses, took \in 0 .. LongestAttempt :
          call' = [call EXCEPT !.phase = Outcome(r), !.clock = @ + took,
                               !.log = Append(@, Attempt(call.clock, took, r))]
    BY DEF Send
  <1> DEFINE new == Attempt(call.clock, took, r)
  <1>3. call' = [phase |-> Outcome(r), attempt |-> call.attempt, clock |-> call.clock + took,
                 log |-> Append(call.log, new)]
    BY <1>2 DEF RetryInv, CallIsRecord
  <1>4. /\ call'.phase = Outcome(r) /\ call'.attempt = call.attempt
        /\ call'.clock = call.clock + took /\ call'.log = Append(call.log, new)
    BY <1>3
  <1>5. /\ call.clock \in Nat /\ call.attempt \in 0 .. MaxAttempts /\ call.log \in Seq(Tries)
        /\ took \in Nat
    BY PolicyIsValid DEF RetryInv, RetryTypeOK, Tries
  <1>6. new \in Tries /\ new.at = call.clock /\ new.took = took /\ new.response = r
    BY <1>5 DEF Attempt, Tries
  <1>7. call.attempt = Len(call.log) + 1 /\ call.clock < Deadline
        /\ (call.log # <<>> => MayFollow(call.log[Len(call.log)], call.clock))
    BY <1>1 DEF RetryInv, LogAgrees, LastAttempt
  <1>8. /\ call'.log \in Seq(Tries) /\ Len(call'.log) = Len(call.log) + 1
        /\ call'.log[Len(call'.log)] = new
        /\ \A i \in 1 .. Len(call.log) : call'.log[i] = call.log[i]
    BY <1>4, <1>5, <1>6
  <1>9. Outcome(r) \in Phases \ {"idle", "sending", "exhausted"}
        /\ (Outcome(r) = "retrying" => IsRetryable(r))
    BY OutcomesArePhases
  <1>10. CallIsRecord'  BY <1>3, <1>4 DEF CallIsRecord
  <1>11. RetryTypeOK'
    BY <1>4, <1>5, <1>8, <1>9 DEF RetryTypeOK, Phases, Tries
  <1>12. LogAgrees'
    <2>1. call'.log # <<>>  BY <1>5, <1>8
    <2>2. call'.attempt = Len(call'.log)  BY <1>4, <1>7, <1>8
    <2>3. (LastAttempt)' = new  BY <1>8 DEF LastAttempt
    <2> QED  BY <1>4, <1>6, <1>7, <1>9, <2>1, <2>2, <2>3 DEF LogAgrees
  <1>13. Follows'
    <2> SUFFICES ASSUME NEW i \in 2 .. Len(call'.log)
                 PROVE  MayFollow(call'.log[i - 1], call'.log[i].at)
      BY DEF Follows, MayFollow
    <2>1. CASE i <= Len(call.log)
      <3>1. Len(call.log) \in Nat /\ i \in 2 .. Len(call.log) /\ i \in 1 .. Len(call.log) /\ i - 1 \in 1 .. Len(call.log)
        BY <1>5, <2>1
      <3>2. MayFollow(call.log[i - 1], call.log[i].at)  BY <3>1 DEF RetryInv, Follows
      <3> QED  BY <1>8, <3>1, <3>2
    <2>2. CASE i > Len(call.log)
      <3>1. Len(call.log) \in Nat /\ i = Len(call'.log) /\ i - 1 = Len(call.log) /\ i - 1 \in 1 .. Len(call.log)
        BY <1>5, <1>8, <2>2
      <3>2. call.log # <<>>  BY <3>1
      <3> QED  BY <1>6, <1>7, <1>8, <3>1, <3>2
    <2> QED  BY <1>5, <2>1, <2>2
  <1>14. GivesUpRightly'  BY <1>4, <1>9 DEF GivesUpRightly
  <1> QED  BY <1>10, <1>11, <1>12, <1>13, <1>14 DEF RetryInv

LEMMA BackoffHolds == RetryInv /\ Backoff => RetryInv'
  <1> SUFFICES ASSUME RetryInv, Backoff PROVE RetryInv'
    OBVIOUS
  <1>1. call.phase = "retrying"  BY DEF Backoff
  <1>2. PICK delay \in Delays(call.attempt, LastAttempt.response) :
          IF call.attempt = MaxAttempts \/ call.clock + delay >= Deadline
          THEN call' = [call EXCEPT !.phase = "exhausted"]
          ELSE call' = [call EXCEPT !.phase = "sending", !.attempt = @ + 1, !.clock = @ + delay]
    BY DEF Backoff
  <1>3. /\ call.clock \in Nat /\ call.attempt \in 0 .. MaxAttempts /\ call.log \in Seq(Tries)
        /\ call.attempt \in Nat
    BY PolicyIsValid DEF RetryInv, RetryTypeOK, Tries
  <1>4. /\ call.attempt = Len(call.log) /\ call.log # <<>>
        /\ call.clock = LastAttempt.at + LastAttempt.took /\ LastAttempt.at < Deadline
        /\ IsRetryable(LastAttempt.response)
    BY <1>1 DEF RetryInv, LogAgrees
  <1>5. LastAttempt \in Tries  BY <1>3, <1>4 DEF LastAttempt
  <1>6. LastAttempt.response \in Responses  BY <1>5 DEF Tries
  <1>7. /\ delay \in Nat
        /\ delay >= Least(LastAttempt.response.header.wait, MaxHonoured)
        /\ delay <= (IF LastAttempt.response.header.kind = "asks" THEN MaxHonoured ELSE MaxDelay)
    BY <1>3, <1>6, DelaysAreBounded
  <1>8. CASE call.attempt = MaxAttempts \/ call.clock + delay >= Deadline
    <2>1. call' = [phase |-> "exhausted", attempt |-> call.attempt, clock |-> call.clock, log |-> call.log]
      BY <1>2, <1>8 DEF RetryInv, CallIsRecord
    <2>2. /\ call'.phase = "exhausted" /\ call'.attempt = call.attempt
          /\ call'.clock = call.clock /\ call'.log = call.log
      BY <2>1
    <2>3. CallIsRecord'  BY <2>1, <2>2 DEF CallIsRecord
    <2>4. RetryTypeOK'  BY <1>3, <2>2 DEF RetryTypeOK, Failed, Tries
    <2>5. LogAgrees'  BY <1>4, <2>2 DEF LogAgrees, LastAttempt
    <2>6. Follows'  BY <2>2 DEF Follows, RetryInv, MayFollow
    <2>7. GivesUpRightly'  BY <1>2, <1>4, <1>8, <2>2 DEF GivesUpRightly, LastAttempt
    <2> QED  BY <2>3, <2>4, <2>5, <2>6, <2>7 DEF RetryInv
  <1>9. CASE ~(call.attempt = MaxAttempts \/ call.clock + delay >= Deadline)
    <2>1. call' = [phase |-> "sending", attempt |-> call.attempt + 1, clock |-> call.clock + delay, log |-> call.log]
      BY <1>2, <1>9 DEF RetryInv, CallIsRecord
    <2>2. /\ call'.phase = "sending" /\ call'.attempt = call.attempt + 1
          /\ call'.clock = call.clock + delay /\ call'.log = call.log
      BY <2>1
    <2>3. CallIsRecord'  BY <2>1, <2>2 DEF CallIsRecord
    <2>4. RetryTypeOK'  BY <1>3, <1>7, <1>9, <2>2, PolicyIsValid DEF RetryTypeOK, Tries
    <2>5. call.clock + delay < Deadline  BY <1>3, <1>7, <1>9, PolicyIsValid
    <2>6. MayFollow(LastAttempt, call.clock + delay)
      <3>1. LastAttempt.at \in Nat /\ LastAttempt.took \in Nat  BY <1>5, PolicyIsValid DEF Tries
      <3>2. LastAttempt.response.header.wait \in Nat  BY <1>6, ResponsesAreTyped
      <3> QED  BY <1>4, <1>7, <2>5, <3>1, <3>2, PolicyIsValid DEF MayFollow, Least
    <2>7. LogAgrees'  BY <1>4, <2>2, <2>5, <2>6 DEF LogAgrees, LastAttempt
    <2>8. Follows'  BY <2>2 DEF Follows, RetryInv, MayFollow
    <2>9. GivesUpRightly'  BY <2>2 DEF GivesUpRightly
    <2> QED  BY <2>3, <2>4, <2>7, <2>8, <2>9 DEF RetryInv
  <1> QED  BY <1>8, <1>9

\* The budget is a consequence.
LEMMA BudgetFollows == RetryInv => RetriesKeepTheBudget
  <1> SUFFICES ASSUME RetryInv PROVE RetriesKeepTheBudget
    OBVIOUS
  <1>1. /\ call.clock \in Nat /\ call.attempt \in 0 .. MaxAttempts /\ call.log \in Seq(Tries)
        /\ call.phase \in Phases
    BY DEF RetryInv, RetryTypeOK, Tries, Phases
  <1>2. Len(call.log) <= MaxAttempts /\ call.clock < Deadline + LongestAttempt
    <2>1. CASE call.phase = "idle"
      BY <2>1, PolicyIsValid DEF RetryInv, LogAgrees, Idle
    <2>2. CASE call.phase = "sending"
      BY <1>1, <2>2, PolicyIsValid DEF RetryInv, LogAgrees
    <2>3. CASE call.phase \notin {"idle", "sending"}
      <3>1. /\ call.attempt = Len(call.log) /\ call.log # <<>>
            /\ call.clock = LastAttempt.at + LastAttempt.took /\ LastAttempt.at < Deadline
        BY <2>3 DEF RetryInv, LogAgrees
      <3>2. LastAttempt \in Tries  BY <1>1, <3>1 DEF LastAttempt
      <3>3. LastAttempt.at \in Nat /\ LastAttempt.took \in 0 .. LongestAttempt  BY <3>2 DEF Tries
      <3> QED  BY <1>1, <3>1, <3>3, PolicyIsValid
    <2> QED  BY <2>1, <2>2, <2>3
  <1>3. \A i \in 2 .. Len(call.log) : MayFollow(call.log[i - 1], call.log[i].at)
    BY DEF RetryInv, Follows
  <1> QED  BY <1>2, <1>3 DEF RetriesKeepTheBudget, MayFollow, RetryInv, GivesUpRightly

LEMMA StepsHold ==
  RetryInv /\ [BeginCall \/ RetryStep \/ EndCall]_call => RetryInv'
  <1> SUFFICES ASSUME RetryInv, [BeginCall \/ RetryStep \/ EndCall]_call PROVE RetryInv'
    OBVIOUS
  <1>1. CASE BeginCall  BY <1>1, BeginHolds
  <1>2. CASE Send  BY <1>2, SendHolds
  <1>3. CASE Backoff  BY <1>3, BackoffHolds
  <1>4. CASE EndCall  BY <1>4, EndHolds
  <1>5. CASE UNCHANGED call
    BY <1>5 DEF RetryInv, CallIsRecord, RetryTypeOK, LogAgrees, Follows, GivesUpRightly,
                LastAttempt, MayFollow
  <1> QED  BY <1>1, <1>2, <1>3, <1>4, <1>5 DEF RetryStep

(* Whatever a server answers and whenever, a call is typed as the code has  *)
(* it, and the log, the clock and the phase agree.                          *)
THEOREM RetryIsSound == RetrySpec => []RetryInv
  <1>1. RetryInit => RetryInv  BY InitHolds
  <1>2. RetryInv /\ [BeginCall \/ RetryStep \/ EndCall]_call => RetryInv'  BY StepsHold
  <1> QED  BY <1>1, <1>2, PTL DEF RetrySpec

(* No call of call_with_retry retries what cannot succeed, waits less than  *)
(* the server asked, begins an attempt after the deadline, outlives it by   *)
(* more than one timeout, or gives up early; for every policy.              *)
THEOREM BudgetIsKept == RetrySpec => []RetriesKeepTheBudget
  <1>1. RetryInv => RetriesKeepTheBudget  BY BudgetFollows
  <1> QED  BY <1>1, RetryIsSound, PTL

-----------------------------------------------------------------------------
(***************************************************************************)
(* AgentRuntime                                                             *)
(***************************************************************************)

(* Induction *)

\* A nonempty set of naturals has a least element.
LEMMA LeastNatural ==
  ASSUME NEW T \in SUBSET Nat, T # {}
  PROVE  \E m \in T : \A y \in T : m <= y
<1>1. PICK m \in T : \A y \in T : ~(<<y, m>> \in OpToRel(<, Nat))
  BY WFMin, NatLessThanWellFounded, Zenon
<1>2. \A y \in T : ~(y < m)
  BY <1>1 DEF OpToRel
<1> QED BY <1>2

\* Induction, over a set instead of a predicate.
LEMMA NaturalInduction ==
  ASSUME NEW T, 0 \in T, \A n \in Nat : n \in T => n + 1 \in T
  PROVE  \A n \in Nat : n \in T
<1> DEFINE Rest == {n \in Nat : n \notin T}
<1>1. SUFFICES ASSUME Rest # {} PROVE FALSE
  OBVIOUS
<1>2. PICK n \in Rest : \A m \in Rest : n <= m
  BY <1>1, LeastNatural
<1>3. n # 0 /\ n - 1 \in Nat
  BY <1>2
<1>4. n - 1 \in T
  BY <1>2, <1>3
<1>5. (n - 1) + 1 = n
  BY <1>2
<1> QED BY <1>2, <1>3, <1>4, <1>5

(* Sequences end to end *)

Ends(f, parts, n) == f = [i \in 1..n |-> IF i = 1 THEN parts[i] ELSE f[i - 1] \o parts[i]]

\* The function FlattenSeq recurs on exists, whatever the parts are.
LEMMA EndsExists ==
  ASSUME NEW parts, NEW n \in Nat
  PROVE  \E f : Ends(f, parts, n)
<1> DEFINE T == {k \in Nat : \E f : Ends(f, parts, k)}
<1>1. 0 \in T
  <2> DEFINE f == [i \in 1..0 |-> <<>>]
  <2>1. f = [i \in 1..0 |-> IF i = 1 THEN parts[i] ELSE f[i - 1] \o parts[i]]
    OBVIOUS
  <2>2. Ends(f, parts, 0)
    BY <2>1 DEF Ends
  <2> QED BY <2>2
<1>2. ASSUME NEW k \in Nat, k \in T PROVE k + 1 \in T
  <2>1. PICK g : Ends(g, parts, k)
    BY <1>2
  <2>2. \A i \in 1..k : g[i] = IF i = 1 THEN parts[i] ELSE g[i - 1] \o parts[i]
    BY <2>1 DEF Ends
  <2> DEFINE f == [i \in 1..(k + 1) |-> IF i = k + 1
                                        THEN IF i = 1 THEN parts[i] ELSE g[k] \o parts[i]
                                        ELSE g[i]]
  <2>3. ASSUME NEW i \in 1..(k + 1)
        PROVE  f[i] = IF i = 1 THEN parts[i] ELSE f[i - 1] \o parts[i]
    <3>1. CASE i = 1
      <4>1. f[i] = IF i = k + 1 THEN parts[i] ELSE g[i]
        BY <3>1
      <4>2. i # k + 1 => i \in 1..k
        BY <3>1
      <4> QED BY <2>2, <3>1, <4>1, <4>2
    <3>2. CASE i # 1 /\ i \in 1..k
      <4>1. i # k + 1 /\ i - 1 # k + 1 /\ i - 1 \in 1..(k + 1)
        BY <3>2
      <4>2. f[i] = g[i] /\ f[i - 1] = g[i - 1]
        BY <4>1
      <4> QED BY <2>2, <3>2, <4>2
    <3>3. CASE i # 1 /\ i = k + 1
      <4>1. i - 1 = k /\ k # k + 1 /\ k \in 1..(k + 1)
        BY <3>3
      <4>2. f[i] = g[k] \o parts[i] /\ f[i - 1] = g[k]
        BY <3>3, <4>1
      <4> QED BY <3>3, <4>2
    <3>4. i \in 1..k \/ i = k + 1
      OBVIOUS
    <3> QED BY <3>1, <3>2, <3>3, <3>4
  <2>4. Ends(f, parts, k + 1)
    BY <2>3 DEF Ends
  <2> QED BY <2>4
<1> HIDE DEF T
<1>3. n \in T
  BY <1>1, <1>2, NaturalInduction
<1> QED BY <1>3 DEF T

\* Two functions that recur alike agree as far as their parts do.
LEMMA EndsAgree ==
  ASSUME NEW n \in Nat, NEW m \in Nat, n <= m, NEW p, NEW q, NEW f, NEW g,
         Ends(f, p, n), Ends(g, q, m), \A i \in 1..n : p[i] = q[i]
  PROVE  \A i \in 1..n : f[i] = g[i]
<1>1. \A i \in 1..n : f[i] = IF i = 1 THEN p[i] ELSE f[i - 1] \o p[i]
  BY DEF Ends
<1>2. \A i \in 1..n : g[i] = IF i = 1 THEN q[i] ELSE g[i - 1] \o q[i]
  <2>1. \A i \in 1..m : g[i] = IF i = 1 THEN q[i] ELSE g[i - 1] \o q[i]
    BY DEF Ends
  <2> QED BY <2>1
<1> DEFINE T == {k \in Nat : k \in 1..n => f[k] = g[k]}
<1>3. 0 \in T
  OBVIOUS
<1>4. ASSUME NEW k \in Nat, k \in T PROVE k + 1 \in T
  <2> SUFFICES ASSUME k + 1 \in 1..n PROVE f[k + 1] = g[k + 1]
    OBVIOUS
  <2>1. PICK i : i = k + 1 /\ i \in 1..n /\ i - 1 = k
    OBVIOUS
  <2>2. i # 1 => k \in 1..n
    BY <2>1
  <2>3. i # 1 => f[i - 1] = g[i - 1]
    BY <1>4, <2>1, <2>2
  <2>4. f[i] = g[i]
    BY <1>1, <1>2, <2>1, <2>3
  <2> QED BY <2>1, <2>4
<1> HIDE DEF T
<1>5. \A k \in Nat : k \in T
  BY <1>3, <1>4, NaturalInduction
<1> QED BY <1>5 DEF T

\* What FlattenSeq computes.
LEMMA Flattens ==
  ASSUME NEW parts, NEW n \in Nat, n = Len(parts)
  PROVE  \E f : Ends(f, parts, n) /\ FlattenSeq(parts) = IF n = 0 THEN parts ELSE f[n]
<1> DEFINE f == CHOOSE f : f = [i \in 1..n |-> IF i = 1 THEN parts[i] ELSE f[i - 1] \o parts[i]]
<1>1. FlattenSeq(parts) = IF n = 0 THEN parts ELSE f[n]
  BY DEF FlattenSeq
<1>2. f = CHOOSE g : Ends(g, parts, n)
  BY DEF Ends
<1> HIDE DEF f
<1>3. Ends(f, parts, n)
  BY <1>2, EndsExists
<1> QED BY <1>1, <1>3

LEMMA FlattenIsTyped ==
  ASSUME NEW S, NEW parts \in Seq(Seq(S))
  PROVE  FlattenSeq(parts) \in Seq(S)
<1>1. PICK n \in Nat : n = Len(parts)
  OBVIOUS
<1>2. PICK f : Ends(f, parts, n) /\ FlattenSeq(parts) = IF n = 0 THEN parts ELSE f[n]
  BY <1>1, Flattens
<1>3. \A i \in 1..n : f[i] = IF i = 1 THEN parts[i] ELSE f[i - 1] \o parts[i]
  BY <1>2 DEF Ends
<1>4. \A i \in 1..n : parts[i] \in Seq(S)
  BY <1>1
<1> DEFINE T == {k \in Nat : k \in 1..n => f[k] \in Seq(S)}
<1>5. 0 \in T
  OBVIOUS
<1>6. ASSUME NEW k \in Nat, k \in T PROVE k + 1 \in T
  <2> SUFFICES ASSUME k + 1 \in 1..n PROVE f[k + 1] \in Seq(S)
    OBVIOUS
  <2>1. PICK i : i = k + 1 /\ i \in 1..n /\ i - 1 = k
    OBVIOUS
  <2>2. CASE i = 1
    BY <1>3, <1>4, <2>1, <2>2
  <2>3. CASE i # 1
    <3>1. k \in 1..n
      BY <2>1, <2>3
    <3>2. f[k] \in Seq(S) /\ parts[i] \in Seq(S)
      BY <1>4, <1>6, <2>1, <3>1
    <3>3. f[k] \o parts[i] \in Seq(S)
      BY <3>2
    <3> QED BY <1>3, <2>1, <2>3, <3>3
  <2> QED BY <2>2, <2>3
<1> HIDE DEF T
<1>7. n \in T
  BY <1>5, <1>6, NaturalInduction
<1>8. CASE n = 0
  <2>1. parts = <<>>
    BY <1>1, <1>8, EmptySeq
  <2> QED BY <1>2, <1>8, <2>1
<1>9. CASE n # 0
  BY <1>2, <1>7, <1>9 DEF T
<1> QED BY <1>8, <1>9

LEMMA FlattenGrows ==
  ASSUME NEW S, NEW parts \in Seq(Seq(S)), NEW part \in Seq(S)
  PROVE  FlattenSeq(Append(parts, part)) = FlattenSeq(parts) \o part
<1>0. PICK n \in Nat : n = Len(parts)
  OBVIOUS
<1>1. PICK more : n = Len(parts) /\ more = Append(parts, part)
  BY <1>0
<1>2. /\ Len(more) = n + 1 /\ more[n + 1] = part /\ \A i \in 1..n : parts[i] = more[i]
  BY <1>1
<1>3. PICK f : Ends(f, parts, n) /\ FlattenSeq(parts) = IF n = 0 THEN parts ELSE f[n]
  BY <1>1, Flattens
<1>4. PICK g : Ends(g, more, n + 1) /\ FlattenSeq(more) = IF n + 1 = 0 THEN more ELSE g[n + 1]
  <2>1. n + 1 \in Nat /\ n + 1 = Len(more)
    BY <1>2
  <2> QED BY <2>1, Flattens
<1>5. g[n + 1] = IF n + 1 = 1 THEN more[n + 1] ELSE g[(n + 1) - 1] \o more[n + 1]
  <2>1. \A i \in 1..(n + 1) : g[i] = IF i = 1 THEN more[i] ELSE g[i - 1] \o more[i]
    BY <1>4 DEF Ends
  <2>2. n + 1 \in 1..(n + 1)
    OBVIOUS
  <2> QED BY <2>1, <2>2
<1>6. CASE n = 0
  <2>1. parts = <<>>
    BY <1>1, <1>6, EmptySeq
  <2>2. FlattenSeq(more) = part /\ FlattenSeq(parts) = <<>>
    BY <1>2, <1>3, <1>4, <1>5, <1>6, <2>1
  <2> QED BY <1>1, <2>2, ConcatEmptySeq
<1>7. CASE n # 0
  <2>1. n \in 1..n /\ (n + 1) - 1 = n /\ n + 1 # 1 /\ n + 1 # 0 /\ n <= n + 1 /\ n + 1 \in Nat
    BY <1>7
  <2>2. f[n] = g[n]
    BY <1>2, <1>3, <1>4, <2>1, EndsAgree
  <2>3. FlattenSeq(more) = g[n] \o part
    BY <1>2, <1>4, <1>5, <2>1
  <2> QED BY <1>1, <1>3, <1>7, <2>2, <2>3
<1> QED BY <1>6, <1>7

-----------------------------------------------------------------------------
(* The invariant of a run *)

Ids == {NoId} \cup {b.id : b \in UseBlocks}
Result == [kind : {"result"}, id : Ids, ok : BOOLEAN]
Records == {Record(b, ok) : b \in Blocks, ok \in BOOLEAN}
Messages == [role : {"user", "assistant"}, content : Seq(Blocks \cup Result)]

Runs == [phase : {"asking", "thinking", "acting"} \cup Stopped, turns : Nat, messages : Seq(Messages),
         pending : Seq(Blocks), results : Seq(Result), records : Seq(Records), seen : SUBSET Ids,
         executed : Seq(Ids), answers : Nat]

\* How far the run is: messages come in pairs after the question.
Placed ==
  /\ run.phase \in {"asking", "thinking", "provider_failure"} =>
       Len(run.messages) = 2 * run.answers + 1 /\ run.turns = run.answers + 1
  /\ run.phase \in {"acting", "completed"} =>
       Len(run.messages) = 2 * run.answers /\ run.turns = run.answers /\ run.answers > 0
  /\ run.phase = "turn_limit" =>
       Len(run.messages) = 2 * run.answers + 1 /\ run.turns = run.answers
  /\ run.phase # "acting" => run.results = <<>>
  /\ run.phase = "completed" => Calls(run.messages[Len(run.messages)].content) = <<>>

RolesAlternate ==
  \A i \in 1..Len(run.messages) : run.messages[i].role = (IF i % 2 = 1 THEN "user" ELSE "assistant")

RepliesAnswer ==
  \A i \in 1..Len(run.messages) :
    i % 2 = 0 /\ i < Len(run.messages) => AnswersOf(run.messages[i + 1]) = UsesOf(run.messages[i])

\* The calls of the last message: those answered so far, then those pending.
HalfAnswered ==
  run.phase = "acting" =>
    LET uses == Calls(run.messages[Len(run.messages)].content)
    IN /\ Len(run.results) + Len(run.pending) = Len(uses)
       /\ \A k \in 1..Len(run.results) : run.results[k].id = uses[k].id
       /\ \A k \in 1..Len(run.pending) : run.pending[k] = uses[Len(run.results) + k]

Recorded(records) == Each(LAMBDA r : Answers(r.id, r.ok), records)

\* What was recorded is what was given, and only an id not seen before was run.
RecordsAreReplies ==
  /\ Recorded(run.records) = Replies(run.messages) \o run.results
  /\ \A i \in 1..Len(run.records) : run.records[i].ok => run.records[i].id \in run.seen
  /\ \A i, j \in 1..Len(run.executed) : run.executed[i] = run.executed[j] => i = j
  /\ run.seen = {run.executed[i] : i \in 1..Len(run.executed)}

AgentInv ==
  run \in Runs /\ Placed /\ RolesAlternate /\ RepliesAnswer /\ HalfAnswered /\ RecordsAreReplies

-----------------------------------------------------------------------------
(* What messages hold *)

LEMMA BlocksHaveIds ==
  /\ \A b \in Blocks : b.id \in Ids
  /\ \A b \in Blocks, ok \in BOOLEAN :
       /\ Answers(b.id, ok) \in Result /\ Answers(b.id, ok).id = b.id
       /\ Record(b, ok) \in Records /\ Record(b, ok).id = b.id /\ Record(b, ok).ok = ok
<1>1. ASSUME NEW b \in Blocks PROVE b.id \in Ids
  <2>1. CASE b = Text
    BY <2>1 DEF Text, Ids
  <2>2. CASE b \in {Use(u) : u \in UseBlocks}
    <3>1. PICK u \in UseBlocks : b = Use(u)
      BY <2>2
    <3>2. b.id = u.id
      BY <3>1 DEF Use
    <3> QED BY <3>2 DEF Ids
  <2> QED BY <2>1, <2>2 DEF Blocks
<1> QED BY <1>1 DEF Answers, Result, Record, Records

LEMMA CallsAreTyped ==
  ASSUME NEW S, NEW content \in Seq(S)
  PROVE  Calls(content) \in Seq(S)
<1> DEFINE parts == [i \in DOMAIN content |-> IF IsUse(content[i]) THEN <<content[i]>> ELSE <<>>]
<1>1. DOMAIN content = 1..Len(content) /\ Len(content) \in Nat
  OBVIOUS
<1>2. \A i \in DOMAIN content : content[i] \in S
  OBVIOUS
<1>3. \A i \in DOMAIN content : (IF IsUse(content[i]) THEN <<content[i]>> ELSE <<>>) \in Seq(S)
  BY <1>2
<1>4. parts \in Seq(Seq(S))
  BY <1>1, <1>3, IsASeq
<1> HIDE DEF parts
<1>5. FlattenSeq(parts) \in Seq(S)
  BY <1>4, FlattenIsTyped
<1> QED BY <1>5 DEF parts, Calls

ReplyOf(messages, i) == IF i > 1 /\ messages[i].role = "user" THEN messages[i].content ELSE <<>>
AllReplies(messages) == [i \in 1..Len(messages) |-> ReplyOf(messages, i)]

LEMMA RepliesAreTyped ==
  ASSUME NEW messages \in Seq(Messages)
  PROVE  /\ Replies(messages) = FlattenSeq(AllReplies(messages))
         /\ AllReplies(messages) \in Seq(Seq(Blocks \cup Result))
         /\ Replies(messages) \in Seq(Blocks \cup Result)
<1>1. DOMAIN messages = 1..Len(messages) /\ Len(messages) \in Nat
  OBVIOUS
<1>2. Replies(messages) = FlattenSeq(AllReplies(messages))
  BY <1>1 DEF Replies, AllReplies, ReplyOf
<1>3. ASSUME NEW i \in 1..Len(messages) PROVE ReplyOf(messages, i) \in Seq(Blocks \cup Result)
  <2>1. messages[i] \in Messages
    OBVIOUS
  <2>2. messages[i].content \in Seq(Blocks \cup Result) /\ <<>> \in Seq(Blocks \cup Result)
    BY <2>1, EmptySeq DEF Messages
  <2> QED BY <2>2 DEF ReplyOf
<1>4. AllReplies(messages) \in Seq(Seq(Blocks \cup Result))
  BY <1>1, <1>3, IsASeq DEF AllReplies
<1> QED BY <1>2, <1>4, FlattenIsTyped

LEMMA RepliesGrow ==
  ASSUME NEW messages \in Seq(Messages), Len(messages) > 0, NEW m \in Messages
  PROVE  Replies(Append(messages, m)) = Replies(messages) \o (IF m.role = "user" THEN m.content ELSE <<>>)
<1>1. PICK n, more, part :
        /\ n = Len(messages) /\ more = Append(messages, m)
        /\ part = IF m.role = "user" THEN m.content ELSE <<>>
  OBVIOUS
<1>2. /\ n \in Nat /\ n > 0 /\ more \in Seq(Messages) /\ Len(more) = n + 1 /\ more[n + 1] = m
      /\ \A i \in 1..n : more[i] = messages[i]
  BY <1>1
<1>3. part \in Seq(Blocks \cup Result)
  BY <1>1, EmptySeq DEF Messages
<1>4. AllReplies(messages) \in Seq(Seq(Blocks \cup Result)) /\ AllReplies(more) \in Seq(Seq(Blocks \cup Result))
  BY <1>2, RepliesAreTyped
<1>5. AllReplies(more) = Append(AllReplies(messages), part)
  <2> DEFINE new == AllReplies(more)
             old == AllReplies(messages)
  <2>1. Len(old) = n /\ Len(new) = n + 1 /\ old \in Seq(Seq(Blocks \cup Result)) /\ new \in Seq(Seq(Blocks \cup Result))
    BY <1>1, <1>2, <1>4 DEF AllReplies
  <2>2. \A i \in 1..n : new[i] = old[i]
    BY <1>1, <1>2 DEF AllReplies, ReplyOf
  <2>3. new[n + 1] = part
    BY <1>1, <1>2 DEF AllReplies, ReplyOf
  <2> HIDE DEF new, old
  <2>4. /\ Append(old, part) \in Seq(Seq(Blocks \cup Result)) /\ Len(Append(old, part)) = n + 1
        /\ \A i \in 1..n : Append(old, part)[i] = old[i]
        /\ Append(old, part)[n + 1] = part
    BY <1>3, <2>1, AppendProperties
  <2>5. \A i \in 1..(n + 1) : i \in 1..n \/ i = n + 1
    BY <1>2
  <2>6. \A i \in 1..(n + 1) : new[i] = Append(old, part)[i]
    BY <2>2, <2>3, <2>4, <2>5
  <2>7. new = Append(old, part)
    BY <2>1, <2>4, <2>6, SeqEqual
  <2> QED BY <2>7 DEF new, old
<1>6. FlattenSeq(AllReplies(more)) = FlattenSeq(AllReplies(messages)) \o part
  BY <1>3, <1>4, <1>5, FlattenGrows
<1> QED BY <1>1, <1>2, <1>6, RepliesAreTyped

LEMMA RecordedGrows ==
  ASSUME NEW records \in Seq(Records), NEW b \in Blocks, NEW ok \in BOOLEAN
  PROVE  /\ Recorded(records) \in Seq(Result)
         /\ Recorded(Append(records, Record(b, ok))) = Append(Recorded(records), Answers(b.id, ok))
<1>1. PICK r, a : r = Record(b, ok) /\ a = Answers(b.id, ok)
  OBVIOUS
<1>2. r \in Records /\ a \in Result /\ Answers(r.id, r.ok) = a
  BY <1>1, BlocksHaveIds
<1>3. PICK n, more : n = Len(records) /\ more = Append(records, r)
  OBVIOUS
<1>4. /\ n \in Nat /\ more \in Seq(Records) /\ Len(more) = n + 1 /\ more[n + 1] = r
      /\ \A i \in 1..n : more[i] = records[i]
      /\ DOMAIN records = 1..n /\ DOMAIN more = 1..(n + 1)
  BY <1>2, <1>3
<1> DEFINE old == Recorded(records)
           new == Recorded(more)
<1>5. /\ old = [i \in 1..n |-> Answers(records[i].id, records[i].ok)]
      /\ new = [i \in 1..(n + 1) |-> Answers(more[i].id, more[i].ok)]
  BY <1>4 DEF Recorded, Each
<1>6. ASSUME NEW q \in Records PROVE Answers(q.id, q.ok) \in Result
  <2>1. PICK c \in Blocks, k \in BOOLEAN : q = Record(c, k)
    BY DEF Records
  <2>2. q.id = c.id /\ q.ok = k
    BY <2>1, BlocksHaveIds
  <2> QED BY <2>2, BlocksHaveIds
<1>7. \A i \in 1..n : records[i] \in Records
  BY <1>3
<1>8. \A i \in 1..(n + 1) : more[i] \in Records
  BY <1>4
<1> HIDE DEF old, new
<1>9. old \in Seq(Result) /\ new \in Seq(Result) /\ Len(old) = n /\ Len(new) = n + 1
  <2>1. \A i \in 1..n : Answers(records[i].id, records[i].ok) \in Result
    BY <1>6, <1>7
  <2>2. \A i \in 1..(n + 1) : Answers(more[i].id, more[i].ok) \in Result
    BY <1>6, <1>8
  <2>3. n + 1 \in Nat
    BY <1>4
  <2>4. old \in Seq(Result) /\ new \in Seq(Result)
    BY <1>4, <1>5, <2>1, <2>2, <2>3, IsASeq
  <2> QED BY <1>4, <1>5, <2>3, <2>4, LenProperties
<1>10. /\ Append(old, a) \in Seq(Result) /\ Len(Append(old, a)) = n + 1
       /\ \A i \in 1..n : Append(old, a)[i] = old[i]
       /\ Append(old, a)[n + 1] = a
  BY <1>2, <1>9, AppendProperties
<1>11. ASSUME NEW i \in 1..(n + 1) PROVE new[i] = Append(old, a)[i]
  <2>1. CASE i \in 1..n
    BY <1>4, <1>5, <1>10, <2>1
  <2>2. CASE i = n + 1
    BY <1>2, <1>4, <1>5, <1>10, <2>2
  <2>3. i \in 1..n \/ i = n + 1
    BY <1>4
  <2> QED BY <2>1, <2>2, <2>3
<1>12. new = Append(old, a)
  BY <1>9, <1>10, <1>11, SeqEqual
<1> QED BY <1>1, <1>3, <1>9, <1>12 DEF old, new

-----------------------------------------------------------------------------
(* Each step keeps the invariant *)

LEMMA Parity ==
  ASSUME NEW a \in Nat
  PROVE  /\ (2 * a + 1) % 2 = 1 /\ (2 * a) % 2 = 0 /\ (2 * a + 1) + 1 = 2 * (a + 1)
         /\ (2 * a) \div 2 = a /\ (2 * a + 1) \div 2 = a
OBVIOUS

LEMMA RunStarts == RunInit => AgentInv
<1> SUFFICES ASSUME RunInit PROVE AgentInv
  OBVIOUS
<1> DEFINE first == Message("user", <<Text>>)
<1>1. first \in Messages /\ first.role = "user"
  <2>1. <<Text>> \in Seq(Blocks \cup Result)
    BY DEF Blocks
  <2> QED BY <2>1 DEF Message, Messages
<1> HIDE DEF first
<1>2. /\ run.phase = "asking" /\ run.turns = 1 /\ run.messages = <<first>> /\ run.pending = <<>>
      /\ run.results = <<>> /\ run.records = <<>> /\ run.seen = {} /\ run.executed = <<>> /\ run.answers = 0
      /\ run \in Runs
  <2>1. <<first>> \in Seq(Messages)
    BY <1>1
  <2>2. /\ <<>> \in Seq(Blocks) /\ <<>> \in Seq(Result) /\ <<>> \in Seq(Records) /\ <<>> \in Seq(Ids)
        /\ {} \in SUBSET Ids
    BY EmptySeq
  <2> QED BY <2>1, <2>2 DEF RunInit, first, Runs
<1>3. Len(run.messages) = 1 /\ run.messages[1] = first /\ Len(run.records) = 0 /\ Len(run.executed) = 0
  BY <1>2
<1>4. Placed /\ RolesAlternate /\ RepliesAnswer /\ HalfAnswered
  BY <1>1, <1>2, <1>3 DEF Placed, RolesAlternate, RepliesAnswer, HalfAnswered, Stopped
<1>5. Recorded(run.records) = <<>>
  <2>1. Recorded(run.records) \in Seq(Result)
    <3>1. run.records \in Seq(Records) /\ Text \in Blocks /\ TRUE \in BOOLEAN
      BY <1>2 DEF Runs, Blocks
    <3> QED BY <3>1, RecordedGrows
  <2>2. DOMAIN Recorded(run.records) = DOMAIN run.records
    BY DEF Recorded, Each
  <2>3. DOMAIN run.records = 1..0
    BY <1>2
  <2>4. Len(Recorded(run.records)) = 0
    BY <2>1, <2>2, <2>3, LenProperties
  <2> QED BY <2>1, <2>4, EmptySeq
<1>6. Replies(run.messages) = <<>>
  <2>1. run.messages \in Seq(Messages)
    BY <1>2 DEF Runs
  <2>2. AllReplies(run.messages) = <<<<>>>>
    BY <1>3 DEF AllReplies, ReplyOf
  <2>3. FlattenSeq(<<<<>>>>) = <<>>
    <3>1. <<>> \in Seq(Seq(Ids)) /\ <<>> \in Seq(Ids) /\ Append(<<>>, <<>>) = <<<<>>>>
      BY EmptySeq
    <3>2. FlattenSeq(<<>>) = <<>>
      BY DEF FlattenSeq
    <3>3. FlattenSeq(Append(<<>>, <<>>)) = FlattenSeq(<<>>) \o <<>>
      BY <3>1, FlattenGrows
    <3> QED BY <3>1, <3>2, <3>3
  <2> QED BY <2>1, <2>2, <2>3, RepliesAreTyped
<1>7. RecordsAreReplies
  <2>1. Replies(run.messages) \o run.results = <<>>
    BY <1>2, <1>6
  <2> QED BY <1>2, <1>3, <1>5, <2>1 DEF RecordsAreReplies
<1> QED BY <1>2, <1>4, <1>7 DEF AgentInv

\* A change of the phase that leaves the run where it is.
LEMMA PhaseKeeps ==
  ASSUME AgentInv, run.phase \in {"asking", "thinking"}, NEW phase \in {"thinking", "provider_failure"},
         run' = [run EXCEPT !.phase = phase]
  PROVE  AgentInv'
<1>1. run \in Runs /\ Placed /\ RolesAlternate /\ RepliesAnswer /\ RecordsAreReplies
  BY DEF AgentInv
<1>2. /\ run' \in Runs /\ run'.phase = phase /\ run'.turns = run.turns /\ run'.messages = run.messages
      /\ run'.results = run.results /\ run'.records = run.records /\ run'.seen = run.seen
      /\ run'.executed = run.executed /\ run'.answers = run.answers
  BY <1>1 DEF Runs, Stopped
<1>3. Placed'
  BY <1>1, <1>2 DEF Placed
<1>4. RolesAlternate' /\ RepliesAnswer' /\ RecordsAreReplies'
  <2>1. RolesAlternate'
    BY <1>1, <1>2 DEF RolesAlternate
  <2>2. RepliesAnswer'
    BY <1>1, <1>2 DEF RepliesAnswer
  <2>3. RecordsAreReplies'
    <3>1. Recorded(run'.records) = Replies(run'.messages) \o run'.results
      BY <1>1, <1>2 DEF RecordsAreReplies
    <3>2. /\ \A i \in 1..Len(run'.records) : run'.records[i].ok => run'.records[i].id \in run'.seen
          /\ \A i, j \in 1..Len(run'.executed) : run'.executed[i] = run'.executed[j] => i = j
          /\ run'.seen = {run'.executed[i] : i \in 1..Len(run'.executed)}
      BY <1>1, <1>2 DEF RecordsAreReplies
    <3> QED BY <3>1, <3>2 DEF RecordsAreReplies
  <2> QED BY <2>1, <2>2, <2>3
<1>5. HalfAnswered'
  BY <1>2 DEF HalfAnswered
<1> QED BY <1>2, <1>3, <1>4, <1>5 DEF AgentInv

\* A message more leaves those before it as they were.
LEMMA MessagesGrow ==
  ASSUME AgentInv, NEW m \in Messages, run'.messages = Append(run.messages, m),
         NEW n, n = Len(run.messages),
         m.role = (IF (n + 1) % 2 = 1 THEN "user" ELSE "assistant"),
         n % 2 = 0 /\ n > 0 => AnswersOf(m) = UsesOf(run.messages[n])
  PROVE  /\ RolesAlternate' /\ RepliesAnswer'
         /\ Len(run'.messages) = n + 1 /\ run'.messages[n + 1] = m
<1>1. run \in Runs /\ RolesAlternate /\ RepliesAnswer
  BY DEF AgentInv
<1>2. PICK old, new : n = Len(run.messages) /\ old = run.messages /\ new = run'.messages
  OBVIOUS
<1>3. /\ n \in Nat /\ Len(new) = n + 1 /\ new[n + 1] = m /\ \A i \in 1..n : new[i] = old[i]
      /\ \A i \in 1..(n + 1) : i \in 1..n \/ i = n + 1
  <2>1. old \in Seq(Messages)
    BY <1>1, <1>2 DEF Runs
  <2> QED BY <1>2, <2>1
<1>4. RolesAlternate'
  <2>1. ASSUME NEW i \in 1..(n + 1)
        PROVE  new[i].role = (IF i % 2 = 1 THEN "user" ELSE "assistant")
    <3>1. CASE i \in 1..n
      BY <1>1, <1>2, <1>3, <3>1 DEF RolesAlternate
    <3>2. CASE i = n + 1
      BY <1>2, <1>3, <3>2
    <3> QED BY <1>3, <3>1, <3>2
  <2> QED BY <1>2, <1>3, <2>1 DEF RolesAlternate
<1>5. RepliesAnswer'
  <2>1. ASSUME NEW i \in 1..(n + 1), i % 2 = 0, i < n + 1
        PROVE  AnswersOf(new[i + 1]) = UsesOf(new[i])
    <3>1. i \in 1..n /\ (i < n \/ i = n)
      BY <1>3, <2>1
    <3>2. CASE i < n
      <4>1. i + 1 \in 1..n
        BY <1>3, <3>1, <3>2
      <4>2. new[i + 1] = old[i + 1] /\ new[i] = old[i]
        BY <1>3, <3>1, <4>1
      <4>3. AnswersOf(old[i + 1]) = UsesOf(old[i])
        BY <1>1, <1>2, <2>1, <3>1, <3>2 DEF RepliesAnswer
      <4> QED BY <4>2, <4>3
    <3>3. CASE i = n
      <4>1. new[i + 1] = m /\ new[i] = old[n] /\ n > 0
        BY <1>3, <3>1, <3>3
      <4>2. AnswersOf(m) = UsesOf(old[n])
        BY <1>2, <2>1, <3>3, <4>1
      <4> QED BY <4>1, <4>2
    <3> QED BY <3>1, <3>2, <3>3
  <2>2. \A i \in 1..Len(new) : i % 2 = 0 /\ i < Len(new) => AnswersOf(new[i + 1]) = UsesOf(new[i])
    BY <1>3, <2>1
  <2> QED BY <1>2, <2>2 DEF RepliesAnswer
<1> QED BY <1>2, <1>3, <1>4, <1>5

LEMMA ModelAnswersKeeps ==
  ASSUME AgentInv, ModelAnswers
  PROVE  AgentInv'
<1>1. run \in Runs /\ Placed /\ RecordsAreReplies
  BY DEF AgentInv
<1>2. run.phase = "thinking"
  BY DEF ModelAnswers
<1>3. PICK content \in Contents :
        run' = [run EXCEPT !.phase = IF Calls(content) = <<>> THEN "completed" ELSE "acting",
                           !.messages = Append(@, Message("assistant", content)),
                           !.pending = Calls(content), !.results = <<>>,
                           !.answers = @ + 1]
  BY DEF ModelAnswers
<1>4. PICK m, uses : m = Message("assistant", content) /\ uses = Calls(content)
  OBVIOUS
<1>5. content \in Seq(Blocks)
  <2>1. PICK b \in Blocks, c \in Blocks : content = <<b>> \/ content = <<b, c>>
    BY DEF Contents
  <2>2. <<b>> \in Seq(Blocks) /\ <<b, c>> \in Seq(Blocks)
    OBVIOUS
  <2> QED BY <2>1, <2>2
<1>6. m \in Messages /\ m.role = "assistant" /\ m.content = content
  <2>1. content \in Seq(Blocks \cup Result)
    BY <1>5, SeqMonotonic
  <2> QED BY <1>4, <2>1 DEF Message, Messages
<1>7. uses \in Seq(Blocks)
  BY <1>4, <1>5, CallsAreTyped
<1>8. /\ run'.phase = (IF uses = <<>> THEN "completed" ELSE "acting")
      /\ run'.messages = Append(run.messages, m) /\ run'.pending = uses /\ run'.results = <<>>
      /\ run'.answers = run.answers + 1 /\ run'.turns = run.turns
      /\ run'.records = run.records /\ run'.seen = run.seen /\ run'.executed = run.executed
  BY <1>1, <1>3, <1>4 DEF Runs
<1>9. run' \in Runs
  <2>1. Append(run.messages, m) \in Seq(Messages) /\ run.answers + 1 \in Nat /\ <<>> \in Seq(Result)
    BY <1>1, <1>6 DEF Runs
  <2>2. (IF uses = <<>> THEN "completed" ELSE "acting") \in {"asking", "thinking", "acting"} \cup Stopped
    BY DEF Stopped
  <2> QED BY <1>1, <1>3, <1>4, <1>7, <2>1, <2>2 DEF Runs
<1>10. PICK a, n : a = run.answers /\ n = Len(run.messages)
  OBVIOUS
<1>11. a \in Nat /\ n = 2 * a + 1 /\ run.turns = a + 1 /\ run.results = <<>>
  BY <1>1, <1>2, <1>10 DEF Runs, Placed
<1>12. n % 2 = 1 /\ (n + 1) % 2 = 0 /\ n + 1 = 2 * (a + 1) /\ n > 0 /\ n \in Nat
  BY <1>11, Parity
<1>13. /\ RolesAlternate' /\ RepliesAnswer'
       /\ Len(run'.messages) = n + 1 /\ run'.messages[n + 1] = m
  <2>1. m.role = (IF (n + 1) % 2 = 1 THEN "user" ELSE "assistant")
    BY <1>6, <1>12
  <2>2. n % 2 # 0
    BY <1>12
  <2> QED BY <1>6, <1>8, <1>10, <2>1, <2>2, MessagesGrow
<1>14. Placed'
  <2>1. Calls(run'.messages[Len(run'.messages)].content) = uses
    BY <1>4, <1>6, <1>13
  <2>2. run'.answers = a + 1 /\ run'.turns = a + 1 /\ Len(run'.messages) = 2 * (a + 1) /\ a + 1 > 0
    <3>1. run'.answers = a + 1
      BY <1>8, <1>10
    <3>2. run'.turns = a + 1
      BY <1>8, <1>11
    <3>3. Len(run'.messages) = 2 * (a + 1)
      BY <1>12, <1>13
    <3>4. a + 1 > 0
      BY <1>11
    <3> QED BY <3>1, <3>2, <3>3, <3>4
  <2>3. run'.phase \in {"acting", "completed"} /\ run'.results = <<>> /\ (run'.phase = "completed" => uses = <<>>)
    BY <1>8
  <2>4. Len(run'.messages) = 2 * run'.answers /\ run'.turns = run'.answers /\ run'.answers > 0
    BY <2>2
  <2> QED BY <2>1, <2>3, <2>4 DEF Placed
<1>15. HalfAnswered'
  <2>1. Calls(run'.messages[Len(run'.messages)].content) = uses
    BY <1>4, <1>6, <1>13
  <2>2. Len(run'.results) = 0 /\ Len(uses) \in Nat
    BY <1>7, <1>8
  <2> QED BY <1>8, <2>1, <2>2 DEF HalfAnswered
<1>16. RecordsAreReplies'
  <2>1. run.messages \in Seq(Messages) /\ Replies(run.messages) \in Seq(Blocks \cup Result)
    BY <1>1, RepliesAreTyped DEF Runs
  <2>2. Replies(run'.messages) = Replies(run.messages) \o <<>>
    BY <1>6, <1>8, <1>10, <1>12, <2>1, RepliesGrow
  <2>3. Replies(run'.messages) = Replies(run.messages)
    BY <2>1, <2>2, ConcatEmptySeq
  <2> QED BY <1>1, <1>8, <1>11, <2>3 DEF RecordsAreReplies
<1> QED BY <1>9, <1>13, <1>14, <1>15, <1>16 DEF AgentInv

LEMMA ReturnResultsKeeps ==
  ASSUME AgentInv, ReturnResults
  PROVE  AgentInv'
<1>1. run \in Runs /\ Placed /\ HalfAnswered /\ RecordsAreReplies
  BY DEF AgentInv
<1>2. run.phase = "acting" /\ run.pending = <<>>
  BY DEF ReturnResults
<1>3. PICK m, last : m = Message("user", run.results) /\ last = (run.turns = MaxTurns)
  OBVIOUS
<1>4. /\ run'.phase = (IF run.turns = MaxTurns THEN "turn_limit" ELSE "asking")
      /\ run'.turns = (IF run.turns = MaxTurns THEN run.turns ELSE run.turns + 1)
      /\ run'.messages = Append(run.messages, m) /\ run'.results = <<>> /\ run'.pending = run.pending
      /\ run'.answers = run.answers /\ run'.records = run.records
      /\ run'.seen = run.seen /\ run'.executed = run.executed
  BY <1>1, <1>3 DEF ReturnResults, Runs
<1>5. m \in Messages /\ m.role = "user" /\ m.content = run.results
  <2>1. run.results \in Seq(Result)
    BY <1>1 DEF Runs
  <2>2. run.results \in Seq(Blocks \cup Result)
    BY <2>1, SeqMonotonic
  <2> QED BY <1>3, <2>2 DEF Message, Messages
<1>6. run' \in Runs
  <2>1. /\ Append(run.messages, m) \in Seq(Messages) /\ <<>> \in Seq(Result)
        /\ (IF run.turns = MaxTurns THEN run.turns ELSE run.turns + 1) \in Nat
    BY <1>1, <1>5 DEF Runs
  <2>2. (IF run.turns = MaxTurns THEN "turn_limit" ELSE "asking") \in {"asking", "thinking", "acting"} \cup Stopped
    BY DEF Stopped
  <2> QED BY <1>1, <1>3, <2>1, <2>2 DEF Runs, ReturnResults
<1>7. PICK a, n : a = run.answers /\ n = Len(run.messages)
  OBVIOUS
<1>8. a \in Nat /\ n = 2 * a /\ run.turns = a /\ a > 0 /\ run.turns \in Nat
  BY <1>1, <1>2, <1>7 DEF Runs, Placed
<1>9. n % 2 = 0 /\ (n + 1) % 2 = 1 /\ n > 0 /\ n \in Nat
  BY <1>8, Parity
<1>10. AnswersOf(m) = UsesOf(run.messages[n])
  <2>1. PICK uses : uses = Calls(run.messages[n].content)
    OBVIOUS
  <2>2. /\ Len(run.results) + Len(run.pending) = Len(uses)
        /\ \A k \in 1..Len(run.results) : run.results[k].id = uses[k].id
    BY <1>1, <1>2, <1>7, <2>1 DEF HalfAnswered
  <2>3. uses \in Seq(Blocks \cup Result)
    <3>1. run.messages[n] \in Messages
      BY <1>1, <1>7, <1>9 DEF Runs
    <3>2. run.messages[n].content \in Seq(Blocks \cup Result)
      BY <3>1 DEF Messages
    <3> QED BY <2>1, <3>2, CallsAreTyped
  <2>4. run.results \in Seq(Result) /\ Len(run.pending) = 0 /\ Len(run.results) \in Nat
    BY <1>1, <1>2 DEF Runs
  <2>5. Len(run.results) = Len(uses)
    BY <2>2, <2>3, <2>4
  <2>6. DOMAIN run.results = 1..Len(run.results) /\ DOMAIN uses = 1..Len(run.results)
    BY <2>3, <2>4, <2>5
  <2> QED BY <1>5, <2>1, <2>2, <2>6 DEF AnswersOf, UsesOf, Each
<1>11. /\ RolesAlternate' /\ RepliesAnswer'
       /\ Len(run'.messages) = n + 1 /\ run'.messages[n + 1] = m
  BY <1>4, <1>5, <1>7, <1>9, <1>10, MessagesGrow
<1>12. Placed'
  BY <1>4, <1>7, <1>8, <1>11 DEF Placed
<1>13. HalfAnswered'
  BY <1>4 DEF HalfAnswered
<1>14. RecordsAreReplies'
  <2>1. run.messages \in Seq(Messages) /\ run'.messages \in Seq(Messages)
    BY <1>1, <1>6 DEF Runs
  <2>2. Replies(run'.messages) = Replies(run.messages) \o run.results
    BY <1>4, <1>5, <1>7, <1>9, <2>1, RepliesGrow
  <2>3. Replies(run'.messages) \o <<>> = Replies(run'.messages)
    BY <2>1, RepliesAreTyped, ConcatEmptySeq
  <2>4. Recorded(run'.records) = Replies(run'.messages) \o run'.results
    BY <1>1, <1>4, <2>2, <2>3 DEF RecordsAreReplies
  <2> QED BY <1>1, <1>4, <2>4 DEF RecordsAreReplies
<1> QED BY <1>6, <1>11, <1>12, <1>13, <1>14 DEF AgentInv

LEMMA ExecuteKeeps ==
  ASSUME AgentInv, Execute
  PROVE  AgentInv'
<1>1. run \in Runs /\ Placed /\ RolesAlternate /\ RepliesAnswer /\ HalfAnswered /\ RecordsAreReplies
  BY DEF AgentInv
<1>2. run.phase = "acting" /\ run.pending # <<>>
  BY DEF Execute
<1>3. PICK block, fresh : block = Head(run.pending) /\ fresh = MayExecute(block)
  OBVIOUS
<1>4. PICK ok \in IF MayExecute(block) THEN RegistryCall(block) ELSE {FALSE} :
        run' = [run EXCEPT !.pending = Tail(@),
                           !.seen = IF MayExecute(block) THEN @ \cup {block.id} ELSE @,
                           !.executed = IF MayExecute(block) THEN Append(@, block.id) ELSE @,
                           !.results = Append(@, Answers(block.id, ok)),
                           !.records = Append(@, Record(block, ok))]
  BY <1>3 DEF Execute
<1>5. ok \in BOOLEAN /\ (ok => MayExecute(block))
  BY DEF RegistryCall
<1>6. /\ block \in Blocks /\ block = run.pending[1] /\ Tail(run.pending) \in Seq(Blocks)
      /\ Len(Tail(run.pending)) = Len(run.pending) - 1 /\ Len(run.pending) \in Nat /\ Len(run.pending) > 0
      /\ \A k \in 1..(Len(run.pending) - 1) : Tail(run.pending)[k] = run.pending[k + 1]
  <2>1. run.pending \in Seq(Blocks)
    BY <1>1 DEF Runs
  <2> QED BY <1>2, <1>3, <2>1
<1>7. /\ run'.phase = "acting" /\ run'.turns = run.turns /\ run'.messages = run.messages
      /\ run'.answers = run.answers /\ run'.pending = Tail(run.pending)
      /\ run'.results = Append(run.results, Answers(block.id, ok))
      /\ run'.records = Append(run.records, Record(block, ok))
      /\ run'.seen = (IF MayExecute(block) THEN run.seen \cup {block.id} ELSE run.seen)
      /\ run'.executed = (IF MayExecute(block) THEN Append(run.executed, block.id) ELSE run.executed)
  BY <1>1, <1>2, <1>4 DEF Runs
<1>8. PICK a, r : a = Answers(block.id, ok) /\ r = Record(block, ok)
  OBVIOUS
<1>9. a \in Result /\ a.id = block.id /\ r \in Records /\ r.id = block.id /\ r.ok = ok /\ block.id \in Ids
  BY <1>5, <1>6, <1>8, BlocksHaveIds
<1>10. /\ run.results \in Seq(Result) /\ run.records \in Seq(Records) /\ run.executed \in Seq(Ids)
       /\ run.seen \in SUBSET Ids /\ run.messages \in Seq(Messages)
  BY <1>1 DEF Runs
<1>11. run' \in Runs
  <2>1. /\ Append(run.results, a) \in Seq(Result) /\ Append(run.records, r) \in Seq(Records)
        /\ (IF MayExecute(block) THEN Append(run.executed, block.id) ELSE run.executed) \in Seq(Ids)
        /\ (IF MayExecute(block) THEN run.seen \cup {block.id} ELSE run.seen) \in SUBSET Ids
    BY <1>9, <1>10
  <2> QED BY <1>1, <1>4, <1>6, <1>8, <2>1 DEF Runs
<1>12. Placed' /\ RolesAlternate' /\ RepliesAnswer'
  BY <1>1, <1>2, <1>7 DEF Placed, RolesAlternate, RepliesAnswer
<1>13. HalfAnswered'
  <2>1. PICK uses, done, todo :
          /\ uses = Calls(run.messages[Len(run.messages)].content)
          /\ done = Len(run.results) /\ todo = Len(run.pending)
    OBVIOUS
  <2>2. /\ done + todo = Len(uses)
        /\ \A k \in 1..done : run.results[k].id = uses[k].id
        /\ \A k \in 1..todo : run.pending[k] = uses[done + k]
    BY <1>1, <1>2, <2>1 DEF HalfAnswered
  <2>3. done \in Nat /\ todo \in Nat /\ todo > 0
    BY <1>6, <1>10, <2>1
  <2>4. /\ Len(run'.results) = done + 1 /\ run'.results[done + 1] = a
        /\ \A k \in 1..done : run'.results[k] = run.results[k]
    BY <1>7, <1>8, <1>9, <1>10, <2>1, AppendProperties
  <2>5. Len(run'.pending) = todo - 1 /\ \A k \in 1..(todo - 1) : run'.pending[k] = run.pending[k + 1]
    BY <1>6, <1>7, <2>1
  <2>6. ASSUME NEW k \in 1..(done + 1) PROVE run'.results[k].id = uses[k].id
    <3>1. CASE k \in 1..done
      BY <2>2, <2>4, <3>1
    <3>2. CASE k = done + 1
      <4>1. 1 \in 1..todo /\ done + 1 = k
        BY <2>3, <3>2
      <4>2. uses[k] = block
        BY <1>6, <2>2, <4>1
      <4> QED BY <1>9, <2>4, <3>2, <4>2
    <3>3. k \in 1..done \/ k = done + 1
      BY <2>3
    <3> QED BY <3>1, <3>2, <3>3
  <2>7. ASSUME NEW k \in 1..(todo - 1) PROVE run'.pending[k] = uses[(done + 1) + k]
    <3>1. k + 1 \in 1..todo /\ done + (k + 1) = (done + 1) + k
      BY <2>3
    <3>2. run.pending[k + 1] = uses[done + (k + 1)]
      BY <2>2, <3>1
    <3> QED BY <2>5, <3>1, <3>2
  <2>8. (done + 1) + (todo - 1) = Len(uses)
    BY <2>2, <2>3
  <2>9. uses = Calls(run'.messages[Len(run'.messages)].content)
    BY <1>7, <2>1
  <2> QED BY <2>4, <2>5, <2>6, <2>7, <2>8, <2>9 DEF HalfAnswered
<1>14. Recorded(run'.records) = Replies(run'.messages) \o run'.results
  <2>1. Recorded(run'.records) = Append(Recorded(run.records), a) /\ Recorded(run.records) \in Seq(Result)
    BY <1>5, <1>6, <1>7, <1>8, <1>10, RecordedGrows
  <2>2. PICK given, all : given = Replies(run.messages) /\ all = run.results
    OBVIOUS
  <2>3. /\ given \in Seq(Blocks \cup Result) /\ all \in Seq(Blocks \cup Result) /\ a \in Blocks \cup Result
        /\ <<a>> \in Seq(Blocks \cup Result)
    BY <1>9, <1>10, <2>2, RepliesAreTyped, SeqMonotonic
  <2>4. Append(given \o all, a) = (given \o all) \o <<a>>
    BY <2>3, ConcatProperties, AppendIsConcat
  <2>5. (given \o all) \o <<a>> = given \o (all \o <<a>>)
    BY <2>3, ConcatAssociative
  <2>6. all \o <<a>> = Append(all, a)
    BY <2>3, AppendIsConcat
  <2>7. Recorded(run.records) = given \o all
    BY <1>1, <2>2 DEF RecordsAreReplies
  <2> QED BY <1>7, <1>8, <2>1, <2>2, <2>4, <2>5, <2>6, <2>7
<1>15. ASSUME NEW i \in 1..Len(run'.records), run'.records[i].ok PROVE run'.records[i].id \in run'.seen
  <2>1. PICK n : n = Len(run.records)
    OBVIOUS
  <2>2. /\ n \in Nat /\ Len(run'.records) = n + 1 /\ run'.records[n + 1] = r
        /\ \A k \in 1..n : run'.records[k] = run.records[k]
    BY <1>7, <1>8, <1>9, <1>10, <2>1, AppendProperties
  <2>3. CASE i \in 1..n
    BY <1>1, <1>7, <1>15, <2>1, <2>2, <2>3 DEF RecordsAreReplies
  <2>4. CASE i = n + 1
    BY <1>5, <1>7, <1>9, <1>15, <2>2, <2>4
  <2>5. i \in 1..n \/ i = n + 1
    BY <2>2
  <2> QED BY <2>3, <2>4, <2>5
<1>16. /\ \A i, j \in 1..Len(run'.executed) : run'.executed[i] = run'.executed[j] => i = j
       /\ run'.seen = {run'.executed[i] : i \in 1..Len(run'.executed)}
  <2>1. PICK n, old, new : n = Len(run.executed) /\ old = run.executed /\ new = run'.executed
    OBVIOUS
  <2>2. /\ \A i, j \in 1..n : old[i] = old[j] => i = j
        /\ run.seen = {old[i] : i \in 1..n}
    BY <1>1, <2>1 DEF RecordsAreReplies
  <2>3. CASE ~MayExecute(block)
    BY <1>7, <2>1, <2>2, <2>3
  <2>4. CASE MayExecute(block)
    <3>1. block.id \notin run.seen /\ new = Append(old, block.id) /\ run'.seen = run.seen \cup {block.id}
      BY <1>7, <2>1, <2>4 DEF MayExecute
    <3>2. /\ n \in Nat /\ Len(new) = n + 1 /\ new[n + 1] = block.id
          /\ \A k \in 1..n : new[k] = old[k]
      BY <1>9, <1>10, <2>1, <3>1, AppendProperties
    <3>3. \A k \in 1..(n + 1) : k \in 1..n \/ k = n + 1
      BY <3>2
    <3>4. 1..n \subseteq 1..(n + 1) /\ n + 1 \in 1..(n + 1)
      BY <3>2
    <3>5. \A k \in 1..n : new[k] # block.id
      BY <2>2, <3>1, <3>2
    <3>6. \A i, j \in 1..(n + 1) : new[i] = new[j] => i = j
      BY <2>2, <3>2, <3>3, <3>5
    <3>7. run'.seen = {new[i] : i \in 1..(n + 1)}
      <4>1. ASSUME NEW x \in run'.seen PROVE \E i \in 1..(n + 1) : x = new[i]
        BY <2>2, <3>1, <3>2, <3>4
      <4>2. ASSUME NEW i \in 1..(n + 1) PROVE new[i] \in run'.seen
        BY <2>2, <3>1, <3>2, <3>3
      <4> QED BY <4>1, <4>2
    <3> QED BY <2>1, <3>2, <3>6, <3>7
  <2> QED BY <2>3, <2>4
<1>17. RecordsAreReplies'
  BY <1>14, <1>15, <1>16 DEF RecordsAreReplies
<1> QED BY <1>11, <1>12, <1>13, <1>17 DEF AgentInv

-----------------------------------------------------------------------------
(* The invariant holds *)

LEMMA RunRests == AgentInv /\ UNCHANGED run => AgentInv'
<1> SUFFICES ASSUME AgentInv, UNCHANGED run PROVE AgentInv'
  OBVIOUS
<1>1. run' \in Runs /\ Placed'
  BY DEF AgentInv, Placed
<1>2. RolesAlternate' /\ RepliesAnswer'
  BY DEF AgentInv, RolesAlternate, RepliesAnswer
<1>3. HalfAnswered'
  BY DEF AgentInv, HalfAnswered
<1>4. RecordsAreReplies'
  BY DEF AgentInv, RecordsAreReplies
<1> QED BY <1>1, <1>2, <1>3, <1>4 DEF AgentInv

LEMMA RunSteps == AgentInv /\ [(RetryStep /\ UNCHANGED run) \/ AgentStep]_<<call, run>> => AgentInv'
<1> SUFFICES ASSUME AgentInv, [(RetryStep /\ UNCHANGED run) \/ AgentStep]_<<call, run>> PROVE AgentInv'
  OBVIOUS
<1>1. CASE AskModel
  BY <1>1, PhaseKeeps DEF AskModel
<1>2. CASE ProviderFails
  BY <1>2, PhaseKeeps DEF ProviderFails
<1>3. CASE ModelAnswers
  BY <1>3, ModelAnswersKeeps
<1>4. CASE Execute
  BY <1>4, ExecuteKeeps
<1>5. CASE ReturnResults
  BY <1>5, ReturnResultsKeeps
<1>6. CASE UNCHANGED run
  BY <1>6, RunRests
<1> QED BY <1>1, <1>2, <1>3, <1>4, <1>5, <1>6 DEF AgentStep

LEMMA AnsweredFollows == AgentInv => EveryCallAnsweredOnce
<1> SUFFICES ASSUME AgentInv PROVE EveryCallAnsweredOnce
  OBVIOUS
<1>1. run \in Runs /\ Placed /\ RolesAlternate /\ RepliesAnswer /\ RecordsAreReplies
  BY DEF AgentInv
<1>2. /\ run.messages \in Seq(Messages) /\ run.records \in Seq(Records) /\ run.executed \in Seq(Ids)
      /\ run.answers \in Nat /\ run.turns \in Nat
      /\ run.phase \in {"asking", "thinking", "acting", "completed", "provider_failure", "turn_limit"}
  BY <1>1 DEF Runs, Stopped
<1>3. /\ DOMAIN run.messages = 1..Len(run.messages) /\ Len(run.messages) \in Nat
      /\ DOMAIN run.records = 1..Len(run.records) /\ DOMAIN run.executed = 1..Len(run.executed)
  BY <1>2
<1>4. \A i \in DOMAIN run.messages :
       /\ run.messages[i].role = (IF i % 2 = 1 THEN "user" ELSE "assistant")
       /\ i % 2 = 0 /\ i < Len(run.messages) =>
            AnswersOf(run.messages[i + 1]) = UsesOf(run.messages[i])
  BY <1>1, <1>3 DEF RolesAlternate, RepliesAnswer
<1>5. run.phase \in {"asking", "thinking", "turn_limit", "provider_failure"} => Last(run.messages).role = "user"
  <2> SUFFICES ASSUME run.phase \in {"asking", "thinking", "turn_limit", "provider_failure"}
               PROVE  Last(run.messages).role = "user"
    OBVIOUS
  <2>1. Len(run.messages) = 2 * run.answers + 1
    BY <1>1 DEF Placed
  <2>2. Len(run.messages) % 2 = 1 /\ Len(run.messages) \in 1..Len(run.messages)
    BY <1>2, <2>1, Parity
  <2> QED BY <1>1, <2>2 DEF RolesAlternate, Last
<1>6. run.phase = "completed" => Calls(Last(run.messages).content) = <<>>
  BY <1>1 DEF Placed, Last
<1>7. /\ Each(LAMBDA r : Answers(r.id, r.ok), run.records) = Replies(run.messages) \o run.results
      /\ \A i, j \in DOMAIN run.executed : run.executed[i] = run.executed[j] => i = j
      /\ \A r \in ToSet(run.records) : r.ok => r.id \in ToSet(run.executed)
  BY <1>1, <1>3 DEF RecordsAreReplies, Recorded, ToSet
<1>8. run.answers = Len(run.messages) \div 2
  <2>1. Len(run.messages) = 2 * run.answers \/ Len(run.messages) = 2 * run.answers + 1
    BY <1>1, <1>2 DEF Placed
  <2> QED BY <1>2, <2>1, Parity
<1>9. run.phase \in Stopped => run.answers = run.turns - (IF run.phase = "provider_failure" THEN 1 ELSE 0)
  BY <1>1, <1>2 DEF Placed, Stopped
<1> QED BY <1>4, <1>5, <1>6, <1>7, <1>8, <1>9 DEF EveryCallAnsweredOnce

\* Whatever the model answers, in a run of any length and with any ids: roles
\* alternate, each reply answers the calls of the message before it in their
\* order, the records are the replies, and no id reaches a tool twice.
THEOREM CallsAreAnswered == AgentSpec => []EveryCallAnsweredOnce
<1> QED BY RunStarts, RunSteps, AnsweredFollows, PTL DEF AgentSpec

-----------------------------------------------------------------------------
(***************************************************************************)
(* Categorisers                                                             *)
(***************************************************************************)

Predictions == [label : Labels \cup {Abstain}, confidence : Confidences \cup {0}]

Batch == [phase : {"next", "asking"}, rule : Rules, last : Predictions, rows : Nat, ruleAnswers : Nat,
          escalations : Nat, calls : Nat, failures : Nat, rejected : Nat]

BatchInv == batch \in Batch /\ UsageAddsUp

LEMMA RulesArePredictions ==
  /\ Abstention \in Rules
  /\ Rules \subseteq Predictions
  BY DEF Rules, Abstention, Prediction, Predictions

LEMMA CountsGrow ==
  ASSUME batch \in Batch
  PROVE  /\ \A f \in {"rows", "ruleAnswers", "escalations", "calls", "failures", "rejected"} : batch[f] \in Nat
         /\ batch.rows + 1 \in Nat /\ batch.ruleAnswers + 1 \in Nat /\ batch.escalations + 1 \in Nat
         /\ batch.calls + 1 \in Nat /\ batch.failures + 1 \in Nat
         /\ \A more \in {0, 1} : batch.rejected + more \in Nat
  <1>1. \A f \in {"rows", "ruleAnswers", "escalations", "calls", "failures", "rejected"} : batch[f] \in Nat
    BY DEF Batch
  <1> QED BY <1>1

\* What the hybrid settles on is a prediction, and none only when the rules
\* had no word either.
LEMMA SettledIsAWord ==
  ASSUME batch \in Batch, NEW model \in Predictions
  PROVE  /\ Settled(model) \in Predictions
         /\ ~Abstained(batch.rule) => ~Abstained(Settled(model))
  <1>1. batch.rule \in Rules
    BY DEF Batch
  <1> QED BY <1>1, RulesArePredictions DEF Settled

LEMMA BatchStarts == BatchInit => BatchInv
  <1> SUFFICES ASSUME BatchInit PROVE BatchInv
    OBVIOUS
  <1>1. batch \in Batch
    BY RulesArePredictions DEF BatchInit, Batch
  <1>2. Abstention.label = Abstain
    BY DEF Abstention, Prediction
  <1> QED BY <1>1, <1>2 DEF BatchInit, BatchInv, UsageAddsUp, Abstained

LEMMA BatchRests == BatchInv /\ UNCHANGED batch => BatchInv'
  BY DEF BatchInv, UsageAddsUp

LEMMA BatchSteps == BatchInv /\ [(RetryStep /\ UNCHANGED batch) \/ BatchStep]_<<call, batch>> => BatchInv'
  <1> SUFFICES ASSUME BatchInv, [(RetryStep /\ UNCHANGED batch) \/ BatchStep]_<<call, batch>> PROVE BatchInv'
    OBVIOUS
  <1>1. batch \in Batch /\ UsageAddsUp
    BY DEF BatchInv
  <1>2. CASE RuleAnswers
    <2>1. PICK rule \in Rules :
            /\ ~Abstained(rule)
            /\ batch' = [batch EXCEPT !.rule = rule, !.last = rule, !.rows = @ + 1, !.ruleAnswers = @ + 1]
            /\ batch.phase = "next"
      BY <1>2 DEF RuleAnswers
    <2>2. rule \in Predictions
      BY RulesArePredictions
    <2>3. batch' \in Batch
      BY <1>1, <2>1, <2>2, CountsGrow DEF Batch
    <2>4. UsageAddsUp'
      BY <1>1, <2>1, <2>2 DEF Batch, Predictions, UsageAddsUp
    <2> QED BY <2>3, <2>4 DEF BatchInv
  <1>3. CASE Escalate
    <2>1. PICK rule \in Rules :
            /\ batch' = [batch EXCEPT !.phase = "asking", !.rule = rule, !.rows = @ + 1, !.escalations = @ + 1]
            /\ batch.phase = "next"
      BY <1>3 DEF Escalate
    <2>2. batch' \in Batch
      BY <1>1, <2>1, CountsGrow DEF Batch
    <2>3. UsageAddsUp'
      BY <1>1, <2>1 DEF Batch, Predictions, UsageAddsUp
    <2> QED BY <2>2, <2>3 DEF BatchInv
  <1>4. ASSUME NEW model \in Predictions, batch.phase = "asking",
               \/ batch' = [batch EXCEPT !.phase = "next", !.failures = @ + 1, !.last = Settled(model)]
               \/ \E more \in {0, 1} :
                    batch' = [batch EXCEPT !.phase = "next", !.calls = @ + 1, !.rejected = @ + more, !.last = Settled(model)]
        PROVE  BatchInv'
    <2>1. PICK settled : /\ settled = Settled(model)
                         /\ settled \in Predictions
                         /\ ~Abstained(batch.rule) => ~Abstained(settled)
      BY <1>1, SettledIsAWord
    <2>2. CASE batch' = [batch EXCEPT !.phase = "next", !.failures = @ + 1, !.last = settled]
      <3>1. batch' \in Batch
        BY <1>1, <2>1, <2>2, CountsGrow DEF Batch
      <3>2. UsageAddsUp'
        BY <1>1, <1>4, <2>1, <2>2 DEF Batch, Predictions, UsageAddsUp
      <3> QED BY <3>1, <3>2 DEF BatchInv
    <2>3. ASSUME NEW more \in {0, 1},
                 batch' = [batch EXCEPT !.phase = "next", !.calls = @ + 1, !.rejected = @ + more, !.last = settled]
          PROVE  BatchInv'
      <3>1. batch' \in Batch
        BY <1>1, <2>1, <2>3, CountsGrow DEF Batch
      <3>2. UsageAddsUp'
        BY <1>1, <1>4, <2>1, <2>3 DEF Batch, Predictions, UsageAddsUp
      <3> QED BY <3>1, <3>2 DEF BatchInv
    <2> QED BY <1>4, <2>1, <2>2, <2>3
  <1>5. CASE ModelFails
    <2>1. Abstention \in Predictions
      BY RulesArePredictions
    <2> QED BY <1>4, <1>5, <2>1 DEF ModelFails
  <1>6. CASE ModelAnswersRow
    <2>1. PICK label \in Labels \cup {Foreign}, confidence \in Confidences :
            batch' = [batch EXCEPT !.phase = "next", !.calls = @ + 1,
                                   !.rejected = IF Believed(label) THEN @ ELSE @ + 1,
                                   !.last = Settled(IF Believed(label) THEN Prediction(label, confidence)
                                                                       ELSE Abstention)]
      BY <1>6 DEF ModelAnswersRow
    <2>2. PICK model : model = IF Believed(label) THEN Prediction(label, confidence) ELSE Abstention
      OBVIOUS
    <2>3. model \in Predictions
      BY <2>2, RulesArePredictions DEF Believed, Prediction, Predictions
    <2>4. PICK more \in {0, 1} : more = IF Believed(label) THEN 0 ELSE 1
      OBVIOUS
    <2>5. batch.rejected + more = IF Believed(label) THEN batch.rejected ELSE batch.rejected + 1
      BY <1>1, <2>4, CountsGrow DEF Batch
    <2>6. batch' = [batch EXCEPT !.phase = "next", !.calls = @ + 1, !.rejected = @ + more, !.last = Settled(model)]
      BY <1>1, <2>1, <2>2, <2>5, CountsGrow DEF Batch
    <2> QED BY <1>4, <1>6, <2>3, <2>6 DEF ModelAnswersRow
  <1>7. CASE UNCHANGED batch
    BY <1>7, BatchRests
  <1> QED BY <1>2, <1>3, <1>5, <1>6, <1>7 DEF BatchStep

\* Whatever the API answers, a hybrid batch's rows are the rules' or
\* escalated, every escalation is one paid call or one failure, and no row
\* ends as an abstention on which a rule had a word.
THEOREM BatchesAddUp == BatchSpec => []UsageAddsUp
  <1>1. BatchInv => UsageAddsUp
    BY DEF BatchInv
  <1> QED BY <1>1, BatchStarts, BatchSteps, PTL DEF BatchSpec

-----------------------------------------------------------------------------
(* Both use the API through the loop *)

LEMMA ClientsUseTheLoop ==
  /\ (RetryStep /\ UNCHANGED run) \/ AgentStep \/ UNCHANGED <<call, run>> =>
       [BeginCall \/ RetryStep \/ EndCall]_call
  /\ (RetryStep /\ UNCHANGED batch) \/ BatchStep \/ UNCHANGED <<call, batch>> =>
       [BeginCall \/ RetryStep \/ EndCall]_call
<1>1. AgentStep => BeginCall \/ EndCall \/ UNCHANGED call
  BY DEF AgentStep, AskModel, ProviderFails, ModelAnswers, Execute, ReturnResults
<1>2. BatchStep => BeginCall \/ EndCall \/ UNCHANGED call
  BY DEF BatchStep, RuleAnswers, Escalate, ModelFails, ModelAnswersRow
<1> QED BY <1>1, <1>2

\* The agent and the batches call the API in no other way than the retry loop
\* allows: each refines RetrySpec, so what holds of every call holds of theirs.
THEOREM ClientsRefineTheLoop == (AgentSpec => RetrySpec) /\ (BatchSpec => RetrySpec)
<1>1. [(RetryStep /\ UNCHANGED run) \/ AgentStep]_<<call, run>> => [BeginCall \/ RetryStep \/ EndCall]_call
  BY ClientsUseTheLoop
<1>2. [(RetryStep /\ UNCHANGED batch) \/ BatchStep]_<<call, batch>> => [BeginCall \/ RetryStep \/ EndCall]_call
  BY ClientsUseTheLoop
<1> QED BY <1>1, <1>2, PTL DEF AgentSpec, BatchSpec, RetrySpec

-----------------------------------------------------------------------------
(* The score of a run *)

\* The elements that f takes to x.
Class(f, D, x) == {d \in D : f[d] = x}

\* A set that has as many as another of each class of the former's has as many
\* as that.
LEMMA Classwise ==
  ASSUME NEW P, IsFiniteSet(P), NEW Q, IsFiniteSet(Q), NEW f, NEW g,
         \A p \in P : Cardinality(Class(f, P, f[p])) <= Cardinality(Class(g, Q, f[p]))
  PROVE  Cardinality(P) <= Cardinality(Q)
<1> DEFINE Fits(s, r) == \A p \in s : Cardinality(Class(f, s, f[p])) <= Cardinality(Class(g, r, f[p]))
           T == {n \in Nat : \A s \in SUBSET P, r \in SUBSET Q :
                   Cardinality(s) = n /\ Fits(s, r) => n <= Cardinality(r)}
<1>1. \A s \in SUBSET P : IsFiniteSet(s) /\ Cardinality(s) \in Nat
  BY FS_Subset, FS_CardinalityType
<1>2. \A r \in SUBSET Q : IsFiniteSet(r) /\ Cardinality(r) \in Nat
  BY FS_Subset, FS_CardinalityType
<1>3. 0 \in T
  BY <1>2
<1>4. ASSUME NEW n \in Nat, n \in T PROVE n + 1 \in T
  <2> SUFFICES ASSUME NEW s \in SUBSET P, NEW r \in SUBSET Q, Cardinality(s) = n + 1, Fits(s, r)
               PROVE  n + 1 <= Cardinality(r)
    OBVIOUS
  <2>1. PICK x : x \in s
    <3>1. s # {}
      BY FS_EmptySet
    <3> QED BY <3>1
  <2>2. Class(f, s, f[x]) \in SUBSET P /\ Class(g, r, f[x]) \in SUBSET Q
    BY DEF Class
  <2>3. PICK y : y \in Class(g, r, f[x])
    <3>1. Cardinality(Class(f, s, f[x])) # 0
      <4>1. x \in Class(f, s, f[x])
        BY <2>1 DEF Class
      <4> QED BY <1>1, <2>2, <4>1, FS_EmptySet
    <3>2. Cardinality(Class(g, r, f[x])) # 0
      BY <1>1, <1>2, <2>1, <2>2, <3>1
    <3> QED BY <3>2, FS_EmptySet
  <2>4. y \in r /\ g[y] = f[x]
    BY <2>3 DEF Class
  <2> DEFINE s1 == s \ {x}
             r1 == r \ {y}
  <2>5. /\ s1 \in SUBSET P /\ Cardinality(s1) = n
        /\ r1 \in SUBSET Q /\ Cardinality(r1) = Cardinality(r) - 1
    <3>1. IsFiniteSet(s) /\ IsFiniteSet(r)
      BY <1>1, <1>2
    <3>2. Cardinality(s1) = Cardinality(s) - 1 /\ Cardinality(r1) = Cardinality(r) - 1
      BY <2>1, <2>4, <3>1, FS_RemoveElement
    <3> QED BY <3>2
  <2>6. Fits(s1, r1)
    <3> SUFFICES ASSUME NEW p \in s1
                 PROVE  Cardinality(Class(f, s1, f[p])) <= Cardinality(Class(g, r1, f[p]))
      OBVIOUS
    <3>1. Cardinality(Class(f, s, f[p])) <= Cardinality(Class(g, r, f[p]))
      OBVIOUS
    <3>2. CASE f[p] = f[x]
      <4>1. Class(f, s1, f[p]) = Class(f, s, f[p]) \ {x} /\ Class(g, r1, f[p]) = Class(g, r, f[p]) \ {y}
        BY DEF Class
      <4>2. x \in Class(f, s, f[p]) /\ y \in Class(g, r, f[p])
        BY <2>1, <2>4, <3>2 DEF Class
      <4>3. Class(f, s, f[p]) \in SUBSET P /\ Class(g, r, f[p]) \in SUBSET Q
        BY DEF Class
      <4>6. IsFiniteSet(Class(f, s, f[p])) /\ IsFiniteSet(Class(g, r, f[p]))
        BY <1>1, <1>2, <4>3
      <4>7. Cardinality(Class(f, s, f[p]) \ {x}) = Cardinality(Class(f, s, f[p])) - 1
        BY <4>2, <4>6, FS_RemoveElement
      <4>8. Cardinality(Class(g, r, f[p]) \ {y}) = Cardinality(Class(g, r, f[p])) - 1
        BY <4>2, <4>6, FS_RemoveElement
      <4>4. /\ Cardinality(Class(f, s1, f[p])) = Cardinality(Class(f, s, f[p])) - 1
            /\ Cardinality(Class(g, r1, f[p])) = Cardinality(Class(g, r, f[p])) - 1
        BY <4>1, <4>7, <4>8
      <4>5. Cardinality(Class(f, s, f[p])) \in Nat /\ Cardinality(Class(g, r, f[p])) \in Nat
        BY <1>1, <1>2, <4>3
      <4> QED BY <3>1, <4>4, <4>5
    <3>3. CASE f[p] # f[x]
      <4>1. Class(f, s1, f[p]) = Class(f, s, f[p]) /\ Class(g, r1, f[p]) = Class(g, r, f[p])
        BY <2>4, <3>3 DEF Class
      <4> QED BY <3>1, <4>1
    <3> QED BY <3>2, <3>3
  <2>7. n <= Cardinality(r1)
    <3> HIDE DEF s1, r1, Fits
    <3> QED BY <1>4, <2>5, <2>6
  <2> QED BY <1>2, <2>5, <2>7
<1>5. Cardinality(P) \in Nat /\ Fits(P, Q)
  BY <1>1
<1> HIDE DEF T, Fits
<1>6. Cardinality(P) \in T
  BY <1>3, <1>4, <1>5, NaturalInduction
<1> QED BY <1>5, <1>6 DEF T

-----------------------------------------------------------------------------
(* The calls in common *)

Pairs(e, a) ==
  {p \in ToSet(e) \X (1..Len(e)) : p[2] <= Least(Count(p[1], e), Count(p[1], a))}
Firsts(e, a) == [p \in Pairs(e, a) |-> p[1]]

LEMMA CountIsNatural ==
  ASSUME NEW S, NEW e \in Seq(S), NEW x
  PROVE  /\ Count(x, e) = Cardinality(Class(e, 1..Len(e), x))
         /\ Count(x, e) \in 0..Len(e)
         /\ IsFiniteSet(1..Len(e)) /\ Cardinality(1..Len(e)) = Len(e)
         /\ x \notin ToSet(e) => Count(x, e) = 0
<1>1. Len(e) \in Nat /\ DOMAIN e = 1..Len(e)
  OBVIOUS
<1>2. IsFiniteSet(1..Len(e)) /\ Cardinality(1..Len(e)) = Len(e)
  BY <1>1, FS_Interval
<1>3. Count(x, e) = Cardinality(Class(e, 1..Len(e), x))
  BY <1>1 DEF Count, Class
<1>4. Class(e, 1..Len(e), x) \in SUBSET (1..Len(e))
  BY DEF Class
<1>5. Cardinality(Class(e, 1..Len(e), x)) \in 0..Len(e)
  BY <1>1, <1>2, <1>4, FS_Subset, FS_CardinalityType
<1>6. x \notin ToSet(e) => Class(e, 1..Len(e), x) = {}
  BY <1>1 DEF ToSet, Class
<1> QED BY <1>2, <1>3, <1>5, <1>6, FS_EmptySet

\* Of each name there are as many pairs as the smaller of its counts.
LEMMA PairsOfName ==
  ASSUME NEW S, NEW e \in Seq(S), NEW R, NEW a \in Seq(R)
  PROVE  /\ IsFiniteSet(Pairs(e, a))
         /\ \A x : Cardinality(Class(Firsts(e, a), Pairs(e, a), x)) = Least(Count(x, e), Count(x, a))
<1>1. \A x : /\ Count(x, e) \in 0..Len(e) /\ Count(x, a) \in 0..Len(a)
             /\ x \notin ToSet(e) => Count(x, e) = 0
  BY CountIsNatural
<1>2. Len(e) \in Nat /\ Len(a) \in Nat /\ DOMAIN e = 1..Len(e)
  OBVIOUS
<1>3. IsFiniteSet(Pairs(e, a))
  <2>1. IsFiniteSet(1..Len(e))
    BY <1>2, FS_Interval
  <2>2. e \in Surjection(1..Len(e), ToSet(e))
    BY <1>2 DEF ToSet, Surjection
  <2>3. IsFiniteSet(ToSet(e))
    BY <2>1, <2>2, FS_Surjection
  <2>4. IsFiniteSet(ToSet(e) \X (1..Len(e)))
    BY <2>1, <2>3, FS_Product
  <2>5. Pairs(e, a) \in SUBSET (ToSet(e) \X (1..Len(e)))
    BY DEF Pairs
  <2> QED BY <2>4, <2>5, FS_Subset
<1>4. ASSUME NEW x
      PROVE  Cardinality(Class(Firsts(e, a), Pairs(e, a), x)) = Least(Count(x, e), Count(x, a))
  <2> DEFINE m == Least(Count(x, e), Count(x, a))
             C == Class(Firsts(e, a), Pairs(e, a), x)
  <2>1. m \in 0..Len(e) /\ (x \notin ToSet(e) => m = 0)
    BY <1>1 DEF Least
  <2>2. IsFiniteSet(1..m) /\ Cardinality(1..m) = m
    BY <2>1, FS_Interval
  <2>3. C = {p \in Pairs(e, a) : p[1] = x}
    BY DEF Class, Firsts
  <2>4. C = {<<x, k>> : k \in 1..m}
    <3>1. ASSUME NEW k \in 1..m PROVE <<x, k>> \in C
      <4>1. x \in ToSet(e) /\ k \in 1..Len(e) /\ k <= m
        BY <2>1
      <4>2. <<x, k>> \in Pairs(e, a)
        BY <4>1 DEF Pairs
      <4> QED BY <2>3, <4>2
    <3>2. ASSUME NEW p \in C PROVE p[2] \in 1..m /\ p = <<x, p[2]>>
      <4>1. p \in ToSet(e) \X (1..Len(e)) /\ p[2] <= Least(Count(p[1], e), Count(p[1], a)) /\ p[1] = x
        BY <2>3 DEF Pairs
      <4>2. p[2] <= m
        BY <4>1
      <4> HIDE DEF m
      <4> QED BY <2>1, <4>1, <4>2
    <3> HIDE DEF C, m
    <3> QED BY <3>1, <3>2
  <2> HIDE DEF m, C
  <2> DEFINE pairs == [k \in 1..m |-> <<x, k>>]
  <2>5. pairs \in Bijection(1..m, C)
    BY <2>4 DEF Bijection, Injection, Surjection, IsInjective
  <2>6. Cardinality(C) = Cardinality(1..m)
    BY <2>2, <2>5, FS_Bijection DEF ExistsBijection
  <2> QED BY <2>2, <2>6 DEF m, C
<1> QED BY <1>3, <1>4

LEMMA SharedIsPairs ==
  ASSUME NEW e, NEW a
  PROVE  Shared(e, a) = Cardinality(Pairs(e, a))
BY DEF Shared, Pairs

-----------------------------------------------------------------------------
(* The greedy matching *)

FirstTaken(expected, records, left) ==
  LET equal == EqualTo(expected, records, left)
  IN left \ {i \in equal : \A j \in equal : i <= j}

\* The function Unmatched recurs on, up to n expected calls.
Takes(f, records, n) ==
  f = [k \in 0..n |-> IF k = 0 THEN DOMAIN records ELSE FirstTaken(Gold[k], records, f[k - 1])]

LEMMA TakesExists ==
  ASSUME NEW records, NEW n \in Nat
  PROVE  \E f : Takes(f, records, n)
<1> DEFINE T == {k \in Nat : \E f : Takes(f, records, k)}
<1>1. 0 \in T
  <2> DEFINE f == [k \in 0..0 |-> DOMAIN records]
  <2>1. \A k \in 0..0 : k = 0
    OBVIOUS
  <2>2. f = [k \in 0..0 |-> IF k = 0 THEN DOMAIN records ELSE FirstTaken(Gold[k], records, f[k - 1])]
    BY <2>1
  <2>3. Takes(f, records, 0)
    BY <2>2 DEF Takes
  <2> QED BY <2>3
<1>2. ASSUME NEW k \in Nat, k \in T PROVE k + 1 \in T
  <2>1. PICK g : Takes(g, records, k)
    BY <1>2
  <2>2. \A i \in 0..k : g[i] = IF i = 0 THEN DOMAIN records ELSE FirstTaken(Gold[i], records, g[i - 1])
    BY <2>1 DEF Takes
  <2> DEFINE f == [i \in 0..(k + 1) |-> IF i = k + 1 THEN FirstTaken(Gold[i], records, g[k]) ELSE g[i]]
  <2>3. ASSUME NEW i \in 0..(k + 1)
        PROVE  f[i] = IF i = 0 THEN DOMAIN records ELSE FirstTaken(Gold[i], records, f[i - 1])
    <3>1. CASE i = 0
      BY <2>2, <3>1
    <3>2. CASE i # 0
      <4>1. i - 1 \in 0..k /\ i - 1 \in 0..(k + 1) /\ i - 1 # k + 1
        BY <3>2
      <4>2. f[i - 1] = g[i - 1]
        BY <4>1
      <4>3. f[i] = FirstTaken(Gold[i], records, g[i - 1])
        <5>1. CASE i = k + 1
          BY <5>1
        <5>2. CASE i # k + 1
          <6>1. i \in 0..k
            BY <5>2
          <6> QED BY <2>2, <3>2, <5>2, <6>1
        <5> QED BY <5>1, <5>2
      <4> HIDE DEF f
      <4> QED BY <3>2, <4>2, <4>3
    <3> QED BY <3>1, <3>2
  <2>4. Takes(f, records, k + 1)
    <3> DEFINE again == [i \in 0..(k + 1) |-> IF i = 0 THEN DOMAIN records ELSE FirstTaken(Gold[i], records, f[i - 1])]
    <3>1. f = again
      <4>1. DOMAIN f = 0..(k + 1)
        OBVIOUS
      <4>2. f = [i \in 0..(k + 1) |-> f[i]]
        OBVIOUS
      <4> HIDE DEF f
      <4> QED BY <2>3, <4>2
    <3> QED BY <3>1 DEF Takes
  <2> QED BY <2>4
<1> HIDE DEF T
<1>3. n \in T
  BY <1>1, <1>2, NaturalInduction
<1> QED BY <1>3 DEF T

LEMMA UnmatchedTakes ==
  ASSUME NEW records
  PROVE  Takes(Unmatched(records), records, Len(Gold))
<1>1. Len(Gold) \in Nat
  BY GoldIsATrace
<1>2. Unmatched(records) = CHOOSE f : Takes(f, records, Len(Gold))
  BY DEF Unmatched, Takes, FirstTaken
<1> QED BY <1>1, <1>2, TakesExists

\* Gold calls that found a call, and the call each took.
Matched(records) == {n \in 1..Len(Gold) : EqualTo(Gold[n], records, Unmatched(records)[n - 1]) # {}}
TakenBy(records) == [n \in Matched(records) |-> CHOOSE i \in DOMAIN records :
                       i \in Unmatched(records)[n - 1] /\ i \notin Unmatched(records)[n]]

\* Each gold call that found one took an equal call for itself, and one that
\* found none left no equal call over.
LEMMA MatchingIsMaximal ==
  ASSUME NEW R, NEW records \in Seq(R)
  PROVE  /\ TakenBy(records) \in Injection(Matched(records), 1..Len(records))
         /\ \A n \in Matched(records) : GoldCall(records[TakenBy(records)[n]]) = Gold[n]
         /\ \A n \in (1..Len(Gold)) \ Matched(records), i \in 1..Len(records) :
              GoldCall(records[i]) = Gold[n] => \E m \in Matched(records) : TakenBy(records)[m] = i
<1> DEFINE N == Len(Gold)
           D == DOMAIN records
           left == Unmatched(records)
           M == Matched(records)
           r == TakenBy(records)
<1>1. N \in Nat /\ D = 1..Len(records) /\ Len(records) \in Nat
  BY GoldIsATrace
<1>2. left[0] = D /\ \A n \in 1..N : left[n] = FirstTaken(Gold[n], records, left[n - 1])
  <2>1. \A n \in 0..N : left[n] = IF n = 0 THEN D ELSE FirstTaken(Gold[n], records, left[n - 1])
    BY UnmatchedTakes DEF Takes
  <2> HIDE DEF left, D, N
  <2>2. 0 \in 0..N /\ \A n \in 1..N : n \in 0..N /\ n # 0
    BY <1>1
  <2> QED BY <2>1, <2>2
<1>3. M = {n \in 1..N : EqualTo(Gold[n], records, left[n - 1]) # {}}
  BY DEF Matched
<1>4. r = [n \in M |-> CHOOSE i \in D : i \in left[n - 1] /\ i \notin left[n]]
  BY DEF TakenBy
<1> HIDE DEF left, M, r, N
<1>5. \A n \in 0..N : \A m \in 0..n : left[n] \subseteq left[m]
  <2> DEFINE T == {n \in Nat : n <= N => \A m \in 0..n : left[n] \subseteq left[m]}
  <2>1. 0 \in T
    OBVIOUS
  <2>2. ASSUME NEW n \in Nat, n \in T PROVE n + 1 \in T
    <3> SUFFICES ASSUME n + 1 <= N, NEW m \in 0..(n + 1) PROVE left[n + 1] \subseteq left[m]
      OBVIOUS
    <3>1. PICK k : k = n + 1 /\ k \in 1..N /\ k - 1 = n
      BY <1>1
    <3>2. left[k] \subseteq left[n]
      BY <1>2, <3>1 DEF FirstTaken
    <3>3. m \in 0..n => left[n] \subseteq left[m]
      BY <1>1, <2>2
    <3>4. m \in 0..n \/ m = k
      BY <3>1
    <3> QED BY <3>1, <3>2, <3>3, <3>4
  <2> HIDE DEF T
  <2>3. \A n \in Nat : n \in T
    BY <2>1, <2>2, NaturalInduction
  <2> QED BY <1>1, <2>3 DEF T
<1>6. \A n \in 0..N : left[n] \subseteq D
  BY <1>1, <1>2, <1>5
<1>7. ASSUME NEW n \in M
      PROVE  \E i \in left[n - 1] : /\ GoldCall(records[i]) = Gold[n]
                                   /\ \A j \in left[n - 1] : j \notin left[n] <=> j = i
  <2> DEFINE equal == EqualTo(Gold[n], records, left[n - 1])
  <2>1. n \in 1..N /\ n - 1 \in 0..N /\ equal # {}
    BY <1>1, <1>3
  <2>2. equal \in SUBSET D /\ equal \in SUBSET Nat /\ equal \subseteq left[n - 1]
    BY <1>1, <1>6, <2>1 DEF EqualTo
  <2>3. PICK i \in equal : \A j \in equal : i <= j
    BY <2>1, <2>2, LeastNatural
  <2>4. {k \in equal : \A j \in equal : k <= j} = {i}
    <3> HIDE DEF equal
    <3> QED BY <2>2, <2>3
  <2>5. left[n] = left[n - 1] \ {i}
    BY <1>2, <2>1, <2>4 DEF FirstTaken
  <2>6. i \in left[n - 1] /\ GoldCall(records[i]) = Gold[n]
    BY <2>3 DEF EqualTo
  <2> HIDE DEF equal
  <2> QED BY <2>5, <2>6
<1>8. ASSUME NEW n \in M
      PROVE  /\ r[n] \in D /\ r[n] \in left[n - 1] /\ r[n] \notin left[n]
             /\ GoldCall(records[r[n]]) = Gold[n]
             /\ \A j \in left[n - 1] : j \notin left[n] => j = r[n]
  <2>1. PICK i \in left[n - 1] : /\ GoldCall(records[i]) = Gold[n]
                                /\ \A j \in left[n - 1] : j \notin left[n] <=> j = i
    BY <1>7
  <2>2. n - 1 \in 0..N
    BY <1>1, <1>3
  <2>3. i \in D
    BY <1>6, <2>1, <2>2
  <2>4. r[n] = CHOOSE k \in D : k \in left[n - 1] /\ k \notin left[n]
    BY <1>4
  <2>5. r[n] \in D /\ r[n] \in left[n - 1] /\ r[n] \notin left[n]
    BY <2>1, <2>3, <2>4
  <2>6. r[n] = i
    BY <2>1, <2>5
  <2> QED BY <2>1, <2>5, <2>6
<1>9. ASSUME NEW a \in M, NEW b \in M, r[a] = r[b] PROVE a = b
  <2>1. a \in 1..N /\ b \in 1..N
    BY <1>3
  <2>2. ASSUME NEW c \in M, NEW d \in M, c < d PROVE r[c] # r[d]
    <3>1. c \in 0..(d - 1) /\ d - 1 \in 0..N
      BY <1>1, <1>3, <2>2
    <3>2. left[d - 1] \subseteq left[c]
      BY <1>5, <3>1
    <3> QED BY <1>8, <3>2
  <2> QED BY <1>1, <1>9, <2>1, <2>2
<1>10. r \in Injection(M, 1..Len(records))
  <2>1. DOMAIN r = M
    BY <1>4
  <2>2. \A n \in M : r[n] \in 1..Len(records)
    BY <1>1, <1>8
  <2>3. r \in [M -> 1..Len(records)]
    BY <1>4, <2>1, <2>2
  <2>4. IsInjective(r)
    BY <1>9, <2>1 DEF IsInjective
  <2> QED BY <2>3, <2>4 DEF Injection
<1>11. ASSUME NEW n \in (1..N) \ M, NEW i \in 1..Len(records), GoldCall(records[i]) = Gold[n]
       PROVE  \E m \in M : r[m] = i
  <2>1. i \notin left[n - 1]
    BY <1>3, <1>11 DEF EqualTo
  <2> DEFINE Gone == {k \in 0..N : i \notin left[k]}
  <2>2. n - 1 \in Gone
    BY <1>1, <2>1
  <2>3. PICK k \in Gone : \A l \in Gone : k <= l
    <3>1. Gone \in SUBSET Nat /\ Gone # {}
      BY <1>1, <2>2
    <3> HIDE DEF Gone
    <3> QED BY <3>1, LeastNatural
  <2>4. k # 0
    BY <1>1, <1>2
  <2>5. k \in 1..N /\ k - 1 \in 0..N /\ ~(k <= k - 1)
    BY <1>1, <2>4
  <2>6. i \in left[k - 1] /\ i \notin left[k]
    BY <2>3, <2>5
  <2>7. k \in M
    <3>1. left[k] = FirstTaken(Gold[k], records, left[k - 1])
      BY <1>2, <2>5
    <3>2. i \in EqualTo(Gold[k], records, left[k - 1])
      BY <2>6, <3>1 DEF FirstTaken
    <3> QED BY <1>3, <2>5, <3>2
  <2>8. r[k] = i
    BY <1>8, <2>6, <2>7
  <2> QED BY <2>7, <2>8
<1> QED BY <1>8, <1>10, <1>11 DEF N, M, r

-----------------------------------------------------------------------------
(* The score counts what is in common *)

LEMMA EachIsASequence ==
  ASSUME NEW S, NEW s \in Seq(S)
  PROVE  /\ Each(Tool, s) \in Seq({s[i].tool : i \in 1..Len(s)}) /\ Len(Each(Tool, s)) = Len(s)
         /\ \A i \in 1..Len(s) : Each(Tool, s)[i] = s[i].tool
         /\ Each(GoldCall, s) \in Seq({GoldCall(s[i]) : i \in 1..Len(s)}) /\ Len(Each(GoldCall, s)) = Len(s)
         /\ \A i \in 1..Len(s) : Each(GoldCall, s)[i] = GoldCall(s[i])
<1>1. DOMAIN s = 1..Len(s) /\ Len(s) \in Nat
  OBVIOUS
<1>2. Each(Tool, s) = [i \in 1..Len(s) |-> s[i].tool]
  BY <1>1 DEF Each, Tool
<1>3. Each(GoldCall, s) = [i \in 1..Len(s) |-> GoldCall(s[i])]
  BY <1>1 DEF Each
<1>4. /\ [i \in 1..Len(s) |-> s[i].tool] \in Seq({s[i].tool : i \in 1..Len(s)})
      /\ [i \in 1..Len(s) |-> GoldCall(s[i])] \in Seq({GoldCall(s[i]) : i \in 1..Len(s)})
  BY <1>1, IsASeq
<1> QED BY <1>1, <1>2, <1>3, <1>4, LenProperties

LEMMA MatchedIsFinite ==
  ASSUME NEW records
  PROVE  Matched(records) \in SUBSET (1..Len(Gold)) /\ IsFiniteSet(1..Len(Gold)) /\ IsFiniteSet(Matched(records))
<1>1. Len(Gold) \in Nat
  BY GoldIsATrace
<1>2. Matched(records) \in SUBSET (1..Len(Gold)) /\ IsFiniteSet(1..Len(Gold))
  BY <1>1, FS_Interval DEF Matched
<1> QED BY <1>2, FS_Subset

\* What takes things of a name for itself from those of the same name are at
\* most as many as those of that name, on either side.
LEMMA TakersAreFew ==
  ASSUME NEW A, IsFiniteSet(A), NEW B, IsFiniteSet(B), NEW M \in SUBSET A, NEW f, NEW g,
         NEW r \in Injection(M, B), \A n \in M : g[r[n]] = f[n], NEW x
  PROVE  /\ Cardinality(Class(f, M, x)) <= Cardinality(Class(f, A, x))
         /\ Cardinality(Class(f, M, x)) <= Cardinality(Class(g, B, x))
         /\ Cardinality(Class(f, M, x)) = Cardinality(Class(g, B, x)) \/
              \E i \in Class(g, B, x) : \A m \in M : r[m] # i
<1>1. /\ IsFiniteSet(Class(f, A, x)) /\ Class(f, M, x) \in SUBSET Class(f, A, x)
      /\ IsFiniteSet(Class(g, B, x))
  <2>1. Class(f, A, x) \in SUBSET A /\ Class(g, B, x) \in SUBSET B
    BY DEF Class
  <2>2. Class(f, M, x) \in SUBSET Class(f, A, x)
    BY DEF Class
  <2> QED BY <2>1, <2>2, FS_Subset
<1> DEFINE k == [n \in Class(f, M, x) |-> r[n]]
<1>2. r \in [M -> B] /\ \A m, n \in M : r[m] = r[n] => m = n
  BY DEF Injection, IsInjective
<1>3. k \in Injection(Class(f, M, x), Class(g, B, x))
  <2>1. \A n \in Class(f, M, x) : n \in M /\ r[n] \in Class(g, B, x)
    BY <1>2 DEF Class
  <2>2. \A m, n \in Class(f, M, x) : r[m] = r[n] => m = n
    BY <1>2, <2>1
  <2> QED BY <2>1, <2>2 DEF Injection, IsInjective
<1>4. k \in Surjection(Class(f, M, x), Class(g, B, x)) \/
        \E i \in Class(g, B, x) : \A m \in M : r[m] # i
  <2> SUFFICES ASSUME \A i \in Class(g, B, x) : \E m \in M : r[m] = i
               PROVE  k \in Surjection(Class(f, M, x), Class(g, B, x))
    OBVIOUS
  <2>1. ASSUME NEW i \in Class(g, B, x) PROVE \E n \in Class(f, M, x) : k[n] = i
    <3>1. PICK m \in M : r[m] = i
      OBVIOUS
    <3>2. m \in Class(f, M, x)
      BY <3>1 DEF Class
    <3> QED BY <3>1, <3>2
  <2>2. k \in [Class(f, M, x) -> Class(g, B, x)]
    BY <1>3 DEF Injection
  <2> HIDE DEF k
  <2> QED BY <2>1, <2>2 DEF Surjection
<1> HIDE DEF k
<1>5. Cardinality(Class(f, M, x)) <= Cardinality(Class(g, B, x))
      /\ (Cardinality(Class(f, M, x)) = Cardinality(Class(g, B, x))
           <=> k \in Surjection(Class(f, M, x), Class(g, B, x)))
  BY <1>1, <1>3, FS_Injection
<1> QED BY <1>1, <1>4, <1>5, FS_Subset

\* Of each call the matching finds as many as are both expected and made.
LEMMA MatchedOfCall ==
  ASSUME NEW R, NEW records \in Seq(R), NEW c
  PROVE  Cardinality(Class(Gold, Matched(records), c))
           = Least(Count(c, Gold), Count(c, Each(GoldCall, records)))
<1> DEFINE calls == Each(GoldCall, records)
           A == 1..Len(Gold)
           B == 1..Len(records)
           M == Matched(records)
           r == TakenBy(records)
<1>1. /\ Len(calls) = Len(records) /\ calls \in Seq({GoldCall(records[i]) : i \in 1..Len(records)})
      /\ \A i \in B : calls[i] = GoldCall(records[i])
  BY EachIsASequence
<1>2. /\ IsFiniteSet(B) /\ Count(c, calls) = Cardinality(Class(calls, B, c)) /\ Count(c, calls) \in Nat
      /\ IsFiniteSet(A) /\ Count(c, Gold) = Cardinality(Class(Gold, A, c)) /\ Count(c, Gold) \in Nat
  <2>1. /\ Count(c, calls) = Cardinality(Class(calls, B, c)) /\ Count(c, calls) \in 0..Len(calls)
        /\ IsFiniteSet(B)
    BY <1>1, CountIsNatural
  <2>2. /\ Count(c, Gold) = Cardinality(Class(Gold, A, c)) /\ Count(c, Gold) \in 0..Len(Gold)
        /\ IsFiniteSet(A)
    BY GoldIsATrace, CountIsNatural
  <2> QED BY <2>1, <2>2
<1>3. M \in SUBSET A
  BY MatchedIsFinite
<1>4. /\ r \in Injection(M, B) /\ \A n \in M : r[n] \in B /\ GoldCall(records[r[n]]) = Gold[n]
      /\ \A n \in A \ M, i \in B : GoldCall(records[i]) = Gold[n] => \E m \in M : r[m] = i
  BY MatchingIsMaximal DEF Injection
<1> HIDE DEF calls, M, r, A, B
<1>5. \A n \in M : calls[r[n]] = Gold[n]
  BY <1>1, <1>4
<1>6. /\ Cardinality(Class(Gold, M, c)) <= Cardinality(Class(Gold, A, c))
      /\ Cardinality(Class(Gold, M, c)) <= Cardinality(Class(calls, B, c))
      /\ Cardinality(Class(Gold, M, c)) = Cardinality(Class(calls, B, c)) \/
           \E i \in Class(calls, B, c) : \A m \in M : r[m] # i
  BY <1>2, <1>3, <1>4, <1>5, TakersAreFew
<1>7. (\E i \in Class(calls, B, c) : \A m \in M : r[m] # i) => Class(Gold, M, c) = Class(Gold, A, c)
  <2> SUFFICES ASSUME NEW i \in Class(calls, B, c), \A m \in M : r[m] # i, NEW n \in A, Gold[n] = c
               PROVE  n \in M
    BY <1>3 DEF Class
  <2>1. i \in B /\ GoldCall(records[i]) = Gold[n]
    BY <1>1 DEF Class
  <2> QED BY <1>4, <2>1
<1>8. Cardinality(Class(Gold, M, c)) = Least(Count(c, Gold), Count(c, calls))
  BY <1>2, <1>6, <1>7 DEF Least
<1> QED BY <1>8 DEF calls, M

\* score_trace's greedy loop finds all the exact calls there are, however the
\* run orders and repeats them.
LEMMA ExactIsShared ==
  ASSUME NEW R, NEW records \in Seq(R)
  PROVE  /\ ExactArguments(records) = Cardinality(Matched(records))
         /\ ExactArguments(records) = Shared(Gold, Each(GoldCall, records))
<1> DEFINE calls == Each(GoldCall, records)
           M == Matched(records)
           pairs == Pairs(Gold, calls)
           first == Firsts(Gold, calls)
<1>1. ExactArguments(records) = Cardinality(M)
  BY DEF ExactArguments, Matched
<1>2. IsFiniteSet(M)
  BY MatchedIsFinite
<1>3. IsFiniteSet(pairs) /\ \A x : Cardinality(Class(first, pairs, x)) = Least(Count(x, Gold), Count(x, calls))
  BY EachIsASequence, PairsOfName, GoldIsATrace
<1>4. \A x : Cardinality(Class(Gold, M, x)) = Least(Count(x, Gold), Count(x, calls))
  BY MatchedOfCall
<1>5. Shared(Gold, calls) = Cardinality(pairs)
  BY SharedIsPairs
<1>6. ASSUME NEW x PROVE Least(Count(x, Gold), Count(x, calls)) \in Nat
  <2>1. Count(x, Gold) \in Nat
    BY CountIsNatural, GoldIsATrace
  <2>2. Count(x, calls) \in Nat
    <3>1. calls \in Seq({GoldCall(records[i]) : i \in 1..Len(records)})
      BY EachIsASequence
    <3> HIDE DEF calls
    <3>2. Count(x, calls) \in 0..Len(calls)
      BY <3>1, CountIsNatural
    <3> QED BY <3>2
  <2> QED BY <2>1, <2>2 DEF Least
<1> HIDE DEF calls, M, pairs, first
<1>7. \A x : Cardinality(Class(Gold, M, x)) <= Cardinality(Class(first, pairs, x))
             /\ Cardinality(Class(first, pairs, x)) <= Cardinality(Class(Gold, M, x))
  BY <1>3, <1>4, <1>6
<1>8. Cardinality(M) <= Cardinality(pairs)
  BY <1>2, <1>3, <1>7, Classwise
<1>9. Cardinality(pairs) <= Cardinality(M)
  BY <1>2, <1>3, <1>7, Classwise
<1>10. Cardinality(M) \in Nat /\ Cardinality(pairs) \in Nat
  BY <1>2, <1>3, FS_CardinalityType
<1>11. Cardinality(M) = Cardinality(pairs)
  BY <1>8, <1>9, <1>10
<1> QED BY <1>1, <1>5, <1>11 DEF calls, M

\* Exact calls are correctly selected, and those are expected and made.
LEMMA SelectedIsBetween ==
  ASSUME NEW R, NEW records \in Seq(R)
  PROVE  /\ ExactArguments(records) <= CorrectlySelected(records)
         /\ CorrectlySelected(records) <= Len(Gold)
         /\ CorrectlySelected(records) <= Len(records)
<1> DEFINE names == Each(Tool, Gold)
           made == Each(Tool, records)
           A == 1..Len(Gold)
           B == 1..Len(records)
           M == Matched(records)
           r == TakenBy(records)
           pairs == Pairs(names, made)
           first == Firsts(names, made)
<1>1. /\ Len(names) = Len(Gold) /\ names \in Seq({Gold[i].tool : i \in A})
      /\ Len(made) = Len(records) /\ made \in Seq({records[i].tool : i \in B})
      /\ \A i \in A : names[i] = Gold[i].tool
      /\ \A i \in B : made[i] = records[i].tool
  BY EachIsASequence, GoldIsATrace
<1>2. /\ IsFiniteSet(A) /\ Cardinality(A) = Len(Gold)
      /\ \A x : Count(x, names) = Cardinality(Class(names, A, x)) /\ Count(x, names) \in Nat
  <2>1. \A x : /\ Count(x, names) = Cardinality(Class(names, A, x)) /\ Count(x, names) \in 0..Len(names)
               /\ IsFiniteSet(A) /\ Cardinality(A) = Len(Gold)
    BY <1>1, CountIsNatural
  <2> QED BY <2>1
<1>3. /\ IsFiniteSet(B) /\ Cardinality(B) = Len(records)
      /\ \A x : Count(x, made) = Cardinality(Class(made, B, x)) /\ Count(x, made) \in Nat
  <2>1. \A x : /\ Count(x, made) = Cardinality(Class(made, B, x)) /\ Count(x, made) \in 0..Len(made)
               /\ IsFiniteSet(B) /\ Cardinality(B) = Len(records)
    BY <1>1, CountIsNatural
  <2> QED BY <2>1
<1>4. IsFiniteSet(pairs) /\ \A x : Cardinality(Class(first, pairs, x)) = Least(Count(x, names), Count(x, made))
  BY <1>1, PairsOfName
<1>5. ExactArguments(records) = Cardinality(M) /\ CorrectlySelected(records) = Cardinality(pairs)
  BY ExactIsShared, SharedIsPairs DEF CorrectlySelected
<1>6. M \in SUBSET A /\ IsFiniteSet(M)
  BY MatchedIsFinite
<1>7. r \in Injection(M, B) /\ \A n \in M : r[n] \in B /\ GoldCall(records[r[n]]) = Gold[n]
  BY MatchingIsMaximal DEF Injection
<1> HIDE DEF names, made, A, B, M, r, pairs, first
<1>8. \A n \in M : made[r[n]] = names[n]
  <2> SUFFICES ASSUME NEW n \in M PROVE made[r[n]] = names[n]
    OBVIOUS
  <2>1. r[n] \in B /\ n \in A /\ GoldCall(records[r[n]]) = Gold[n]
    BY <1>6, <1>7
  <2>2. Gold[n].tool = records[r[n]].tool
    BY <2>1 DEF GoldCall
  <2> QED BY <1>1, <2>1, <2>2
<1>9. Cardinality(M) <= Cardinality(pairs)
  <2>1. ASSUME NEW x PROVE Cardinality(Class(names, M, x)) <= Cardinality(Class(first, pairs, x))
    <3>1. /\ Cardinality(Class(names, M, x)) <= Cardinality(Class(names, A, x))
          /\ Cardinality(Class(names, M, x)) <= Cardinality(Class(made, B, x))
      BY <1>2, <1>3, <1>6, <1>7, <1>8, TakersAreFew
    <3> QED BY <1>2, <1>3, <1>4, <3>1 DEF Least
  <2> QED BY <1>4, <1>6, <2>1, Classwise
<1>10. Cardinality(pairs) <= Cardinality(A)
  <2>1. ASSUME NEW x PROVE Cardinality(Class(first, pairs, x)) <= Cardinality(Class(names, A, x))
    BY <1>2, <1>3, <1>4 DEF Least
  <2> QED BY <1>2, <1>4, <2>1, Classwise
<1>11. Cardinality(pairs) <= Cardinality(B)
  <2>1. ASSUME NEW x PROVE Cardinality(Class(first, pairs, x)) <= Cardinality(Class(made, B, x))
    BY <1>2, <1>3, <1>4 DEF Least
  <2> QED BY <1>3, <1>4, <2>1, Classwise
<1> QED BY <1>2, <1>3, <1>5, <1>9, <1>10, <1>11 DEF A, B

\* The score of any run against any gold trace is a ratio of what happened.
LEMMA ScoresFollow == AgentInv => ScoresAreRatios
<1> SUFFICES ASSUME AgentInv PROVE ScoresAreRatios
  OBVIOUS
<1>1. run.records \in Seq(Records)
  BY DEF AgentInv, Runs
<1> QED BY <1>1, ExactIsShared, SelectedIsBetween DEF ScoresAreRatios

-----------------------------------------------------------------------------
(* One client or the other, as MCAgent composes them *)

LEMMA ComposedSteps ==
  [MCNext]_vars => /\ [BeginCall \/ RetryStep \/ EndCall]_call
                   /\ AgentStep \/ UNCHANGED run
                   /\ BatchStep \/ UNCHANGED batch
<1> SUFFICES ASSUME [MCNext]_vars
             PROVE  /\ [BeginCall \/ RetryStep \/ EndCall]_call
                    /\ AgentStep \/ UNCHANGED run
                    /\ BatchStep \/ UNCHANGED batch
  OBVIOUS
<1>1. CASE MCRetry
  BY <1>1 DEF MCRetry
<1>2. CASE MCAgentStep
  BY <1>2, ClientsUseTheLoop DEF MCAgentStep
<1>3. CASE MCBatchStep
  BY <1>3, ClientsUseTheLoop DEF MCBatchStep
<1>4. CASE UNCHANGED vars
  BY <1>4 DEF vars
<1> QED BY <1>1, <1>2, <1>3, <1>4 DEF MCNext

(* What a run and a batch report of themselves adds up: rows, paid calls    *)
(* and failures of a hybrid batch; and score_trace counts exact calls among *)
(* the correctly selected ones, those among the expected and among the made *)
(* ones, and its greedy loop loses no match that another order would find.  *)
THEOREM FiguresDoAddUp == MCSpec => []FiguresAddUp
<1> DEFINE Inv == AgentInv /\ BatchInv
<1>1. MCInit => Inv
  BY RunStarts, BatchStarts DEF MCInit
<1>2. Inv /\ [MCNext]_vars => Inv'
  <2> SUFFICES ASSUME AgentInv, BatchInv, [MCNext]_vars PROVE AgentInv' /\ BatchInv'
    OBVIOUS
  <2>1. AgentStep \/ UNCHANGED run
    BY ComposedSteps
  <2>2. BatchStep \/ UNCHANGED batch
    BY ComposedSteps
  <2>3. AgentInv'
    BY <2>1, RunSteps, RunRests
  <2>4. BatchInv'
    BY <2>2, BatchSteps, BatchRests
  <2> QED BY <2>3, <2>4
<1>3. Inv => FiguresAddUp
  BY ScoresFollow DEF BatchInv, FiguresAddUp
<1> HIDE DEF Inv
<1> QED BY <1>1, <1>2, <1>3, PTL DEF MCSpec

(* Composed with either client, the retry loop keeps its budget and the     *)
(* agent answers every call once.                                           *)
THEOREM ComposedClientsStand == MCSpec => [](RetriesKeepTheBudget /\ EveryCallAnsweredOnce)
<1> DEFINE Inv == RetryInv /\ AgentInv
<1>1. MCInit => Inv
  BY InitHolds, RunStarts DEF MCInit
<1>2. Inv /\ [MCNext]_vars => Inv'
  BY ComposedSteps, StepsHold, RunSteps, RunRests
<1>3. Inv => RetriesKeepTheBudget /\ EveryCallAnsweredOnce
  BY BudgetFollows, AnsweredFollows
<1> HIDE DEF Inv
<1> QED BY <1>1, <1>2, <1>3, PTL DEF MCSpec

=============================================================================
