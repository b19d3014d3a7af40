------------------------------ MODULE LlmRetry ------------------------------
(***************************************************************************)
(* One call of the model API: call_with_retry around a transport that      *)
(* answers, fails or never answers (infrastructure/llm/retry.py, errors.py *)
(* and transport.py).  Time is counted in ticks since the call began.      *)
(***************************************************************************)
EXTENDS Integers, Sequences

CONSTANTS
  MaxAttempts, BaseDelay, MaxDelay, Deadline,   \* RetryPolicy
  MaxHonoured,                                  \* MAX_HONOURED_RETRY_AFTER_S
  LongestAttempt,                               \* bound: the time one attempt takes
  Hints                                         \* waits a server may ask for

ASSUME PolicyIsValid ==
  /\ MaxAttempts \in Nat \ {0} /\ Deadline \in Nat \ {0}
  /\ BaseDelay \in Nat /\ MaxDelay \in Nat /\ BaseDelay <= MaxDelay
  /\ MaxHonoured \in Nat /\ LongestAttempt \in Nat /\ Hints \subseteq Nat

VARIABLE call  \* the call in progress: its phase, attempt, clock and log

-----------------------------------------------------------------------------
(* What one attempt can come back with *)

OK == 200
TooManyRequests == 429
OverloadedStatus == 529
NoAnswer == 0                \* a TransportError: timeout, reset, refused, DNS
CutShort == 1                \* http.client.IncompleteRead, which is no OSError
Statuses == {OK, 302, 400, 404, TooManyRequests, 500, OverloadedStatus, NoAnswer, CutShort}

\* A Retry-After header: unusable or missing, a wait, or an HTTP date without a zone.
NoHint == [kind |-> "none", wait |-> 0]
NaiveDate == [kind |-> "naive", wait |-> 0]
Headers == {NoHint, NaiveDate} \cup [kind : {"asks"}, wait : Hints]

Responses ==
  {r \in [status : Statuses, header : Headers, usable : BOOLEAN] :
      /\ r.header = NoHint \/ r.status = TooManyRequests
      /\ r.usable => r.status = OK}

(* parse_retry_after subtracts an aware "now" from the date it parsed: a    *)
(* date without a zone is naive, and the TypeError leaves classify_status. *)
Raises(r) == r.status = CutShort \/ r.header = NaiveDate

IsRetryable(r) ==
  /\ ~Raises(r)
  /\ r.status \in {NoAnswer, TooManyRequests} \/ r.status >= 500

Outcome(r) ==
  CASE Raises(r) -> "raised"
    [] IsRetryable(r) -> "retrying"
    [] r.usable -> "answered"
    [] OTHER -> "fatal"

-----------------------------------------------------------------------------
(* Delays *)

Least(a, b) == IF a < b THEN a ELSE b

\* delay_for: the server's wait wins; else full jitter under the doubled cap.
Delays(attempt, r) ==
  IF r.header.kind = "asks" THEN {Least(r.header.wait, MaxHonoured)}
  ELSE {delay \in 0 .. MaxDelay : delay <= BaseDelay * 2 ^ (attempt - 1)}

-----------------------------------------------------------------------------
(* The loop *)

Failed == {"fatal", "raised", "exhausted"}
Idle == [phase |-> "idle", attempt |-> 0, clock |-> 0, log |-> <<>>]
Attempt(at, took, r) == [at |-> at, took |-> took, response |-> r]
LastAttempt == call.log[Len(call.log)]

RetryInit == call = Idle

\* provider.classify / provider.respond builds its request and enters the loop.
BeginCall ==
  /\ call = Idle
  /\ call' = [phase |-> "sending", attempt |-> 1, clock |-> 0, log |-> <<>>]

\* The transport's timeout holds for each socket operation, and no code bounds
\* an attempt as a whole: LongestAttempt does, in the model.
Send ==
  /\ call.phase = "sending"
  /\ \E r \in Responses, took \in 0 .. LongestAttempt :
       call' = [call EXCEPT !.phase = Outcome(r),
                            !.clock = @ + took,
                            !.log = Append(@, Attempt(call.clock, took, r))]

\* Mutant: sleeps first and notices the deadline afterwards.
BackoffLate ==
  /\ call.phase = "retrying"
  /\ \E delay \in Delays(call.attempt, LastAttempt.response) :
       IF call.attempt = MaxAttempts \/ call.clock >= Deadline
         THEN call' = [call EXCEPT !.phase = "exhausted"]
         ELSE call' = [call EXCEPT !.phase = "sending",
                                   !.attempt = @ + 1,
                                   !.clock = @ + delay]

Backoff ==
  /\ call.phase = "retrying"
  /\ \E delay \in Delays(call.attempt, LastAttempt.response) :
       IF call.attempt = MaxAttempts \/ call.clock + delay >= Deadline
         THEN call' = [call EXCEPT !.phase = "exhausted"]
         ELSE call' = [call EXCEPT !.phase = "sending",
                                   !.attempt = @ + 1,
                                   !.clock = @ + delay]

\* The caller has taken the answer or the exception.
EndCall == call' = Idle

RetryStep == Send \/ Backoff

\* The loop by itself: whoever calls may begin and end a call at any time.
RetrySpec == RetryInit /\ [][BeginCall \/ RetryStep \/ EndCall]_call

-----------------------------------------------------------------------------
(* Properties *)

RetryTypeOK ==
  /\ call.phase \in {"idle", "sending", "retrying", "answered"} \cup Failed
  /\ call.attempt \in 0 .. MaxAttempts
  /\ call.clock \in Nat
  /\ call.log \in Seq([at : Nat, took : 0 .. LongestAttempt, response : Responses])

\* A retry starts inside the budget, after a failure worth retrying, and not
\* before the server asked for it (up to the cap); the loop gives up only when
\* the attempts are spent or the wait it owed would cross the deadline; and the
\* whole call is over within one attempt's time of the deadline (retry.py:
\* "The loop stops as soon as the next sleep would cross").
RetriesKeepTheBudget ==
  LET log == call.log IN
  /\ Len(log) <= MaxAttempts /\ call.clock < Deadline + LongestAttempt
  /\ \A i \in 2 .. Len(log) :
       LET before == log[i - 1]
           due == before.at + before.took
       IN /\ IsRetryable(before.response)
          /\ log[i].at < Deadline
          /\ log[i].at >= due + Least(before.response.header.wait, MaxHonoured)
          /\ log[i].at <= due + (IF before.response.header.kind = "asks" THEN MaxHonoured ELSE MaxDelay)
  /\ call.phase = "exhausted" =>
       \/ Len(log) = MaxAttempts
       \/ \E delay \in Delays(Len(log), LastAttempt.response) : call.clock + delay >= Deadline

=============================================================================
