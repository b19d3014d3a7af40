---------------------------- MODULE LoginLimiter ----------------------------
(***************************************************************************)
(* The fixed-window limiter in front of POST /v1/auth/token.  The handler   *)
(* is a plain `def`, so calls run on the threads of one pool and share one  *)
(* dictionary without a lock.  Under CPython 3.12 another thread may run    *)
(* at a call and at the backward jump of a loop and nowhere else: a step    *)
(* below is the code between two such points.                               *)
(***************************************************************************)
EXTENDS Integers, Sequences, FiniteSets

CONSTANTS
  Threads,      \* the pool's threads
  Spellings,    \* what a caller may write as an address
  Address,      \* spelling -> the address a user row is matched on
  MaxAttempts,  \* five in main.py
  Window,       \* fifteen minutes in main.py
  MaxTime,      \* bound: the last instant of the clock
  MaxCalls      \* bound: calls made in one behaviour

ASSUME LimiterAssumption ==
  /\ DOMAIN Address = Spellings
  /\ MaxAttempts \in Nat \ {0} /\ Window \in Nat \ {0}
  /\ MaxTime \in Nat /\ MaxCalls \in Nat

VARIABLES
  clock,        \* datetime.now(UTC)
  heap,         \* every _Window ever built, by identity
  windows,      \* self._windows: key -> identity of its _Window
  call,         \* thread -> the frame of its check()
  log,          \* the calls that returned or raised, in that order
  overlapped    \* history: two calls were once under way at the same time

limiterVars == <<clock, heap, windows, call, log, overlapped>>

Keys == {Address[s] : s \in Spellings}
NoWindow == 0
IdleCall == [pc |-> "idle", spelling |-> "", at |-> 0, size |-> 0,
             expired |-> {}, got |-> NoWindow]

Busy(t) == call[t].pc # "idle"

\* Mutant: keyed on the text the caller sent.
LimiterKeyAsTyped(spelling) == spelling

\* The key main.py passes: normalise_email, as the user table is matched.
LimiterKey(spelling) == Address[spelling]

\* Mutant: the closing instant still inside.
IsExpiredLate(id, at) == at > heap[id].startedAt + Window

\* `at >= window.started_at + self._window`: the closing instant is outside.
IsExpired(id, at) == at >= heap[id].startedAt + Window

ExpiredKeys(at) == {k \in DOMAIN windows : IsExpired(windows[k], at)}

LimiterInit ==
  /\ clock = 0
  /\ heap = <<>> /\ windows = <<>>
  /\ call = [t \in Threads |-> IdleCall]
  /\ log = <<>> /\ overlapped = FALSE

CallsMade == Len(log) + Cardinality({t \in Threads : Busy(t)})

ClockTicks ==
  /\ clock < MaxTime
  /\ clock' = clock + 1
  /\ UNCHANGED <<heap, windows, call, log, overlapped>>

\* check() is entered and reads the clock.
EnterCheck(t, spelling) ==
  /\ ~Busy(t) /\ CallsMade < MaxCalls
  /\ call' = [call EXCEPT ![t] = [IdleCall EXCEPT !.pc = "sweep",
                                   !.spelling = spelling, !.at = clock]]
  /\ overlapped' = (overlapped \/ \E other \in Threads : Busy(other))
  /\ UNCHANGED <<clock, heap, windows, log>>

Answer(t, verdict) ==
  /\ log' = Append(log, [spelling |-> call[t].spelling, at |-> call[t].at,
                         done |-> clock, verdict |-> verdict])
  /\ call' = [call EXCEPT ![t] = IdleCall]

\* The comprehension over items() starts: the iterator notes the size.
BeginSweep(t) ==
  /\ call[t].pc = "sweep"
  /\ call' = [call EXCEPT ![t].pc = "sweeping",
                          ![t].size = Cardinality(DOMAIN windows),
                          ![t].expired = ExpiredKeys(call[t].at)]
  /\ UNCHANGED <<clock, heap, windows, log, overlapped>>

\* It ends.  A dictionary of another size raises RuntimeError, a 500; else
\* an entry that was replaced meanwhile was seen before or after that.
EndSweep(t) ==
  /\ call[t].pc = "sweeping"
  /\ LET before == call[t].expired
         now    == ExpiredKeys(call[t].at)
     IN IF Cardinality(DOMAIN windows) # call[t].size
        THEN Answer(t, "error")
        ELSE \E seen \in SUBSET (before \cup now) :
               /\ before \cap now \subseteq seen
               /\ call' = [call EXCEPT ![t].expired = seen,
                             ![t].pc = IF seen = {} THEN "get" ELSE "delete"]
               /\ UNCHANGED log
  /\ UNCHANGED <<clock, heap, windows, overlapped>>

\* `del self._windows[key]`, one loop iteration; KeyError when another
\* thread's sweep was faster, a 500 too.
DeleteExpired(t) ==
  /\ call[t].pc = "delete"
  /\ \E key \in call[t].expired :
       IF key \in DOMAIN windows
       THEN /\ windows' = [k \in DOMAIN windows \ {key} |-> windows[k]]
            /\ call' = [call EXCEPT ![t].expired = @ \ {key},
                          ![t].pc = IF call[t].expired = {key} THEN "get" ELSE @]
            /\ UNCHANGED log
       ELSE Answer(t, "error") /\ UNCHANGED windows
  /\ UNCHANGED <<clock, heap, overlapped>>

\* self._windows.get(key)
GetWindow(t) ==
  /\ call[t].pc = "get"
  /\ LET key == LimiterKey(call[t].spelling)
     IN call' = [call EXCEPT ![t].pc = "count",
                   ![t].got = IF key \in DOMAIN windows THEN windows[key] ELSE NoWindow]
  /\ UNCHANGED <<clock, heap, windows, log, overlapped>>

NeedsNewWindow(t) ==
  call[t].got # NoWindow => IsExpired(call[t].got, call[t].at)

Verdict(count) == IF count <= MaxAttempts THEN "allowed" ELSE "refused"

\* A new _Window takes the key, whatever another thread put there meanwhile.
OpenWindow(t) ==
  /\ call[t].pc = "count" /\ NeedsNewWindow(t)
  /\ heap' = Append(heap, [startedAt |-> call[t].at, count |-> 1])
  /\ windows' = [k \in DOMAIN windows \cup {LimiterKey(call[t].spelling)} |->
                   IF k = LimiterKey(call[t].spelling) THEN Len(heap) + 1 ELSE windows[k]]
  /\ Answer(t, Verdict(1))
  /\ UNCHANGED <<clock, overlapped>>

\* The window found is used, even if another thread dropped it since.
CountCall(t) ==
  /\ call[t].pc = "count" /\ ~NeedsNewWindow(t)
  /\ heap' = [heap EXCEPT ![call[t].got].count = @ + 1]
  /\ Answer(t, Verdict(heap[call[t].got].count + 1))
  /\ UNCHANGED <<clock, windows, overlapped>>

CheckStep(t) ==
  \/ \E s \in Spellings : EnterCheck(t, s)
  \/ BeginSweep(t)
  \/ EndSweep(t)
  \/ DeleteExpired(t)
  \/ GetWindow(t)
  \/ OpenWindow(t)
  \/ CountCall(t)

LimiterNext == ClockTicks \/ \E t \in Threads : CheckStep(t)

LimiterSpec == LimiterInit /\ [][LimiterNext]_limiterVars

-----------------------------------------------------------------------------
LimiterTypeOK ==
  /\ clock \in 0..MaxTime
  /\ heap \in Seq([startedAt : 0..MaxTime, count : 1..MaxCalls])
  /\ DOMAIN windows \subseteq Keys
  /\ \A k \in DOMAIN windows : windows[k] \in 1..Len(heap)
  /\ call \in [Threads ->
       [pc : {"idle", "sweep", "sweeping", "delete", "get", "count"},
        spelling : Spellings \cup {""}, at : 0..MaxTime, size : 0..Cardinality(Keys),
        expired : SUBSET Keys, got : 0..Len(heap)]]
  /\ log \in Seq([spelling : Spellings, at : 0..MaxTime, done : 0..MaxTime,
                  verdict : {"allowed", "refused", "error"}])
  /\ overlapped \in BOOLEAN

\* The calls for one user row that were let through to the password check.
Admitted(addr) ==
  {i \in 1..Len(log) : Address[log[i].spelling] = addr /\ log[i].verdict = "allowed"}

\* Two windows meet in an interval of one window's length: the first holds
\* at most MaxAttempts - 1 of its calls there, since the one that opened it
\* lies a whole window before the second.
WithinBudget ==
  \A addr \in Keys : \A from \in 0..MaxTime :
    Cardinality({i \in Admitted(addr) : from <= log[i].at /\ log[i].at < from + Window})
      <= 2 * MaxAttempts - 1

\* rate_limit.py: as long as no two calls overlap, any interval as long as
\* the window admits at most the boundary burst its docstring accepts to
\* one user row, however the address is spelled; and no call fails.
SequentialBudget ==
  ~overlapped => WithinBudget /\ \A i \in 1..Len(log) : log[i].verdict # "error"

\* Nobody is locked out by a window that is over: a refusal, raced or not,
\* comes after MaxAttempts calls admitted within the last window's length.
NoFalseRefusal ==
  \A i \in 1..Len(log) :
    log[i].verdict = "refused" =>
      Cardinality({j \in Admitted(Address[log[i].spelling]) :
                     j < i /\ log[j].done > log[i].at - Window}) >= MaxAttempts

=============================================================================
