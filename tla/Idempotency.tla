------------------------------ MODULE Idempotency ------------------------------
(***************************************************************************)
(* The idempotency contract of POST /v1/comparisons over the in-memory     *)
(* store: one dictionary for the whole process, no lock.                   *)
(*                                                                         *)
(* run_comparison is a plain function, which FastAPI runs in a thread pool, *)
(* so two requests interleave between any two calls of the store; one call *)
(* is one dictionary operation and indivisible.  Every action below makes  *)
(* at most one of them.  The computed response depends on the body alone,  *)
(* so a response is named by the body it answers.                          *)
(***************************************************************************)
EXTENDS Naturals

CONSTANTS
    Requests,    \* handler threads: how many requests run at once
    Keys,        \* Idempotency-Key header values
    NoKey,       \* the header is absent
    Bodies,      \* request bodies that `fingerprint` tells apart
    TTL,         \* how long a claimed key is held (DEFAULT_TTL)
    MaxTime,     \* bound: the clock stops here
    Nothing      \* no record, no request, no answer

ASSUME TimeAssumption == TTL \in Nat \ {0} /\ MaxTime \in Nat
ASSUME NoKeyAssumption == NoKey \notin Keys

VARIABLES
    clock,       \* UTC now
    records,     \* _records: what the dictionary holds under each key
    pc,          \* the store call each request makes next
    req,         \* key, body and the `now` each handler read on entry
    seen,        \* the record each request got last
    answer,      \* the last answer each thread gave
    done,        \* history: claims answered 201 since the process started
    overlapped   \* history: keys two requests have used at the same time

vars == <<clock, records, pc, req, seen, answer, done, overlapped>>

Record == [fingerprint : Bodies, state : {"IN_FLIGHT", "COMPLETED"},
           created_at : Nat, response : Bodies \cup {Nothing}]
Request == [key : Keys \cup {NoKey}, body : Bodies, now : Nat]
Answer == [kind : {"created", "replayed", "conflict", "failed", "error", "lost"},
           response : Bodies \cup {Nothing}]

ASSUME NothingAssumption ==
    Nothing \notin Record /\ Nothing \notin Request /\ Nothing \notin Answer

----------------------------------------------------------------------------
Init ==
    /\ clock = 0
    /\ records    = [k \in Keys |-> Nothing]
    /\ pc         = [r \in Requests |-> "idle"]
    /\ req        = [r \in Requests |-> Nothing]
    /\ seen       = [r \in Requests |-> Nothing]
    /\ answer     = [r \in Requests |-> Nothing]
    /\ done       = {}
    /\ overlapped = {}

Tick ==
    /\ clock < MaxTime
    /\ clock' = clock + 1
    /\ UNCHANGED <<records, pc, req, seen, answer, done, overlapped>>

Goto(r, here, next) ==
    /\ pc[r] = here
    /\ pc' = [pc EXCEPT ![r] = next]

\* The handler returns or raises, and its thread is free again.
Respond(r, kind, response) ==
    /\ pc'     = [pc EXCEPT ![r] = "idle"]
    /\ req'    = [req EXCEPT ![r] = Nothing]
    /\ seen'   = [seen EXCEPT ![r] = Nothing]
    /\ answer' = [answer EXCEPT ![r] = [kind |-> kind, response |-> response]]
    /\ UNCHANGED <<clock, overlapped>>

Keyed(r) == req[r].key # NoKey

\* The handler reads the clock once, before the store is asked anything.
Arrive(r, k, b) ==
    /\ Goto(r, "idle", IF k = NoKey THEN "work" ELSE "get")
    /\ req'    = [req EXCEPT ![r] = [key |-> k, body |-> b, now |-> clock]]
    /\ answer' = [answer EXCEPT ![r] = Nothing]
    /\ overlapped' = overlapped \cup
                     {j \in Keys : j = k /\ \E q \in Requests : pc[q] # "idle" /\ req[q].key = k}
    /\ UNCHANGED <<clock, records, seen, done>>

----------------------------------------------------------------------------
(* IdempotencyService.begin *)

\* Mutants of Expired: never; one tick early.
ExpiresNever(record, now) == FALSE
ExpiresEarly(record, now) == now + 1 >= record.created_at + TTL

Expired(record, now) == now >= record.created_at + TTL

\* The first `get` decides: claim a free key, free an expired one, refuse, or
\* replay.
Get(r) ==
    LET k     == req[r].key
        found == records[k]
        live  == found # Nothing /\ ~Expired(found, req[r].now)
    IN
    \/ /\ Goto(r, "get", "claim")
       /\ found = Nothing
       /\ UNCHANGED <<clock, records, req, seen, answer, done, overlapped>>
    \/ /\ Goto(r, "get", "expire")
       /\ found # Nothing /\ ~live
       /\ UNCHANGED <<clock, records, req, seen, answer, done, overlapped>>
    \/ /\ pc[r] = "get"
       /\ live
       /\ found.fingerprint # req[r].body \/ found.state = "IN_FLIGHT"
       /\ Respond(r, "conflict", Nothing)
       /\ UNCHANGED <<records, done>>
    \/ /\ pc[r] = "get"
       /\ live
       /\ found.fingerprint = req[r].body /\ found.state = "COMPLETED"
       /\ Respond(r, "replayed", found.response)
       /\ UNCHANGED <<records, done>>

\* It deletes whatever is under the key by now.
Expire(r) ==
    /\ Goto(r, "expire", "claim")
    /\ records' = [records EXCEPT ![req[r].key] = Nothing]
    /\ UNCHANGED <<clock, req, seen, answer, done, overlapped>>

\* It puts its own record, over whatever is under the key by now.
Claim(r) ==
    /\ Goto(r, "claim", "work")
    /\ records' = [records EXCEPT ![req[r].key] =
                      [fingerprint |-> req[r].body, state |-> "IN_FLIGHT",
                       created_at |-> req[r].now, response |-> Nothing]]
    /\ UNCHANGED <<clock, req, seen, answer, done, overlapped>>

----------------------------------------------------------------------------
(* The comparison itself, then complete or abandon *)

\* The comparison is computed; without a key it is the answer.
Work(r) ==
    \/ /\ Goto(r, "work", "reread")
       /\ Keyed(r)
       /\ UNCHANGED <<clock, records, req, seen, answer, done, overlapped>>
    \/ /\ pc[r] = "work" /\ ~Keyed(r)
       /\ Respond(r, "created", req[r].body)
       /\ UNCHANGED <<records, done>>

\* Mutant of Fail: the key is kept until it expires.
FailKeepingKey(r) ==
    /\ pc[r] = "work"
    /\ Respond(r, "failed", Nothing)
    /\ UNCHANGED <<records, done>>

\* A ValidationError or any other exception: the key, if any, is abandoned.
Fail(r) ==
    /\ pc[r] = "work"
    /\ records' = [k \in Keys |-> IF k = req[r].key THEN Nothing ELSE records[k]]
    /\ Respond(r, "failed", Nothing)
    /\ UNCHANGED done

\* complete: get ...
Reread(r) ==
    LET found == records[req[r].key] IN
    \/ /\ pc[r] = "reread" /\ found = Nothing     \* KeyError
       /\ Respond(r, "error", Nothing)
       /\ UNCHANGED <<records, done>>
    \/ /\ Goto(r, "reread", "store")
       /\ found # Nothing
       /\ seen' = [seen EXCEPT ![r] = found]
       /\ UNCHANGED <<clock, records, req, answer, done, overlapped>>

\* ... and put: the record it got, completed with its own response.
Store(r) ==
    /\ pc[r] = "store"
    /\ records' = [records EXCEPT ![req[r].key] =
                      [seen[r] EXCEPT !.state = "COMPLETED", !.response = req[r].body]]
    /\ done' = done \cup {req[r]}
    /\ Respond(r, "created", req[r].body)

\* The process stops and starts again: the dictionary and the requests are gone.
Restart ==
    /\ records' = [k \in Keys |-> Nothing]
    /\ answer'  = [r \in Requests |-> IF pc[r] = "idle" THEN answer[r]
                                      ELSE [kind |-> "lost", response |-> Nothing]]
    /\ pc'      = [r \in Requests |-> "idle"]
    /\ req'     = [r \in Requests |-> Nothing]
    /\ seen'    = [r \in Requests |-> Nothing]
    /\ done'    = {} /\ overlapped' = {}
    /\ UNCHANGED clock

Step(r) ==
    \/ \E k \in Keys \cup {NoKey}, b \in Bodies : Arrive(r, k, b)
    \/ Get(r) \/ Expire(r) \/ Claim(r)
    \/ Work(r) \/ Fail(r) \/ Reread(r) \/ Store(r)

Next == Tick \/ Restart \/ \E r \in Requests : Step(r)

Spec == Init /\ [][Next]_vars

----------------------------------------------------------------------------
(* Properties *)

\* Every variable holds what the code can put there.
TypeOK ==
    /\ clock \in Nat
    /\ records \in [Keys -> Record \cup {Nothing}]
    /\ pc \in [Requests -> {"idle", "get", "expire", "claim", "work", "reread", "store"}]
    /\ req \in [Requests -> Request \cup {Nothing}]
    /\ seen \in [Requests -> Record \cup {Nothing}]
    /\ answer \in [Requests -> Answer \cup {Nothing}]
    /\ done \subseteq Request
    /\ overlapped \subseteq Keys

Holds(r, k) == pc[r] \in {"work", "reread", "store"} /\ req[r].key = k

\* A key in flight has a request that is still working under it and will
\* complete or abandon it, however requests raced, failed or expired: no
\* failure leaves a key refused until its TTL runs out (abandon's docstring).
NoOrphanedClaim ==
    \A k \in Keys :
        (records[k] # Nothing /\ records[k].state = "IN_FLIGHT") => \E r \in Requests : Holds(r, k)

Ends(r, kind) == pc[r] # "idle" /\ pc'[r] = "idle" /\ answer'[r].kind = kind

\* Clients that wait for an answer before they send their key again get the
\* work done once: no second 201 for a key before the first claim expired.
KeyWorksOnce ==
    [][\A r \in Requests :
        (Ends(r, "created") /\ Keyed(r) /\ req[r].key \notin overlapped) =>
            \A d \in done : d.key = req[r].key => req[r].now >= d.now + TTL]_vars

\* To such clients a replay is the answer an unexpired claim for the same key
\* and the same body was given, never one for other content.
ReplayIsOriginal ==
    [][\A r \in Requests :
        (Ends(r, "replayed") /\ req[r].key \notin overlapped) =>
            /\ answer'[r].response = req[r].body
            /\ \E d \in done : /\ d.key = req[r].key /\ d.body = req[r].body
                               /\ req[r].now < d.now + TTL]_vars

\* The same of every client: "same key + same body -> replay the original
\* response" (the contract at the head of idempotency.py).
ReplayMatchesBody ==
    [][\A r \in Requests : Ends(r, "replayed") => answer'[r].response = req[r].body]_vars
================================================================================
