--------------------------- MODULE IdempotencyProofs ---------------------------
(* For any number of threads, keys and bodies and any TTL: no key is left in   *)
(* flight without a request working under it, and clients that wait for an     *)
(* answer before they send a key again get what idempotency.py promises.       *)
EXTENDS Idempotency, TLAPS

\* A handler past its entry knows its request; one inside the guarded part has
\* a key; one about to store has the record it read.
Knows(r) ==
    /\ pc[r] # "idle" => req[r] \in Request
    /\ pc[r] \in {"get", "expire", "claim", "reread", "store"} => req[r].key \in Keys
    /\ pc[r] = "store" => seen[r] \in Record

IInv == TypeOK /\ (\A r \in Requests : Knows(r)) /\ NoOrphanedClaim

USE NothingAssumption, NoKeyAssumption

\* An idle service holds nothing.
LEMMA InitEstablishes == Init => IInv
BY DEF Init, IInv, TypeOK, Knows, NoOrphanedClaim

\* Arriving touches no record, and an idle thread held no key.
LEMMA ArriveKeeps ==
    ASSUME IInv, NEW r \in Requests, NEW k \in Keys \cup {NoKey}, NEW b \in Bodies,
           Arrive(r, k, b)
    PROVE  IInv'
<1> USE DEF IInv, Arrive, Goto
<1>1. TypeOK'
  BY DEF TypeOK, Request
<1>2. \A q \in Requests : Knows(q)'
  BY DEF Knows, TypeOK, Request
<1>3. NoOrphanedClaim'
  BY DEF NoOrphanedClaim, Holds, TypeOK
<1> QED BY <1>1, <1>2, <1>3

\* The first lookup changes no record and nobody who looks holds the key yet.
LEMMA GetKeeps == ASSUME IInv, NEW r \in Requests, Get(r) PROVE IInv'
<1> USE DEF IInv, Get, Goto, Respond
<1>1. TypeOK'
  BY DEF TypeOK, Answer, Knows, Record
<1>2. \A q \in Requests : Knows(q)'
  BY DEF Knows, TypeOK
<1>3. NoOrphanedClaim'
  BY DEF NoOrphanedClaim, Holds, TypeOK
<1> QED BY <1>1, <1>2, <1>3

\* Deleting a record cannot orphan one.
LEMMA ExpireKeeps == ASSUME IInv, NEW r \in Requests, Expire(r) PROVE IInv'
<1> USE DEF IInv, Expire, Goto
<1>1. TypeOK'
  BY DEF TypeOK
<1>2. \A q \in Requests : Knows(q)'
  BY DEF Knows, TypeOK
<1>3. NoOrphanedClaim'
  BY DEF NoOrphanedClaim, Holds, TypeOK
<1> QED BY <1>1, <1>2, <1>3

\* Whoever puts the in-flight record works under its key from then on.
LEMMA ClaimKeeps == ASSUME IInv, NEW r \in Requests, Claim(r) PROVE IInv'
<1> USE DEF IInv, Claim, Goto
<1>1. TypeOK'
  BY DEF TypeOK, Knows, Request, Record
<1>2. \A q \in Requests : Knows(q)'
  BY DEF Knows, TypeOK
<1>3. NoOrphanedClaim'
  BY DEF NoOrphanedClaim, Holds, TypeOK, Knows
<1> QED BY <1>1, <1>2, <1>3

\* A handler with a key goes on to complete it; one without held none.
LEMMA WorkKeeps == ASSUME IInv, NEW r \in Requests, Work(r) PROVE IInv'
<1> USE DEF IInv, Work, Goto, Respond, Keyed
<1>1. TypeOK'
  <2>1. req[r] \in Request /\ req[r].body \in Bodies
    BY DEF Knows, Request
  <2> QED BY <2>1 DEF TypeOK, Answer
<1>2. \A q \in Requests : Knows(q)'
  BY DEF Knows, TypeOK, Request
<1>3. NoOrphanedClaim'
  BY DEF NoOrphanedClaim, Holds, TypeOK
<1> QED BY <1>1, <1>2, <1>3

\* A failed handler lets go of the only key it held, and its record goes too.
LEMMA FailKeeps == ASSUME IInv, NEW r \in Requests, Fail(r) PROVE IInv'
<1> USE DEF IInv, Fail, Respond
<1>1. TypeOK'
  BY DEF TypeOK, Answer
<1>2. \A q \in Requests : Knows(q)'
  BY DEF Knows, TypeOK
<1>3. NoOrphanedClaim'
  BY DEF NoOrphanedClaim, Holds, TypeOK
<1> QED BY <1>1, <1>2, <1>3

\* A KeyError lets go of a key that has no record at all.
LEMMA RereadKeeps == ASSUME IInv, NEW r \in Requests, Reread(r) PROVE IInv'
<1> USE DEF IInv, Reread, Goto, Respond
<1>1. TypeOK'
  BY DEF TypeOK, Answer, Knows
<1>2. \A q \in Requests : Knows(q)'
  BY DEF Knows, TypeOK
<1>3. NoOrphanedClaim'
  BY DEF NoOrphanedClaim, Holds, TypeOK, Knows
<1> QED BY <1>1, <1>2, <1>3

\* A completed handler leaves its key completed.
LEMMA StoreKeeps == ASSUME IInv, NEW r \in Requests, Store(r) PROVE IInv'
<1> USE DEF IInv, Store, Respond
<1>1. TypeOK'
  <2> DEFINE completed == [seen[r] EXCEPT !.state = "COMPLETED", !.response = req[r].body]
  <2>1. req[r] \in Request /\ seen[r] \in Record
    BY DEF TypeOK, Knows
  <2>2. completed \in Record
    BY <2>1 DEF Record, Request
  <2>3. records' \in [Keys -> Record \cup {Nothing}]
    BY <2>2 DEF TypeOK
  <2>4. answer' \in [Requests -> Answer \cup {Nothing}]
    BY <2>1 DEF TypeOK, Answer, Request
  <2> QED BY <2>1, <2>3, <2>4 DEF TypeOK
<1>2. \A q \in Requests : Knows(q)'
  BY DEF Knows, TypeOK
<1>3. NoOrphanedClaim'
  BY DEF NoOrphanedClaim, Holds, TypeOK, Knows, Record
<1> QED BY <1>1, <1>2, <1>3

\* Time passes without the service noticing; a restart forgets everything.
LEMMA ClockAndRestartKeep == ASSUME IInv, Tick \/ Restart \/ UNCHANGED vars PROVE IInv'
<1> USE DEF IInv
<1>1. CASE Tick
  BY <1>1, TimeAssumption DEF Tick, TypeOK, Knows, NoOrphanedClaim, Holds
<1>2. CASE Restart
  <2>1. TypeOK'
    BY <1>2 DEF Restart, TypeOK, Answer
  <2>2. (\A r \in Requests : Knows(r)') /\ NoOrphanedClaim'
    BY <1>2 DEF Restart, Knows, NoOrphanedClaim, TypeOK
  <2> QED BY <2>1, <2>2
<1>3. CASE UNCHANGED vars
  BY <1>3 DEF vars, TypeOK, Knows, NoOrphanedClaim, Holds
<1> QED BY <1>1, <1>2, <1>3

\* Every step of the service keeps the inductive invariant.
LEMMA NextKeeps == IInv /\ [Next]_vars => IInv'
<1> SUFFICES ASSUME IInv, [Next]_vars PROVE IInv'
  OBVIOUS
<1>1. CASE Tick \/ Restart \/ UNCHANGED vars
  BY <1>1, ClockAndRestartKeep
<1>2. ASSUME NEW r \in Requests, Step(r) PROVE IInv'
  BY <1>2, ArriveKeeps, GetKeeps, ExpireKeeps, ClaimKeeps, WorkKeeps, FailKeeps,
     RereadKeeps, StoreKeeps DEF Step
<1> QED BY <1>1, <1>2 DEF Next

\* IInv holds in every reachable state.
LEMMA Invariance == Spec => []IInv
<1> QED BY InitEstablishes, NextKeeps, PTL DEF Spec

\* The records and the handlers' state keep their types.
THEOREM TypeCorrect == Spec => []TypeOK
<1>1. IInv => TypeOK
  BY DEF IInv
<1> QED BY <1>1, Invariance, PTL

\* However requests race, fail and expire, a key in flight always has a request
\* that will complete or abandon it.
THEOREM NoKeyIsOrphaned == Spec => []NoOrphanedClaim
<1>1. IInv => NoOrphanedClaim
  BY DEF IInv
<1> QED BY <1>1, Invariance, PTL
----------------------------------------------------------------------------
(* The contract for clients that wait before they send a key again *)

Uses(r, k) == pc[r] # "idle" /\ req[r].key = k
DoneUnder(k) == {d \in done : d.key = k}

\* The request came when everything done under its key had expired.
CameLate(r) == \A d \in DoneUnder(req[r].key) : req[r].now >= d.now + TTL

ClaimOf(r) == [fingerprint |-> req[r].body, state |-> "IN_FLIGHT",
               created_at |-> req[r].now, response |-> Nothing]

\* What the one request that uses a key can rely on.
Exclusive(r, k) ==
    /\ req[r].now <= clock
    /\ (pc[r] # "get" \/ records[k] = Nothing) => CameLate(r)
    /\ pc[r] = "claim" => records[k] = Nothing
    /\ pc[r] \in {"work", "reread", "store"} => records[k] = ClaimOf(r)
    /\ pc[r] = "store" => seen[r] = records[k]

\* A completed record is that of the last request done under the key.
Completed(k) ==
    (records[k] # Nothing /\ records[k].state = "COMPLETED") =>
        /\ records[k].response = records[k].fingerprint
        /\ \E d \in DoneUnder(k) : d.body = records[k].fingerprint /\ d.now = records[k].created_at
        /\ \A d \in DoneUnder(k) : d.now <= records[k].created_at

\* A key is free only when everything done under it has expired.
FreeInTime(k) == records[k] = Nothing => \A d \in DoneUnder(k) : clock >= d.now + TTL

Kept(k) ==
    /\ \A q, r \in Requests : Uses(q, k) /\ Uses(r, k) => q = r
    /\ \A r \in Requests : Uses(r, k) => Exclusive(r, k)
    /\ Completed(k) /\ FreeInTime(k)

Contract == \A k \in Keys : k \notin overlapped => Kept(k)

\* Nothing happens to the key, except that time passes.
LEMMA UntouchedIsKept ==
    ASSUME NEW k \in Keys, IInv, Kept(k), clock' \in Nat, clock' >= clock,
           records'[k] = records[k], DoneUnder(k)' = DoneUnder(k),
           \A r \in Requests :
               /\ Uses(r, k)' <=> Uses(r, k)
               /\ Uses(r, k) => pc'[r] = pc[r] /\ req'[r] = req[r] /\ seen'[r] = seen[r]
    PROVE  Kept(k)'
<1>1. clock \in Nat /\ \A d \in DoneUnder(k) : d.now \in Nat
  BY DEF IInv, TypeOK, DoneUnder, Request
<1>2. \A q, r \in Requests : Uses(q, k)' /\ Uses(r, k)' => q = r
  BY DEF Kept
<1>3. ASSUME NEW r \in Requests, Uses(r, k) PROVE Exclusive(r, k)'
  <2>1. req[r].now \in Nat /\ req[r].key = k
    BY <1>3 DEF IInv, Knows, Uses, Request
  <2>2. CameLate(r)' <=> CameLate(r)
    BY <1>3, <2>1 DEF CameLate
  <2>3. ClaimOf(r)' = ClaimOf(r)
    BY <1>3 DEF ClaimOf
  <2>4. req'[r].now <= clock'
    BY <1>1, <1>3, <2>1 DEF Kept, Exclusive
  <2> QED BY <1>3, <2>2, <2>3, <2>4 DEF Kept, Exclusive
<1>4. Completed(k)'
  BY DEF Kept, Completed
<1>5. FreeInTime(k)'
  BY <1>1, TimeAssumption DEF Kept, FreeInTime
<1> QED BY <1>2, <1>3, <1>4, <1>5 DEF Kept

\* The one request that uses a key took a step.
LEMMA OwnStepIsKept ==
    ASSUME NEW k \in Keys, NEW r \in Requests,
           \A q \in Requests \ {r} : ~Uses(q, k)',
           Uses(r, k)' => Exclusive(r, k)',
           Completed(k)', FreeInTime(k)'
    PROVE  Kept(k)'
BY DEF Kept

LEMMA OthersAreElsewhere ==
    ASSUME NEW k \in Keys, Kept(k), NEW r \in Requests, Uses(r, k),
           \A q \in Requests \ {r} : pc'[q] = pc[q] /\ req'[q] = req[q]
    PROVE  \A q \in Requests \ {r} : ~Uses(q, k)'
BY DEF Kept, Uses

LEMMA ArriveIsKept ==
    ASSUME IInv, Contract, NEW r \in Requests, NEW j \in Keys \cup {NoKey}, NEW b \in Bodies,
           Arrive(r, j, b), NEW k \in Keys, k \notin overlapped'
    PROVE  Kept(k)'
<1>1. /\ pc[r] = "idle" /\ pc'[r] = (IF j = NoKey THEN "work" ELSE "get")
      /\ req'[r] = [key |-> j, body |-> b, now |-> clock]
      /\ \A q \in Requests \ {r} : pc'[q] = pc[q] /\ req'[q] = req[q]
      /\ UNCHANGED <<clock, records, seen, done>>
      /\ k \notin overlapped
  BY DEF Arrive, Goto, IInv, TypeOK
<1>2. Kept(k) /\ DoneUnder(k)' = DoneUnder(k) /\ clock \in Nat
  BY <1>1 DEF Contract, DoneUnder, IInv, TypeOK
<1>3. CASE j = k
  <2>1. \A q \in Requests \ {r} : ~Uses(q, k)'
    BY <1>1, <1>3 DEF Arrive, Uses
  <2>2. pc'[r] = "get" /\ req'[r].key = k /\ req'[r].now = clock
    BY <1>1, <1>3
  <2>3. records[k] = Nothing => CameLate(r)'
    BY <1>1, <1>2, <2>2 DEF Kept, FreeInTime, CameLate, DoneUnder
  <2>4. Exclusive(r, k)'
    BY <1>1, <1>2, <2>2, <2>3 DEF Exclusive
  <2>5. Completed(k)' /\ FreeInTime(k)'
    BY <1>1, <1>2 DEF Kept, Completed, FreeInTime
  <2> QED BY <2>1, <2>4, <2>5, OwnStepIsKept
<1>4. CASE j # k
  BY <1>1, <1>2, <1>4, UntouchedIsKept DEF Uses
<1> QED BY <1>3, <1>4

\* A request that uses another key, or none.
LEMMA OtherKeyIsKept ==
    ASSUME IInv, Contract, NEW r \in Requests, NEW k \in Keys, k \notin overlapped',
           Get(r) \/ Expire(r) \/ Claim(r) \/ Work(r) \/ Fail(r) \/ Reread(r) \/ Store(r),
           req[r].key # k
    PROVE  Kept(k)'
<1>1. /\ UNCHANGED <<clock, overlapped>>
      /\ done' = done \/ done' = done \cup {req[r]}
      /\ records'[k] = records[k]
      /\ \A q \in Requests \ {r} : pc'[q] = pc[q] /\ req'[q] = req[q] /\ seen'[q] = seen[q]
  BY DEF Get, Expire, Claim, Work, Fail, Reread, Store, Respond, Goto, IInv, TypeOK
<1>2. req'[r] = req[r] \/ pc'[r] = "idle"
  BY DEF Get, Expire, Claim, Work, Fail, Reread, Store, Respond, Goto, IInv, TypeOK
<1>3. Kept(k) /\ clock \in Nat
  BY <1>1 DEF Contract, IInv, TypeOK
<1>4. DoneUnder(k)' = DoneUnder(k)
  BY <1>1 DEF DoneUnder
<1>5. \A q \in Requests : /\ Uses(q, k)' <=> Uses(q, k)
                          /\ Uses(q, k) => q # r
  BY <1>1, <1>2 DEF Uses
<1> QED BY <1>1, <1>3, <1>4, <1>5, UntouchedIsKept

\* What holds where the one request that uses k takes a step.
LEMMA OwnKeyFacts ==
    ASSUME IInv, Contract, NEW r \in Requests, NEW k \in Keys, k \notin overlapped,
           pc[r] # "idle", req[r].key = k
    PROVE  /\ Kept(k) /\ Uses(r, k) /\ Exclusive(r, k) /\ Completed(k) /\ FreeInTime(k)
           /\ req[r] \in Request /\ clock \in Nat /\ TTL \in Nat
           /\ \A d \in DoneUnder(k) : d.now \in Nat
<1>1. Kept(k) /\ Uses(r, k)
  BY DEF Contract, Uses
<1>2. req[r] \in Request /\ clock \in Nat /\ \A d \in DoneUnder(k) : d.now \in Nat
  BY DEF IInv, Knows, TypeOK, DoneUnder, Request
<1> QED BY <1>1, <1>2, TimeAssumption DEF Kept

\* It goes on with what it knows, and the key's record stays as it is.
LEMMA AdvanceIsKept ==
    ASSUME IInv, Contract, NEW r \in Requests, NEW k \in Keys, k \notin overlapped,
           pc[r] # "idle", req[r].key = k,
           UNCHANGED <<clock, records, req, done>>,
           \A q \in Requests \ {r} : pc'[q] = pc[q],
           (pc'[r] # "get" \/ records[k] = Nothing) => CameLate(r),
           pc'[r] = "claim" => records[k] = Nothing,
           pc'[r] \in {"work", "reread", "store"} => records[k] = ClaimOf(r),
           pc'[r] = "store" => seen'[r] = records[k]
    PROVE  Kept(k)'
<1>1. \A q \in Requests \ {r} : ~Uses(q, k)'
  BY OwnKeyFacts, OthersAreElsewhere
<1>2. Exclusive(r, k)'
  BY OwnKeyFacts DEF Exclusive, CameLate, ClaimOf, DoneUnder
<1>3. Completed(k)' /\ FreeInTime(k)'
  BY OwnKeyFacts DEF Completed, FreeInTime, DoneUnder
<1> QED BY <1>1, <1>2, <1>3, OwnStepIsKept

\* It ends, and leaves the key's record as it is.
LEMMA EndIsKept ==
    ASSUME IInv, Contract, NEW r \in Requests, NEW k \in Keys, k \notin overlapped,
           pc[r] # "idle", req[r].key = k,
           UNCHANGED <<clock, records, done>>, pc'[r] = "idle",
           \A q \in Requests \ {r} : pc'[q] = pc[q] /\ req'[q] = req[q]
    PROVE  Kept(k)'
<1>1. \A q \in Requests \ {r} : ~Uses(q, k)'
  BY OwnKeyFacts, OthersAreElsewhere
<1>2. ~Uses(r, k)'
  BY DEF Uses
<1>3. Completed(k)' /\ FreeInTime(k)'
  BY OwnKeyFacts DEF Completed, FreeInTime, DoneUnder
<1> QED BY <1>1, <1>2, <1>3, OwnStepIsKept

\* A record found by the one request that uses a key is a completed one.
LEMMA FoundIsCompleted ==
    ASSUME IInv, Contract, NEW r \in Requests, NEW k \in Keys, k \notin overlapped,
           pc[r] = "get", req[r].key = k, records[k] # Nothing
    PROVE  records[k].state = "COMPLETED" /\ records[k] \in Record
<1>1. records[k] \in Record
  BY DEF IInv, TypeOK
<1>2. ASSUME records[k].state = "IN_FLIGHT" PROVE FALSE
  <2>1. PICK q \in Requests : Holds(q, k)
    BY <1>2 DEF IInv, NoOrphanedClaim
  <2>2. Uses(q, k) /\ q # r
    BY <2>1 DEF Holds, Uses
  <2> QED BY <2>2, OwnKeyFacts DEF Kept
<1> QED BY <1>1, <1>2 DEF Record

LEMMA GetIsKept ==
    ASSUME IInv, Contract, NEW r \in Requests, NEW k \in Keys, k \notin overlapped,
           Get(r), req[r].key = k
    PROVE  Kept(k)'
<1>1. pc[r] = "get" /\ DOMAIN pc = Requests /\ DOMAIN req = Requests
  BY DEF Get, Goto, IInv, TypeOK
<1>2. CASE Goto(r, "get", "claim") /\ records[k] = Nothing
           /\ UNCHANGED <<clock, records, req, seen, answer, done, overlapped>>
  <2>1. CameLate(r)
    BY <1>1, <1>2, OwnKeyFacts DEF Exclusive
  <2>2. pc'[r] = "claim" /\ \A q \in Requests \ {r} : pc'[q] = pc[q]
    BY <1>1, <1>2 DEF Goto
  <2> QED BY <1>1, <1>2, <2>1, <2>2, AdvanceIsKept
<1>3. CASE Goto(r, "get", "expire") /\ records[k] # Nothing /\ Expired(records[k], req[r].now)
           /\ UNCHANGED <<clock, records, req, seen, answer, done, overlapped>>
  <2>1. CameLate(r)
    <3>1. records[k].state = "COMPLETED" /\ records[k].created_at \in Nat
      BY <1>1, <1>3, FoundIsCompleted DEF Record
    <3>2. \A d \in DoneUnder(k) : d.now <= records[k].created_at
      BY <1>1, <1>3, <3>1, OwnKeyFacts DEF Completed
    <3>3. req[r].now >= records[k].created_at + TTL /\ req[r].now \in Nat
      BY <1>1, <1>3, OwnKeyFacts DEF Expired, Request
    <3>4. ASSUME NEW d \in DoneUnder(k) PROVE req[r].now >= d.now + TTL
      BY <1>1, <3>1, <3>2, <3>3, OwnKeyFacts
    <3> QED BY <3>4 DEF CameLate
  <2>2. pc'[r] = "expire" /\ \A q \in Requests \ {r} : pc'[q] = pc[q]
    BY <1>1, <1>3 DEF Goto
  <2> QED BY <1>1, <1>3, <2>1, <2>2, AdvanceIsKept
<1>4. CASE (\E kind, response : Respond(r, kind, response)) /\ UNCHANGED <<records, done>>
  <2>1. /\ pc'[r] = "idle" /\ clock' = clock
        /\ \A q \in Requests \ {r} : pc'[q] = pc[q] /\ req'[q] = req[q]
    BY <1>1, <1>4 DEF Respond
  <2> QED BY <1>1, <1>4, <2>1, EndIsKept
<1> QED BY <1>2, <1>3, <1>4 DEF Get

LEMMA ExpireIsKept ==
    ASSUME IInv, Contract, NEW r \in Requests, NEW k \in Keys, k \notin overlapped,
           Expire(r), req[r].key = k
    PROVE  Kept(k)'
<1>1. /\ pc[r] = "expire" /\ pc'[r] = "claim" /\ records'[k] = Nothing
      /\ UNCHANGED <<clock, req, done>> /\ \A q \in Requests \ {r} : pc'[q] = pc[q]
  BY DEF Expire, Goto, IInv, TypeOK
<1>2. CameLate(r) /\ req[r].now <= clock /\ req[r].now \in Nat
  BY <1>1, OwnKeyFacts DEF Exclusive, Request
<1>3. \A q \in Requests \ {r} : ~Uses(q, k)'
  BY <1>1, OwnKeyFacts, OthersAreElsewhere
<1>4. Exclusive(r, k)'
  BY <1>1, <1>2 DEF Exclusive, CameLate, DoneUnder
<1>5. FreeInTime(k)'
  <2>1. ASSUME NEW d \in DoneUnder(k) PROVE clock >= d.now + TTL
    BY <1>1, <1>2, OwnKeyFacts DEF CameLate
  <2> QED BY <1>1, <2>1 DEF FreeInTime, DoneUnder
<1>6. Completed(k)'
  BY <1>1 DEF Completed
<1> QED BY <1>3, <1>4, <1>5, <1>6, OwnStepIsKept

LEMMA ClaimIsKept ==
    ASSUME IInv, Contract, NEW r \in Requests, NEW k \in Keys, k \notin overlapped,
           Claim(r), req[r].key = k
    PROVE  Kept(k)'
<1>1. /\ pc[r] = "claim" /\ pc'[r] = "work" /\ records'[k] = ClaimOf(r)
      /\ UNCHANGED <<clock, req, done>> /\ \A q \in Requests \ {r} : pc'[q] = pc[q]
  BY DEF Claim, Goto, ClaimOf, IInv, TypeOK
<1>2. CameLate(r) /\ req[r].now <= clock
  BY <1>1, OwnKeyFacts DEF Exclusive
<1>3. \A q \in Requests \ {r} : ~Uses(q, k)'
  BY <1>1, OwnKeyFacts, OthersAreElsewhere
<1>4. Exclusive(r, k)'
  BY <1>1, <1>2 DEF Exclusive, CameLate, DoneUnder, ClaimOf
<1>5. ClaimOf(r) \in Record /\ ClaimOf(r).state = "IN_FLIGHT"
  BY <1>1, OwnKeyFacts DEF ClaimOf, Record, Request
<1>6. Completed(k)' /\ FreeInTime(k)'
  BY <1>1, <1>5 DEF Completed, FreeInTime
<1> QED BY <1>3, <1>4, <1>6, OwnStepIsKept

LEMMA WorkIsKept ==
    ASSUME IInv, Contract, NEW r \in Requests, NEW k \in Keys, k \notin overlapped,
           Work(r), req[r].key = k
    PROVE  Kept(k)'
<1>1. /\ pc[r] = "work" /\ pc'[r] = "reread"
      /\ UNCHANGED <<clock, records, req, done>> /\ \A q \in Requests \ {r} : pc'[q] = pc[q]
  BY DEF Work, Keyed, Goto, IInv, TypeOK
<1>2. CameLate(r) /\ records[k] = ClaimOf(r)
  BY <1>1, OwnKeyFacts DEF Exclusive
<1> QED BY <1>1, <1>2, AdvanceIsKept

LEMMA FailIsKept ==
    ASSUME IInv, Contract, NEW r \in Requests, NEW k \in Keys, k \notin overlapped,
           Fail(r), req[r].key = k
    PROVE  Kept(k)'
<1>1. /\ pc[r] = "work" /\ pc'[r] = "idle" /\ records'[k] = Nothing
      /\ UNCHANGED <<clock, done>>
      /\ \A q \in Requests \ {r} : pc'[q] = pc[q] /\ req'[q] = req[q]
  BY DEF Fail, Respond, IInv, TypeOK
<1>2. CameLate(r) /\ req[r].now <= clock /\ req[r].now \in Nat
  BY <1>1, OwnKeyFacts DEF Exclusive, Request
<1>3. \A q \in Requests \ {r} : ~Uses(q, k)'
  BY <1>1, OwnKeyFacts, OthersAreElsewhere
<1>4. ~Uses(r, k)'
  BY <1>1 DEF Uses
<1>5. FreeInTime(k)'
  <2>1. ASSUME NEW d \in DoneUnder(k) PROVE clock >= d.now + TTL
    BY <1>1, <1>2, OwnKeyFacts DEF CameLate
  <2> QED BY <1>1, <2>1 DEF FreeInTime, DoneUnder
<1>6. Completed(k)'
  BY <1>1 DEF Completed
<1> QED BY <1>3, <1>4, <1>5, <1>6, OwnStepIsKept

LEMMA RereadIsKept ==
    ASSUME IInv, Contract, NEW r \in Requests, NEW k \in Keys, k \notin overlapped,
           Reread(r), req[r].key = k
    PROVE  Kept(k)'
<1>1. pc[r] = "reread"
  BY DEF Reread, Goto
<1>2. CameLate(r) /\ records[k] = ClaimOf(r)
  BY <1>1, OwnKeyFacts DEF Exclusive
<1>3. ClaimOf(r) \in Record
  BY <1>1, OwnKeyFacts DEF ClaimOf, Record, Request
<1>4. /\ pc'[r] = "store" /\ seen'[r] = records[k]
      /\ UNCHANGED <<clock, records, req, done>> /\ \A q \in Requests \ {r} : pc'[q] = pc[q]
  BY <1>2, <1>3 DEF Reread, Goto, IInv, TypeOK
<1> QED BY <1>1, <1>2, <1>4, AdvanceIsKept

LEMMA StoreIsKept ==
    ASSUME IInv, Contract, NEW r \in Requests, NEW k \in Keys, k \notin overlapped,
           Store(r), req[r].key = k
    PROVE  Kept(k)'
<1> DEFINE stored == [ClaimOf(r) EXCEPT !.state = "COMPLETED", !.response = req[r].body]
<1>1. /\ pc[r] = "store" /\ pc'[r] = "idle" /\ clock' = clock /\ done' = done \cup {req[r]}
      /\ records'[k] = [seen[r] EXCEPT !.state = "COMPLETED", !.response = req[r].body]
      /\ \A q \in Requests \ {r} : pc'[q] = pc[q] /\ req'[q] = req[q]
  BY DEF Store, Respond, IInv, TypeOK
<1>2. CameLate(r) /\ seen[r] = ClaimOf(r) /\ req[r].now \in Nat
  BY <1>1, OwnKeyFacts DEF Exclusive, Request
<1>3. records'[k] = stored
  BY <1>1, <1>2
<1>4. stored \in Record /\ stored.response = req[r].body /\ stored.fingerprint = req[r].body
      /\ stored.created_at = req[r].now
  BY <1>1, OwnKeyFacts DEF ClaimOf, Record, Request
<1>5. \A q \in Requests \ {r} : ~Uses(q, k)'
  BY <1>1, OwnKeyFacts, OthersAreElsewhere
<1>6. ~Uses(r, k)'
  BY <1>1 DEF Uses
<1>7. DoneUnder(k)' = DoneUnder(k) \cup {req[r]}
  BY <1>1 DEF DoneUnder
<1>8. ASSUME NEW d \in DoneUnder(k) PROVE d.now <= req[r].now
  BY <1>1, <1>2, OwnKeyFacts DEF CameLate
<1>9. Completed(k)' /\ FreeInTime(k)'
  BY <1>2, <1>3, <1>4, <1>7, <1>8 DEF Completed, FreeInTime
<1> QED BY <1>5, <1>6, <1>9, OwnStepIsKept

LEMMA NextKeepsContract == IInv /\ Contract /\ [Next]_vars => Contract'
<1> SUFFICES ASSUME IInv, Contract, [Next]_vars, NEW k \in Keys, k \notin overlapped'
             PROVE  Kept(k)'
  BY DEF Contract
<1>1. CASE Restart
  <2>1. \A r \in Requests : pc'[r] = "idle"
    BY <1>1 DEF Restart
  <2>2. records'[k] = Nothing /\ done' = {}
    BY <1>1 DEF Restart
  <2> QED BY <2>1, <2>2 DEF Kept, Uses, Completed, FreeInTime, DoneUnder
<1>2. CASE Tick \/ UNCHANGED vars
  <2>1. /\ UNCHANGED <<records, pc, req, seen, done, overlapped>>
        /\ clock \in Nat /\ clock' \in Nat /\ clock' >= clock
    BY <1>2 DEF Tick, vars, IInv, TypeOK
  <2>2. Kept(k)
    BY <2>1 DEF Contract
  <2> QED BY <2>1, <2>2, UntouchedIsKept DEF DoneUnder, Uses
<1>3. ASSUME NEW r \in Requests, Step(r) PROVE Kept(k)'
  <2>1. CASE \E j \in Keys \cup {NoKey}, b \in Bodies : Arrive(r, j, b)
    BY <2>1, ArriveIsKept
  <2>2. CASE Get(r) \/ Expire(r) \/ Claim(r) \/ Work(r) \/ Fail(r) \/ Reread(r) \/ Store(r)
    <3>1. k \notin overlapped
      BY <2>2 DEF Get, Expire, Claim, Work, Fail, Reread, Store, Respond
    <3>2. CASE req[r].key # k
      BY <2>2, <3>2, OtherKeyIsKept
    <3>3. CASE req[r].key = k
      BY <2>2, <3>1, <3>3, GetIsKept, ExpireIsKept, ClaimIsKept, WorkIsKept, FailIsKept,
         RereadIsKept, StoreIsKept
    <3> QED BY <3>2, <3>3
  <2> QED BY <1>3, <2>1, <2>2 DEF Step
<1> QED BY <1>1, <1>2, <1>3 DEF Next

LEMMA InitKeepsContract == Init => Contract
BY DEF Init, Contract, Kept, Uses, Completed, FreeInTime, DoneUnder

LEMMA ContractInvariance == Spec => [](IInv /\ Contract)
BY InitEstablishes, InitKeepsContract, NextKeeps, NextKeepsContract, PTL DEF Spec

\* Only these steps answer 201 under a key, or replay.
LEMMA CreatedByStore ==
    ASSUME IInv, [Next]_vars, NEW r \in Requests, Ends(r, "created"), Keyed(r)
    PROVE  Store(r)
<1>1. /\ DOMAIN pc = Requests /\ DOMAIN answer = Requests
      /\ pc[r] # "idle" /\ pc'[r] = "idle" /\ answer'[r].kind = "created"
  BY DEF Ends, IInv, TypeOK
<1>2. ~(Tick \/ UNCHANGED vars) /\ ~Restart
  BY <1>1 DEF Tick, vars, Restart
<1>3. ASSUME NEW q \in Requests, Step(q) PROVE Store(r)
  <2>1. q = r
    BY <1>1, <1>3
    DEF Step, Arrive, Get, Expire, Claim, Work, Fail, Reread, Store, Goto, Respond
  <2>2. ~\E j \in Keys \cup {NoKey}, b \in Bodies : Arrive(r, j, b)
    BY <1>1 DEF Arrive, Goto
  <2>3. ~Get(r) /\ ~Expire(r) /\ ~Claim(r)
    BY <1>1 DEF Get, Expire, Claim, Goto, Respond
  <2>4. ~Work(r) /\ ~Fail(r) /\ ~Reread(r)
    BY <1>1 DEF Work, Fail, Reread, Goto, Respond
  <2> QED BY <1>3, <2>1, <2>2, <2>3, <2>4 DEF Step
<1> QED BY <1>2, <1>3 DEF Next

LEMMA ReplayedByGet ==
    ASSUME IInv, [Next]_vars, NEW r \in Requests, Ends(r, "replayed")
    PROVE  /\ pc[r] = "get" /\ records[req[r].key] # Nothing
           /\ ~Expired(records[req[r].key], req[r].now)
           /\ records[req[r].key].fingerprint = req[r].body
           /\ answer'[r].response = records[req[r].key].response
<1>1. /\ DOMAIN pc = Requests /\ DOMAIN answer = Requests
      /\ pc[r] # "idle" /\ pc'[r] = "idle" /\ answer'[r].kind = "replayed"
  BY DEF Ends, IInv, TypeOK
<1>2. ~(Tick \/ UNCHANGED vars) /\ ~Restart
  BY <1>1 DEF Tick, vars, Restart
<1>3. ASSUME NEW q \in Requests, Step(q) PROVE Get(r)
  <2>1. q = r
    BY <1>1, <1>3
    DEF Step, Arrive, Get, Expire, Claim, Work, Fail, Reread, Store, Goto, Respond
  <2>2. ~\E j \in Keys \cup {NoKey}, b \in Bodies : Arrive(r, j, b)
    BY <1>1 DEF Arrive, Goto
  <2>3. ~Expire(r) /\ ~Claim(r)
    BY <1>1 DEF Expire, Claim, Goto
  <2>4. ~Work(r) /\ ~Fail(r) /\ ~Reread(r) /\ ~Store(r)
    BY <1>1 DEF Work, Fail, Reread, Store, Goto, Respond
  <2> QED BY <1>3, <2>1, <2>2, <2>3, <2>4 DEF Step
<1>4. Get(r)
  BY <1>2, <1>3 DEF Next
<1> QED BY <1>1, <1>4 DEF Get, Goto, Respond

\* Clients that wait for an answer get the work done once per key and TTL.
THEOREM WorkIsDoneOnce == Spec => KeyWorksOnce
<1>1. ASSUME IInv, Contract, [Next]_vars, NEW r \in Requests,
             Ends(r, "created"), Keyed(r), req[r].key \notin overlapped,
             NEW d \in done, d.key = req[r].key
      PROVE  req[r].now >= d.now + TTL
  <2>1. pc[r] = "store" /\ req[r].key \in Keys
    BY <1>1, CreatedByStore DEF Store, IInv, Knows
  <2>2. CameLate(r)
    BY <1>1, <2>1, OwnKeyFacts DEF Exclusive
  <2> QED BY <1>1, <2>2 DEF CameLate, DoneUnder
<1>2. IInv /\ Contract /\ [Next]_vars =>
        \A r \in Requests :
          (Ends(r, "created") /\ Keyed(r) /\ req[r].key \notin overlapped) =>
            \A d \in done : d.key = req[r].key => req[r].now >= d.now + TTL
  BY <1>1
<1> QED BY <1>2, ContractInvariance, PTL DEF Spec, KeyWorksOnce

\* To such clients a replay is the answer to the same body, given within the TTL.
THEOREM ReplaysAreOriginal == Spec => ReplayIsOriginal
<1>1. ASSUME IInv, Contract, [Next]_vars, NEW r \in Requests,
             Ends(r, "replayed"), req[r].key \notin overlapped
      PROVE  /\ answer'[r].response = req[r].body
             /\ \E d \in done : /\ d.key = req[r].key /\ d.body = req[r].body
                                /\ req[r].now < d.now + TTL
  <2> DEFINE found == records[req[r].key]
  <2>1. /\ pc[r] = "get" /\ found # Nothing /\ ~Expired(found, req[r].now)
        /\ found.fingerprint = req[r].body /\ answer'[r].response = found.response
    BY <1>1, ReplayedByGet
  <2>2. req[r].key \in Keys
    BY <1>1, <2>1 DEF IInv, Knows
  <2>3. found.state = "COMPLETED" /\ found \in Record
    BY <1>1, <2>1, <2>2, FoundIsCompleted
  <2>4. Completed(req[r].key) /\ req[r] \in Request /\ TTL \in Nat
    BY <1>1, <2>1, <2>2, OwnKeyFacts
  <2>5. found.response = found.fingerprint
    BY <2>1, <2>3, <2>4 DEF Completed
  <2>6. PICK d \in DoneUnder(req[r].key) :
             d.body = found.fingerprint /\ d.now = found.created_at
    BY <2>1, <2>3, <2>4 DEF Completed
  <2>7. req[r].now < d.now + TTL
    BY <2>1, <2>3, <2>4, <2>6 DEF Expired, Record, Request
  <2> QED BY <2>1, <2>5, <2>6, <2>7 DEF DoneUnder
<1>2. IInv /\ Contract /\ [Next]_vars =>
        \A r \in Requests :
          (Ends(r, "replayed") /\ req[r].key \notin overlapped) =>
            /\ answer'[r].response = req[r].body
            /\ \E d \in done : /\ d.key = req[r].key /\ d.body = req[r].body
                               /\ req[r].now < d.now + TTL
  BY <1>1
<1> QED BY <1>2, ContractInvariance, PTL DEF Spec, ReplayIsOriginal

================================================================================
