------------------------- MODULE ClassificationProofs -------------------------
(***************************************************************************)
(* Theorems about Classification, for any rows, runs, people and answers of *)
(* a provider: the types, that decisions stand, that a run which finishes   *)
(* has examined its rows, and what a resumed run asks about.                *)
(***************************************************************************)
EXTENDS Classification, FiniteSetTheorems, WellFoundedInduction, TLAPS

----------------------------------------------------------------------------
(* The invariant *)

Suggestion == [label : Label, confidence : Confidence, by : Models \cup {Rules}]
Decision   == [confirmed : Choices]

\* What p assigns to a row, and the UPDATE that is left of it.
IsPlan(p, x) == IF p \in Runs THEN x \in Suggestion ELSE x \in Decision
IsPatch(p, x) ==
    /\ "label" \in DOMAIN x => x.label \in Label
    /\ "confidence" \in DOMAIN x => x.confidence \in Confidence
    /\ "by" \in DOMAIN x => x.by \in Models \cup {Rules}
    /\ "confirmed" \in DOMAIN x => x.confirmed \in Choices /\ p \in People

Labelled(r) == table[r].label # Null

\* The row has a label, or will when p commits.
Settled(p, r) == Labelled(r) \/ (r \in DOMAIN pending[p] /\ "label" \in DOMAIN pending[p][r])

Typed(p) ==
    /\ DOMAIN plan[p] \subseteq Rows /\ DOMAIN pending[p] \subseteq Rows
    /\ \A r \in DOMAIN plan[p] : IsPlan(p, plan[p][r])
    /\ \A r \in DOMAIN pending[p] : IsPatch(p, pending[p][r])

\* What the statement counter says about the rest.
Phased(p) ==
    /\ p \in Runs => pc[p] \in {"idle", "write", "model"} /\ group[p] = {}
    /\ p \in Runs /\ pc[p] # "idle" => job[p] \in Job
    /\ p \in People => chunk[p] = {} /\ pc[p] # "model"
    /\ pc[p] = "idle" => chunk[p] = {} /\ group[p] = {}
    /\ pc[p] = "row" => group[p] # {}
    /\ pc[p] = "model" => DOMAIN plan[p] = {}

\* A row that had a label when it was loaded still has one.
LoadHolds(p) ==
    loaded[p] # Nothing =>
        /\ pc[p] = "write"
        /\ \E r \in Rows : IsNext(p, r)
        /\ loaded[p].label # Null => \A r \in Rows : IsNext(p, r) => Labelled(r)

\* No row a run set out to examine is lost on its way.
Accounted(p) ==
    /\ chunk[p] \cap later[p] = {}
    /\ \A r \in chunk[p] : r \in DOMAIN plan[p] \/ Settled(p, r)
    /\ (p \in Runs /\ pc[p] # "idle") =>
          \A r \in selected[p] : r \in later[p] \/ r \in DOMAIN plan[p] \/ Settled(p, r)

Sound(p) == Typed(p) /\ Phased(p) /\ LoadHolds(p) /\ Accounted(p)

Shape ==
    /\ table \in [Rows -> Row]
    /\ pc \in [Processes -> {"idle", "write", "model", "merchant", "row"}]
    /\ job \in [Processes -> Job \cup {Nothing}]
    /\ later \in [Processes -> SUBSET Rows]
    /\ group \in [Processes -> SUBSET Rows]
    /\ loaded \in [Processes -> Row \cup {Nothing}]
    /\ exit \in [Runs -> {"none", "done", "failed"}]
    /\ selected \in [Processes -> SUBSET Rows]
    /\ chunk \in [Processes -> SUBSET Rows]
    /\ DOMAIN plan = Processes /\ DOMAIN pending = Processes

\* Rows are locked by at most one session, and what was paid for is stored.
Locks == \A p, q \in Processes : p # q => DOMAIN pending[p] \cap DOMAIN pending[q] = {}
PaidIsStored == paid \subseteq Rows /\ \A r \in paid : Labelled(r)

CInv == Shape /\ Locks /\ PaidIsStored /\ \A p \in Processes : Sound(p)

----------------------------------------------------------------------------
(* Rows and patches *)

LEMMA ApplyProperties ==
    ASSUME NEW p, NEW row \in Row, NEW patch, IsPatch(p, patch)
    PROVE  /\ Apply(row, patch) \in Row
           /\ row.label # Null => Apply(row, patch).label # Null
           /\ "label" \in DOMAIN patch => Apply(row, patch).label # Null
           /\ "confirmed" \notin DOMAIN patch => Apply(row, patch).confirmed = row.confirmed
<1> DEFINE new == Apply(row, patch)
<1>1. /\ new.label = IF "label" \in DOMAIN patch THEN patch.label ELSE row.label
      /\ new.confidence = IF "confidence" \in DOMAIN patch THEN patch.confidence ELSE row.confidence
      /\ new.by = IF "by" \in DOMAIN patch THEN patch.by ELSE row.by
      /\ new.confirmed = IF "confirmed" \in DOMAIN patch THEN patch.confirmed ELSE row.confirmed
    BY DEF Apply, Columns
<1>2. /\ new.label \in Label \cup {Null} /\ new.confidence \in Confidence \cup {Null}
      /\ new.by \in Models \cup {Rules, Null} /\ new.confirmed \in Label \cup {Null}
    BY <1>1, LabelAssumption DEF IsPatch, Row
<1>3. new = [label |-> new.label, confidence |-> new.confidence, by |-> new.by,
             confirmed |-> new.confirmed]
    BY DEF Apply, Columns
<1>4. new \in Row
    BY <1>2, <1>3 DEF Row
<1>5. QED  BY <1>1, <1>4, LabelAssumption DEF IsPatch

LEMMA ChangesProperties ==
    ASSUME NEW p \in Processes, NEW x, IsPlan(p, x), NEW row \in Row
    PROVE  /\ IsPatch(p, Changes(x, row))
           /\ p \in Runs => "label" \in DOMAIN Changes(x, row) \/ row.label # Null
<1> DEFINE new == Changes(x, row)
<1>1. DOMAIN new = {d \in DOMAIN x : x[d] # row[d]} /\ \A c \in DOMAIN new : new[c] = x[c]
    BY DEF Changes
<1>2. CASE p \in Runs
  <2>1. /\ DOMAIN x = {"label", "confidence", "by"}
        /\ x.label \in Label /\ x.confidence \in Confidence /\ x.by \in Models \cup {Rules}
    BY <1>2 DEF IsPlan, Suggestion
  <2>2. "label" \in DOMAIN new \/ row.label # Null
    BY <1>1, <2>1, LabelAssumption
  <2>3. QED  BY <1>1, <2>1, <2>2 DEF IsPatch
<1>3. CASE p \notin Runs
  <2>1. DOMAIN x = {"confirmed"} /\ x.confirmed \in Choices
    BY <1>3 DEF IsPlan, Decision
  <2>2. QED  BY <1>1, <1>3, <2>1 DEF IsPatch, Processes
<1>4. QED  BY <1>2, <1>3

\* At most one row is next.
LEMMA NextIsUnique ==
    ASSUME NEW p, NEW q \in Rows, NEW r \in Rows, IsNext(p, q), IsNext(p, r)
    PROVE  q = r
<1> SUFFICES ASSUME q # r PROVE FALSE
    OBVIOUS
<1>1. Precedes(p, q, r) /\ Precedes(p, r, q)
    BY DEF IsNext
<1>2. q \in Nat /\ r \in Nat /\ Posted[q] \in Nat /\ Posted[r] \in Nat
    BY RowAssumption, PostedAssumption
<1>3. QED  BY <1>1, <1>2 DEF Precedes, ComesBefore

LEMMA LeastNumber ==
    ASSUME NEW T \in SUBSET Nat, T # {}
    PROVE  \E m \in T : \A y \in T : ~(y < m)
<1>1. PICK m \in T : \A y \in T : ~(<<y, m>> \in OpToRel(<, Nat))
    BY WFMin, NatLessThanWellFounded, Zenon
<1>2. QED  BY <1>1 DEF OpToRel

\* Newest first is an order.
LEMMA NewestFirstIsAnOrder ==
    ASSUME NEW x \in Rows, NEW y \in Rows, NEW z \in Rows, x # y
    PROVE  /\ ComesBefore(x, y, TRUE) \/ ComesBefore(y, x, TRUE)
           /\ ComesBefore(x, y, TRUE) /\ ComesBefore(y, z, TRUE) => ComesBefore(x, z, TRUE)
<1>1. /\ x \in Nat /\ y \in Nat /\ z \in Nat
      /\ Posted[x] \in Nat /\ Posted[y] \in Nat /\ Posted[z] \in Nat
    BY RowAssumption, PostedAssumption
<1>2. QED  BY <1>1 DEF ComesBefore

\* A nonempty set of rows has a first one in that order.
LEMMA FirstOfProperties ==
    ASSUME NEW S \in SUBSET Rows, S # {}
    PROVE  FirstOf(S) \in S
<1> DEFINE HasFirst(T) == \E r \in T : \A q \in T \ {r} : ComesBefore(r, q, TRUE)
           Sizes == {n \in Nat : \E T \in SUBSET Rows : T # {} /\ Cardinality(T) = n /\ ~HasFirst(T)}
<1>1. \A T \in SUBSET Rows : IsFiniteSet(T) /\ Cardinality(T) \in Nat
    BY RowAssumption, FS_Subset, FS_CardinalityType
<1>2. Sizes = {}
  <2>1. SUFFICES ASSUME Sizes # {} PROVE FALSE
    OBVIOUS
  <2>2. Sizes \in SUBSET Nat
    OBVIOUS
  <2>3. PICK m \in Sizes : \A y \in Sizes : ~(y < m)
    <3> HIDE DEF Sizes
    <3> QED  BY <2>1, <2>2, LeastNumber
  <2>4. PICK T \in SUBSET Rows : T # {} /\ Cardinality(T) = m /\ ~HasFirst(T)
    OBVIOUS
  <2>5. PICK x \in T : TRUE
    BY <2>4
  <2>6. Cardinality(T \ {x}) = m - 1 /\ m - 1 \in Nat
    <3>1. IsFiniteSet(T) /\ Cardinality(T \ {x}) \in Nat
        BY <1>1
    <3>2. Cardinality(T \ {x}) = Cardinality(T) - 1
        BY <2>5, <3>1, FS_RemoveElement
    <3>3. QED  BY <2>4, <3>1, <3>2
  <2>7. CASE T \ {x} = {}
    <3>1. \A q \in T \ {x} : ComesBefore(x, q, TRUE)
        BY <2>7
    <3>2. x \in T
        BY <2>5
    <3>3. \E r \in T : \A q \in T \ {r} : ComesBefore(r, q, TRUE)
      <4> WITNESS x \in T
      <4> QED  BY <3>1
    <3>4. QED  BY <2>4, <3>3
  <2>8. CASE T \ {x} # {}
    <3>1. m - 1 \notin Sizes
      <4>1. m - 1 < m
          BY <2>6
      <4> HIDE DEF Sizes
      <4>2. QED  BY <2>3, <4>1
    <3>2. HasFirst(T \ {x})
      <4> HIDE DEF HasFirst
      <4>1. T \ {x} \in SUBSET Rows
          OBVIOUS
      <4>2. QED  BY <2>6, <2>8, <3>1, <4>1
    <3>3. PICK y \in T \ {x} : \A q \in (T \ {x}) \ {y} : ComesBefore(y, q, TRUE)
        BY <3>2
    <3>4. x \in Rows /\ y \in Rows /\ x # y /\ T \subseteq Rows
        BY <2>5, <3>3
    <3>5. CASE ComesBefore(y, x, TRUE)
        BY <2>4, <3>3, <3>5
    <3>6. CASE ComesBefore(x, y, TRUE)
      <4>1. \A q \in T \ {x} : ComesBefore(x, q, TRUE)
          BY <3>3, <3>4, <3>6, NewestFirstIsAnOrder
      <4>2. QED  BY <2>4, <2>5, <4>1
    <3>7. QED  BY <3>4, <3>5, <3>6, NewestFirstIsAnOrder
  <2>9. QED  BY <2>7, <2>8
<1>3. HasFirst(S)
  <2>1. Cardinality(S) \notin Sizes
    BY <1>2
  <2>2. QED  BY <1>1, <2>1
<1>4. QED  BY <1>3 DEF FirstOf

----------------------------------------------------------------------------
(* Steps of one process *)

\* q does not move.
Still(q) ==
    /\ pc'[q] = pc[q] /\ job'[q] = job[q] /\ later'[q] = later[q] /\ group'[q] = group[q]
    /\ plan'[q] = plan[q] /\ loaded'[q] = loaded[q] /\ pending'[q] = pending[q]
    /\ selected'[q] = selected[q] /\ chunk'[q] = chunk[q]

Others(p) == \A q \in Processes \ {p} : Still(q)

\* No row loses its label.
TableGrows == \A r \in Rows : Labelled(r) => Labelled(r)'

LEMMA BystanderKeeps ==
    ASSUME Shape, NEW q \in Processes, Sound(q), Still(q), TableGrows
    PROVE  Sound(q)'
<1>1. \A r : IsNext(q, r)' <=> IsNext(q, r)
    BY DEF Still, IsNext, Precedes
<1>2. Typed(q)'
    BY DEF Sound, Typed, Still, IsPlan, IsPatch
<1>3. Phased(q)'
    BY DEF Sound, Phased, Still
<1>4. LoadHolds(q)'
    BY <1>1 DEF Sound, LoadHolds, Still, TableGrows
<1>5. \A r \in Rows : Settled(q, r) => Settled(q, r)'
    BY DEF Settled, Still, TableGrows
<1>6. Accounted(q)'
    BY <1>5 DEF Sound, Accounted, Still, Shape
<1>7. QED  BY <1>2, <1>3, <1>4, <1>6 DEF Sound

\* A step that publishes and locks nothing.
LEMMA CalmStep ==
    ASSUME CInv, NEW p \in Processes, Others(p), UNCHANGED <<table, pending, paid>>,
           Shape', Sound(p)'
    PROVE  CInv'
<1>1. TableGrows
    BY DEF TableGrows, Labelled
<1>2. \A q \in Processes : Sound(q)'
    BY <1>1, BystanderKeeps DEF CInv, Others
<1>3. Locks' /\ PaidIsStored'
    BY DEF CInv, Locks, PaidIsStored, Labelled
<1>4. QED  BY <1>2, <1>3 DEF CInv

LEMMA LoadKeeps ==
    ASSUME CInv, NEW p \in Processes, Load(p)
    PROVE  CInv'
<1>1. PICK r \in Rows : IsNext(p, r) /\ loaded' = [loaded EXCEPT ![p] = table[r]]
    BY DEF Load
<1>2. /\ pc[p] = "write"
      /\ UNCHANGED <<table, pc, job, later, group, plan, pending, exit, selected, chunk, paid>>
    BY DEF Load
<1>3. loaded'[p] = table[r] /\ \A q \in Processes \ {p} : loaded'[q] = loaded[q]
    BY <1>1 DEF CInv, Shape
<1>4. Others(p)
    BY <1>2, <1>3 DEF Others, Still
<1>5. Shape'
    BY <1>1, <1>2 DEF CInv, Shape
<1>6. \A q : IsNext(p, q)' <=> IsNext(p, q)
    BY <1>2 DEF IsNext, Precedes
<1>7. LoadHolds(p)'
    BY <1>1, <1>2, <1>3, <1>6, NextIsUnique DEF LoadHolds, Labelled
<1>8. Typed(p)' /\ Phased(p)' /\ Accounted(p)'
    BY <1>2 DEF CInv, Sound, Typed, IsPlan, IsPatch, Phased, Accounted, Settled, Labelled
<1>9. QED  BY <1>2, <1>4, <1>5, <1>7, <1>8, CalmStep DEF Sound

LEMMA FlushKeeps ==
    ASSUME CInv, NEW p \in Processes, Flush(p)
    PROVE  CInv'
<1>1. PICK r \in Rows :
         /\ IsNext(p, r)
         /\ pending' = [pending EXCEPT ![p] =
                           [x \in DOMAIN @ \cup {r} |->
                               IF x = r THEN Changes(plan[p][r], loaded[p]) ELSE @[x]]]
         /\ plan' = [plan EXCEPT ![p] = Without(@, r)]
    BY DEF Flush
<1>2. /\ pc[p] = "write" /\ loaded[p] # Nothing /\ ~Blocked(p)
      /\ loaded' = [loaded EXCEPT ![p] = Nothing]
      /\ pc' = [pc EXCEPT ![p] = IF group[p] # {} THEN "row" ELSE @]
      /\ UNCHANGED <<table, job, later, group, exit, selected, chunk, paid>>
    BY DEF Flush
<1> DEFINE patch == Changes(plan[p][r], loaded[p])
<1>3. /\ DOMAIN pending' = Processes /\ DOMAIN plan' = Processes
      /\ DOMAIN pending'[p] = DOMAIN pending[p] \cup {r}
      /\ pending'[p][r] = patch
      /\ \A x \in DOMAIN pending[p] \ {r} : pending'[p][x] = pending[p][x]
      /\ DOMAIN plan'[p] = DOMAIN plan[p] \ {r}
      /\ \A x \in DOMAIN plan[p] \ {r} : plan'[p][x] = plan[p][x]
      /\ \A q \in Processes \ {p} : pending'[q] = pending[q] /\ plan'[q] = plan[q]
    BY <1>1 DEF CInv, Shape, Without
<1>4. /\ loaded'[p] = Nothing /\ pc'[p] = IF group[p] # {} THEN "row" ELSE "write"
      /\ \A q \in Processes \ {p} : loaded'[q] = loaded[q] /\ pc'[q] = pc[q]
    BY <1>2 DEF CInv, Shape
<1>5. Others(p)
    BY <1>2, <1>3, <1>4 DEF Others, Still
<1>6. Shape'
    BY <1>2, <1>3, <1>4 DEF CInv, Shape
<1>7. r \in DOMAIN plan[p] /\ IsPlan(p, plan[p][r]) /\ loaded[p] \in Row
    BY <1>1, <1>2 DEF CInv, Sound, Typed, Shape, IsNext
<1>8. IsPatch(p, patch) /\ (p \in Runs => "label" \in DOMAIN patch \/ loaded[p].label # Null)
    BY <1>7, ChangesProperties
<1>9. Typed(p)'
    BY <1>3, <1>8 DEF CInv, Sound, Typed, IsPlan, IsPatch
<1>10. Phased(p)'
    BY <1>2, <1>4 DEF CInv, Sound, Phased
<1>11. LoadHolds(p)'
    BY <1>4 DEF LoadHolds
<1>12. \A x \in Rows : Settled(p, x) /\ x # r => Settled(p, x)'
    BY <1>2, <1>3 DEF Settled, Labelled
<1>13. p \in Runs => Settled(p, r)'
    BY <1>1, <1>2, <1>3, <1>8 DEF CInv, Sound, LoadHolds, Settled, Labelled
<1>14. Labelled(r) => Settled(p, r)'
    BY <1>2 DEF Settled, Labelled
<1>15. Accounted(p)'
  <2>1. CASE p \in Runs
    BY <1>2, <1>3, <1>4, <1>12, <1>13, <2>1 DEF CInv, Sound, Accounted, Shape
  <2>2. CASE p \notin Runs
    BY <1>2, <2>2 DEF CInv, Sound, Accounted, Phased, Processes
  <2>3. QED  BY <2>1, <2>2
<1>16. TableGrows
    BY <1>2 DEF TableGrows, Labelled
<1>17. \A q \in Processes : Sound(q)'
    BY <1>5, <1>9, <1>10, <1>11, <1>15, <1>16, BystanderKeeps DEF CInv, Others, Sound
<1>18. \A q \in Processes \ {p} : r \notin DOMAIN pending[q]
    BY <1>1, <1>2, <1>7 DEF Blocked, WaitsFor
<1>19. Locks'
    BY <1>3, <1>18 DEF CInv, Locks
<1>20. PaidIsStored'
    BY <1>2 DEF CInv, PaidIsStored, Labelled
<1>21. QED  BY <1>6, <1>17, <1>19, <1>20 DEF CInv

LEMMA PublishProperties ==
    ASSUME CInv, NEW p \in Processes, Publish(p)
    PROVE  /\ table' \in [Rows -> Row] /\ TableGrows
           /\ DOMAIN pending' = Processes /\ DOMAIN pending'[p] = {}
           /\ \A q \in Processes \ {p} : pending'[q] = pending[q]
           /\ \A r \in Rows : Settled(p, r) => Labelled(r)'
           /\ \A r \in Rows : table'[r].confirmed # table[r].confirmed =>
                 p \in People /\ r \in DOMAIN pending[p]
<1>1. /\ DOMAIN pending' = Processes /\ pending'[p] = Empty
      /\ \A q \in Processes \ {p} : pending'[q] = pending[q]
    BY DEF Publish, CInv, Shape
<1>2. table' = [r \in Rows |-> IF r \in DOMAIN pending[p] THEN Apply(table[r], pending[p][r])
                               ELSE table[r]]
    BY DEF Publish
<1>3. ASSUME NEW r \in Rows
      PROVE  /\ table'[r] \in Row
             /\ Labelled(r) => table'[r].label # Null
             /\ Settled(p, r) => table'[r].label # Null
             /\ table'[r].confirmed # table[r].confirmed => p \in People /\ r \in DOMAIN pending[p]
  <2>1. table[r] \in Row
    BY DEF CInv, Shape
  <2>2. CASE r \in DOMAIN pending[p]
    <3> DEFINE patch == pending[p][r]
    <3>1. table'[r] = Apply(table[r], patch) /\ IsPatch(p, patch)
        BY <1>2, <2>2 DEF CInv, Sound, Typed
    <3>2. "confirmed" \in DOMAIN patch => p \in People
        BY <3>1 DEF IsPatch
    <3>3. QED  BY <2>1, <2>2, <3>1, <3>2, ApplyProperties DEF Settled, Labelled
  <2>3. CASE r \notin DOMAIN pending[p]
    BY <1>2, <2>1, <2>3 DEF Settled, Labelled
  <2>4. QED  BY <2>2, <2>3
<1>4. table' \in [Rows -> Row]
    BY <1>2, <1>3
<1>5. DOMAIN pending'[p] = {}
    BY <1>1 DEF Empty
<1>6. QED  BY <1>1, <1>3, <1>4, <1>5 DEF TableGrows, Labelled

LEMMA LeaveKeeps ==
    ASSUME CInv, NEW p \in Processes, NEW code \in {"done", "failed"}, Leave(p, code),
           table' \in [Rows -> Row], TableGrows, PaidIsStored',
           DOMAIN pending' = Processes, DOMAIN pending'[p] = {},
           \A q \in Processes \ {p} : pending'[q] = pending[q]
    PROVE  CInv'
<1>1. Shape'
    BY DEF CInv, Shape, Leave
<1>2. Others(p)
    BY DEF Others, Still, Leave, CInv, Shape
<1>3. /\ pc'[p] = "idle" /\ later'[p] = {} /\ group'[p] = {} /\ plan'[p] = Empty
      /\ loaded'[p] = Nothing /\ selected'[p] = {} /\ chunk'[p] = {}
    BY DEF Leave, CInv, Shape
<1>4. DOMAIN plan'[p] = {}
    BY <1>3 DEF Empty
<1>5. Sound(p)'
    BY <1>3, <1>4 DEF Sound, Typed, Phased, LoadHolds, Accounted
<1>6. \A q \in Processes : Sound(q)'
    BY <1>2, <1>5, BystanderKeeps DEF CInv, Others
<1>7. Locks'
    BY DEF CInv, Locks
<1>8. QED  BY <1>1, <1>6, <1>7 DEF CInv

LEMMA AbortKeeps ==
    ASSUME CInv, NEW p \in Processes, Abort(p)
    PROVE  CInv'
<1>1. /\ pending' = [pending EXCEPT ![p] = Empty] /\ Leave(p, "failed")
      /\ table' = table /\ paid' = paid
    BY DEF Abort
<1>2. /\ DOMAIN pending' = Processes /\ pending'[p] = Empty
      /\ \A q \in Processes \ {p} : pending'[q] = pending[q]
    BY <1>1 DEF CInv, Shape
<1>3. DOMAIN pending'[p] = {}
    BY <1>2 DEF Empty
<1>4. table' \in [Rows -> Row] /\ TableGrows /\ PaidIsStored'
    BY <1>1 DEF CInv, Shape, TableGrows, PaidIsStored, Labelled
<1>5. QED  BY <1>1, <1>2, <1>3, <1>4, LeaveKeeps

LEMMA QuitKeeps ==
    ASSUME CInv, NEW p \in Processes, Quit(p)
    PROVE  CInv'
<1>1. Publish(p) /\ Leave(p, "done") /\ paid' = paid
    BY DEF Quit
<1>2. PaidIsStored'
    BY <1>1, PublishProperties DEF CInv, PaidIsStored, TableGrows
<1>3. QED  BY <1>1, <1>2, PublishProperties, LeaveKeeps

LEMMA CommitKeeps ==
    ASSUME CInv, NEW p \in Processes, Commit(p)
    PROVE  CInv'
<1>1. /\ pc[p] = "write" /\ DOMAIN plan[p] = {} /\ group[p] = {}
      /\ Publish(p) /\ paid' = paid \cup chunk[p]
    BY DEF Commit
<1>2. chunk[p] \subseteq Rows /\ \A r \in chunk[p] : Settled(p, r)
    BY <1>1 DEF CInv, Shape, Sound, Accounted
<1>3. PaidIsStored'
    BY <1>1, <1>2, PublishProperties DEF CInv, PaidIsStored, TableGrows
<1>4. CASE Leave(p, "done")
    BY <1>1, <1>3, <1>4, PublishProperties, LeaveKeeps
<1>5. CASE /\ pc' = [pc EXCEPT ![p] = IF p \in Runs THEN "model" ELSE "merchant"]
           /\ chunk' = [chunk EXCEPT ![p] = {}]
           /\ UNCHANGED <<job, later, group, plan, loaded, exit, selected>>
  <2>1. /\ pc'[p] = IF p \in Runs THEN "model" ELSE "merchant"
        /\ chunk'[p] = {}
        /\ \A q \in Processes \ {p} : pc'[q] = pc[q] /\ chunk'[q] = chunk[q]
    BY <1>5 DEF CInv, Shape
  <2>2. Shape'
    BY <1>1, <1>5, PublishProperties DEF CInv, Shape
  <2>3. Others(p)
    BY <1>1, <1>5, <2>1, PublishProperties DEF Others, Still
  <2>4. loaded[p] = Nothing
    BY <1>1 DEF CInv, Sound, LoadHolds, IsNext
  <2>5. Typed(p)'
    BY <1>1, <1>5, PublishProperties DEF Typed
  <2>6. Phased(p)'
    BY <1>1, <1>5, <2>1, ProcessAssumption DEF CInv, Sound, Phased
  <2>7. LoadHolds(p)'
    BY <1>5, <2>4 DEF LoadHolds
  <2>8. Accounted(p)'
    BY <1>1, <1>5, <2>1, PublishProperties DEF CInv, Shape, Sound, Accounted, Settled
  <2>9. \A q \in Processes : Sound(q)'
    BY <1>1, <2>3, <2>5, <2>6, <2>7, <2>8, PublishProperties, BystanderKeeps
    DEF CInv, Others, Sound
  <2>10. Locks'
    BY <1>1, PublishProperties DEF CInv, Locks
  <2>11. QED  BY <1>3, <2>2, <2>9, <2>10 DEF CInv
<1>6. QED  BY <1>4, <1>5 DEF Commit

----------------------------------------------------------------------------
(* Steps that only plan *)

LEMMA SuggestProperties ==
    ASSUME NEW verdict \in Verdict, NEW by \in Models \cup {Rules}
    PROVE  Suggest(verdict, by) \in Suggestion
BY DEF Suggest, Suggestion, Verdict

LEMMA SaidProperties ==
    ASSUME NEW answer \in ModelSays
    PROVE  Said(answer).label \in Label /\ Said(answer).confidence \in Confidence
BY VerdictAssumption DEF Said, Abstention, Label, Confidence

\* The process has no uncommitted rows loaded, and gets a new plan.
LEMMA PlanKeeps ==
    ASSUME CInv, NEW p \in Processes, pc[p] # "write",
           UNCHANGED <<table, loaded, pending, paid>>, Shape', Others(p),
           DOMAIN plan'[p] \subseteq Rows, \A r \in DOMAIN plan'[p] : IsPlan(p, plan'[p][r]),
           Phased(p)', Accounted(p)'
    PROVE  CInv'
<1>1. loaded'[p] = Nothing
    BY DEF CInv, Sound, LoadHolds
<1>2. Typed(p)' /\ LoadHolds(p)'
    BY <1>1 DEF CInv, Sound, Typed, LoadHolds, IsPatch, IsPlan
<1>3. QED  BY <1>2, CalmStep DEF Sound

LEMMA StartRunKeeps ==
    ASSUME CInv, NEW c \in Runs, NEW reclassify \in BOOLEAN, NEW m \in Models,
           NEW n \in Limits, StartRun(c, reclassify, m, n)
    PROVE  CInv'
<1> DEFINE all   == {r \in Rows : IF reclassify THEN Unconfirmed(table[r])
                                  ELSE Unclassified(table[r])}
           mine  == Leading(all, n, reclassify)
           known == {r \in mine : RuleSays[r].label # Abstain}
<1>1. /\ pc[c] = "idle" /\ pc' = [pc EXCEPT ![c] = "write"]
      /\ job' = [job EXCEPT ![c] = [reclassify |-> reclassify, by |-> m]]
      /\ plan' = [plan EXCEPT ![c] = [r \in known |-> Suggest(RuleSays[r], Rules)]]
      /\ later' = [later EXCEPT ![c] = mine \ known]
      /\ selected' = [selected EXCEPT ![c] = mine]
      /\ exit' = [exit EXCEPT ![c] = "none"]
      /\ UNCHANGED <<table, group, loaded, pending, chunk, paid>>
    BY DEF StartRun
<1>2. known \subseteq mine /\ mine \subseteq Rows /\ c \in Processes
    BY DEF Leading, Processes
<1>3. [reclassify |-> reclassify, by |-> m] \in Job
    BY DEF Job
<1>4. \A r \in known : Suggest(RuleSays[r], Rules) \in Suggestion
    BY <1>2, VerdictAssumption, SuggestProperties
<1> HIDE DEF mine, known
<1>5. /\ pc'[c] = "write" /\ job'[c] \in Job /\ later'[c] = mine \ known /\ selected'[c] = mine
      /\ DOMAIN plan'[c] = known /\ \A r \in known : plan'[c][r] = Suggest(RuleSays[r], Rules)
    BY <1>1, <1>2, <1>3 DEF CInv, Shape
<1>6. Shape'
    BY <1>1, <1>2, <1>3 DEF CInv, Shape
<1>7. Others(c)
    BY <1>1, <1>2 DEF Others, Still, CInv, Shape
<1>8. \A r \in DOMAIN plan'[c] : IsPlan(c, plan'[c][r])
    BY <1>4, <1>5 DEF IsPlan
<1>9. chunk'[c] = {} /\ group'[c] = {}
    BY <1>1, <1>2 DEF CInv, Sound, Phased
<1>10. Phased(c)'
    BY <1>5, <1>9, ProcessAssumption DEF Phased
<1>11. Accounted(c)'
    BY <1>5, <1>9 DEF Accounted
<1>12. QED  BY <1>1, <1>2, <1>5, <1>6, <1>7, <1>8, <1>10, <1>11, PlanKeeps

LEMMA AskModelKeeps ==
    ASSUME CInv, NEW c \in Runs, AskModel(c)
    PROVE  CInv'
<1> DEFINE next == Leading(later[c], ChunkSize, job[c].reclassify)
<1>1. PICK answers \in [next -> ModelSays] :
         plan' = [plan EXCEPT ![c] = [r \in next |-> Suggest(Said(answers[r]), job[c].by)]]
    BY DEF AskModel
<1>2. /\ pc[c] = "model" /\ pc' = [pc EXCEPT ![c] = "write"]
      /\ chunk' = [chunk EXCEPT ![c] = next] /\ later' = [later EXCEPT ![c] = @ \ next]
      /\ UNCHANGED <<table, job, group, loaded, pending, exit, selected, paid>>
    BY DEF AskModel
<1>3. c \in Processes /\ later[c] \subseteq Rows /\ next \subseteq later[c]
    BY DEF Leading, Processes, CInv, Shape
<1>4. job[c] \in Job /\ job[c].by \in Models
    BY <1>2, <1>3 DEF CInv, Sound, Phased, Job
<1>5. ASSUME NEW r \in next
      PROVE  Suggest(Said(answers[r]), job[c].by) \in Suggestion
    BY <1>4, SaidProperties DEF Suggest, Suggestion
<1> HIDE DEF next
<1>6. /\ pc'[c] = "write" /\ later'[c] = later[c] \ next /\ chunk'[c] = next
      /\ DOMAIN plan'[c] = next
      /\ \A r \in next : plan'[c][r] = Suggest(Said(answers[r]), job[c].by)
    BY <1>1, <1>2, <1>3 DEF CInv, Shape
<1>7. Shape'
    BY <1>1, <1>2, <1>3 DEF CInv, Shape
<1>8. Others(c)
    BY <1>1, <1>2, <1>3 DEF Others, Still, CInv, Shape
<1>9. \A r \in DOMAIN plan'[c] : IsPlan(c, plan'[c][r])
    BY <1>5, <1>6 DEF IsPlan
<1>10. Phased(c)'
    BY <1>2, <1>3, <1>6, ProcessAssumption DEF CInv, Sound, Phased
<1>11. Accounted(c)'
    BY <1>2, <1>3, <1>6 DEF CInv, Sound, Phased, Accounted, Settled, Labelled
<1>12. QED  BY <1>2, <1>3, <1>6, <1>7, <1>8, <1>9, <1>10, <1>11, PlanKeeps

\* A person's new plan.
LEMMA PersonKeeps ==
    ASSUME CInv, NEW p \in People, pc[p] # "write",
           UNCHANGED <<table, loaded, pending, paid, chunk>>, Shape', Others(p),
           DOMAIN plan'[p] \subseteq Rows, \A r \in DOMAIN plan'[p] : plan'[p][r] \in Decision,
           pc'[p] \notin {"idle", "model"}, pc'[p] = "row" => group'[p] # {}
    PROVE  CInv'
<1>1. p \in Processes /\ p \notin Runs
    BY ProcessAssumption DEF Processes
<1>2. chunk[p] = {}
    BY <1>1 DEF CInv, Sound, Phased
<1>3. \A r \in DOMAIN plan'[p] : IsPlan(p, plan'[p][r])
    BY <1>1 DEF IsPlan
<1>4. Phased(p)'
    BY <1>1, <1>2 DEF Phased
<1>5. Accounted(p)'
    BY <1>1, <1>2 DEF Accounted
<1>6. QED  BY <1>1, <1>3, <1>4, <1>5, PlanKeeps

LEMMA PlansOfPeople ==
    ASSUME CInv, NEW p \in People
    PROVE  DOMAIN plan[p] \subseteq Rows /\ \A r \in DOMAIN plan[p] : plan[p][r] \in Decision
<1>1. p \in Processes /\ p \notin Runs
    BY ProcessAssumption DEF Processes
<1>2. QED  BY <1>1 DEF CInv, Sound, Typed, IsPlan

LEMMA StartReviewKeeps ==
    ASSUME CInv, NEW p \in People, StartReview(p)
    PROVE  CInv'
<1> DEFINE queue == {r \in Rows : AwaitingReview(table[r])}
<1>1. /\ pc[p] = "idle" /\ pc' = [pc EXCEPT ![p] = "merchant"]
      /\ later' = [later EXCEPT ![p] = queue]
      /\ UNCHANGED <<table, job, group, plan, loaded, pending, exit, selected, chunk, paid>>
    BY DEF StartReview
<1>2. p \in Processes /\ queue \subseteq Rows
    BY DEF Processes
<1> HIDE DEF queue
<1>3. Shape' /\ pc'[p] = "merchant"
    BY <1>1, <1>2 DEF CInv, Shape
<1>4. Others(p)
    BY <1>1, <1>2 DEF Others, Still, CInv, Shape
<1>5. QED  BY <1>1, <1>3, <1>4, PersonKeeps, PlansOfPeople

LEMMA AnswerAllKeeps ==
    ASSUME CInv, NEW p \in People, NEW l \in Choices, AnswerAll(p, l)
    PROVE  CInv'
<1> DEFINE mine == Current(p)
<1>1. /\ pc[p] = "merchant" /\ pc' = [pc EXCEPT ![p] = "write"]
      /\ plan' = [plan EXCEPT ![p] = [r \in mine |-> Decide(l)]]
      /\ later' = [later EXCEPT ![p] = @ \ mine]
      /\ UNCHANGED <<table, job, group, loaded, pending, exit, selected, chunk, paid>>
    BY DEF AnswerAll
<1>2. p \in Processes /\ mine \subseteq Rows /\ Decide(l) \in Decision
    BY DEF Processes, Current, CInv, Shape, Decide, Decision
<1> HIDE DEF mine
<1>3. /\ Shape' /\ pc'[p] = "write" /\ DOMAIN plan'[p] = mine
      /\ \A r \in mine : plan'[p][r] = Decide(l)
    BY <1>1, <1>2 DEF CInv, Shape
<1>4. Others(p)
    BY <1>1, <1>2 DEF Others, Still, CInv, Shape
<1>5. QED  BY <1>1, <1>2, <1>3, <1>4, PersonKeeps

LEMMA SplitKeeps ==
    ASSUME CInv, NEW p \in People, Split(p)
    PROVE  CInv'
<1> DEFINE mine == Current(p)
<1>1. /\ pc[p] = "merchant" /\ pc' = [pc EXCEPT ![p] = "row"]
      /\ group' = [group EXCEPT ![p] = mine] /\ later' = [later EXCEPT ![p] = @ \ mine]
      /\ UNCHANGED <<table, job, plan, loaded, pending, exit, selected, chunk, paid>>
    BY DEF Split
<1>2. p \in Processes /\ mine \subseteq Rows
    BY DEF Processes, Current, CInv, Shape
<1>3. mine # {}
    BY FS_EmptySet DEF Split
<1> HIDE DEF mine
<1>4. Shape' /\ pc'[p] = "row" /\ group'[p] # {}
    BY <1>1, <1>2, <1>3 DEF CInv, Shape
<1>5. Others(p)
    BY <1>1, <1>2 DEF Others, Still, CInv, Shape
<1>6. QED  BY <1>1, <1>4, <1>5, PersonKeeps, PlansOfPeople

LEMMA AnswerRowKeeps ==
    ASSUME CInv, NEW p \in People, NEW l \in Choices, AnswerRow(p, l)
    PROVE  CInv'
<1> DEFINE last == FirstOf(group[p])
<1>1. /\ pc[p] = "row" /\ pc' = [pc EXCEPT ![p] = "write"]
      /\ plan' = [plan EXCEPT ![p] = [r \in {last} |-> Decide(l)]]
      /\ group' = [group EXCEPT ![p] = @ \ {last}]
      /\ UNCHANGED <<table, job, later, loaded, pending, exit, selected, chunk, paid>>
    BY DEF AnswerRow
<1>2. p \in Processes /\ Decide(l) \in Decision
    BY DEF Processes, Decide, Decision
<1>3. last \in Rows
    <2>1. group[p] \in SUBSET Rows /\ group[p] # {}
        BY <1>1, <1>2 DEF CInv, Shape, Sound, Phased
    <2>2. QED  BY <2>1, FirstOfProperties
<1> HIDE DEF last
<1>4. /\ Shape' /\ pc'[p] = "write" /\ DOMAIN plan'[p] = {last}
      /\ \A r \in {last} : plan'[p][r] = Decide(l)
    BY <1>1, <1>2 DEF CInv, Shape
<1>5. Others(p)
    BY <1>1, <1>2 DEF Others, Still, CInv, Shape
<1>6. QED  BY <1>1, <1>2, <1>3, <1>4, <1>5, PersonKeeps

LEMMA ConfirmOneKeeps ==
    ASSUME CInv, NEW p \in People, NEW r \in Rows, NEW l \in Choices, ConfirmOne(p, r, l)
    PROVE  CInv'
<1>1. /\ pc[p] = "idle" /\ pc' = [pc EXCEPT ![p] = "write"]
      /\ plan' = [plan EXCEPT ![p] = [x \in {r} |-> Decide(l)]]
      /\ UNCHANGED <<table, job, later, group, loaded, pending, exit, selected, chunk, paid>>
    BY DEF ConfirmOne
<1>2. p \in Processes /\ Decide(l) \in Decision
    BY DEF Processes, Decide, Decision
<1>3. /\ Shape' /\ pc'[p] = "write" /\ DOMAIN plan'[p] = {r}
      /\ \A x \in {r} : plan'[p][x] = Decide(l)
    BY <1>1, <1>2 DEF CInv, Shape
<1>4. Others(p)
    BY <1>1, <1>2 DEF Others, Still, CInv, Shape
<1>5. QED  BY <1>1, <1>2, <1>3, <1>4, PersonKeeps

----------------------------------------------------------------------------
(* The specification *)

LEMMA InitHolds == Init => CInv
<1> SUFFICES ASSUME Init PROVE CInv
    OBVIOUS
<1>1. [c \in Columns |-> Null] \in Row
  <2> DEFINE row == [c \in Columns |-> Null]
  <2>1. row = [label |-> Null, confidence |-> Null, by |-> Null, confirmed |-> Null]
    BY DEF Columns
  <2>2. QED  BY <2>1 DEF Row
<1>2. Shape
    BY <1>1 DEF Init, Shape
<1>3. DOMAIN Empty = {}
    BY DEF Empty
<1>4. ASSUME NEW p \in Processes PROVE Sound(p)
    BY <1>3 DEF Init, Sound, Typed, Phased, LoadHolds, Accounted
<1>5. Locks /\ PaidIsStored
    BY <1>3 DEF Init, Locks, PaidIsStored
<1>6. QED  BY <1>2, <1>4, <1>5 DEF CInv

LEMMA NextKeeps == CInv /\ [Next]_vars => CInv'
<1> SUFFICES ASSUME CInv, [Next]_vars PROVE CInv'
    OBVIOUS
<1>1. CASE UNCHANGED vars
  <2>1. Shape' /\ Locks' /\ PaidIsStored' /\ TableGrows /\ \A q \in Processes : Still(q)
    BY <1>1 DEF vars, CInv, Shape, Locks, PaidIsStored, TableGrows, Labelled, Still
  <2>2. QED  BY <2>1, BystanderKeeps DEF CInv
<1>2. ASSUME NEW c \in Runs, NEW reclassify \in BOOLEAN, NEW m \in Models, NEW n \in Limits,
             StartRun(c, reclassify, m, n)
      PROVE  CInv'
    BY <1>2, StartRunKeeps
<1>3. ASSUME NEW p \in People, StartReview(p) \/ Answer(p) PROVE CInv'
  <2>1. p \in Processes
    BY DEF Processes
  <2>2. QED
    BY <1>3, <2>1, StartReviewKeeps, AnswerAllKeeps, AnswerRowKeeps, SplitKeeps, QuitKeeps
    DEF Answer
<1>4. ASSUME NEW p \in People, NEW r \in Rows, NEW l \in Choices, ConfirmOne(p, r, l)
      PROVE  CInv'
    BY <1>4, ConfirmOneKeeps
<1>5. ASSUME NEW p \in Processes, Proceed(p) \/ Flush(p) \/ DeadlockAbort(p) \/ Abort(p)
      PROVE  CInv'
    BY <1>5, LoadKeeps, CommitKeeps, AskModelKeeps, FlushKeeps, AbortKeeps
    DEF Proceed, DeadlockAbort
<1>6. QED  BY <1>1, <1>2, <1>3, <1>4, <1>5 DEF Next

LEMMA Invariance == Spec => []CInv
BY InitHolds, NextKeeps, PTL DEF Spec

\* Labels stay in the taxonomy, whatever a provider returns, and a row is
\* locked by one session.
THEOREM TypeCorrect == Spec => []TypeOK
<1>1. CInv => TypeOK
    BY DEF CInv, Shape, Locks, PaidIsStored, Sound, Typed, TypeOK
<1>2. QED  BY <1>1, Invariance, PTL

----------------------------------------------------------------------------
(* Decisions, and what a run has examined *)

LEMMA TableChangesOnPublish ==
    ASSUME [Next]_vars, table' # table
    PROVE  \E p \in Processes : Publish(p)
BY DEF Next, vars, StartRun, StartReview, Answer, AnswerAll, AnswerRow, Split, Quit, ConfirmOne,
       Proceed, Load, Commit, AskModel, Flush, DeadlockAbort, Abort, Processes

\* A categoriser never takes back what a person decided.
THEOREM DecisionsAreKept == Spec => DecisionsStand
<1>1. ASSUME CInv, [Next]_vars, NEW r \in Rows,
             table[r].confirmed # Null, Effective(table'[r]) # Effective(table[r])
      PROVE  \E p \in People : r \in DOMAIN pending[p] /\ r \notin DOMAIN pending'[p]
  <2>1. table'[r].confirmed # table[r].confirmed
    BY <1>1 DEF Effective
  <2>2. PICK p \in Processes : Publish(p)
    BY <1>1, <2>1, TableChangesOnPublish
  <2>3. QED  BY <1>1, <2>1, <2>2, PublishProperties
<1>2. CInv /\ [Next]_vars =>
        \A r \in Rows :
            (table[r].confirmed # Null /\ Effective(table'[r]) # Effective(table[r])) =>
                \E p \in People : r \in DOMAIN pending[p] /\ r \notin DOMAIN pending'[p]
    BY <1>1
<1>3. QED  BY <1>2, Invariance, PTL DEF Spec, DecisionsStand

\* Only its own last commit lets a run end well.
LEMMA RunsFinishByCommit ==
    ASSUME CInv, [Next]_vars, NEW c \in Runs,
           pc[c] # "idle", pc'[c] = "idle", exit'[c] = "done"
    PROVE  Commit(c) /\ later[c] = {}
<1>1. c \in Processes /\ c \notin People
    BY ProcessAssumption DEF Processes
<1>2. /\ pc \in [Processes -> {"idle", "write", "model", "merchant", "row"}]
      /\ pc[c] \in {"write", "model"}
    BY <1>1 DEF CInv, Shape, Sound, Phased
<1>3. ~UNCHANGED vars
    BY DEF vars
<1>4. ASSUME NEW d \in Runs, NEW reclassify \in BOOLEAN, NEW m \in Models, NEW n \in Limits,
             StartRun(d, reclassify, m, n)
      PROVE  FALSE
    BY <1>1, <1>2, <1>4 DEF StartRun
<1>5. ASSUME NEW p \in People, StartReview(p) \/ Answer(p) PROVE FALSE
    BY <1>1, <1>2, <1>5
    DEF StartReview, Answer, AnswerAll, AnswerRow, Split, Quit, Leave
<1>6. ASSUME NEW p \in People, NEW r \in Rows, NEW l \in Choices, ConfirmOne(p, r, l)
      PROVE  FALSE
    BY <1>1, <1>2, <1>6 DEF ConfirmOne
<1>7. ASSUME NEW p \in Processes, Proceed(p) \/ Flush(p) \/ DeadlockAbort(p) \/ Abort(p)
      PROVE  Commit(c) /\ later[c] = {}
  <2>1. CASE Load(p) \/ Flush(p)
    <3>1. pc' = pc \/ pc' = [pc EXCEPT ![p] = IF group[p] # {} THEN "row" ELSE @]
        BY <2>1 DEF Load, Flush
    <3>2. QED  BY <1>1, <1>2, <3>1
  <2>2. CASE p \in Runs /\ AskModel(p)
    BY <1>2, <2>2 DEF AskModel
  <2>3. CASE Abort(p) \/ DeadlockAbort(p)
    BY <1>1, <1>2, <2>3 DEF DeadlockAbort, Abort, Leave
  <2>4. CASE Commit(p)
    <3>1. CASE Leave(p, "done") /\ later[p] = {}
        BY <1>2, <2>4, <3>1 DEF Leave
    <3>2. CASE pc' = [pc EXCEPT ![p] = IF p \in Runs THEN "model" ELSE "merchant"]
        BY <1>2, <3>2
    <3>3. QED  BY <2>4, <3>1, <3>2 DEF Commit
  <2>5. QED  BY <1>7, <2>1, <2>2, <2>3, <2>4 DEF Proceed
<1>8. QED  BY <1>3, <1>4, <1>5, <1>6, <1>7 DEF Next

\* A run that ends by itself leaves no row without an answer.
THEOREM FinishedRunsExamined == Spec => FinishedMeansExamined
<1>1. ASSUME CInv, [Next]_vars, NEW c \in Runs,
             pc[c] # "idle", pc'[c] = "idle", exit'[c] = "done", NEW r \in selected[c]
      PROVE  table'[r].label # Null
  <2>1. Commit(c) /\ later[c] = {} /\ c \in Processes
    BY <1>1, RunsFinishByCommit DEF Processes
  <2>2. Publish(c) /\ DOMAIN plan[c] = {}
    BY <2>1 DEF Commit
  <2>3. r \in Rows /\ Settled(c, r)
    BY <1>1, <2>1, <2>2 DEF CInv, Shape, Sound, Accounted
  <2>4. QED  BY <1>1, <2>1, <2>2, <2>3, PublishProperties DEF Labelled
<1>2. CInv /\ [Next]_vars =>
        \A c \in Runs :
            (pc[c] # "idle" /\ pc'[c] = "idle" /\ exit'[c] = "done") =>
                \A r \in selected[c] : table'[r].label # Null
    BY <1>1
<1>3. QED  BY <1>2, Invariance, PTL DEF Spec, FinishedMeansExamined

----------------------------------------------------------------------------
(* Resuming *)

\* categorise.py is started by one person, one run at a time.
OneRun == \A c, d \in Runs : c = d

NotPaid(c) == (pc[c] # "idle" /\ ~job[c].reclassify) => later[c] \cap paid = {}

LEMMA PaidGrowsByChunks ==
    ASSUME CInv, [Next]_vars, OneRun, NEW c \in Runs
    PROVE  paid' \subseteq paid \cup chunk[c]
<1>1. ASSUME NEW p \in Processes, Commit(p) PROVE paid' \subseteq paid \cup chunk[c]
  <2>1. CASE p \in Runs
    BY <1>1, <2>1 DEF OneRun, Commit
  <2>2. CASE p \in People
    BY <1>1, <2>2 DEF Commit, CInv, Sound, Phased
  <2>3. QED  BY <2>1, <2>2 DEF Processes
<1>2. paid' = paid \/ \E p \in Processes : Commit(p)
    BY DEF Next, vars, StartRun, StartReview, Answer, AnswerAll, AnswerRow, Split, Quit,
           ConfirmOne, Proceed, Load, AskModel, Flush, DeadlockAbort, Abort
<1>3. QED  BY <1>1, <1>2

LEMMA RunsWorkOff ==
    ASSUME CInv, [Next]_vars, NEW c \in Runs, pc'[c] # "idle", ~job'[c].reclassify
    PROVE  \/ pc[c] # "idle" /\ ~job[c].reclassify /\ later'[c] \subseteq later[c]
           \/ later'[c] \cap paid' = {}
<1>1. c \in Processes /\ c \notin People
    BY ProcessAssumption DEF Processes
<1>2. /\ DOMAIN pc = Processes /\ DOMAIN job = Processes /\ DOMAIN later = Processes
      /\ later \in [Processes -> SUBSET Rows]
    BY DEF CInv, Shape
<1> DEFINE Goal == pc[c] # "idle" /\ ~job[c].reclassify /\ later'[c] \subseteq later[c]
<1>3. CASE UNCHANGED vars
    BY <1>3 DEF vars
<1>4. ASSUME NEW d \in Runs, NEW reclassify \in BOOLEAN, NEW m \in Models, NEW n \in Limits,
             StartRun(d, reclassify, m, n)
      PROVE  Goal \/ later'[c] \cap paid' = {}
  <2>1. CASE d = c
    <3>1. job'[c].reclassify = reclassify
        BY <1>1, <1>2, <1>4, <2>1 DEF StartRun
    <3>2. /\ later'[c] \subseteq {r \in Rows : Unclassified(table[r])} /\ paid' = paid
        BY <1>1, <1>2, <1>4, <2>1, <3>1 DEF StartRun, Leading
    <3>3. QED  BY <3>2 DEF CInv, PaidIsStored, Labelled, Unclassified
  <2>2. CASE d # c
    BY <1>1, <1>2, <1>4, <2>2 DEF StartRun, Processes
  <2>3. QED  BY <2>1, <2>2
<1>5. ASSUME NEW p \in People, StartReview(p) \/ Answer(p) PROVE Goal
    BY <1>1, <1>2, <1>5
    DEF StartReview, Answer, AnswerAll, AnswerRow, Split, Quit, Leave, Publish
<1>6. ASSUME NEW p \in People, NEW r \in Rows, NEW l \in Choices, ConfirmOne(p, r, l)
      PROVE  Goal
    BY <1>1, <1>2, <1>6 DEF ConfirmOne
<1>7. ASSUME NEW p \in Processes, Proceed(p) \/ Flush(p) \/ DeadlockAbort(p) \/ Abort(p)
      PROVE  Goal
  <2>1. CASE Load(p) \/ Flush(p)
    BY <1>1, <1>2, <2>1 DEF Load, Flush
  <2>2. CASE p \in Runs /\ AskModel(p)
    BY <1>1, <1>2, <2>2 DEF AskModel
  <2>3. CASE Abort(p) \/ DeadlockAbort(p)
    BY <1>1, <1>2, <2>3 DEF DeadlockAbort, Abort, Leave
  <2>4. CASE Commit(p)
    BY <1>1, <1>2, <2>4 DEF Commit, Leave
  <2>5. QED  BY <1>7, <2>1, <2>2, <2>3, <2>4 DEF Proceed
<1>8. QED  BY <1>3, <1>4, <1>5, <1>6, <1>7 DEF Next

\* A run that is started again asks only about what was never paid for, as
\* long as no two runs overlap.
THEOREM ResumingAsksTheRest == OneRun => (Spec => []ResumeAsksOnlyTheRest)
<1> SUFFICES ASSUME OneRun PROVE Spec => []ResumeAsksOnlyTheRest
    OBVIOUS
<1> DEFINE RInv == \A c \in Runs : NotPaid(c)
<1>1. Init => RInv
    BY DEF Init, NotPaid, Processes
<1>2. CInv /\ RInv /\ [Next]_vars => RInv'
  <2> SUFFICES ASSUME CInv, RInv, [Next]_vars, NEW c \in Runs, pc'[c] # "idle",
                      ~job'[c].reclassify
               PROVE  later'[c] \cap paid' = {}
    BY DEF NotPaid
  <2>1. CASE pc[c] # "idle" /\ ~job[c].reclassify /\ later'[c] \subseteq later[c]
    <3>1. later[c] \cap paid = {} /\ chunk[c] \cap later[c] = {}
        BY <2>1 DEF NotPaid, CInv, Sound, Accounted, Processes
    <3>2. QED  BY <2>1, <3>1, PaidGrowsByChunks
  <2>2. QED  BY <2>1, RunsWorkOff
<1>3. RInv => ResumeAsksOnlyTheRest
    BY DEF NotPaid, ResumeAsksOnlyTheRest
<1>4. QED  BY <1>1, <1>2, <1>3, Invariance, PTL DEF Spec

===============================================================================
