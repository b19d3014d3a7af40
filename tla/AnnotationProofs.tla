--------------------------- MODULE AnnotationProofs ---------------------------
(***************************************************************************)
(* Theorems about Annotation, for any statements, merchants and labels and *)
(* any SaveEvery: what is suggested, what a crash costs and what a pass    *)
(* leaves open; and about the evaluation of every file a pass leaves.      *)
(***************************************************************************)
EXTENDS MCAnnotation, FiniteSetTheorems, WellFoundedInduction, TLAPS

-----------------------------------------------------------------------------
(* Folds *)

\* A nonempty set of naturals has a least element.
LEMMA LeastNatural ==
  ASSUME NEW T \in SUBSET Nat, T # {}
  PROVE  \E m \in T : \A y \in T : m <= y
<1>1. PICK m \in T : \A y \in T : ~(<<y, m>> \in OpToRel(<, Nat))
  BY WFMin, NatLessThanWellFounded, Zenon
<1>2. \A y \in T : ~(y < m)
  BY <1>1 DEF OpToRel
<1> QED BY <1>2

\* Induction, over a set instead of a predicate.
LEMMA NaturalInduction ==
  ASSUME NEW T, 0 \in T, \A n \in Nat : n \in T => n + 1 \in T
  PROVE  \A n \in Nat : n \in T
<1> DEFINE Rest == {n \in Nat : n \notin T}
<1>1. SUFFICES ASSUME Rest # {} PROVE FALSE
  OBVIOUS
<1>2. PICK n \in Rest : \A m \in Rest : n <= m
  BY <1>1, LeastNatural
<1>3. n # 0 /\ n - 1 \in Nat
  BY <1>2
<1>4. n - 1 \in T
  BY <1>2, <1>3
<1>5. (n - 1) + 1 = n
  BY <1>2
<1> QED BY <1>2, <1>3, <1>4, <1>5

LEMMA MaxProperties ==
  ASSUME NEW n \in Nat, NEW s \in SUBSET (1..n), s # {}
  PROVE  Max(s) \in s /\ \A i \in s : i <= Max(s)
<1> DEFINE Below == {n - i : i \in s}
<1>1. Below \subseteq Nat /\ Below # {}
  <2>1. \A i \in s : i \in Nat /\ i <= n
    OBVIOUS
  <2>2. \A i \in s : n - i \in Nat
    BY <2>1
  <2> QED BY <2>2
<1>2. PICK d \in Below : \A e \in Below : d <= e
  BY <1>1, LeastNatural
<1>3. PICK i \in s : d = n - i
  BY <1>2
<1>4. \A j \in s : n - i <= n - j
  BY <1>2, <1>3
<1>5. \A j \in s : i >= j
  BY <1>4
<1> QED BY <1>3, <1>5 DEF Max

LEMMA MinProperties ==
  ASSUME NEW n \in Nat, NEW s \in SUBSET (1..n), s # {}
  PROVE  Min(s) \in s /\ \A i \in s : Min(s) <= i
<1>1. s \in SUBSET Nat
  OBVIOUS
<1>2. PICK m \in s : \A i \in s : m <= i
  BY <1>1, LeastNatural
<1> QED BY <1>2 DEF Min

LEMMA MaxIs ==
  ASSUME NEW n \in Nat, NEW s \in SUBSET (1..n), NEW k \in s, \A i \in s : i <= k
  PROVE  Max(s) = k
<1>1. Max(s) \in s /\ \A i \in s : i <= Max(s)
  BY MaxProperties
<1>2. \A i \in s : i \in Nat
  OBVIOUS
<1>3. Max(s) <= k /\ k <= Max(s)
  BY <1>1
<1>4. \A i, j \in Nat : i <= j /\ j <= i => i = j
  OBVIOUS
<1>5. Max(s) \in Nat /\ k \in Nat
  BY <1>1, <1>2
<1> QED BY <1>3, <1>4, <1>5

\* The recursion of a fold: from base, the elements in their order.
Folds(iter, base, step, n) ==
  iter = [s \in SUBSET (1..n) |->
            IF s = {} THEN base ELSE step[<<iter[s \ {Max(s)}], Max(s)>>]]

LEMMA FoldExists ==
  ASSUME NEW base, NEW step, NEW n \in Nat
  PROVE  \E iter : Folds(iter, base, step, n)
<1> DEFINE T == {k \in Nat : \E iter : Folds(iter, base, step, k)}
<1>1. 0 \in T
  <2> DEFINE g == [s \in SUBSET (1..0) |-> base]
  <2>1. \A s \in SUBSET (1..0) : s = {}
    OBVIOUS
  <2>2. Folds(g, base, step, 0)
    BY <2>1 DEF Folds
  <2> QED BY <2>2
<1>2. ASSUME NEW k \in Nat, k \in T PROVE k + 1 \in T
  <2>1. PICK g : Folds(g, base, step, k)
    BY <1>2
  <2>2. \A s \in SUBSET (1..k) :
          g[s] = IF s = {} THEN base ELSE step[<<g[s \ {Max(s)}], Max(s)>>]
    BY <2>1 DEF Folds
  <2> DEFINE h == [s \in SUBSET (1..(k+1)) |->
                     IF s \subseteq 1..k THEN g[s] ELSE step[<<g[s \ {k + 1}], k + 1>>]]
  <2>3. ASSUME NEW s \in SUBSET (1..(k+1))
        PROVE  h[s] = IF s = {} THEN base ELSE step[<<h[s \ {Max(s)}], Max(s)>>]
    <3>1. CASE s = {}
      BY <2>2, <3>1
    <3>2. CASE s # {} /\ s \subseteq 1..k
      <4>1. s \ {Max(s)} \subseteq 1..k
        BY <3>2
      <4>2. h[s] = g[s] /\ h[s \ {Max(s)}] = g[s \ {Max(s)}]
        BY <3>2, <4>1
      <4> QED BY <2>2, <3>2, <4>2
    <3>3. CASE ~(s \subseteq 1..k)
      <4>1. k + 1 \in s /\ s \ {k + 1} \subseteq 1..k
        BY <3>3
      <4>2. Max(s) = k + 1
        <5>1. k + 1 \in Nat /\ \A i \in s : i <= k + 1
          OBVIOUS
        <5> QED BY <4>1, <5>1, MaxIs
      <4>3. h[s \ {Max(s)}] = g[s \ {k + 1}]
        BY <4>1, <4>2
      <4> QED BY <3>3, <4>1, <4>2, <4>3
    <3> QED BY <3>1, <3>2, <3>3
  <2>4. Folds(h, base, step, k + 1)
    BY <2>3 DEF Folds
  <2> QED BY <2>4
<1> HIDE DEF T
<1>3. n \in T
  BY <1>1, <1>2, NaturalInduction
<1> QED BY <1>3 DEF T

\* A fold stays where each of its steps stays.
LEMMA FoldIsIn ==
  ASSUME NEW S, NEW n \in Nat, NEW iter, iter[{}] \in S,
         \A s \in SUBSET (1..n) : s # {} /\ iter[s \ {Max(s)}] \in S => iter[s] \in S
  PROVE  \A s \in SUBSET (1..n) : iter[s] \in S
<1> DEFINE T == {k \in Nat : \A s \in SUBSET (1..n) : s \subseteq 1..k => iter[s] \in S}
<1>1. 0 \in T
  <2>1. \A s \in SUBSET (1..n) : s \subseteq 1..0 => s = {}
    OBVIOUS
  <2> QED BY <2>1
<1>2. ASSUME NEW k \in Nat, k \in T PROVE k + 1 \in T
  <2>1. SUFFICES ASSUME NEW s \in SUBSET (1..n), s \subseteq 1..(k+1) PROVE iter[s] \in S
    OBVIOUS
  <2>2. CASE s = {}
    BY <2>2
  <2>3. CASE s # {}
    <3>1. Max(s) \in s /\ \A i \in s : i <= Max(s)
      BY <2>3, MaxProperties
    <3>2. ASSUME NEW i \in s \ {Max(s)} PROVE i \in 1..k
      <4>1. i \in 1..(k+1) /\ Max(s) \in 1..(k+1) /\ i <= Max(s) /\ i # Max(s)
        BY <2>1, <3>1
      <4> QED BY <4>1
    <3>3. iter[s \ {Max(s)}] \in S
      <4>1. s \ {Max(s)} \in SUBSET (1..n)
        OBVIOUS
      <4> QED BY <1>2, <3>2, <4>1
    <3> QED BY <2>3, <3>3
  <2> QED BY <2>2, <2>3
<1> HIDE DEF T
<1>3. n \in T
  BY <1>1, <1>2, NaturalInduction
<1> QED BY <1>3 DEF T

\* A row that load_dataset accepts, and one that a file may hold.
Row == [id : RowIds, merchant : MerchantNames, amount : BOOLEAN,
        labels : [Annotators -> LabelTexts \cup {NoLabel}],
        acceptable : SUBSET LabelTexts, note : BOOLEAN, posted : {"iso", "cut", "none"}]
FileRow == [id : RowIds, merchant : MerchantNames \cup {""}, amount : BOOLEAN,
            labels : [Annotators -> LabelTexts \cup {NoLabel}],
            acceptable : SUBSET LabelTexts, note : BOOLEAN, posted : {"iso", "cut", "none"}]

\* Where every description is there, load_dataset accepts the rows.
LEMMA OpenRows ==
  ASSUME NEW rows \in Seq(FileRow), Opens(rows)
  PROVE  rows \in Seq(Row)
<1>1. \A i \in 1..Len(rows) : rows[i] \in FileRow /\ rows[i].merchant # ""
  <2>1. DOMAIN rows = 1..Len(rows) /\ \A i \in 1..Len(rows) : rows[i] \in FileRow
    OBVIOUS
  <2> QED BY <2>1, Zenon DEF Opens
<1>2. \A i \in 1..Len(rows) : rows[i] \in Row
  BY <1>1 DEF Row, FileRow
<1>3. rows = [i \in 1..Len(rows) |-> rows[i]] /\ Len(rows) \in Nat
  OBVIOUS
<1> HIDE DEF Row, FileRow
<1> QED BY <1>2, <1>3

LEMMA RowsAreFileRows ==
  ASSUME NEW rows \in Seq(Row)
  PROVE  rows \in Seq(FileRow)
<1>1. \A row \in Row : row \in FileRow
  BY DEF Row, FileRow
<1>2. \A i \in 1..Len(rows) : rows[i] \in Row
  OBVIOUS
<1>3. rows = [i \in 1..Len(rows) |-> rows[i]] /\ Len(rows) \in Nat
  OBVIOUS
<1> HIDE DEF Row, FileRow
<1> QED BY <1>1, <1>2, <1>3

\* What a merge may add to the rows it starts from: rows nobody has labelled.
Bare(row) == \A who \in Annotators : row.labels[who] = NoLabel
Grown(rows) == {q \in Seq(Row) : \A i \in DOMAIN q : Bare(q[i]) \/ \E k \in DOMAIN rows : q[i] = rows[k]}

LEMMA GrownKeeps ==
  ASSUME NEW rows \in Seq(Row), NEW x \in Grown(rows), NEW id \in RowIds
  PROVE  Append(x, NewRow(id)) \in Grown(rows)
<1>1. NewRow(id) \in Row /\ Bare(NewRow(id))
  BY RowsHaveMerchants DEF NewRow, Row, Bare, Annotators
<1>2. x \in Seq(Row) /\ \A i \in DOMAIN x : Bare(x[i]) \/ \E k \in DOMAIN rows : x[i] = rows[k]
  BY DEF Grown
<1> DEFINE q == Append(x, NewRow(id))
<1>3. q \in Seq(Row) /\ \A i \in DOMAIN q : (i \in DOMAIN x /\ q[i] = x[i]) \/ q[i] = NewRow(id)
  BY <1>1, <1>2
<1>4. \A i \in DOMAIN q : Bare(q[i]) \/ \E k \in DOMAIN rows : q[i] = rows[k]
  BY <1>1, <1>2, <1>3
<1> QED BY <1>3, <1>4 DEF Grown

LEMMA MergeProperties ==
  ASSUME NEW rows \in Seq(Row), NEW statement \in Statements \cup {NoStatement}
  PROVE  Merge(rows, statement) \in Grown(rows)
<1>1. CASE statement = NoStatement
  BY <1>1 DEF Merge, Grown
<1>2. CASE statement # NoStatement
  <2> DEFINE seq == RowsOf[statement]
             n == Len(seq)
             Add(all, id) == IF id \in IdsOf(rows) THEN all ELSE Append(all, NewRow(id))
             step == [p \in Grown(rows) \X (1..n) |-> Add(p[1], seq[p[2]])]
             iter == CHOOSE iter : iter = [s \in SUBSET DOMAIN seq |->
                       IF s = {} THEN rows ELSE Add(iter[s \ {Max(s)}], seq[Max(s)])]
  <2>1. Merge(rows, statement) = iter[DOMAIN seq]
    BY <1>2 DEF Merge, FoldLeft, MapThenFoldSet
  <2>2. seq \in Seq(RowIds) /\ n \in Nat /\ DOMAIN seq = 1..n
    BY <1>2, StatementsHaveRows
  <2>3. rows \in Grown(rows)
    BY DEF Grown
  <2>4. \A x \in Grown(rows) : \A k \in 1..n : Add(x, seq[k]) \in Grown(rows)
    <3>1. SUFFICES ASSUME NEW x \in Grown(rows), NEW k \in 1..n PROVE Add(x, seq[k]) \in Grown(rows)
      OBVIOUS
    <3>2. seq[k] \in RowIds
      BY <2>2
    <3> QED BY <3>2, GrownKeeps
  <2> DEFINE Recurs(g) == g = [s \in SUBSET (1..n) |->
                       IF s = {} THEN rows ELSE Add(g[s \ {Max(s)}], seq[Max(s)])]
  <2> HIDE DEF Add, n, seq
  <2>5. \A s \in SUBSET (1..n) : s # {} => Max(s) \in 1..n
    BY <2>2, MaxProperties
  <2>6. \E g : Recurs(g)
    <3>1. PICK g : Folds(g, rows, step, n)
      BY <2>2, FoldExists
    <3>2. \A s \in SUBSET (1..n) :
            g[s] = IF s = {} THEN rows ELSE step[<<g[s \ {Max(s)}], Max(s)>>]
      BY <3>1 DEF Folds
    <3>3. \A s \in SUBSET (1..n) : s # {} /\ g[s \ {Max(s)}] \in Grown(rows) =>
            g[s] \in Grown(rows) /\ g[s] = Add(g[s \ {Max(s)}], seq[Max(s)])
      BY <2>4, <2>5, <3>2
    <3>4. g[{}] = rows
      BY <3>2
    <3>5. \A s \in SUBSET (1..n) : g[s] \in Grown(rows)
      <4> HIDE DEF step
      <4> QED BY <2>2, <2>3, <3>3, <3>4, FoldIsIn
    <3>6. \A s \in SUBSET (1..n) : s \ {Max(s)} \in SUBSET (1..n)
      OBVIOUS
    <3>7. \A s \in SUBSET (1..n) : s # {} => g[s] = Add(g[s \ {Max(s)}], seq[Max(s)])
      BY <3>3, <3>5, <3>6
    <3>8. Recurs(g)
      BY <3>1, <3>4, <3>7 DEF Folds
    <3> QED BY <3>8
  <2>7. iter = CHOOSE g : Recurs(g)
    BY <2>2
  <2>8. Recurs(iter)
    <3> HIDE DEF iter, Recurs
    <3> QED BY <2>6, <2>7
  <2> HIDE DEF iter
  <2>9. iter[1..n] \in Grown(rows)
    <3>1. iter[{}] \in Grown(rows)
      BY <2>3, <2>8
    <3>2. \A s \in SUBSET (1..n) : s # {} /\ iter[s \ {Max(s)}] \in Grown(rows) => iter[s] \in Grown(rows)
      BY <2>4, <2>5, <2>8
    <3>3. 1..n \in SUBSET (1..n)
      OBVIOUS
    <3> HIDE DEF Recurs
    <3> QED BY <2>2, <3>1, <3>2, <3>3, FoldIsIn
  <2> QED BY <2>1, <2>2, <2>9
<1> QED BY <1>1, <1>2

-----------------------------------------------------------------------------
(* The invariant of a pass *)

Terminal == [phase : Prompts \cup {"off", "saving", "writing"}, who : Annotators, rows : Seq(Row),
             memory : [MerchantNames -> LabelTexts \cup {NoLabel}], history : Seq(Nat), since : Nat,
             streak : Nat, index : Nat, offered : SUBSET Labels,
             outcome : {"", "finished", "quit", "no-input"}]

\* Unsaved, of any pass and any file.
Lost(t, d) ==
  {i \in DOMAIN t.rows :
     LET mine == t.rows[i].labels[t.who]
     IN mine # NoLabel /\ ~\E k \in DOMAIN d : d[k].id = t.rows[i].id /\ d[k].labels[t.who] = mine}

\* The rows decided, oldest first, lie in ascending order before the prompt.
InOrder(t) ==
  \A k \in DOMAIN t.history :
    /\ t.history[k] \in DOMAIN t.rows /\ t.history[k] < t.index
    /\ \A j \in DOMAIN t.history : j < k => t.history[j] < t.history[k]

Remembered(t, dec) == \A m \in DOMAIN t.memory : t.memory[m] # NoLabel => <<m, t.memory[m]>> \in dec

\* Behind the prompt only skipped rows are open.
PassedOver(t, sk) == \A i \in Pending(t.rows, t.who) : i < t.index => i \in sk

Kept(t, dec, sk) == InOrder(t) /\ Remembered(t, dec) /\ PassedOver(t, sk) /\ t.since < SaveEvery

\* The loop may go on from t.
Ready(t, d, dec, sk) ==
  t \in Terminal /\ Kept(t, dec, sk) /\ t.outcome = "" /\ Cardinality(Lost(t, d)) <= t.since

Sound(t, d, dec, sk) ==
  /\ t \in Terminal /\ Kept(t, dec, sk)
  /\ t.phase \in Prompts =>
       t.index \in DOMAIN t.rows /\ t.outcome = "" /\ Cardinality(Lost(t, d)) <= t.since
  /\ t.phase \in {"saving", "writing"} /\ t.outcome = "" => t.since = 0
  /\ t.outcome = "finished" => t.index = Len(t.rows) + 1

AInv == disk \in Seq(FileRow) /\ Sound(term, disk, decided, skipped)

-----------------------------------------------------------------------------
(* What a step of the loop keeps *)

LEMMA RowsOfTerminal ==
  ASSUME NEW t \in Terminal
  PROVE  /\ t.rows \in Seq(Row) /\ Len(t.rows) \in Nat /\ DOMAIN t.rows = 1..Len(t.rows)
         /\ t.index \in Nat /\ t.who \in Annotators /\ \A i \in DOMAIN t.rows : t.rows[i] \in Row
<1>1. t.rows \in Seq(Row) /\ t.index \in Nat /\ t.who \in Annotators
  BY DEF Terminal
<1> QED BY <1>1

LEMMA LostIsFinite ==
  ASSUME NEW t \in Terminal, NEW d
  PROVE  IsFiniteSet(Lost(t, d)) /\ Cardinality(Lost(t, d)) \in Nat
<1>1. t.rows \in Seq(Row) /\ DOMAIN t.rows = 1..Len(t.rows) /\ Len(t.rows) \in Nat
  BY RowsOfTerminal
<1>2. Lost(t, d) \subseteq 1..Len(t.rows)
  BY <1>1 DEF Lost
<1>3. IsFiniteSet(1..Len(t.rows))
  BY <1>1, FS_Interval
<1> QED BY <1>2, <1>3, FS_Subset, FS_CardinalityType

\* Fewer rows, or as many, are lost.
LEMMA LosesNoMore ==
  ASSUME NEW t \in Terminal, NEW d, NEW s, s \subseteq Lost(t, d)
  PROVE  Cardinality(s) <= Cardinality(Lost(t, d)) /\ Cardinality(s) \in Nat
<1>1. IsFiniteSet(Lost(t, d)) /\ IsFiniteSet(s)
  BY LostIsFinite, FS_Subset
<1> QED BY <1>1, FS_Subset, FS_CardinalityType

\* The prompt moves to the first open row, or the pass is over.
LEMMA ContinueIsSound ==
  ASSUME NEW t, NEW d, NEW dec, NEW sk, Ready(t, d, dec, sk)
  PROVE  Sound(Continue(t), d, dec, sk)
<1> DEFINE open == {i \in Pending(t.rows, t.who) : i >= t.index}
           n == Len(t.rows)
<1>1. t \in Terminal /\ t.rows \in Seq(Row) /\ n \in Nat /\ DOMAIN t.rows = 1..n /\ t.index \in Nat
  BY RowsOfTerminal DEF Ready
<1>2. open \subseteq 1..n
  BY <1>1 DEF Pending
<1>3. CASE open = {}
  <2> DEFINE c == [t EXCEPT !.phase = "saving", !.outcome = "finished", !.index = n + 1]
  <2>1. Continue(t) = c
    BY <1>3 DEF Continue
  <2>2. /\ c \in Terminal /\ c.phase = "saving" /\ c.outcome = "finished" /\ c.index = n + 1
        /\ c.who = t.who /\ c.rows = t.rows /\ c.memory = t.memory /\ c.history = t.history
        /\ c.since = t.since
    <3>1. n + 1 \in Nat
      BY <1>1
    <3> HIDE DEF n
    <3> QED BY <1>1, <3>1 DEF Terminal
  <2>3. InOrder(c)
    <3>1. \A k \in DOMAIN t.history : t.history[k] \in 1..n
      BY <1>1 DEF Ready, Kept, InOrder
    <3>2. \A i \in 1..n : i < n + 1
      BY <1>1
    <3>3. \A k \in DOMAIN t.history : t.history[k] < n + 1
      BY <3>1, <3>2
    <3> HIDE DEF c
    <3> QED BY <2>2, <3>3 DEF Ready, Kept, InOrder
  <2>4. PassedOver(c, sk)
    <3> HIDE DEF c
    <3>1. \A i \in Pending(t.rows, t.who) : i \in 1..n
      BY <1>1 DEF Pending
    <3>2. \A i \in Pending(t.rows, t.who) : i < t.index
      BY <1>1, <1>3, <3>1
    <3> QED BY <2>2, <3>2 DEF PassedOver, Ready, Kept
  <2>5. Remembered(c, dec) /\ c.since < SaveEvery
    <3> HIDE DEF c
    <3> QED BY <2>2 DEF Remembered, Ready, Kept
  <2> HIDE DEF c
  <2> QED BY <2>1, <2>2, <2>3, <2>4, <2>5 DEF Sound, Kept, Prompts
<1>4. CASE open # {}
  <2> DEFINE c == [t EXCEPT !.phase = "label", !.index = Min(open)]
  <2>1. Continue(t) = c
    BY <1>4 DEF Continue
  <2>2. Min(open) \in open /\ \A i \in open : Min(open) <= i
    BY <1>1, <1>2, <1>4, MinProperties
  <2>3. Min(open) \in 1..n /\ Min(open) >= t.index /\ Min(open) \in Nat
    <3> HIDE DEF open
    <3>1. Min(open) \in 1..n
      BY <1>2, <2>2
    <3>2. Min(open) >= t.index
      BY <2>2 DEF open
    <3> QED BY <1>1, <3>1, <3>2
  <2> DEFINE first == Min(open)
  <2> HIDE DEF first
  <2>4. /\ c \in Terminal /\ c.phase = "label" /\ c.outcome = "" /\ c.index = first
        /\ c.who = t.who /\ c.rows = t.rows /\ c.memory = t.memory /\ c.history = t.history
        /\ c.since = t.since
    <3> HIDE DEF open
    <3> QED BY <1>1, <2>3 DEF Terminal, Prompts, first, Ready
  <2>5. first \in 1..n /\ first >= t.index /\ \A i \in open : first <= i
    BY <2>2, <2>3 DEF first
  <2> HIDE DEF c
  <2>6. InOrder(c)
    <3>1. \A k \in DOMAIN t.history : t.history[k] \in 1..n /\ t.history[k] < t.index
      BY <1>1 DEF Ready, Kept, InOrder
    <3>2. \A k \in DOMAIN t.history : t.history[k] < first
      BY <1>1, <2>5, <3>1
    <3> QED BY <2>4, <3>2 DEF Ready, Kept, InOrder
  <2>7. PassedOver(c, sk)
    <3>1. \A i \in Pending(t.rows, t.who) : i \in 1..n
      BY <1>1 DEF Pending
    <3>2. \A i \in Pending(t.rows, t.who) : i < first => i < t.index
      BY <1>1, <2>5, <3>1
    <3> QED BY <2>4, <3>2 DEF PassedOver, Ready, Kept
  <2>8. Remembered(c, dec) /\ c.since < SaveEvery
    BY <2>4 DEF Remembered, Ready, Kept
  <2>9. Cardinality(Lost(c, d)) <= c.since
    BY <2>4 DEF Lost, Ready
  <2> QED BY <1>1, <2>1, <2>4, <2>5, <2>6, <2>7, <2>8, <2>9 DEF Sound, Kept
<1> QED BY <1>3, <1>4

\* At a prompt the loop may go on.
LEMMA PromptIsReady ==
  ASSUME NEW t, NEW d, NEW dec, NEW sk, Sound(t, d, dec, sk), t.phase \in Prompts
  PROVE  /\ Ready(t, d, dec, sk) /\ t.index \in DOMAIN t.rows /\ t.index \in Nat
         /\ t.rows \in Seq(Row) /\ t.rows[t.index] \in Row /\ t.who \in Annotators
<1>1. t \in Terminal /\ t.index \in DOMAIN t.rows
  BY DEF Sound
<1>2. Ready(t, d, dec, sk)
  BY DEF Sound, Ready
<1> QED BY <1>1, <1>2, RowsOfTerminal

LEMMA StopIsSound ==
  ASSUME NEW t, NEW d, NEW dec, NEW sk, Sound(t, d, dec, sk),
         NEW outcome \in {"quit", "no-input"}
  PROVE  Sound(Stop(t, outcome), d, dec, sk)
<1> DEFINE c == Stop(t, outcome)
<1>1. /\ c \in Terminal /\ c.phase = "saving" /\ c.outcome = outcome
      /\ c.index = t.index /\ c.who = t.who /\ c.rows = t.rows /\ c.memory = t.memory
      /\ c.history = t.history /\ c.since = t.since
  BY DEF Stop, Sound, Terminal
<1> HIDE DEF c
<1>2. Kept(c, dec, sk)
  BY <1>1 DEF Sound, Kept, InOrder, Remembered, PassedOver
<1> QED BY <1>1, <1>2 DEF Sound, Prompts, c

\* A prompt that leaves ids, labels and decisions alone.
LEMMA AsideIsSound ==
  ASSUME NEW t, NEW d, NEW dec, NEW sk, Sound(t, d, dec, sk), t.phase \in Prompts,
         NEW c \in Terminal, c.phase \in Prompts, c.who = t.who, c.memory = t.memory,
         c.history = t.history, c.since = t.since, c.index = t.index, c.outcome = t.outcome,
         DOMAIN c.rows = DOMAIN t.rows,
         \A i \in DOMAIN t.rows : c.rows[i].id = t.rows[i].id /\ c.rows[i].labels = t.rows[i].labels
  PROVE  Sound(c, d, dec, sk)
<1>1. InOrder(c) /\ Remembered(c, dec) /\ c.since < SaveEvery
  BY DEF Sound, Kept, InOrder, Remembered
<1>2. \A i \in DOMAIN t.rows : Settled(c.rows[i], t.who) <=> Settled(t.rows[i], t.who)
  BY DEF Settled, Disputed
<1>3. Pending(c.rows, c.who) = Pending(t.rows, t.who)
  BY <1>2 DEF Pending
<1>4. PassedOver(c, sk)
  BY <1>3 DEF PassedOver, Sound, Kept
<1>5. Lost(c, d) = Lost(t, d)
  BY DEF Lost
<1> QED BY <1>1, <1>4, <1>5 DEF Sound, Kept, Prompts

\* One row more is lost at most, and none of the rows behind the prompt opens.
LEMMA DecideIsSound ==
  ASSUME NEW t, NEW d, NEW dec, NEW sk, Sound(t, d, dec, sk), t.phase \in Prompts,
         NEW label \in LabelTexts, label # NoLabel
  PROVE  Sound(Decide(t, label), d, dec \cup {<<t.rows[t.index].merchant, label>>}, sk)
<1> DEFINE at == t.index
           mine == t.rows[at].merchant
           now == [t.rows[at] EXCEPT !.labels[t.who] = label]
           next == [t EXCEPT !.rows[t.index].labels[t.who] = label,
                        !.memory[t.rows[t.index].merchant] = label,
                        !.history = Append(@, t.index),
                        !.index = @ + 1, !.since = @ + 1, !.streak = 0]
           all == dec \cup {<<mine, label>>}
<1>1. /\ t \in Terminal /\ Ready(t, d, dec, sk) /\ at \in DOMAIN t.rows /\ at \in Nat
      /\ t.rows \in Seq(Row) /\ t.rows[at] \in Row /\ t.who \in Annotators
  BY PromptIsReady DEF Sound
<1>2. now \in Row
  BY <1>1 DEF Row
<1>3. mine \in MerchantNames
  BY <1>1 DEF Row
<1> DEFINE rows == [t.rows EXCEPT ![at] = now]
           memory == [t.memory EXCEPT ![mine] = label]
           history == Append(t.history, at)
           since == t.since + 1
           after == at + 1
<1>a. next = [t EXCEPT !.rows = rows, !.memory = memory, !.history = history,
                       !.index = after, !.since = since, !.streak = 0]
  BY <1>1 DEF Terminal
<1>b. rows \in Seq(Row)
  BY <1>1, <1>2
<1>c. memory \in [MerchantNames -> LabelTexts \cup {NoLabel}]
  BY <1>1, <1>3 DEF Terminal
<1>d. t.history \in Seq(Nat) /\ t.since \in Nat
  BY <1>1 DEF Terminal
<1>e. history \in Seq(Nat) /\ since \in Nat /\ after \in Nat
  BY <1>1, <1>d
<1> HIDE DEF next, rows, memory, history, since, after
<1>f. next \in Terminal
  BY <1>1, <1>a, <1>b, <1>c, <1>e DEF Terminal
<1>g. /\ next.rows = rows /\ next.memory = memory /\ next.history = history /\ next.index = after
      /\ next.since = since /\ next.who = t.who /\ next.phase = t.phase /\ next.outcome = t.outcome
  BY <1>1, <1>a DEF Terminal
<1>4. /\ next.rows = [t.rows EXCEPT ![at] = now] /\ next.memory = [t.memory EXCEPT ![mine] = label]
      /\ next.history = Append(t.history, at) /\ next.index = at + 1 /\ next.since = t.since + 1
      /\ next.who = t.who /\ next.phase = t.phase /\ next.outcome = t.outcome
  BY <1>g DEF rows, memory, history, since, after
<1>5. now.id = t.rows[at].id /\ now.labels = [t.rows[at].labels EXCEPT ![t.who] = label]
  BY <1>1 DEF Row
<1> HIDE DEF now, mine
<1>6. next.rows \in Seq(Row) /\ DOMAIN next.rows = DOMAIN t.rows /\ next.rows[at] = now
      /\ \A i \in DOMAIN t.rows : i # at => next.rows[i] = t.rows[i]
  BY <1>1, <1>2, <1>4
<1>7. next \in Terminal
  BY <1>f
<1>8. InOrder(next)
  <2>1. t.history \in Seq(Nat) /\ InOrder(t)
    BY <1>1 DEF Terminal, Ready, Kept
  <2>2. \A k \in DOMAIN t.history : t.history[k] \in DOMAIN t.rows /\ t.history[k] < at /\ t.history[k] \in Nat
    BY <2>1 DEF InOrder
  <2>3. at < at + 1 /\ \A k \in DOMAIN t.history : t.history[k] < at + 1
    BY <1>1, <2>2
  <2>4. Len(t.history) \in Nat /\ DOMAIN t.history = 1..Len(t.history)
        /\ DOMAIN next.history = 1..(Len(t.history) + 1)
    BY <1>1, <1>4, <2>1
  <2>5. next.history[Len(t.history) + 1] = at
        /\ \A k \in 1..Len(t.history) : next.history[k] = t.history[k]
    BY <1>1, <1>4, <2>1
  <2>6. ASSUME NEW k \in DOMAIN next.history
        PROVE  /\ next.history[k] \in DOMAIN t.rows /\ next.history[k] < at + 1
               /\ \A j \in DOMAIN next.history : j < k => next.history[j] < next.history[k]
    <3>1. CASE k = Len(t.history) + 1
      <4>1. \A j \in DOMAIN next.history : j < k => j \in 1..Len(t.history)
        BY <2>4, <3>1
      <4> QED BY <1>1, <2>2, <2>3, <2>4, <2>5, <3>1, <4>1
    <3>2. CASE k \in 1..Len(t.history)
      <4>1. \A j \in DOMAIN next.history : j < k => j \in 1..Len(t.history)
        BY <2>4, <3>2
      <4> QED BY <2>1, <2>2, <2>3, <2>4, <2>5, <3>2, <4>1 DEF InOrder
    <3> QED BY <2>4, <3>1, <3>2
  <2> QED BY <1>4, <1>6, <2>6 DEF InOrder
<1>9. Remembered(next, all)
  <2>1. DOMAIN t.memory = MerchantNames /\ Remembered(t, dec)
    BY <1>1 DEF Terminal, Ready, Kept
  <2> QED BY <1>3, <1>4, <2>1 DEF Remembered
<1>10. Settled(now, t.who)
  BY <1>1, <1>5 DEF Settled, Row
<1>11. PassedOver(next, sk)
  <2>1. Pending(next.rows, t.who) = Pending(t.rows, t.who) \ {at}
    BY <1>6, <1>10 DEF Pending
  <2>2. \A i \in DOMAIN t.rows : i # at /\ i < at + 1 => i < at
    BY <1>1
  <2>3. \A i \in Pending(t.rows, t.who) : i \in DOMAIN t.rows /\ (i < at => i \in sk)
    BY <1>1 DEF Pending, PassedOver, Ready, Kept
  <2> QED BY <1>4, <2>1, <2>2, <2>3 DEF PassedOver
<1>12. Cardinality(Lost(next, d)) <= t.since + 1
  <2> DEFINE before == Lost(next, d) \ {at}
  <2>1. before \subseteq Lost(t, d)
    BY <1>4, <1>6 DEF Lost
  <2>2. Cardinality(before) <= Cardinality(Lost(t, d)) /\ Cardinality(before) \in Nat
    BY <1>1, <2>1, LosesNoMore
  <2>3. IsFiniteSet(Lost(t, d)) /\ IsFiniteSet(before) /\ Cardinality(Lost(t, d)) \in Nat
    BY <1>1, <2>1, LostIsFinite, FS_Subset
  <2>4. Cardinality(before \cup {at}) <= Cardinality(before) + 1
        /\ Cardinality(before \cup {at}) \in Nat /\ IsFiniteSet(before \cup {at})
    <3>1. at \notin before
      OBVIOUS
    <3> HIDE DEF before
    <3>2. IsFiniteSet(before \cup {at}) /\ Cardinality(before \cup {at}) = Cardinality(before) + 1
      BY <2>3, <3>1, FS_AddElement
    <3> QED BY <2>2, <3>2
  <2>5. Lost(next, d) \subseteq before \cup {at}
    OBVIOUS
  <2>6. Cardinality(Lost(next, d)) <= Cardinality(before \cup {at}) /\ Cardinality(Lost(next, d)) \in Nat
    BY <2>4, <2>5, FS_Subset, FS_CardinalityType
  <2>7. t.since \in Nat /\ Cardinality(Lost(t, d)) <= t.since
    BY <1>1 DEF Terminal, Ready
  <2> QED BY <2>2, <2>3, <2>4, <2>6, <2>7
<1>13. t.since \in Nat /\ next.since = t.since + 1 /\ t.outcome = ""
  BY <1>1, <1>4 DEF Terminal, Ready
<1>14. CASE SaveDue(next.since)
  <2> DEFINE c == [next EXCEPT !.phase = "saving", !.since = 0]
  <2>1. Decide(t, label) = c
    BY <1>14 DEF Decide, next
  <2>2. /\ c \in Terminal /\ c.phase = "saving" /\ c.since = 0 /\ c.outcome = "" /\ c.who = next.who
        /\ c.rows = next.rows /\ c.memory = next.memory /\ c.history = next.history /\ c.index = next.index
    BY <1>4, <1>7, <1>13 DEF Terminal
  <2> HIDE DEF c
  <2>3. 0 < SaveEvery
    BY LimitsArePositive
  <2>4. InOrder(c) /\ Remembered(c, all) /\ PassedOver(c, sk)
    <3> HIDE DEF all
    <3> QED BY <1>8, <1>9, <1>11, <2>2 DEF InOrder, Remembered, PassedOver
  <2> QED BY <2>1, <2>2, <2>3, <2>4 DEF Sound, Kept, Prompts, mine
<1>15. CASE ~SaveDue(next.since)
  <2>1. Decide(t, label) = Continue(next)
    BY <1>15 DEF Decide, next
  <2>2. next.since < SaveEvery
    <3>1. ~(next.since >= SaveEvery)
      BY <1>15 DEF SaveDue
    <3>2. next.since \in Nat
      BY <1>e, <1>g
    <3>3. SaveEvery \in Nat
      BY LimitsArePositive
    <3> QED BY <3>1, <3>2, <3>3
  <2>3. Ready(next, d, all, sk)
    BY <1>4, <1>7, <1>8, <1>9, <1>11, <1>12, <1>13, <2>2 DEF Ready, Kept
  <2> HIDE DEF all
  <2>4. Sound(Continue(next), d, all, sk)
    BY <2>3, ContinueIsSound
  <2> QED BY <2>1, <2>4 DEF all, mine
<1> QED BY <1>14, <1>15

\* The last row decided opens again, and the prompt goes back to it.
LEMMA RewindIsSound ==
  ASSUME NEW t, NEW d, NEW dec, NEW sk, Sound(t, d, dec, sk), t.phase \in Prompts, t.history # <<>>
  PROVE  Sound(Rewind(t), d, dec, sk)
<1> DEFINE at == Last(t.history)
           now == [t.rows[at] EXCEPT !.labels[t.who] = NoLabel, !.acceptable = {}, !.note = FALSE]
           rows == [t.rows EXCEPT ![at] = now]
           history == Front(t.history)
           back == [t EXCEPT !.rows[at].labels[t.who] = NoLabel, !.history = Front(@), !.index = at,
                             !.rows[at].acceptable = {}, !.rows[at].note = FALSE]
           n == Len(t.history)
<1>1. /\ t \in Terminal /\ Ready(t, d, dec, sk) /\ t.rows \in Seq(Row) /\ t.who \in Annotators
      /\ t.index \in Nat
  BY PromptIsReady DEF Sound
<1>2. t.history \in Seq(Nat) /\ n \in Nat /\ n # 0 /\ DOMAIN t.history = 1..n
  <2>1. t.history \in Seq(Nat)
    BY <1>1 DEF Terminal
  <2> QED BY <2>1
<1>3. at = t.history[n] /\ n \in DOMAIN t.history
  BY <1>2 DEF Last
<1>4. InOrder(t) /\ at \in DOMAIN t.rows /\ at < t.index
  BY <1>1, <1>3 DEF Ready, Kept, InOrder
<1>5. t.rows[at] \in Row /\ at \in Nat
  BY <1>1, <1>4
<1>6. history \in Seq(Nat) /\ DOMAIN history = 1..(n - 1)
      /\ \A k \in DOMAIN history : k \in DOMAIN t.history /\ k < n /\ history[k] = t.history[k]
  <2> DEFINE all == t.history
  <2>1. history = SubSeq(all, 1, n - 1)
    BY <1>2 DEF Front
  <2> HIDE DEF history, all, n
  <2>2. \A k \in 1..(n - 1) : k \in 1..n /\ k < n
    BY <1>2
  <2>3. all \in Seq(Nat) /\ Len(all) = n /\ DOMAIN all = 1..n
    BY <1>2 DEF all, n
  <2>4. n - 1 \in Nat
    BY <1>2
  <2>5. history \in Seq(Nat) /\ DOMAIN history = 1..(n - 1)
    BY <2>1, <2>2, <2>3, <2>4
  <2>6. \A k \in 1..(n - 1) : history[k] = all[k]
    BY <2>1, <2>2, <2>3, <2>4
  <2> QED BY <2>2, <2>3, <2>5, <2>6 DEF all
<1> HIDE DEF at, history, n
<1>7. /\ now \in Row /\ now.id = t.rows[at].id
      /\ now.labels = [t.rows[at].labels EXCEPT ![t.who] = NoLabel]
  BY <1>5, <1>1 DEF Row
<1> HIDE DEF now
<1>8. rows \in Seq(Row)
  <2> HIDE DEF Row
  <2> QED BY <1>1, <1>4, <1>7
<1>9. back = [t EXCEPT !.rows = rows, !.history = history, !.index = at]
  <2> DEFINE row == t.rows[at]
             bare == [row EXCEPT !.labels[t.who] = NoLabel]
             plain == [bare EXCEPT !.acceptable = {}]
             r1 == [t.rows EXCEPT ![at] = bare]
             r2 == [r1 EXCEPT ![at] = plain]
  <2>1. now = [plain EXCEPT !.note = FALSE]
    BY <1>5 DEF now, Row
  <2>2. rows = [r2 EXCEPT ![at] = now]
    <3> HIDE DEF bare, plain
    <3>1. DOMAIN r1 = DOMAIN t.rows /\ DOMAIN r2 = DOMAIN t.rows
      OBVIOUS
    <3>2. \A i \in DOMAIN t.rows : i # at => r1[i] = t.rows[i] /\ r2[i] = t.rows[i]
      OBVIOUS
    <3> QED BY <1>4, <3>1, <3>2
  <2>3. r1[at] = bare /\ r2[at] = plain
    BY <1>4
  <2> DEFINE t1 == [t EXCEPT !.rows = r1]
             t2 == [t1 EXCEPT !.history = Front(@)]
             t3 == [t2 EXCEPT !.index = at]
             t4 == [t3 EXCEPT !.rows[at].acceptable = {}]
             t5 == [t4 EXCEPT !.rows[at].note = FALSE]
             t6 == [t3 EXCEPT !.rows = r2]
             t7 == [t6 EXCEPT !.rows = rows]
  <2> HIDE DEF r1, r2, rows, bare, plain, now
  <2>4. t3.rows = r1 /\ t1.history = t.history /\ t6.rows = r2
    BY <1>1 DEF Terminal
  <2>5. back = t5
    BY <1>1, <2>4 DEF r1, bare
  <2>6. t4 = t6
    BY <1>1, <2>3, <2>4 DEF r2, plain
  <2>7. t5 = t7
    BY <1>1, <2>1, <2>2, <2>3, <2>4, <2>6
  <2>8. back = [[[[[t EXCEPT !.rows = r1] EXCEPT !.history = history] EXCEPT !.index = at]
                   EXCEPT !.rows = r2] EXCEPT !.rows = rows]
    BY <1>1, <2>4, <2>5, <2>7 DEF history
  <2> HIDE DEF back
  <2> QED BY <1>1, <2>8 DEF Terminal
<1> HIDE DEF back, rows
<1>10. back \in Terminal
  BY <1>1, <1>5, <1>6, <1>8, <1>9 DEF Terminal
<1>11. /\ back.rows = rows /\ back.history = history /\ back.index = at /\ back.who = t.who
       /\ back.memory = t.memory /\ back.since = t.since /\ back.outcome = t.outcome
  BY <1>1, <1>9 DEF Terminal
<1>12. DOMAIN rows = DOMAIN t.rows /\ rows[at] = now /\ \A i \in DOMAIN t.rows : i # at => rows[i] = t.rows[i]
  BY <1>1, <1>4 DEF rows
<1>13. InOrder(back)
  <2>1. \A k \in DOMAIN history : history[k] \in DOMAIN t.rows /\ history[k] < at
    BY <1>3, <1>4, <1>6 DEF InOrder
  <2>2. \A j, k \in DOMAIN history : j < k => history[j] < history[k]
    BY <1>4, <1>6 DEF InOrder
  <2> QED BY <1>11, <1>12, <2>1, <2>2 DEF InOrder
<1>14. PassedOver(back, sk)
  <2>1. \A i \in Pending(rows, t.who) : i # at => i \in Pending(t.rows, t.who)
    BY <1>12 DEF Pending
  <2>2. \A i \in Pending(t.rows, t.who) : i \in Nat /\ (i < t.index => i \in sk)
    <3>1. PassedOver(t, sk)
      BY <1>1 DEF Ready, Kept
    <3> QED BY <1>1, <3>1 DEF Pending, PassedOver
  <2>3. \A i \in Nat : i < at => i # at /\ i < t.index
    BY <1>1, <1>4, <1>5
  <2>4. \A i \in Pending(rows, t.who) : i \in Nat
    BY <1>8 DEF Pending
  <2> QED BY <1>11, <2>1, <2>2, <2>3, <2>4 DEF PassedOver
<1>15. Remembered(back, dec) /\ back.since < SaveEvery
  BY <1>1, <1>11 DEF Remembered, Ready, Kept
<1>16. Lost(back, d) \subseteq Lost(t, d)
  <2>1. now.labels[t.who] = NoLabel
    BY <1>1, <1>5, <1>7 DEF Row
  <2> QED BY <1>11, <1>12, <2>1 DEF Lost
<1>17. Cardinality(Lost(back, d)) <= back.since
  <2>1. /\ Cardinality(Lost(back, d)) <= Cardinality(Lost(t, d)) /\ Cardinality(Lost(back, d)) \in Nat
    BY <1>1, <1>16, LosesNoMore
  <2>2. Cardinality(Lost(t, d)) \in Nat /\ t.since \in Nat /\ Cardinality(Lost(t, d)) <= t.since
    BY <1>1, LostIsFinite DEF Terminal, Ready
  <2> QED BY <1>11, <2>1, <2>2
<1>18. Ready(back, d, dec, sk)
  BY <1>1, <1>10, <1>11, <1>13, <1>14, <1>15, <1>17 DEF Ready, Kept
<1>19. Sound(Continue(back), d, dec, sk)
  BY <1>18, ContinueIsSound
<1> QED BY <1>19 DEF Rewind, back, at

\* Skipping moves the prompt on and says so.
LEMMA SkipIsSound ==
  ASSUME NEW t, NEW d, NEW dec, NEW sk, Sound(t, d, dec, sk), t.phase \in Prompts
  PROVE  Sound(Continue([t EXCEPT !.index = @ + 1]), d, dec, sk \cup {t.index})
<1> DEFINE c == [t EXCEPT !.index = @ + 1]
<1>1. t \in Terminal /\ Ready(t, d, dec, sk) /\ t.index \in Nat
  BY PromptIsReady DEF Sound
<1>2. /\ c \in Terminal /\ c.index = t.index + 1 /\ c.who = t.who /\ c.rows = t.rows
      /\ c.memory = t.memory /\ c.history = t.history /\ c.since = t.since /\ c.outcome = t.outcome
  <2> DEFINE after == t.index + 1
  <2>1. after \in Nat
    BY <1>1
  <2>2. c = [t EXCEPT !.index = after]
    BY <1>1 DEF Terminal
  <2> HIDE DEF after, c
  <2>3. /\ c \in Terminal /\ c.index = after /\ c.who = t.who /\ c.rows = t.rows
        /\ c.memory = t.memory /\ c.history = t.history /\ c.since = t.since /\ c.outcome = t.outcome
    BY <1>1, <2>1, <2>2 DEF Terminal
  <2> QED BY <2>3 DEF after
<1> HIDE DEF c
<1>3. \A i \in DOMAIN t.rows : i \in Nat
  BY <1>1, RowsOfTerminal
<1>4. InOrder(c)
  <2>1. \A i \in Nat : i < t.index => i < t.index + 1
    BY <1>1
  <2> QED BY <1>1, <1>2, <1>3, <2>1 DEF Ready, Kept, InOrder
<1>5. PassedOver(c, sk \cup {t.index})
  <2>1. \A i \in Nat : i < t.index + 1 => i < t.index \/ i = t.index
    BY <1>1
  <2>2. \A i \in Pending(t.rows, t.who) : i \in Nat /\ (i < t.index => i \in sk)
    BY <1>1, <1>3 DEF Pending, Ready, Kept, PassedOver
  <2> QED BY <1>2, <2>1, <2>2 DEF PassedOver
<1>6. Remembered(c, dec) /\ c.since < SaveEvery /\ Lost(c, d) = Lost(t, d)
  BY <1>1, <1>2 DEF Remembered, Ready, Kept, Lost
<1>7. Ready(c, d, dec, sk \cup {t.index})
  BY <1>1, <1>2, <1>4, <1>5, <1>6 DEF Ready, Kept
<1>8. Sound(Continue(c), d, dec, sk \cup {t.index})
  BY <1>7, ContinueIsSound
<1> QED BY <1>8 DEF c

LEMMA RepromptIsSound ==
  ASSUME NEW t, NEW d, NEW dec, NEW sk, Sound(t, d, dec, sk), t.phase \in Prompts, NEW text
  PROVE  Sound(Reprompt(t, text), d, dec, sk)
<1> DEFINE streak == EmptyStreak(t, text)
           over == [t EXCEPT !.streak = streak]
           again == [t EXCEPT !.streak = streak, !.phase = "label"]
<1>1. t \in Terminal
  BY DEF Sound
<1>2. streak \in Nat
  <2>1. t.streak \in Nat
    BY <1>1 DEF Terminal
  <2>2. t.streak + 1 \in Nat /\ 0 \in Nat
    BY <2>1
  <2> QED BY <2>2 DEF EmptyStreak
<1> HIDE DEF streak
<1>3. /\ over \in Terminal /\ over.phase = t.phase
      /\ over.who = t.who /\ over.rows = t.rows /\ over.index = t.index
      /\ over.memory = t.memory /\ over.history = t.history /\ over.since = t.since
      /\ over.outcome = t.outcome
  BY <1>1, <1>2 DEF Terminal
<1>4. /\ again \in Terminal /\ again.phase \in Prompts
      /\ again.who = t.who /\ again.rows = t.rows /\ again.index = t.index
      /\ again.memory = t.memory /\ again.history = t.history /\ again.since = t.since
      /\ again.outcome = t.outcome
  BY <1>1, <1>2 DEF Terminal, Prompts
<1>5. Reprompt(t, text) = IF streak >= NoInputLimit THEN Stop(over, "no-input") ELSE again
  BY DEF Reprompt, streak
<1> HIDE DEF over, again
<1>6. Sound(over, d, dec, sk)
  BY <1>3, AsideIsSound
<1>7. Sound(again, d, dec, sk)
  BY <1>4, AsideIsSound
<1>8. Sound(Stop(over, "no-input"), d, dec, sk)
  BY <1>6, StopIsSound
<1> QED BY <1>5, <1>7, <1>8

-----------------------------------------------------------------------------
(* Passes begin and end *)

LEMMA EmptyIsEmpty == DOMAIN <<>> = {}
OBVIOUS

\* A pass nobody runs is sound, whatever the file says.
LEMMA NoPassIsSound ==
  ASSUME NEW d, NEW dec, NEW sk
  PROVE  Sound(NoPass, d, dec, sk) /\ NoPass.memory = [m \in MerchantNames |-> NoLabel] /\ NoPass.rows = <<>>
<1> DEFINE none == [m \in MerchantNames |-> NoLabel]
<1>1. BuildMemory(<<>>, "a") = none
  BY DEF BuildMemory
<1>2. NoPass = [phase |-> "off", who |-> "a", rows |-> <<>>, memory |-> none, history |-> <<>>,
                since |-> 0, streak |-> 0, index |-> 1, offered |-> {}, outcome |-> ""]
  <2> DEFINE pass == Pass("a", <<>>)
  <2> HIDE DEF none
  <2>1. pass = [phase |-> "label", who |-> "a", rows |-> <<>>, memory |-> none, history |-> <<>>,
                since |-> 0, streak |-> 0, index |-> 1, offered |-> {}, outcome |-> ""]
    BY <1>1 DEF Pass
  <2> HIDE DEF pass
  <2>2. NoPass = [pass EXCEPT !.phase = "off"]
    BY DEF NoPass, pass
  <2> QED BY <2>1, <2>2
<1>3. <<>> \in Seq(Row) /\ <<>> \in Seq(Nat) /\ none \in [MerchantNames -> LabelTexts \cup {NoLabel}]
  OBVIOUS
<1> HIDE DEF none
<1>4. /\ NoPass \in Terminal /\ NoPass.phase = "off" /\ NoPass.rows = <<>> /\ NoPass.history = <<>>
      /\ NoPass.since = 0 /\ NoPass.outcome = "" /\ NoPass.memory = none
  BY <1>2, <1>3 DEF Terminal, Annotators
<1>5. \A m \in DOMAIN NoPass.memory : NoPass.memory[m] = NoLabel
  BY <1>4 DEF none
<1>6. InOrder(NoPass) /\ Remembered(NoPass, dec) /\ PassedOver(NoPass, sk)
  <2>1. DOMAIN NoPass.rows = {} /\ DOMAIN NoPass.history = {}
    BY <1>4, EmptyIsEmpty, Zenon
  <2>2. Pending(NoPass.rows, NoPass.who) = {}
    BY <2>1 DEF Pending
  <2> QED BY <1>5, <2>1, <2>2 DEF InOrder, Remembered, PassedOver
<1>7. NoPass.since < SaveEvery
  <2>1. 0 < SaveEvery
    BY LimitsArePositive
  <2> QED BY <1>4, <2>1
<1> QED BY <1>4, <1>6, <1>7 DEF Sound, Kept, Prompts, none

\* The memory a pass starts with is what the file says its annotator said.
LEMMA MemoryIsRead ==
  ASSUME NEW rows \in Seq(Row), NEW who \in Annotators
  PROVE  /\ BuildMemory(rows, who) \in [MerchantNames -> LabelTexts \cup {NoLabel}]
         /\ \A m \in MerchantNames : BuildMemory(rows, who)[m] # NoLabel =>
              \E i \in DOMAIN rows : /\ rows[i].merchant = m /\ rows[i].labels[who] # NoLabel
                                     /\ BuildMemory(rows, who)[m] = rows[i].labels[who]
<1> DEFINE mine(m) == {i \in DOMAIN rows : rows[i].merchant = m /\ rows[i].labels[who] # NoLabel}
           said(m) == IF mine(m) = {} THEN NoLabel ELSE rows[Max(mine(m))].labels[who]
<1>1. BuildMemory(rows, who) = [m \in MerchantNames |-> said(m)]
  BY DEF BuildMemory
<1>2. ASSUME NEW m \in MerchantNames, mine(m) # {} PROVE Max(mine(m)) \in mine(m)
  <2> DEFINE s == mine(m)
  <2>1. Len(rows) \in Nat /\ s \in SUBSET (1..Len(rows))
    OBVIOUS
  <2> HIDE DEF s
  <2>2. s # {} => Max(s) \in s
    BY <2>1, MaxProperties
  <2> QED BY <1>2, <2>2 DEF s
<1>3. \A i \in DOMAIN rows : rows[i].labels[who] \in LabelTexts \cup {NoLabel}
  <2>1. \A i \in DOMAIN rows : rows[i] \in Row
    OBVIOUS
  <2> QED BY <2>1 DEF Row
<1>4. ASSUME NEW m \in MerchantNames
      PROVE  /\ said(m) \in LabelTexts \cup {NoLabel}
             /\ said(m) # NoLabel =>
                  \E i \in DOMAIN rows : /\ rows[i].merchant = m /\ rows[i].labels[who] # NoLabel
                                         /\ said(m) = rows[i].labels[who]
  BY <1>2, <1>3
<1> HIDE DEF said
<1> QED BY <1>1, <1>4

\* A merge adds rows nobody has labelled, so that nothing is unsaved.
LEMMA BeginKeeps ==
  ASSUME AInv, NEW who \in Annotators, NEW statement \in Statements \cup {NoStatement},
         Begin(who, statement)
  PROVE  AInv'
<1> DEFINE rows == Merge(disk, statement)
           pass == Pass(who, rows)
           memory == BuildMemory(rows, who)
<1>a. disk \in Seq(Row)
  BY OpenRows DEF AInv, Begin
<1>1. rows \in Grown(disk)
  BY <1>a, MergeProperties
<1>2. rows \in Seq(Row) /\ \A i \in DOMAIN rows : Bare(rows[i]) \/ \E k \in DOMAIN disk : rows[i] = disk[k]
  BY <1>1 DEF Grown
<1>3. /\ term' = Continue(pass) /\ disk' = disk /\ skipped' = skipped
      /\ decided' = {<<rows[i].merchant, rows[i].labels[who]>> :
                       i \in {k \in DOMAIN rows : rows[k].labels[who] # NoLabel}}
  BY DEF Begin
<1> HIDE DEF rows
<1>4. /\ memory \in [MerchantNames -> LabelTexts \cup {NoLabel}]
      /\ \A m \in MerchantNames : memory[m] # NoLabel =>
           \E i \in DOMAIN rows : /\ rows[i].merchant = m /\ rows[i].labels[who] # NoLabel
                                  /\ memory[m] = rows[i].labels[who]
  BY <1>2, MemoryIsRead
<1>5. /\ pass = [phase |-> "label", who |-> who, rows |-> rows, memory |-> memory, history |-> <<>>,
                 since |-> 0, streak |-> 0, index |-> 1, offered |-> {}, outcome |-> ""]
      /\ <<>> \in Seq(Nat)
  BY DEF Pass
<1> HIDE DEF memory, pass
<1>6. /\ pass \in Terminal /\ pass.who = who /\ pass.rows = rows /\ pass.memory = memory
      /\ pass.history = <<>> /\ pass.since = 0 /\ pass.index = 1 /\ pass.outcome = ""
  <2>1. /\ pass.phase = "label" /\ pass.who = who /\ pass.rows = rows /\ pass.memory = memory
        /\ pass.history = <<>> /\ pass.since = 0 /\ pass.streak = 0 /\ pass.index = 1
        /\ pass.offered = {} /\ pass.outcome = ""
    BY <1>5
  <2> QED BY <1>2, <1>4, <1>5, <2>1 DEF Terminal, Prompts
<1>7. InOrder(pass)
  <2>1. DOMAIN pass.history = {}
    BY <1>6, EmptyIsEmpty, Zenon
  <2> QED BY <2>1 DEF InOrder
<1>8. Remembered(pass, decided')
  <2>1. DOMAIN memory = MerchantNames
    BY <1>4
  <2>2. \A i \in DOMAIN rows : rows[i].labels[who] # NoLabel =>
          <<rows[i].merchant, rows[i].labels[who]>> \in decided'
    BY <1>3
  <2> QED BY <1>4, <1>6, <2>1, <2>2 DEF Remembered
<1>9. PassedOver(pass, skipped)
  <2>1. \A i \in DOMAIN rows : i \in Nat /\ ~(i < 1)
    BY <1>2
  <2> QED BY <1>6, <2>1 DEF PassedOver, Pending
<1>10. Lost(pass, disk) = {}
  BY <1>2, <1>6 DEF Lost, Bare
<1>11. Cardinality(Lost(pass, disk)) <= 0
  BY <1>10, FS_EmptySet
<1>12. Ready(pass, disk, decided', skipped)
  <2>1. 0 < SaveEvery
    BY LimitsArePositive
  <2> QED BY <1>6, <1>7, <1>8, <1>9, <1>11, <2>1 DEF Ready, Kept
<1>13. Sound(Continue(pass), disk, decided', skipped)
  <2> DEFINE dec == decided'
  <2>1. Ready(pass, disk, dec, skipped)
    BY <1>12
  <2> HIDE DEF dec
  <2>2. Sound(Continue(pass), disk, dec, skipped)
    BY <2>1, ContinueIsSound
  <2> QED BY <2>2 DEF dec
<1>14. term' = Continue(pass) /\ disk' = disk /\ skipped' = skipped
  BY <1>3
<1>15. Sound(term', disk', decided', skipped')
  BY <1>13, <1>14
<1> QED BY <1>3, <1>15 DEF AInv

-----------------------------------------------------------------------------
(* Answers *)

\* What is entered at the prompt is a label the pass's annotator now has said.
LEMMA AnswerLabelKeeps ==
  ASSUME AInv, NEW phase \in {"label", "primary"}, NEW text \in Texts \cup {""}, AnswerLabel(phase, text)
  PROVE  AInv'
<1>1. Sound(term, disk, decided, skipped) /\ term.phase \in Prompts
  BY DEF AInv, AnswerLabel, Prompts
<1>2. term \in Terminal /\ term.rows[term.index] \in Row
  BY <1>1, PromptIsReady DEF Sound
<1>3. disk' = disk /\ skipped' = skipped
  BY DEF AnswerLabel
<1> DEFINE label == Entered(term, text)
           all == decided \cup {<<term.rows[term.index].merchant, label>>}
<1>4. label \in LabelTexts \cup {NoLabel}
  <2>a. /\ term.rows[term.index].merchant \in MerchantNames
        /\ term.memory \in [MerchantNames -> LabelTexts \cup {NoLabel}]
    BY <1>2 DEF Terminal, Row
  <2>1. Suggestion(term) \in LabelTexts \cup {NoLabel}
    BY <2>a DEF Suggestion
  <2> QED BY <2>1, TextsMeanLabels DEF Entered, LabelTexts
<1>5. CASE label = NoLabel
  <2>1. term' = Reprompt(term, text) /\ decided' = decided
    BY <1>5 DEF AnswerLabel
  <2>2. Sound(Reprompt(term, text), disk, decided, skipped)
    BY <1>1, RepromptIsSound
  <2> QED BY <1>3, <2>1, <2>2 DEF AInv
<1>6. CASE label # NoLabel
  <2>1. term' = Decide(term, label) /\ decided' = all
    BY <1>6 DEF AnswerLabel
  <2>2. Sound(Decide(term, label), disk, all, skipped)
    <3> HIDE DEF label
    <3> QED BY <1>1, <1>4, <1>6, DecideIsSound
  <2> HIDE DEF all, label
  <2> QED BY <1>3, <2>1, <2>2 DEF AInv
<1> QED BY <1>5, <1>6

LEMMA SkipKeeps ==
  ASSUME AInv, Skip
  PROVE  AInv'
<1>1. Sound(term, disk, decided, skipped) /\ term.phase \in Prompts
  BY DEF AInv, Skip, Saying, Prompts
<1>2. Sound(Continue([term EXCEPT !.index = @ + 1]), disk, decided, skipped \cup {term.index})
  BY <1>1, SkipIsSound
<1> QED BY <1>2 DEF AInv, Skip

LEMMA UndoKeeps ==
  ASSUME AInv, Undo
  PROVE  AInv'
<1>1. Sound(term, disk, decided, skipped) /\ term.phase \in Prompts /\ term.history # <<>>
  BY DEF AInv, Undo, Saying, Prompts
<1>2. Sound(Rewind(term), disk, decided, skipped)
  BY <1>1, RewindIsSound
<1> QED BY <1>2 DEF AInv, Undo

LEMMA QuitKeeps ==
  ASSUME AInv, Quit
  PROVE  AInv'
<1>1. Sound(Stop(term, "quit"), disk, decided, skipped)
  BY StopIsSound DEF AInv
<1> QED BY <1>1 DEF AInv, Quit

LEMMA AskAmbiguityKeeps ==
  ASSUME AInv, AskAmbiguity
  PROVE  AInv'
<1> DEFINE c == [term EXCEPT !.phase = "acceptable"]
<1>1. Sound(term, disk, decided, skipped) /\ term.phase \in Prompts /\ term \in Terminal
  BY DEF AInv, AskAmbiguity, Saying, Prompts, Sound
<1>2. /\ c \in Terminal /\ c.phase \in Prompts /\ c.who = term.who /\ c.rows = term.rows
      /\ c.memory = term.memory /\ c.history = term.history /\ c.since = term.since
      /\ c.index = term.index /\ c.outcome = term.outcome
  BY <1>1 DEF Terminal, Prompts
<1>3. term' = c /\ UNCHANGED <<disk, decided, skipped>>
  BY DEF AskAmbiguity
<1> HIDE DEF c
<1>4. Sound(c, disk, decided, skipped)
  BY <1>1, <1>2, AsideIsSound
<1> QED BY <1>3, <1>4 DEF AInv

LEMMA AnswerAcceptableKeeps ==
  ASSUME AInv, NEW labels \in SUBSET Labels, AnswerAcceptable(labels)
  PROVE  AInv'
<1>1. Sound(term, disk, decided, skipped) /\ term.phase \in Prompts /\ term \in Terminal
  BY DEF AInv, AnswerAcceptable, Prompts, Sound
<1>2. UNCHANGED <<disk, decided, skipped>>
  BY DEF AnswerAcceptable
<1>3. PICK c \in {[term EXCEPT !.phase = "label"], [term EXCEPT !.phase = "why", !.offered = labels]} : term' = c
  BY DEF AnswerAcceptable
<1>4. /\ c \in Terminal /\ c.phase \in Prompts /\ c.who = term.who /\ c.rows = term.rows
      /\ c.memory = term.memory /\ c.history = term.history /\ c.since = term.since
      /\ c.index = term.index /\ c.outcome = term.outcome
  <2>1. CASE c = [term EXCEPT !.phase = "label"]
    BY <1>1, <2>1 DEF Terminal, Prompts
  <2>2. CASE c = [term EXCEPT !.phase = "why", !.offered = labels]
    BY <1>1, <2>2 DEF Terminal, Prompts
  <2> QED BY <2>1, <2>2
<1>5. Sound(c, disk, decided, skipped)
  BY <1>1, <1>4, AsideIsSound
<1> QED BY <1>2, <1>3, <1>5 DEF AInv

LEMMA AnswerWhyKeeps ==
  ASSUME AInv, NEW note \in BOOLEAN, AnswerWhy(note)
  PROVE  AInv'
<1>1. Sound(term, disk, decided, skipped) /\ term.phase \in Prompts /\ term \in Terminal
  BY DEF AInv, AnswerWhy, Prompts, Sound
<1>2. UNCHANGED <<disk, decided, skipped>>
  BY DEF AnswerWhy
<1>3. CASE ~note
  <2> DEFINE c == [term EXCEPT !.phase = "label", !.offered = {}]
  <2>1. term' = c
    BY <1>3 DEF AnswerWhy
  <2>2. /\ c \in Terminal /\ c.phase \in Prompts /\ c.who = term.who /\ c.rows = term.rows
        /\ c.memory = term.memory /\ c.history = term.history /\ c.since = term.since
        /\ c.index = term.index /\ c.outcome = term.outcome
    BY <1>1 DEF Terminal, Prompts
  <2> HIDE DEF c
  <2>3. Sound(c, disk, decided, skipped)
    BY <1>1, <2>2, AsideIsSound
  <2> QED BY <1>2, <2>1, <2>3 DEF AInv
<1>4. CASE note
  <2> DEFINE at == term.index
             row == term.rows[at]
             told == [row EXCEPT !.acceptable = term.offered]
             now == [told EXCEPT !.note = TRUE]
             r1 == [term.rows EXCEPT ![at] = told]
             rows == [term.rows EXCEPT ![at] = now]
             c == [term EXCEPT !.phase = "primary", !.offered = {}, !.rows = rows]
  <2>1. /\ at \in DOMAIN term.rows /\ term.rows \in Seq(Row) /\ row \in Row
        /\ term.offered \in SUBSET LabelTexts
    BY <1>1, PromptIsReady DEF Terminal, LabelTexts
  <2>2. now \in Row /\ now.id = row.id /\ now.labels = row.labels
    BY <2>1 DEF Row
  <2>3. rows = [r1 EXCEPT ![at] = now] /\ r1[at] = told
    <3> HIDE DEF told, now
    <3> QED BY <2>1
  <2>4. term' = [[[[term EXCEPT !.phase = "primary"] EXCEPT !.offered = {}] EXCEPT !.rows = r1]
                   EXCEPT !.rows = rows]
    BY <1>1, <1>4, <2>1, <2>3 DEF AnswerWhy, Terminal
  <2> HIDE DEF now, r1
  <2>5. rows \in Seq(Row) /\ DOMAIN rows = DOMAIN term.rows
    <3> HIDE DEF Row
    <3> QED BY <2>1, <2>2
  <2>6. \A i \in DOMAIN term.rows : rows[i].id = term.rows[i].id /\ rows[i].labels = term.rows[i].labels
    BY <2>1, <2>2
  <2> HIDE DEF rows
  <2>7. term' = c
    BY <1>1, <2>4 DEF Terminal
  <2>8. /\ c \in Terminal /\ c.phase \in Prompts /\ c.who = term.who /\ c.rows = rows
        /\ c.memory = term.memory /\ c.history = term.history /\ c.since = term.since
        /\ c.index = term.index /\ c.outcome = term.outcome
    BY <1>1, <2>5 DEF Terminal, Prompts
  <2> HIDE DEF c
  <2>9. Sound(c, disk, decided, skipped)
    BY <1>1, <2>5, <2>6, <2>8, AsideIsSound
  <2> QED BY <1>2, <2>7, <2>9 DEF AInv
<1> QED BY <1>3, <1>4

-----------------------------------------------------------------------------
(* Saving *)

LEMMA TruncateKeeps ==
  ASSUME AInv, Truncate
  PROVE  AInv'
<1> DEFINE c == [term EXCEPT !.phase = "writing"]
<1>1. Sound(term, disk, decided, skipped) /\ term.phase = "saving" /\ term \in Terminal
  BY DEF AInv, Truncate, Sound
<1>2. /\ c \in Terminal /\ c.phase = "writing" /\ c.who = term.who /\ c.rows = term.rows
      /\ c.memory = term.memory /\ c.history = term.history /\ c.since = term.since
      /\ c.index = term.index /\ c.outcome = term.outcome
  BY <1>1 DEF Terminal
<1>3. term' = c /\ disk' = <<>> /\ UNCHANGED <<decided, skipped>>
  BY DEF Truncate
<1> HIDE DEF c
<1>4. Kept(c, decided, skipped)
  BY <1>1, <1>2 DEF Sound, Kept, InOrder, Remembered, PassedOver
<1>5. Sound(c, <<>>, decided, skipped)
  BY <1>1, <1>2, <1>4 DEF Sound, Prompts
<1> QED BY <1>3, <1>5 DEF AInv

\* What was read and labelled is written, so that nothing is unsaved.
LEMMA WriteKeeps ==
  ASSUME AInv, Write
  PROVE  AInv'
<1>1. Sound(term, disk, decided, skipped) /\ term.phase = "writing" /\ term \in Terminal
  BY DEF AInv, Write, Sound
<1>2. disk' = term.rows /\ term.rows \in Seq(FileRow)
  BY <1>1, RowsOfTerminal, RowsAreFileRows DEF Write
<1>3. CASE term.outcome # ""
  <2>1. term' = NoPass
    BY <1>3 DEF Write
  <2>2. \A d, dec, sk : Sound(NoPass, d, dec, sk)
    BY NoPassIsSound
  <2> QED BY <1>2, <2>1, <2>2 DEF AInv
<1>4. CASE term.outcome = ""
  <2>1. term' = Continue(term) /\ UNCHANGED <<decided, skipped>>
    BY <1>4 DEF Write
  <2>2. Lost(term, term.rows) = {}
    BY DEF Lost
  <2>3. Cardinality(Lost(term, term.rows)) = 0 /\ term.since = 0
    BY <1>1, <1>4, <2>2, FS_EmptySet DEF Sound
  <2>4. Ready(term, term.rows, decided, skipped)
    <3>1. Cardinality(Lost(term, term.rows)) <= term.since
      BY <2>3
    <3> QED BY <1>1, <1>4, <3>1 DEF Ready, Sound
  <2>5. Sound(Continue(term), term.rows, decided, skipped)
    BY <2>4, ContinueIsSound
  <2> QED BY <1>2, <2>1, <2>5 DEF AInv
<1> QED BY <1>3, <1>4

\* What is left of a line cut in some column a file may hold.
LEMMA UptoIsFileRow ==
  ASSUME NEW row \in Row, NEW k \in Nat
  PROVE  Upto(row, k) \in FileRow
<1>1. /\ row.id \in RowIds /\ row.merchant \in MerchantNames /\ row.amount \in BOOLEAN
      /\ row.labels \in [Annotators -> LabelTexts \cup {NoLabel}] /\ row.acceptable \in SUBSET LabelTexts
      /\ row.note \in BOOLEAN /\ row.posted \in {"iso", "cut", "none"}
  BY DEF Row
<1> DEFINE merchant == IF k >= Column.merchant THEN row.merchant ELSE ""
           amount == k >= Column.amount /\ row.amount
           labels == [x \in Annotators |-> IF k >= Column[x] THEN row.labels[x] ELSE NoLabel]
           acceptable == IF k >= Column.acceptable THEN row.acceptable ELSE {}
           note == k >= Column.note /\ row.note
           posted == IF k >= Column.posted THEN row.posted ELSE "none"
<1>2. merchant \in MerchantNames \cup {""} /\ acceptable \in SUBSET LabelTexts /\ posted \in {"iso", "cut", "none"}
  BY <1>1
<1>3. amount \in BOOLEAN /\ note \in BOOLEAN
  BY <1>1, Zenon
<1>4. labels \in [Annotators -> LabelTexts \cup {NoLabel}]
  BY <1>1
<1>5. Upto(row, k) = [id |-> row.id, merchant |-> merchant, amount |-> amount, labels |-> labels,
                      acceptable |-> acceptable, note |-> note, posted |-> posted]
  BY DEF Upto
<1> HIDE DEF merchant, amount, labels, acceptable, note, posted
<1>6. row.id \in RowIds
  BY <1>1
<1> DEFINE upto == Upto(row, k)
<1>7. /\ upto.id = row.id /\ upto.merchant = merchant /\ upto.amount = amount /\ upto.labels = labels
      /\ upto.acceptable = acceptable /\ upto.note = note /\ upto.posted = posted
      /\ upto = [id |-> upto.id, merchant |-> upto.merchant, amount |-> upto.amount, labels |-> upto.labels,
                 acceptable |-> upto.acceptable, note |-> upto.note, posted |-> upto.posted]
  BY <1>5
<1> HIDE DEF upto
<1> QED BY <1>2, <1>3, <1>4, <1>6, <1>7 DEF FileRow, upto

LEMMA CutSetIsTexts ==
  ASSUME NEW labels \in SUBSET LabelTexts, NEW cut \in CutSet(labels)
  PROVE  cut \in SUBSET LabelTexts
<1>1. \A l \in LabelTexts : CutTo[l] \subseteq LabelTexts
  BY CutsAreTexts
<1>2. UNION {CutTo[l] : l \in labels} \subseteq LabelTexts
  BY <1>1
<1>3. CASE cut \in SUBSET labels
  BY <1>3
<1>4. CASE \E rest \in SUBSET labels : \E end \in UNION {CutTo[l] : l \in labels} : cut = rest \cup {end}
  BY <1>2, <1>4
<1> QED BY <1>3, <1>4 DEF CutSet

LEMMA TornAreFileRows ==
  ASSUME NEW row \in Row, NEW torn \in Torn(row)
  PROVE  torn \in FileRow
<1> DEFINE inId == {[Upto(row, Column.id) EXCEPT !.id = cut] : cut \in CutTo[row.id]}
           inMerchant == {[Upto(row, Column.id) EXCEPT !.merchant = cut] : cut \in Cut(row.merchant)}
           inAmount == {[Upto(row, Column.merchant) EXCEPT !.amount = parses] : parses \in {FALSE, row.amount}}
           inLabel == UNION {{[Upto(row, Column[x] - 1) EXCEPT !.labels[x] = cut] : cut \in Cut(row.labels[x])} : x \in Annotators}
           inAcceptable == {[Upto(row, Column.final) EXCEPT !.acceptable = cut] : cut \in CutSet(row.acceptable)}
           inNote == {[Upto(row, Column.acceptable) EXCEPT !.note = some] : some \in {FALSE, row.note}}
           inPosted == {[Upto(row, Column.note) EXCEPT !.posted = cut] : cut \in IF row.posted = "none" THEN {"none"} ELSE {"none", "cut"}}
<1>1. /\ row.id \in RowIds /\ row.merchant \in MerchantNames /\ row.amount \in BOOLEAN
      /\ row.labels \in [Annotators -> LabelTexts \cup {NoLabel}] /\ row.acceptable \in SUBSET LabelTexts
      /\ row.note \in BOOLEAN /\ row.posted \in {"iso", "cut", "none"}
  BY DEF Row
<1>2. \A k \in Nat : Upto(row, k) \in FileRow
  BY UptoIsFileRow
<1>3. \A x \in Annotators : Column[x] - 1 \in Nat
  BY DEF Column, Annotators
<1>4. /\ Column.id \in Nat /\ Column.merchant \in Nat /\ Column.final \in Nat
      /\ Column.acceptable \in Nat /\ Column.note \in Nat
  BY DEF Column
<1>5. CASE torn \in inId
  <2>1. PICK cut \in CutTo[row.id] : torn = [Upto(row, Column.id) EXCEPT !.id = cut]
    BY <1>5
  <2>2. cut \in RowIds
    BY <1>1, CutsAreTexts
  <2>3. Upto(row, Column.id) \in FileRow
    BY <1>2, <1>4
  <2> QED BY <2>1, <2>2, <2>3 DEF FileRow
<1>6. CASE torn \in inMerchant
  <2>1. PICK cut \in Cut(row.merchant) : torn = [Upto(row, Column.id) EXCEPT !.merchant = cut]
    BY <1>6
  <2>2. cut \in MerchantNames \cup {""}
    BY <1>1, CutsAreTexts DEF Cut
  <2>3. Upto(row, Column.id) \in FileRow
    BY <1>2, <1>4
  <2> QED BY <2>1, <2>2, <2>3 DEF FileRow
<1>7. CASE torn \in inAmount
  <2>1. PICK parses \in {FALSE, row.amount} : torn = [Upto(row, Column.merchant) EXCEPT !.amount = parses]
    BY <1>7
  <2>2. parses \in BOOLEAN
    BY <1>1
  <2>3. Upto(row, Column.merchant) \in FileRow
    BY <1>2, <1>4
  <2> QED BY <2>1, <2>2, <2>3 DEF FileRow
<1>8. CASE torn \in inLabel
  <2>1. PICK x \in Annotators : torn \in {[Upto(row, Column[x] - 1) EXCEPT !.labels[x] = cut] : cut \in Cut(row.labels[x])}
    BY <1>8
  <2>2. PICK cut \in Cut(row.labels[x]) : torn = [Upto(row, Column[x] - 1) EXCEPT !.labels[x] = cut]
    BY <2>1
  <2>3. cut \in LabelTexts \cup {NoLabel}
    BY <1>1, CutsAreTexts DEF Cut, NoLabel
  <2> DEFINE rest == Upto(row, Column[x] - 1)
  <2>4. rest \in FileRow
    BY <1>2, <1>3
  <2> HIDE DEF rest
  <2> DEFINE labels == [rest.labels EXCEPT ![x] = cut]
  <2>5. labels \in [Annotators -> LabelTexts \cup {NoLabel}]
    BY <2>3, <2>4 DEF FileRow
  <2>6. torn = [rest EXCEPT !.labels = labels]
    BY <2>2, <2>4 DEF FileRow, rest
  <2> HIDE DEF labels
  <2> QED BY <2>4, <2>5, <2>6 DEF FileRow
<1>9. CASE torn \in inAcceptable
  <2>1. PICK cut \in CutSet(row.acceptable) : torn = [Upto(row, Column.final) EXCEPT !.acceptable = cut]
    BY <1>9
  <2>2. cut \in SUBSET LabelTexts
    BY <1>1, CutSetIsTexts
  <2>3. Upto(row, Column.final) \in FileRow
    BY <1>2, <1>4
  <2> QED BY <2>1, <2>2, <2>3 DEF FileRow
<1>10. CASE torn \in inNote
  <2>1. PICK some \in {FALSE, row.note} : torn = [Upto(row, Column.acceptable) EXCEPT !.note = some]
    BY <1>10
  <2>2. some \in BOOLEAN
    BY <1>1
  <2>3. Upto(row, Column.acceptable) \in FileRow
    BY <1>2, <1>4
  <2> QED BY <2>1, <2>2, <2>3 DEF FileRow
<1>11. CASE torn \in inPosted
  <2>1. PICK cut \in {"none", "cut"} : torn = [Upto(row, Column.note) EXCEPT !.posted = cut]
    BY <1>11
  <2>2. Upto(row, Column.note) \in FileRow
    BY <1>2, <1>4
  <2> QED BY <2>1, <2>2 DEF FileRow
<1>12. torn \in inId \cup inMerchant \cup inAmount \cup inLabel \cup inAcceptable \cup inNote \cup inPosted
  <2>1. torn \in Torn(row)
    OBVIOUS
  <2> QED BY <2>1, Zenon DEF Torn
<1> HIDE DEF inId, inMerchant, inAmount, inLabel, inAcceptable, inNote, inPosted
<1> QED BY <1>5, <1>6, <1>7, <1>8, <1>9, <1>10, <1>11, <1>12

\* A save that is cut short leaves rows that a file may hold.
LEMMA FlushedIsAFile ==
  ASSUME NEW rows \in Seq(Row), NEW file \in Flushed(rows)
  PROVE  file \in Seq(FileRow)
<1>1. Len(rows) \in Nat /\ DOMAIN rows = 1..Len(rows)
  OBVIOUS
<1>2. ASSUME NEW n \in 0..Len(rows) PROVE SubSeq(rows, 1, n) \in Seq(FileRow)
  <2>1. \A i \in 1..n : i \in 1..Len(rows)
    BY <1>1
  <2>2. SubSeq(rows, 1, n) \in Seq(Row)
    <3> HIDE DEF Row
    <3> QED BY <2>1
  <2> QED BY <2>2, RowsAreFileRows
<1>3. CASE file \in {SubSeq(rows, 1, n) : n \in 0..Len(rows)}
  BY <1>2, <1>3
<1>4. CASE \E n \in DOMAIN rows : file \in {Append(SubSeq(rows, 1, n - 1), torn) : torn \in Torn(rows[n])}
  <2>1. PICK n \in DOMAIN rows : file \in {Append(SubSeq(rows, 1, n - 1), torn) : torn \in Torn(rows[n])}
    BY <1>4
  <2>2. PICK torn \in Torn(rows[n]) : file = Append(SubSeq(rows, 1, n - 1), torn)
    BY <2>1
  <2>3. rows[n] \in Row /\ n - 1 \in 0..Len(rows)
    BY <1>1
  <2>4. torn \in FileRow
    BY <2>3, TornAreFileRows
  <2>5. SubSeq(rows, 1, n - 1) \in Seq(FileRow)
    BY <1>2, <2>3
  <2> QED
    <3> DEFINE begun == SubSeq(rows, 1, n - 1)
    <3>1. begun \in Seq(FileRow) /\ file = Append(begun, torn)
      BY <2>2, <2>5
    <3> HIDE DEF begun, FileRow
    <3> QED BY <2>4, <3>1
<1> QED BY <1>3, <1>4 DEF Flushed

LEMMA CrashKeeps ==
  ASSUME AInv, Crash
  PROVE  AInv'
<1>1. term' = NoPass
  BY DEF Crash
<1>2. disk' \in Seq(FileRow)
  <2>1. CASE term.phase = "writing"
    <3>1. term.rows \in Seq(Row)
      BY RowsOfTerminal DEF AInv, Sound
    <3>2. disk' \in Flushed(term.rows)
      BY <2>1 DEF Crash
    <3> QED BY <3>1, <3>2, FlushedIsAFile
  <2>2. CASE term.phase # "writing"
    BY <2>2 DEF Crash, AInv
  <2> QED BY <2>1, <2>2
<1>3. \A d, dec, sk : Sound(NoPass, d, dec, sk)
  BY NoPassIsSound
<1> QED BY <1>1, <1>2, <1>3 DEF AInv

-----------------------------------------------------------------------------
(* Theorems *)

LEMMA InitIsSound == Init => AInv
<1>1. \A d, dec, sk : Sound(NoPass, d, dec, sk)
  BY NoPassIsSound
<1>2. <<>> \in Seq(FileRow)
  OBVIOUS
<1> QED BY <1>1, <1>2 DEF Init, AInv

LEMMA NextIsSound == AInv /\ [Next]_vars => AInv'
<1> SUFFICES ASSUME AInv, [Next]_vars PROVE AInv'
  OBVIOUS
<1>1. CASE \E who \in Annotators, statement \in Statements \cup {NoStatement} : Begin(who, statement)
  BY <1>1, BeginKeeps
<1>2. CASE Answer
  <2>1. CASE \E phase \in {"label", "primary"}, text \in Texts \cup {""} : AnswerLabel(phase, text)
    BY <2>1, AnswerLabelKeeps
  <2>2. CASE \E labels \in SUBSET Labels : AnswerAcceptable(labels)
    BY <2>2, AnswerAcceptableKeeps
  <2>3. CASE \E note \in BOOLEAN : AnswerWhy(note)
    BY <2>3, AnswerWhyKeeps
  <2> QED BY <1>2, <2>1, <2>2, <2>3 DEF Answer
<1>3. CASE Skip
  BY <1>3, SkipKeeps
<1>4. CASE Undo
  BY <1>4, UndoKeeps
<1>5. CASE Quit
  BY <1>5, QuitKeeps
<1>6. CASE AskAmbiguity
  BY <1>6, AskAmbiguityKeeps
<1>7. CASE TerminalGoes
  BY <1>7 DEF TerminalGoes, AInv
<1>8. CASE Truncate
  BY <1>8, TruncateKeeps
<1>9. CASE Write
  BY <1>9, WriteKeeps
<1>10. CASE Crash
  BY <1>10, CrashKeeps
<1>11. CASE UNCHANGED vars
  BY <1>11 DEF vars, AInv
<1> QED BY <1>1, <1>2, <1>3, <1>4, <1>5, <1>6, <1>7, <1>8, <1>9, <1>10, <1>11 DEF Next

\* The invariant holds of every pass and of every file it leaves behind.
THEOREM PassIsSound == Spec => []AInv
<1>1. Init => AInv
  BY InitIsSound
<1>2. AInv /\ [Next]_vars => AInv'
  BY NextIsSound
<1> QED BY <1>1, <1>2, PTL DEF Spec

\* What a pass offers for a merchant its own annotator has said of that
\* merchant, in the file or in this pass (build_memory): SuggestionsAreOnesOwn.
THEOREM MemoryIsOnesOwn == Spec => []SuggestionsAreOnesOwn
<1>1. AInv => SuggestionsAreOnesOwn
  BY DEF AInv, Sound, Kept, Remembered, SuggestionsAreOnesOwn
<1> QED BY <1>1, PassIsSound, PTL

\* A crash at a prompt loses fewer labels than SAVE_EVERY, however many were
\* undone and entered again since the last save: CrashCostsLittle.
THEOREM FewAreUnsaved == Spec => []CrashCostsLittle
<1>1. AInv => CrashCostsLittle
  <2> SUFFICES ASSUME AInv, term.phase \in Prompts PROVE Cardinality(Unsaved) < SaveEvery
    BY DEF CrashCostsLittle
  <2>1. Unsaved = Lost(term, disk)
    BY DEF Unsaved, Lost
  <2>2. term \in Terminal /\ Cardinality(Lost(term, disk)) <= term.since /\ term.since < SaveEvery
    BY DEF AInv, Sound, Kept
  <2>3. Cardinality(Lost(term, disk)) \in Nat /\ term.since \in Nat /\ SaveEvery \in Nat
    BY <2>2, LostIsFinite, LimitsArePositive DEF Terminal
  <2> QED BY <2>1, <2>2, <2>3
<1> QED BY <1>1, PassIsSound, PTL

\* A pass that says it finished left open only rows it was told to skip, also
\* where decisions were undone on the way: FinishedLeavesOnlySkipped.
THEOREM NothingIsForgotten == Spec => []FinishedLeavesOnlySkipped
<1>1. AInv => FinishedLeavesOnlySkipped
  <2> SUFFICES ASSUME AInv, term.outcome = "finished", NEW i \in Pending(term.rows, term.who)
               PROVE  i \in skipped
    BY DEF FinishedLeavesOnlySkipped
  <2>1. Sound(term, disk, decided, skipped) /\ term \in Terminal
    BY DEF AInv, Sound
  <2>2. i \in 1..Len(term.rows) /\ Len(term.rows) \in Nat
    BY <2>1, RowsOfTerminal DEF Pending
  <2>3. term.index = Len(term.rows) + 1
    BY <2>1 DEF Sound
  <2>4. i < term.index
    BY <2>2, <2>3
  <2> QED BY <2>1, <2>4 DEF Sound, Kept, PassedOver
<1> QED BY <1>1, PassIsSound, PTL

-----------------------------------------------------------------------------
(* Induction over finite sets *)

\* Induction over the subsets of a finite set, by one element more.
LEMMA SubsetInduction ==
  ASSUME NEW D, IsFiniteSet(D), NEW P, {} \in P,
         \A s \in SUBSET D : \A x \in D \ s : s \in P => s \cup {x} \in P
  PROVE  \A s \in SUBSET D : s \in P
<1> DEFINE T == {n \in Nat : \A s \in SUBSET D : Cardinality(s) = n => s \in P}
<1>1. \A s \in SUBSET D : IsFiniteSet(s) /\ Cardinality(s) \in Nat
  BY FS_Subset, FS_CardinalityType
<1>2. 0 \in T
  <2>1. \A s \in SUBSET D : Cardinality(s) = 0 => s = {}
    BY <1>1, FS_EmptySet
  <2> QED BY <2>1
<1>3. ASSUME NEW n \in Nat, n \in T PROVE n + 1 \in T
  <2> SUFFICES ASSUME NEW s \in SUBSET D, Cardinality(s) = n + 1 PROVE s \in P
    OBVIOUS
  <2>2. s # {}
    <3>1. Cardinality({}) = 0 /\ n + 1 # 0
      BY FS_EmptySet
    <3> QED BY <3>1
  <2>3. PICK x : x \in s
    BY <2>2
  <2>4. IsFiniteSet(s) /\ Cardinality(s \ {x}) = Cardinality(s) - 1
    BY <1>1, <2>3, FS_RemoveElement
  <2>5. s \ {x} \in P /\ s \ {x} \in SUBSET D /\ x \in D \ (s \ {x})
    BY <1>3, <2>3, <2>4
  <2>6. (s \ {x}) \cup {x} = s
    BY <2>3
  <2>7. (s \ {x}) \cup {x} \in P
    BY <2>5
  <2> QED BY <2>6, <2>7
<1> HIDE DEF T
<1>4. \A n \in Nat : n \in T
  BY <1>2, <1>3, NaturalInduction
<1>5. TAKE s \in SUBSET D
<1>6. Cardinality(s) \in Nat /\ Cardinality(s) \in T
  BY <1>1, <1>4
<1> QED BY <1>6 DEF T

-----------------------------------------------------------------------------
(* Sums *)

OneOf(s) == CHOOSE x \in s : TRUE

LEMMA OneOfIsIn ==
  ASSUME NEW s, s # {}
  PROVE  OneOf(s) \in s
BY DEF OneOf

\* The recursion of SumFunctionOnSet, which takes its elements in any order.
Sums(iter, f, D) ==
  iter = [s \in SUBSET D |-> IF s = {} THEN 0 ELSE f[OneOf(s)] + iter[s \ {OneOf(s)}]]

\* Sums, up to a number of elements.
SumsTo(iter, f, D, n) ==
  /\ DOMAIN iter = SUBSET D
  /\ \A s \in SUBSET D : Cardinality(s) <= n =>
       iter[s] = IF s = {} THEN 0 ELSE f[OneOf(s)] + iter[s \ {OneOf(s)}]

LEMMA SumExists ==
  ASSUME NEW D, IsFiniteSet(D), NEW f
  PROVE  \E iter : Sums(iter, f, D)
<1>1. \A s \in SUBSET D : IsFiniteSet(s) /\ Cardinality(s) \in Nat /\ Cardinality(s) <= Cardinality(D)
  BY FS_Subset, FS_CardinalityType
<1>2. \A s \in SUBSET D : s # {} =>
        OneOf(s) \in s /\ s \ {OneOf(s)} \in SUBSET D /\ Cardinality(s \ {OneOf(s)}) = Cardinality(s) - 1
  BY <1>1, OneOfIsIn, FS_RemoveElement
<1> DEFINE T == {n \in Nat : \E iter : SumsTo(iter, f, D, n)}
<1>3. 0 \in T
  <2> DEFINE g == [s \in SUBSET D |-> 0]
  <2>1. \A s \in SUBSET D : Cardinality(s) <= 0 => s = {}
    BY <1>1, FS_EmptySet
  <2>2. SumsTo(g, f, D, 0)
    BY <2>1 DEF SumsTo
  <2> QED BY <2>2
<1>4. ASSUME NEW n \in Nat, n \in T PROVE n + 1 \in T
  <2>1. PICK g : SumsTo(g, f, D, n)
    BY <1>4
  <2> DEFINE h == [s \in SUBSET D |-> IF Cardinality(s) <= n THEN g[s]
                                      ELSE f[OneOf(s)] + g[s \ {OneOf(s)}]]
  <2>2. ASSUME NEW s \in SUBSET D, Cardinality(s) <= n + 1
        PROVE  h[s] = IF s = {} THEN 0 ELSE f[OneOf(s)] + h[s \ {OneOf(s)}]
    <3>1. CASE s = {}
      <4>1. Cardinality(s) = 0
        BY <3>1, FS_EmptySet
      <4>2. h[s] = g[s]
        BY <4>1
      <4>3. g[s] = 0
        BY <2>1, <3>1, <4>1 DEF SumsTo
      <4> QED BY <3>1, <4>2, <4>3
    <3>2. CASE s # {}
      <4> DEFINE r == s \ {OneOf(s)}
      <4>1. r \in SUBSET D /\ Cardinality(r) <= n
        BY <1>1, <1>2, <2>2, <3>2
      <4>2. h[r] = g[r]
        BY <4>1
      <4>3. h[s] = f[OneOf(s)] + g[r]
        <5>1. CASE Cardinality(s) <= n
          BY <2>1, <3>2, <5>1 DEF SumsTo
        <5>2. CASE ~(Cardinality(s) <= n)
          BY <5>2
        <5> QED BY <5>1, <5>2
      <4> QED BY <3>2, <4>2, <4>3
    <3> QED BY <3>1, <3>2
  <2> HIDE DEF h
  <2>3. DOMAIN h = SUBSET D
    BY DEF h
  <2>4. SumsTo(h, f, D, n + 1)
    BY <2>2, <2>3 DEF SumsTo
  <2> QED BY <2>4
<1> HIDE DEF T
<1>5. Cardinality(D) \in T
  BY <1>1, <1>3, <1>4, NaturalInduction
<1>6. PICK g : SumsTo(g, f, D, Cardinality(D))
  BY <1>5 DEF T
<1> DEFINE k == [s \in SUBSET D |-> g[s]]
<1>7. ASSUME NEW s \in SUBSET D
      PROVE  k[s] = IF s = {} THEN 0 ELSE f[OneOf(s)] + k[s \ {OneOf(s)}]
  <2>1. s # {} => k[s \ {OneOf(s)}] = g[s \ {OneOf(s)}]
    BY <1>2
  <2>2. g[s] = IF s = {} THEN 0 ELSE f[OneOf(s)] + g[s \ {OneOf(s)}]
    BY <1>1, <1>6 DEF SumsTo
  <2> QED BY <2>1, <2>2
<1> DEFINE again == [s \in SUBSET D |-> IF s = {} THEN 0 ELSE f[OneOf(s)] + k[s \ {OneOf(s)}]]
<1>8. k = again
  <2>1. \A s \in SUBSET D : k[s] = again[s]
    <3> HIDE DEF k
    <3> QED BY <1>7
  <2> QED BY <2>1
<1>9. Sums(k, f, D)
  BY <1>8 DEF Sums
<1> QED BY <1>9

LEMMA SumUnfolds ==
  ASSUME NEW D, IsFiniteSet(D), NEW f
  PROVE  \E iter : Sums(iter, f, D) /\ SumFunctionOnSet(f, D) = iter[D]
<1> DEFINE iter == CHOOSE iter : iter = [s \in SUBSET D |->
                     IF s = {} THEN 0 ELSE f[CHOOSE x \in s : TRUE] + iter[s \ {CHOOSE x \in s : TRUE}]]
<1>1. SumFunctionOnSet(f, D) = iter[D]
  BY DEF SumFunctionOnSet, FoldFunctionOnSet, MapThenFoldSet
<1>2. iter = CHOOSE g : Sums(g, f, D)
  BY DEF Sums, OneOf
<1> HIDE DEF iter
<1>3. Sums(iter, f, D)
  BY <1>2, SumExists
<1> QED BY <1>1, <1>3

\* Two such recursions agree on the sets they share.
LEMMA SumsAgree ==
  ASSUME NEW A, NEW B, IsFiniteSet(A), A \subseteq B, NEW f, NEW g, NEW h, NEW k,
         Sums(g, f, A), Sums(h, k, B), \A x \in A : f[x] = k[x]
  PROVE  \A s \in SUBSET A : g[s] = h[s]
<1>1. \A s \in SUBSET A : g[s] = IF s = {} THEN 0 ELSE f[OneOf(s)] + g[s \ {OneOf(s)}]
  BY DEF Sums
<1>2. \A s \in SUBSET A : h[s] = IF s = {} THEN 0 ELSE k[OneOf(s)] + h[s \ {OneOf(s)}]
  <2>1. \A s \in SUBSET B : h[s] = IF s = {} THEN 0 ELSE k[OneOf(s)] + h[s \ {OneOf(s)}]
    BY DEF Sums
  <2>2. \A s \in SUBSET A : s \in SUBSET B
    OBVIOUS
  <2> QED BY <2>1, <2>2
<1>3. \A s \in SUBSET A : IsFiniteSet(s) /\ Cardinality(s) \in Nat
  BY FS_Subset, FS_CardinalityType
<1> DEFINE T == {n \in Nat : \A s \in SUBSET A : Cardinality(s) = n => g[s] = h[s]}
<1>4. 0 \in T
  <2>1. ASSUME NEW s \in SUBSET A, Cardinality(s) = 0 PROVE g[s] = h[s]
    <3>1. s = {}
      BY <1>3, <2>1, FS_EmptySet
    <3> QED BY <1>1, <1>2, <3>1
  <2> QED BY <2>1
<1>5. ASSUME NEW n \in Nat, n \in T PROVE n + 1 \in T
  <2>1. ASSUME NEW s \in SUBSET A, Cardinality(s) = n + 1 PROVE g[s] = h[s]
    <3>1. s # {}
      BY <2>1, FS_EmptySet
    <3>2. OneOf(s) \in s
      BY <3>1, OneOfIsIn
    <3>3. Cardinality(s \ {OneOf(s)}) = n /\ s \ {OneOf(s)} \in SUBSET A
      <4>1. Cardinality(s \ {OneOf(s)}) = Cardinality(s) - 1
        BY <1>3, <3>2, FS_RemoveElement
      <4> QED BY <2>1, <4>1
    <3>4. g[s \ {OneOf(s)}] = h[s \ {OneOf(s)}]
      BY <1>5, <3>3
    <3>5. f[OneOf(s)] = k[OneOf(s)]
      BY <3>2
    <3> QED BY <1>1, <1>2, <3>1, <3>4, <3>5
  <2> QED BY <2>1
<1> HIDE DEF T
<1>6. \A n \in Nat : n \in T
  BY <1>4, <1>5, NaturalInduction
<1> QED BY <1>3, <1>6 DEF T

\* A sum is of the values, taken in any order.
LEMMA SumsRemove ==
  ASSUME NEW D, IsFiniteSet(D), NEW f, \A x \in D : f[x] \in Int, NEW g, Sums(g, f, D),
         NEW whole \in SUBSET D
  PROVE  g[whole] \in Int /\ \A x \in whole : g[whole] = f[x] + g[whole \ {x}]
<1>1. \A s \in SUBSET D : g[s] = IF s = {} THEN 0 ELSE f[OneOf(s)] + g[s \ {OneOf(s)}]
  BY DEF Sums
<1>2. \A s \in SUBSET D : IsFiniteSet(s) /\ Cardinality(s) \in Nat
  BY FS_Subset, FS_CardinalityType
<1> DEFINE Good(s) == g[s] \in Int /\ \A x \in s : g[s] = f[x] + g[s \ {x}]
           T == {n \in Nat : \A s \in SUBSET D : Cardinality(s) <= n => Good(s)}
<1>3. Good({})
  <2>1. g[{}] = 0
    BY <1>1
  <2> QED BY <2>1
<1>4. 0 \in T
  <2>1. \A s \in SUBSET D : Cardinality(s) <= 0 => s = {}
    BY <1>2, FS_EmptySet
  <2> HIDE DEF Good
  <2> QED BY <1>3, <2>1
<1>5. ASSUME NEW n \in Nat, n \in T PROVE n + 1 \in T
  <2>1. ASSUME NEW s \in SUBSET D, Cardinality(s) <= n + 1, s # {} PROVE Good(s)
    <3> DEFINE o == OneOf(s)
    <3>1. o \in s
      BY <2>1, OneOfIsIn
    <3>2. ASSUME NEW x \in s PROVE Good(s \ {x})
      <4>1. Cardinality(s \ {x}) = Cardinality(s) - 1
        BY <1>2, FS_RemoveElement
      <4>2. Cardinality(s \ {x}) <= n /\ s \ {x} \in SUBSET D
        BY <1>2, <2>1, <4>1
      <4> QED BY <1>5, <4>2
    <3>3. g[s] = f[o] + g[s \ {o}] /\ f[o] \in Int /\ g[s \ {o}] \in Int
      BY <1>1, <2>1, <3>1, <3>2
    <3>4. ASSUME NEW x \in s, x # o PROVE g[s] = f[x] + g[s \ {x}]
      <4> DEFINE r == (s \ {o}) \ {x}
      <4>1. g[s \ {o}] = f[x] + g[r]
        BY <3>1, <3>2, <3>4
      <4>2. o \in s \ {x} /\ (s \ {x}) \ {o} = r
        BY <3>1, <3>4
      <4>3. g[s \ {x}] = f[o] + g[r]
        BY <3>2, <4>2
      <4>4. g[r] \in Int
        <5>1. Cardinality(s \ {x}) = Cardinality(s) - 1 /\ IsFiniteSet(s \ {x})
          BY <1>2, FS_RemoveElement
        <5>2. Cardinality((s \ {x}) \ {o}) = Cardinality(s \ {x}) - 1
          <6> HIDE DEF o, r
          <6> QED BY <4>2, <5>1, FS_RemoveElement
        <5>4. r \in SUBSET D
          OBVIOUS
        <5>5. Cardinality(r) = Cardinality(s \ {x}) - 1
          BY <4>2, <5>2, Zenon
        <5>6. Cardinality(s) \in Nat
          BY <1>2
        <5>3. Cardinality(r) <= n
          <6> HIDE DEF o, r
          <6> QED BY <2>1, <5>1, <5>5, <5>6
        <5> QED BY <1>5, <5>4, <5>3
      <4>5. f[x] \in Int
        OBVIOUS
      <4> HIDE DEF o, r
      <4> QED BY <3>3, <4>1, <4>3, <4>4, <4>5
    <3>5. g[s] \in Int
      BY <3>3
    <3> QED BY <3>3, <3>4, <3>5
  <2> HIDE DEF Good
  <2> QED BY <1>3, <2>1
<1> HIDE DEF T
<1>6. \A n \in Nat : n \in T
  BY <1>4, <1>5, NaturalInduction
<1>7. Good(whole)
  BY <1>2, <1>6 DEF T
<1> QED BY <1>7

\* What a sum is, one element at a time.
LEMMA SumOfNone ==
  ASSUME NEW f
  PROVE  SumFunctionOnSet(f, {}) = 0
<1>1. PICK g : Sums(g, f, {}) /\ SumFunctionOnSet(f, {}) = g[{}]
  BY SumUnfolds, FS_EmptySet
<1> QED BY <1>1 DEF Sums

LEMMA SumOfOneMore ==
  ASSUME NEW s, IsFiniteSet(s), NEW x, x \notin s, NEW f, \A y \in s \cup {x} : f[y] \in Int
  PROVE  SumFunctionOnSet(f, s \cup {x}) = f[x] + SumFunctionOnSet(f, s)
<1> DEFINE D == s \cup {x}
<1>1. IsFiniteSet(D)
  BY FS_AddElement
<1>2. PICK g : Sums(g, f, D) /\ SumFunctionOnSet(f, D) = g[D]
  BY <1>1, SumUnfolds
<1>3. PICK h : Sums(h, f, s) /\ SumFunctionOnSet(f, s) = h[s]
  BY SumUnfolds
<1>4. g[D] = f[x] + g[D \ {x}]
  <2>1. \A y \in D : f[y] \in Int
    OBVIOUS
  <2>2. x \in D
    OBVIOUS
  <2> HIDE DEF D
  <2>3. \A y \in D : g[D] = f[y] + g[D \ {y}]
    <3>1. IsFiniteSet(D) /\ Sums(g, f, D)
      BY <1>1, <1>2
    <3> QED BY <2>1, <3>1, SumsRemove
  <2> QED BY <2>2, <2>3
<1>5. D \ {x} = s
  OBVIOUS
<1>6. \A t \in SUBSET s : h[t] = g[t]
  <2>1. s \subseteq D /\ \A y \in s : f[y] = f[y]
    OBVIOUS
  <2> HIDE DEF D
  <2> QED BY <1>2, <1>3, <2>1, SumsAgree
<1>7. h[s] = g[s]
  BY <1>6
<1> QED BY <1>2, <1>3, <1>4, <1>5, <1>7

LEMMA SumIsWhole ==
  ASSUME NEW s, IsFiniteSet(s), NEW f, \A y \in s : f[y] \in Int
  PROVE  SumFunctionOnSet(f, s) \in Int
<1>1. PICK g : Sums(g, f, s) /\ SumFunctionOnSet(f, s) = g[s]
  BY SumUnfolds
<1>2. g[s] \in Int
  BY <1>1, SumsRemove
<1> QED BY <1>1, <1>2

-----------------------------------------------------------------------------
(* Counting class by class *)

Members(A, class, c) == {x \in A : class[x] = c}

\* A finite set is as large as the classes it falls into are together.
LEMMA CountByClass ==
  ASSUME NEW A, IsFiniteSet(A), NEW C, IsFiniteSet(C), NEW class, \A x \in A : class[x] \in C,
         NEW t, \A c \in C : t[c] = Cardinality(Members(A, class, c))
  PROVE  SumFunctionOnSet(t, C) = Cardinality(A)
<1> DEFINE In(s) == {x \in A : class[x] \in s}
           P == {s \in SUBSET C : SumFunctionOnSet(t, s) = Cardinality(In(s))}
<1>1. {} \in P
  <2>1. In({}) = {}
    OBVIOUS
  <2> HIDE DEF In
  <2> QED BY <2>1, SumOfNone, FS_EmptySet
<1>2. \A c \in C : t[c] \in Nat
  <2> TAKE c \in C
  <2>1. Members(A, class, c) \in SUBSET A
    BY DEF Members
  <2>2. IsFiniteSet(Members(A, class, c))
    BY <2>1, FS_Subset
  <2> QED BY <2>2, FS_CardinalityType
<1>3. ASSUME NEW s \in SUBSET C, NEW c \in C \ s, s \in P PROVE s \cup {c} \in P
  <2> DEFINE one == Members(A, class, c)
             some == In(s)
  <2>1. one \in SUBSET A /\ some \in SUBSET A /\ one \cap some = {} /\ In(s \cup {c}) = some \cup one
    BY DEF Members
  <2>2. t[c] = Cardinality(one)
    OBVIOUS
  <2>3. SumFunctionOnSet(t, s) = Cardinality(some)
    BY <1>3
  <2>4. IsFiniteSet(s) /\ c \notin s /\ \A d \in s \cup {c} : t[d] \in Int
    BY <1>2, FS_Subset
  <2> HIDE DEF one, some
  <2>5. IsFiniteSet(one) /\ IsFiniteSet(some)
    BY <2>1, FS_Subset
  <2>6. Cardinality(some \cup one) = Cardinality(some) + Cardinality(one)
    <3>1. some \cap one = {}
      BY <2>1
    <3>2. Cardinality(some \cup one) = Cardinality(some) + Cardinality(one) - Cardinality(some \cap one)
      BY <2>5, FS_Union
    <3>3. Cardinality(some \cap one) = 0
      BY <3>1, FS_EmptySet
    <3> QED BY <2>5, <3>2, <3>3, FS_CardinalityType
  <2>7. SumFunctionOnSet(t, s \cup {c}) = t[c] + SumFunctionOnSet(t, s)
    BY <2>4, SumOfOneMore
  <2>8. SumFunctionOnSet(t, s \cup {c}) = Cardinality(some \cup one)
    BY <2>2, <2>3, <2>5, <2>6, <2>7, FS_CardinalityType
  <2>9. SumFunctionOnSet(t, s \cup {c}) = Cardinality(In(s \cup {c}))
    BY <2>1, <2>8
  <2> HIDE DEF In
  <2> QED BY <2>9
<1>4. In(C) = A
  OBVIOUS
<1> HIDE DEF P
<1>5. C \in P
  BY <1>1, <1>3, SubsetInduction
<1> HIDE DEF In
<1> QED BY <1>4, <1>5 DEF P

\* A part of a finite set and the rest of it.
LEMMA PartAndRest ==
  ASSUME NEW S, IsFiniteSet(S), NEW A \in SUBSET S
  PROVE  /\ Cardinality(A) \in Nat /\ Cardinality(S \ A) \in Nat /\ Cardinality(S) \in Nat
         /\ Cardinality(S) = Cardinality(A) + Cardinality(S \ A)
<1>1. IsFiniteSet(A) /\ IsFiniteSet(S \ A)
  BY FS_Subset
<1>2. Cardinality(S \ A) = Cardinality(S) - Cardinality(S \cap A)
  BY FS_Difference
<1>3. S \cap A = A
  OBVIOUS
<1>4. Cardinality(S \ A) = Cardinality(S) - Cardinality(A)
  BY <1>2, <1>3
<1> QED BY <1>1, <1>4, FS_CardinalityType

-----------------------------------------------------------------------------
(* The evaluation of a file *)

LEMMA LabelsAreFinite == IsFiniteSet(LabelSpace)
<1>1. Alphabet \in Seq(STRING) /\ LabelSpace = {Alphabet[k] : k \in DOMAIN Alphabet}
  BY AbstainIsALabel DEF LabelSpace, Range
<1>2. DOMAIN Alphabet = 1..Len(Alphabet) /\ Len(Alphabet) \in Nat
  BY <1>1
<1>3. IsFiniteSet(DOMAIN Alphabet)
  BY <1>2, FS_Interval
<1>4. [k \in DOMAIN Alphabet |-> Alphabet[k]] \in Surjection(DOMAIN Alphabet, LabelSpace)
  BY <1>1 DEF Surjection
<1> QED BY <1>3, <1>4, FS_Surjection

\* A dataset, as far as its types go.
IsFile(rows) ==
  /\ Len(rows) \in Nat /\ DOMAIN rows = 1..Len(rows)
  /\ \A i \in DOMAIN rows : DOMAIN rows[i].labels = Annotators

LEMMA FileIsFinite ==
  ASSUME NEW rows, IsFile(rows)
  PROVE  IsFiniteSet(DOMAIN rows) /\ Cardinality(DOMAIN rows) = Len(rows)
<1>1. Len(rows) \in Nat /\ DOMAIN rows = 1..Len(rows)
  BY DEF IsFile
<1>2. IsFiniteSet(1..Len(rows)) /\ Cardinality(1..Len(rows)) = IF 1 > Len(rows) THEN 0 ELSE Len(rows) - 1 + 1
  BY <1>1, FS_Interval
<1> QED BY <1>1, <1>2

\* What a row the validator has no error for is like.
Sensible(row) ==
  /\ row.id # "" /\ row.merchant # "" /\ row.amount
  /\ Primary(row) \in LabelSpace /\ Primary(row) # Unlabelled
  /\ {Secondary(row), Adjudicated(row)} \subseteq LabelSpace \cup {Unlabelled}
  /\ IsAmbiguous(row) =>
       /\ row.acceptable \subseteq LabelSpace /\ row.note /\ Cardinality(row.acceptable) >= 2
       /\ Gold(row) \in row.acceptable

LEMMA RowsAreSensible ==
  ASSUME NEW rows, IsFile(rows), RowErrors(rows) = {}
  PROVE  DuplicateIds(rows) = {} /\ \A i \in DOMAIN rows : Sensible(rows[i])
<1>1. DuplicateIds(rows) = {}
  BY DEF RowErrors, ErrorIf
<1>2. ASSUME NEW i \in DOMAIN rows PROVE Sensible(rows[i])
  <2> DEFINE row == rows[i]
  <2>1. LabelErrors(row) = {} /\ AmbiguityErrors(row) = {} /\ IdentityErrors(row) = {}
    BY DEF RowErrors, ErrorIf
  <2>a. row.id # "" /\ row.merchant # "" /\ row.amount
    BY <2>1 DEF IdentityErrors, ErrorIf
  <2>2. Primary(row) # Unlabelled /\ \A y \in DOMAIN row.labels : row.labels[y] \in LabelSpace \cup {Unlabelled}
    BY <2>1 DEF LabelErrors, Blank, ErrorIf
  <2>3. "a" \in DOMAIN row.labels /\ "b" \in DOMAIN row.labels /\ "final" \in DOMAIN row.labels
    BY DEF IsFile, Annotators
  <2>4. Primary(row) \in LabelSpace /\ {Secondary(row), Adjudicated(row)} \subseteq LabelSpace \cup {Unlabelled}
    BY <2>2, <2>3 DEF Primary, Secondary, Adjudicated
  <2>5. ASSUME IsAmbiguous(row)
        PROVE  /\ row.acceptable \subseteq LabelSpace /\ row.note /\ Cardinality(row.acceptable) >= 2
               /\ Gold(row) \in row.acceptable
    <3>1. row.acceptable \subseteq LabelSpace
      BY <2>1, <2>5 DEF AmbiguityErrors, ErrorIf
    <3>2. row.note
      BY <2>1, <2>5 DEF AmbiguityErrors, ErrorIf
    <3>3. Cardinality(row.acceptable) # 1
      BY <2>1, <2>5 DEF AmbiguityErrors, ErrorIf
    <3>4. Gold(row) \in row.acceptable
      <4>1. ~Blank(Gold(row))
        BY <2>2 DEF Gold, Blank
      <4> QED BY <2>1, <2>5, <4>1 DEF AmbiguityErrors, ErrorIf
    <3>5. IsFiniteSet(row.acceptable) /\ row.acceptable # {}
      BY <2>5, <3>1, LabelsAreFinite, FS_Subset DEF IsAmbiguous
    <3>6. Cardinality(row.acceptable) \in Nat /\ Cardinality(row.acceptable) # 0
      BY <3>5, FS_CardinalityType, FS_EmptySet
    <3> QED BY <3>1, <3>2, <3>3, <3>4, <3>6
  <2> HIDE DEF row
  <2>6. Sensible(row)
    BY <2>a, <2>2, <2>4, <2>5 DEF Sensible
  <2> QED BY <2>6 DEF row
<1> QED BY <1>1, <1>2

LEMMA SensibleLoads ==
  ASSUME NEW rows, rows # <<>>, DuplicateIds(rows) = {},
         \A i \in DOMAIN rows : Sensible(rows[i]) /\ rows[i].posted # "cut"
  PROVE  Loads(rows)
<1>1. ASSUME NEW i \in DOMAIN rows
      PROVE  /\ rows[i].id # "" /\ rows[i].merchant # "" /\ rows[i].amount
             /\ rows[i].posted # "cut"
             /\ Primary(rows[i]) \in LabelSpace
             /\ {Secondary(rows[i]), Adjudicated(rows[i])} \subseteq LabelSpace \cup {Unlabelled}
             /\ rows[i].acceptable \subseteq LabelSpace
             /\ IsAmbiguous(rows[i]) => /\ rows[i].note /\ Cardinality(rows[i].acceptable) >= 2
                                        /\ Gold(rows[i]) \in rows[i].acceptable
  <2>1. Sensible(rows[i]) /\ rows[i].posted # "cut"
    OBVIOUS
  <2>2. ~IsAmbiguous(rows[i]) => rows[i].acceptable = {}
    BY DEF IsAmbiguous
  <2> QED BY <2>1, <2>2 DEF Sensible
<1> QED BY <1>1 DEF Loads

\* What the loader accepts the validator has no error for.
LEMMA LoadedIsFaultless ==
  ASSUME NEW rows, IsFile(rows), Loads(rows)
  PROVE  RowErrors(rows) = {}
<1>1. DuplicateIds(rows) = {}
  BY DEF Loads
<1>2. ASSUME NEW i \in DOMAIN rows
      PROVE  IdentityErrors(rows[i]) = {} /\ LabelErrors(rows[i]) = {} /\ AmbiguityErrors(rows[i]) = {}
  <2> DEFINE row == rows[i]
  <2>1. /\ row.id # "" /\ row.merchant # "" /\ row.amount
        /\ Primary(row) \in LabelSpace
        /\ {Secondary(row), Adjudicated(row)} \subseteq LabelSpace \cup {Unlabelled}
        /\ row.acceptable \subseteq LabelSpace
        /\ IsAmbiguous(row) => /\ row.note /\ Cardinality(row.acceptable) >= 2
                               /\ Gold(row) \in row.acceptable
    BY DEF Loads
  <2>2. DOMAIN row.labels = Annotators
    BY DEF IsFile
  <2> HIDE DEF row
  <2>3. IdentityErrors(row) = {}
    BY <2>1 DEF IdentityErrors, ErrorIf
  <2>4. ~Blank(Primary(row))
    BY <2>1, AbstainIsALabel DEF Blank, Unlabelled
  <2>5. \A x \in DOMAIN row.labels : row.labels[x] \in LabelSpace \cup {Unlabelled}
    BY <2>1, <2>2 DEF Annotators, Primary, Secondary, Adjudicated
  <2>6. LabelErrors(row) = {}
    BY <2>4, <2>5 DEF LabelErrors, ErrorIf
  <2>7. IsAmbiguous(row) => Cardinality(row.acceptable) # 1
    <3>1. IsFiniteSet(row.acceptable)
      BY <2>1, LabelsAreFinite, FS_Subset
    <3>2. Cardinality(row.acceptable) \in Nat
      BY <3>1, FS_CardinalityType
    <3>3. \A n \in Nat : n >= 2 => n # 1
      OBVIOUS
    <3> QED BY <2>1, <3>2, <3>3, Zenon
  <2>8. AmbiguityErrors(row) = {}
    BY <2>1, <2>7 DEF AmbiguityErrors, ErrorIf
  <2> QED BY <2>3, <2>6, <2>8 DEF row
<1> QED BY <1>1, <1>2 DEF RowErrors, ErrorIf

LEMMA ValidatedIsScorable ==
  ASSUME NEW rows, IsFile(rows)
  PROVE  ValidatedMeansScorable(rows)
<1>1. Loads(rows) => RowErrors(rows) = {}
  BY LoadedIsFaultless
<1>2. Raises(rows) => \E i \in DOMAIN rows : rows[i].posted = "cut"
  BY RowsAreSensible, SensibleLoads DEF Raises
<1>3. ASSUME Usable(rows), NEW i \in DOMAIN rows
      PROVE  /\ Gold(rows[i]) # Abstain => IsHit(rows[i], Gold(rows[i]))
             /\ Differed(rows[i]) => Gold(rows[i]) = Adjudicated(rows[i]) /\ Gold(rows[i]) \in LabelSpace
  <2>1. Sensible(rows[i]) /\ ~Unresolved(rows[i])
    BY <1>3, RowsAreSensible DEF Usable, RowsWith
  <2>2. Gold(rows[i]) # Abstain => IsHit(rows[i], Gold(rows[i]))
    BY <2>1 DEF Sensible, IsHit
  <2>3. ASSUME Differed(rows[i]) PROVE Gold(rows[i]) = Adjudicated(rows[i]) /\ Gold(rows[i]) \in LabelSpace
    BY <2>1, <2>3 DEF Sensible, Unresolved, Gold, Blank
  <2> QED BY <2>2, <2>3
<1> QED BY <1>1, <1>2, <1>3 DEF ValidatedMeansScorable

\* One side of a split, by the numbers its rows have in the file.
IsScored(side) == IsFiniteSet(DOMAIN side) /\ \A i \in DOMAIN side : Sensible(side[i])

LEMMA SidesAreScored ==
  ASSUME NEW rows, IsFile(rows), RowErrors(rows) = {}, NEW side \in {Holdout(rows), Development(rows)}
  PROVE  IsScored(side)
<1>1. \A i \in DOMAIN rows : Sensible(rows[i])
  BY RowsAreSensible
<1>2. DOMAIN side \in SUBSET DOMAIN rows /\ \A i \in DOMAIN side : side[i] = rows[i]
  BY DEF Holdout, Development, Restrict, RowsWith
<1>3. IsFiniteSet(DOMAIN side)
  BY <1>2, FileIsFinite, FS_Subset
<1> QED BY <1>1, <1>2, <1>3 DEF IsScored

\* What is in neither side's file is nobody's, and what is in one is not in the other.
LEMMA SplitIsSound ==
  ASSUME NEW rows, IsFile(rows)
  PROVE  SplitIsDisjoint(rows)
<1> DEFINE held == RowsWith(rows, InHoldout)
           kept == DOMAIN rows \ held
           H == Holdout(rows)
           D == Development(rows)
<1>1. DOMAIN H = held /\ \A i \in held : H[i] = rows[i]
  BY DEF Holdout, Restrict
<1>2. DOMAIN D = kept /\ \A i \in kept : D[i] = rows[i]
  BY DEF Development, Restrict
<1>3. held \in SUBSET DOMAIN rows
  BY DEF RowsWith
<1>4. \A i \in held : Bucket[rows[i].merchant] < HoldoutBelow
  BY DEF RowsWith, InHoldout
<1>5. \A i \in kept : ~(Bucket[rows[i].merchant] < HoldoutBelow)
  BY DEF RowsWith, InHoldout
<1>6. Cardinality(DOMAIN H) + Cardinality(DOMAIN D) = Len(rows)
  <2>1. Cardinality(DOMAIN rows) = Len(rows) /\ IsFiniteSet(DOMAIN rows)
    BY FileIsFinite
  <2> HIDE DEF held
  <2>2. Cardinality(DOMAIN rows) = Cardinality(held) + Cardinality(kept)
    BY <1>3, <2>1, PartAndRest
  <2> QED BY <1>1, <1>2, <2>1, <2>2
<1> HIDE DEF held, kept, H, D
<1>7. \A m \in Merchants(H) : Bucket[m] < HoldoutBelow
  BY <1>1, <1>4 DEF Merchants
<1>8. \A m \in Merchants(D) : ~(Bucket[m] < HoldoutBelow)
  BY <1>2, <1>5 DEF Merchants
<1>9. Merchants(H) \cap Merchants(D) = {}
  BY <1>7, <1>8
<1>10. \A m \in Merchants(H) : RulePrediction(D, m) = Abstain
  BY <1>9 DEF RulePrediction
<1> QED BY <1>6, <1>9, <1>10 DEF SplitIsDisjoint, H, D

\* n times fewer is less, and as much only where n is 0.
LEMMA TimesFewer ==
  ASSUME NEW n \in Nat, n # 0, NEW a \in Nat, NEW d \in Nat, n = a + d
  PROVE  n * a <= n * n /\ (n * a = n * n <=> d = 0)
<1>1. n * n = n * a + n * d
  OBVIOUS
<1>2. n * d \in Nat /\ n * a \in Nat /\ (n * d = 0 <=> d = 0)
  OBVIOUS
<1> QED BY <1>1, <1>2

\* Products with something smaller than n add up to less than n times the sum.
LEMMA SumOfProducts ==
  ASSUME NEW C, IsFiniteSet(C), NEW n \in Nat, NEW f, NEW g, NEW h,
         \A x \in C : f[x] \in Nat /\ g[x] \in 0..n /\ h[x] = f[x] * g[x]
  PROVE  SumFunctionOnSet(h, C) <= n * SumFunctionOnSet(f, C) /\ SumFunctionOnSet(f, C) \in Int
<1> DEFINE F(s) == SumFunctionOnSet(f, s)
           H(s) == SumFunctionOnSet(h, s)
           P == {s \in SUBSET C : H(s) <= n * F(s)}
<1>1. \A x \in C : h[x] \in Int /\ f[x] \in Int /\ h[x] <= n * f[x]
  <2> TAKE x \in C
  <2>1. f[x] \in Nat /\ g[x] \in Nat /\ g[x] <= n /\ h[x] = f[x] * g[x]
    OBVIOUS
  <2>2. \A p, q \in Nat : q <= n => p * q \in Int /\ p * q <= n * p
    OBVIOUS
  <2> QED BY <2>1, <2>2
<1>2. {} \in P
  <2>1. H({}) = 0 /\ F({}) = 0
    BY SumOfNone
  <2> HIDE DEF H, F
  <2>2. H({}) <= n * F({})
    BY <2>1
  <2> QED BY <2>2
<1>3. ASSUME NEW s \in SUBSET C, NEW x \in C \ s, s \in P PROVE s \cup {x} \in P
  <2>1. IsFiniteSet(s)
    BY FS_Subset
  <2>2. F(s) \in Int /\ H(s) \in Int
    BY <1>1, <2>1, SumIsWhole
  <2>3. F(s \cup {x}) = f[x] + F(s) /\ H(s \cup {x}) = h[x] + H(s)
    <3>1. \A y \in s \cup {x} : f[y] \in Int /\ h[y] \in Int
      BY <1>1
    <3> QED BY <2>1, <3>1, SumOfOneMore
  <2>4. H(s) <= n * F(s) /\ h[x] <= n * f[x] /\ h[x] \in Int /\ f[x] \in Int
    BY <1>1, <1>3
  <2> HIDE DEF F, H
  <2>5. \A a, b \in Int : n * (a + b) = n * a + n * b
    OBVIOUS
  <2>6. n * F(s) \in Int /\ n * f[x] \in Int
    BY <2>2, <2>4
  <2>7. H(s \cup {x}) <= n * F(s \cup {x})
    BY <2>2, <2>3, <2>4, <2>5, <2>6
  <2> QED BY <2>7
<1> HIDE DEF P
<1>4. C \in P
  BY <1>2, <1>3, SubsetInduction
<1>5. F(C) \in Int
  BY <1>1, SumIsWhole
<1> QED BY <1>4, <1>5 DEF P

\* Where nobody labelled a row twice there is no kappa.
LEMMA KappaOfNone ==
  ASSUME NEW rows, RowsWith(rows, IsDouble) = {}
  PROVE  ~Kappa(rows).defined
<1> DEFINE double == RowsWith(rows, IsDouble)
           n == Cardinality(double)
           byA(x) == Cardinality({i \in double : Primary(rows[i]) = x})
           byB(x) == Cardinality({i \in double : Secondary(rows[i]) = x})
           f == [x \in LabelSpace |-> byA(x) * byB(x)]
           chance == SumFunction(f)
           some == chance # n * n
           over == n * Cardinality(RowsWith(rows, Agreed)) - chance
           under == n * n - chance
<1>1. n = 0
  BY FS_EmptySet
<1>2. \A x \in LabelSpace : byA(x) = 0 /\ byB(x) = 0
  <2> TAKE x \in LabelSpace
  <2>1. {i \in double : Primary(rows[i]) = x} = {} /\ {i \in double : Secondary(rows[i]) = x} = {}
    OBVIOUS
  <2> HIDE DEF double
  <2> QED BY <2>1, FS_EmptySet
<1>3. \A x \in LabelSpace : f[x] = 0
  <2> HIDE DEF byA, byB
  <2> QED BY <1>2
<1>4. \A x \in LabelSpace : f[x] = Cardinality(Members({}, f, x))
  <2> TAKE x \in LabelSpace
  <2>1. Members({}, f, x) = {}
    BY DEF Members
  <2> QED BY <1>3, <2>1, FS_EmptySet
<1>5. DOMAIN f = LabelSpace
  OBVIOUS
<1> HIDE DEF f
<1>6. SumFunctionOnSet(f, LabelSpace) = Cardinality({})
  <2>1. IsFiniteSet({})
    BY FS_EmptySet
  <2>2. \A x \in {} : f[x] \in LabelSpace
    OBVIOUS
  <2> QED BY <1>4, <2>1, <2>2, LabelsAreFinite, CountByClass
<1>7. chance = 0
  BY <1>5, <1>6, FS_EmptySet DEF SumFunction
<1>8. ~some
  <2> HIDE DEF chance, n
  <2> QED BY <1>1, <1>7
<1>9. Kappa(rows) = [defined |-> some, over |-> over, under |-> under]
  BY DEF Kappa, f
<1> HIDE DEF some, over, under
<1>10. Kappa(rows).defined = some
  BY <1>9
<1> QED BY <1>8, <1>10, Zenon

LEMMA KappaOfSomeIsSound ==
  ASSUME NEW rows, IsScored(rows), RowsWith(rows, IsDouble) # {}
  PROVE  KappaIsAtMostOne(rows)
<1> DEFINE double == RowsWith(rows, IsDouble)
           agreed == RowsWith(rows, Agreed)
           differed == RowsWith(rows, Differed)
           n == Cardinality(double)
           a == Cardinality(agreed)
           d == Cardinality(differed)
           byA(x) == Cardinality({i \in double : Primary(rows[i]) = x})
           byB(x) == Cardinality({i \in double : Secondary(rows[i]) = x})
           f == [x \in LabelSpace |-> byA(x) * byB(x)]
           chance == SumFunction(f)
<1>1. IsFiniteSet(double) /\ double # {}
  <2>1. double \in SUBSET DOMAIN rows
    BY DEF RowsWith
  <2>2. double # {}
    OBVIOUS
  <2> HIDE DEF double
  <2> QED BY <2>1, <2>2, FS_Subset DEF IsScored
<1>2. agreed \in SUBSET double /\ differed = double \ agreed
  BY DEF RowsWith, Agreed, Differed
<1>3. chance \in Int /\ chance <= n * n
  <2> DEFINE A == [x \in LabelSpace |-> byA(x)]
             B == [x \in LabelSpace |-> byB(x)]
             said == [i \in double |-> Primary(rows[i])]
  <2>1. \A x \in LabelSpace : A[x] \in Nat /\ B[x] \in 0..n
    <3> TAKE x \in LabelSpace
    <3>1. /\ {i \in double : Primary(rows[i]) = x} \in SUBSET double
          /\ {i \in double : Secondary(rows[i]) = x} \in SUBSET double
      OBVIOUS
    <3> HIDE DEF double
    <3>2. byA(x) \in Nat /\ byB(x) \in Nat /\ byB(x) <= n
      BY <1>1, <3>1, FS_Subset, FS_CardinalityType
    <3>3. A[x] = byA(x) /\ B[x] = byB(x)
      OBVIOUS
    <3> HIDE DEF byA, byB, A, B, n
    <3> QED BY <3>2, <3>3
  <2>2. \A x \in LabelSpace : f[x] = A[x] * B[x]
    OBVIOUS
  <2>3. DOMAIN f = LabelSpace
    OBVIOUS
  <2>4. \A x \in LabelSpace : A[x] = Cardinality(Members(double, said, x))
    <3> TAKE x \in LabelSpace
    <3>1. Members(double, said, x) = {i \in double : Primary(rows[i]) = x}
      BY DEF Members
    <3> QED BY <3>1
  <2>5. \A i \in double : said[i] \in LabelSpace
    <3>1. \A i \in DOMAIN rows : Sensible(rows[i])
      BY DEF IsScored
    <3> QED BY <3>1 DEF RowsWith, Sensible
  <2>6. n \in Nat
    <3> HIDE DEF double
    <3> QED BY <1>1, FS_CardinalityType
  <2> HIDE DEF f, A, B, said, double
  <2>7. SumFunctionOnSet(A, LabelSpace) = n
    BY <1>1, <2>4, <2>5, LabelsAreFinite, CountByClass
  <2> HIDE DEF n
  <2>8. SumFunctionOnSet(f, LabelSpace) <= n * SumFunctionOnSet(A, LabelSpace)
    BY <2>1, <2>2, <2>6, LabelsAreFinite, SumOfProducts
  <2>9. SumFunctionOnSet(f, LabelSpace) \in Int
    <3>1. \A x \in LabelSpace : f[x] \in Int
      <4> TAKE x \in LabelSpace
      <4>1. A[x] \in Int /\ B[x] \in Int /\ f[x] = A[x] * B[x]
        BY <2>1, <2>2, <2>6
      <4> QED BY <4>1
    <3> QED BY <3>1, LabelsAreFinite, SumIsWhole
  <2> QED BY <2>3, <2>7, <2>8, <2>9 DEF SumFunction
<1>4. Kappa(rows) = [defined |-> chance # n * n, over |-> n * a - chance, under |-> n * n - chance]
  BY DEF Kappa
<1> HIDE DEF double, agreed, differed, f, chance
<1>5. n \in Nat /\ a \in Nat /\ d \in Nat /\ n = a + d /\ n # 0
  <2>1. n = a + d /\ n \in Nat /\ a \in Nat /\ d \in Nat
    BY <1>1, <1>2, PartAndRest
  <2>2. n # 0
    BY <1>1, FS_EmptySet
  <2> QED BY <2>1, <2>2
<1>6. d = 0 <=> differed = {}
  <2>1. IsFiniteSet(differed)
    BY <1>1, <1>2, FS_Subset
  <2> QED BY <2>1, FS_EmptySet
<1>7. n * a <= n * n /\ (n * a = n * n <=> d = 0) /\ n * a \in Int /\ n * n \in Int
  <2> HIDE DEF n, a, d
  <2> QED BY <1>5, TimesFewer
<1>8. /\ n * a - chance <= n * n - chance /\ (n * a - chance = n * n - chance <=> differed = {})
      /\ chance # n * n => n * n - chance > 0
  <2> DEFINE na == n * a
             nn == n * n
  <2>1. na <= nn /\ (na = nn <=> differed = {}) /\ na \in Int /\ nn \in Int /\ chance <= nn
    BY <1>3, <1>6, <1>7
  <2> HIDE DEF na, nn
  <2>2. /\ na - chance <= nn - chance /\ (na - chance = nn - chance <=> differed = {})
        /\ chance # nn => nn - chance > 0
    BY <1>3, <2>1
  <2> QED BY <2>2 DEF na, nn
<1>9. Kappa(rows).over = n * a - chance /\ Kappa(rows).under = n * n - chance
  BY <1>4
<1>11. Kappa(rows).defined => chance # n * n
  <2> DEFINE some == chance # n * n
             over == n * a - chance
             under == n * n - chance
  <2>1. Kappa(rows) = [defined |-> some, over |-> over, under |-> under]
    BY <1>4
  <2> HIDE DEF some, over, under
  <2>2. Kappa(rows).defined = some
    BY <2>1
  <2> QED BY <2>2, Zenon DEF some
<1> HIDE DEF n, a
<1>10. /\ Kappa(rows).over <= Kappa(rows).under
       /\ Kappa(rows).over = Kappa(rows).under <=> differed = {}
       /\ Kappa(rows).defined => Kappa(rows).under > 0
  BY <1>8, <1>9, <1>11
<1> QED BY <1>10 DEF KappaIsAtMostOne, differed

LEMMA KappaIsSound ==
  ASSUME NEW rows, IsScored(rows)
  PROVE  KappaIsAtMostOne(rows)
<1>1. CASE RowsWith(rows, IsDouble) = {}
  BY <1>1, KappaOfNone DEF KappaIsAtMostOne
<1>2. CASE RowsWith(rows, IsDouble) # {}
  BY <1>2, KappaOfSomeIsSound
<1> QED BY <1>1, <1>2

\* What a recorded prediction scores is what the report scored.
LEMMA RecordedScoresAlike ==
  ASSUME NEW row, NEW label, NEW confidence
  PROVE  RecordedCorrect(Recorded(row, label, confidence)) <=> IsHit(row, label)
<1> DEFINE out == label = Abstain
           r == [predicted |-> label, confidence |-> confidence, abstained |-> out,
                 gold |-> Gold(row), acceptable |-> row.acceptable]
<1>1. Recorded(row, label, confidence) = r
  BY DEF Recorded
<1>2. r.predicted = label /\ r.gold = Gold(row) /\ r.acceptable = row.acceptable
  OBVIOUS
<1>3. r.abstained = out
  <2> HIDE DEF out
  <2> QED OBVIOUS
<1> HIDE DEF r
<1>4. RecordedCorrect(r) <=> ~out /\ IF row.acceptable # {} THEN label \in row.acceptable ELSE label = Gold(row)
  <2>1. RecordedCorrect(r) <=>
          ~r.abstained /\ IF r.acceptable # {} THEN r.predicted \in r.acceptable ELSE r.predicted = r.gold
    BY DEF RecordedCorrect
  <2> HIDE DEF out
  <2> QED BY <1>2, <1>3, <2>1, Zenon
<1>5. IsHit(row, label) <=>
        label # Abstain /\ IF row.acceptable # {} THEN label \in row.acceptable ELSE label = Gold(row)
  BY DEF IsHit, IsAmbiguous
<1> QED BY <1>1, <1>4, <1>5

\* The rows of a stratum, whether it is reported or has none, and its hits.
LEMMA StratumTotal ==
  ASSUME NEW rows, NEW predicted, NEW chosen
  PROVE  ScoreOptional(rows, predicted, chosen).total = Cardinality(chosen)
<1>1. CASE chosen = {}
  BY <1>1, FS_EmptySet DEF ScoreOptional, NoReport
<1>2. CASE chosen # {}
  BY <1>2 DEF ScoreOptional, Score
<1> QED BY <1>1, <1>2

LEMMA StratumHits ==
  ASSUME NEW rows, NEW predicted, NEW chosen
  PROVE  ScoreOptional(rows, predicted, chosen).correct
           = Cardinality({i \in chosen : IsHit(rows[i], predicted[i])})
<1>1. CASE chosen = {}
  <2>1. {i \in chosen : IsHit(rows[i], predicted[i])} = {}
    BY <1>1
  <2> QED BY <1>1, <2>1, FS_EmptySet DEF ScoreOptional, NoReport
<1>2. CASE chosen # {}
  BY <1>2 DEF ScoreOptional, Score
<1> QED BY <1>1, <1>2

\* Where a side is scored, its reports add up.
LEMMA ReportsAddUp ==
  ASSUME NEW rows, IsScored(rows), NEW predicted \in [DOMAIN rows -> LabelSpace]
  PROVE  LET overall == Score(rows, predicted, DOMAIN rows)
             ambiguous == ScoreOptional(rows, predicted, RowsWith(rows, IsAmbiguous))
             unambiguous == Score(rows, predicted, RowsWith(rows, Unambiguous))
             agreed == ScoreOptional(rows, predicted, RowsWith(rows, Agreed))
             differed == ScoreOptional(rows, predicted, RowsWith(rows, Differed))
         IN /\ overall.correct = ambiguous.correct + unambiguous.correct
            /\ overall.total = ambiguous.total + unambiguous.total
            /\ agreed.total + differed.total = Cardinality(RowsWith(rows, IsDouble))
            /\ overall.correct = SumFunction(overall.truePositive)
            /\ overall.correct + overall.abstentions <= overall.total
            /\ SumFunction(overall.named) + overall.abstentions = overall.total
            /\ overall.total = SumFunction(overall.confusion)
            /\ overall.correct =
                 Cardinality({i \in DOMAIN rows : RecordedCorrect(Recorded(rows[i], predicted[i], 0))})
<1> DEFINE D == DOMAIN rows
           amb == RowsWith(rows, IsAmbiguous)
           hits == {i \in D : IsHit(rows[i], predicted[i])}
           out == {i \in D : predicted[i] = Abstain}
           gold == [i \in D |-> Gold(rows[i])]
           pairs == [i \in D |-> <<Gold(rows[i]), predicted[i]>>]
           all == Score(rows, predicted, D)
           ambiguous == ScoreOptional(rows, predicted, amb)
           rest == Score(rows, predicted, RowsWith(rows, Unambiguous))
           true == all.truePositive
           named == all.named
           confusion == all.confusion
<1>1. IsFiniteSet(D)
  BY DEF IsScored
<1>2. \A i \in D : gold[i] \in LabelSpace
  <2>1. \A i \in D : Sensible(rows[i])
    BY DEF IsScored
  <2>2. \A i \in D : Gold(rows[i]) \in LabelSpace
    BY <2>1 DEF Sensible, Gold, Blank
  <2> QED BY <2>2
<1>3. hits \in SUBSET D /\ out \in SUBSET D /\ amb \in SUBSET D /\ hits \cap out = {}
  BY DEF RowsWith, IsHit
<1>4. IsFiniteSet(hits) /\ IsFiniteSet(out)
  <2> HIDE DEF hits, out, D
  <2> QED BY <1>1, <1>3, FS_Subset
<1>5. all.total = Cardinality(D) /\ all.correct = Cardinality(hits) /\ all.abstentions = Cardinality(out)
  BY DEF Score
<1>a. RowsWith(rows, Unambiguous) = D \ amb
  BY DEF RowsWith, Unambiguous
<1>6. all.correct = ambiguous.correct + rest.correct
  <2> DEFINE ours == {i \in amb : IsHit(rows[i], predicted[i])}
             theirs == {i \in D \ amb : IsHit(rows[i], predicted[i])}
  <2>a. ambiguous.correct = Cardinality(ours)
    BY StratumHits
  <2>b. rest.correct = Cardinality(theirs)
    BY <1>a DEF Score
  <2>1. ambiguous.correct = Cardinality(ours) /\ rest.correct = Cardinality(theirs)
    BY <2>a, <2>b
  <2>2. ours \in SUBSET hits /\ theirs = hits \ ours
    BY <1>3
  <2> HIDE DEF ours, theirs, hits, ambiguous, rest, all
  <2>3. Cardinality(hits) = Cardinality(ours) + Cardinality(theirs)
    BY <1>4, <2>2, PartAndRest
  <2> QED BY <1>5, <2>1, <2>3
<1>7. all.correct = SumFunction(true)
  <2>1. DOMAIN true = LabelSpace
    BY DEF Score
  <2>2. \A x \in LabelSpace : true[x] = Cardinality(Members(hits, gold, x))
    <3> TAKE x \in LabelSpace
    <3>1. Members(hits, gold, x) = {i \in D : Gold(rows[i]) = x /\ IsHit(rows[i], predicted[i])}
      BY DEF Members
    <3>2. true[x] = Cardinality({i \in D : Gold(rows[i]) = x /\ IsHit(rows[i], predicted[i])})
      BY DEF Score
    <3> QED BY <3>1, <3>2
  <2>3. \A i \in hits : gold[i] \in LabelSpace
    BY <1>2, <1>3
  <2> HIDE DEF true, hits, gold, all
  <2>4. SumFunctionOnSet(true, LabelSpace) = Cardinality(hits)
    BY <1>4, <2>2, <2>3, LabelsAreFinite, CountByClass
  <2> QED BY <1>5, <2>1, <2>4 DEF SumFunction
<1>8. all.correct + all.abstentions <= all.total
  <2> HIDE DEF D, hits, out, all
  <2>1. out \in SUBSET (D \ hits)
    BY <1>3
  <2>2. Cardinality(D) = Cardinality(hits) + Cardinality(D \ hits) /\ Cardinality(hits) \in Nat
    BY <1>1, <1>3, PartAndRest
  <2>3. IsFiniteSet(D \ hits)
    BY <1>1, FS_Difference
  <2>4. Cardinality(out) <= Cardinality(D \ hits) /\ Cardinality(out) \in Nat /\ Cardinality(D \ hits) \in Nat
    BY <1>4, <2>1, <2>3, FS_Subset, FS_CardinalityType
  <2> QED BY <1>5, <2>2, <2>4
<1>9. SumFunction(named) + all.abstentions = all.total
  <2> DEFINE said == D \ out
             C == LabelSpace \ {Abstain}
  <2>1. DOMAIN named = C
    BY DEF Score
  <2>2. \A x \in C : named[x] = Cardinality(Members(said, predicted, x))
    <3> TAKE x \in C
    <3>1. Members(said, predicted, x) = {i \in D : predicted[i] = x}
      BY DEF Members
    <3>2. named[x] = Cardinality({i \in D : predicted[i] = x})
      BY DEF Score
    <3> QED BY <3>1, <3>2
  <2>3. \A i \in said : predicted[i] \in C
    OBVIOUS
  <2>4. IsFiniteSet(C)
    BY LabelsAreFinite, FS_Difference
  <2> HIDE DEF D, out, all, named, C
  <2>5. IsFiniteSet(said)
    BY <1>1, FS_Difference
  <2>6. SumFunctionOnSet(named, C) = Cardinality(said)
    <3> HIDE DEF said
    <3> QED BY <2>2, <2>3, <2>4, <2>5, CountByClass
  <2>7. Cardinality(D) = Cardinality(out) + Cardinality(said) /\ Cardinality(out) \in Nat /\ Cardinality(said) \in Nat
    BY <1>1, <1>3, PartAndRest
  <2>8. SumFunction(named) = Cardinality(said)
    BY <2>1, <2>6 DEF SumFunction
  <2> HIDE DEF said
  <2> QED BY <1>5, <2>7, <2>8
<1>10. all.total = SumFunction(confusion)
  <2> DEFINE C == LabelSpace \X LabelSpace
  <2>1. DOMAIN confusion = C
    BY DEF Score
  <2>2. \A c \in C : confusion[c] = Cardinality(Members(D, pairs, c))
    <3> TAKE c \in C
    <3>1. Members(D, pairs, c) = {i \in D : Gold(rows[i]) = c[1] /\ predicted[i] = c[2]}
      BY DEF Members
    <3>2. confusion[c] = Cardinality({i \in D : Gold(rows[i]) = c[1] /\ predicted[i] = c[2]})
      BY DEF Score
    <3> QED BY <3>1, <3>2
  <2>3. \A i \in D : pairs[i] \in C
    BY <1>2
  <2>4. IsFiniteSet(C)
    BY LabelsAreFinite, FS_Product
  <2> HIDE DEF D, pairs, all, confusion, C
  <2>5. SumFunctionOnSet(confusion, C) = Cardinality(D)
    BY <1>1, <2>2, <2>3, <2>4, CountByClass
  <2> QED BY <1>5, <2>1, <2>5 DEF SumFunction
<1>11. all.correct = Cardinality({i \in D : RecordedCorrect(Recorded(rows[i], predicted[i], 0))})
  <2>1. {i \in D : RecordedCorrect(Recorded(rows[i], predicted[i], 0))} = hits
    BY RecordedScoresAlike
  <2> QED BY <1>5, <2>1
<1>12. all.total = ambiguous.total + rest.total
  <2>1. ambiguous.total = Cardinality(amb)
    <3> HIDE DEF amb
    <3> QED BY StratumTotal
  <2>2. rest.total = Cardinality(D \ amb)
    BY <1>a DEF Score
  <2> HIDE DEF D, amb, all, ambiguous, rest
  <2> QED BY <1>1, <1>3, <1>5, <2>1, <2>2, PartAndRest
<1>13. ScoreOptional(rows, predicted, RowsWith(rows, Agreed)).total
         + ScoreOptional(rows, predicted, RowsWith(rows, Differed)).total
         = Cardinality(RowsWith(rows, IsDouble))
  <2> DEFINE double == RowsWith(rows, IsDouble)
             agreed == RowsWith(rows, Agreed)
             differed == RowsWith(rows, Differed)
             one == ScoreOptional(rows, predicted, agreed)
             other == ScoreOptional(rows, predicted, differed)
  <2>1. one.total = Cardinality(agreed) /\ other.total = Cardinality(differed)
    <3> HIDE DEF agreed, differed
    <3> QED BY StratumTotal
  <2>2. double \in SUBSET D /\ agreed \in SUBSET double /\ differed = double \ agreed
    BY DEF RowsWith, Agreed, Differed
  <2> HIDE DEF D, double, agreed, differed, one, other
  <2>3. IsFiniteSet(double)
    BY <1>1, <2>2, FS_Subset
  <2>4. one.total + other.total = Cardinality(double)
    BY <2>1, <2>2, <2>3, PartAndRest
  <2> QED BY <2>4 DEF one, other, agreed, differed, double
<1> QED BY <1>6, <1>7, <1>8, <1>9, <1>10, <1>11, <1>12, <1>13

LEMMA ScoresAreSound ==
  ASSUME NEW rows, IsScored(rows), NEW predicted \in [DOMAIN rows -> LabelSpace]
  PROVE  ScoresAddUp(rows, predicted)
<1> DEFINE result == SystemResult(rows, predicted)
           overall == Score(rows, predicted, DOMAIN rows)
           ambiguous == ScoreOptional(rows, predicted, RowsWith(rows, IsAmbiguous))
           unambiguous == Score(rows, predicted, RowsWith(rows, Unambiguous))
           agreed == ScoreOptional(rows, predicted, RowsWith(rows, Agreed))
           differed == ScoreOptional(rows, predicted, RowsWith(rows, Differed))
<1>1. CASE DOMAIN rows = {} \/ RowsWith(rows, Unambiguous) = {}
  <2>1. result = Refused
    BY <1>1 DEF SystemResult
  <2>2. result.refused
    BY <2>1 DEF Refused
  <2>3. DOMAIN rows = RowsWith(rows, IsAmbiguous)
    BY <1>1 DEF RowsWith, Unambiguous
  <2> QED BY <2>2, <2>3 DEF ScoresAddUp
<1>2. CASE ~(DOMAIN rows = {} \/ RowsWith(rows, Unambiguous) = {})
  <2>1. result = [refused |-> FALSE, overall |-> overall, unambiguous |-> unambiguous,
                  ambiguous |-> ambiguous, annotators_agreed |-> agreed, annotators_disagreed |-> differed]
    BY <1>2 DEF SystemResult
  <2> HIDE DEF overall, ambiguous, unambiguous, agreed, differed, result
  <2>2. /\ result.refused = FALSE /\ result.overall = overall /\ result.unambiguous = unambiguous
        /\ result.ambiguous = ambiguous /\ result.annotators_agreed = agreed
        /\ result.annotators_disagreed = differed
    BY <2>1
  <2>3. /\ overall.correct = ambiguous.correct + unambiguous.correct
        /\ overall.total = ambiguous.total + unambiguous.total
        /\ agreed.total + differed.total = Cardinality(RowsWith(rows, IsDouble))
        /\ overall.correct = SumFunction(overall.truePositive)
        /\ overall.correct + overall.abstentions <= overall.total
        /\ SumFunction(overall.named) + overall.abstentions = overall.total
        /\ overall.total = SumFunction(overall.confusion)
        /\ overall.correct =
             Cardinality({i \in DOMAIN rows : RecordedCorrect(Recorded(rows[i], predicted[i], 0))})
    BY ReportsAddUp DEF overall, ambiguous, unambiguous, agreed, differed
  <2> QED BY <2>2, <2>3 DEF ScoresAddUp, result
<1> QED BY <1>1, <1>2

LEMMA GreatestNatural ==
  ASSUME NEW n \in Nat, NEW s \in SUBSET (0..n), s # {}
  PROVE  Max(s) \in s /\ \A i \in s : i <= Max(s)
<1> DEFINE Below == {n - i : i \in s}
<1>1. Below \subseteq Nat /\ Below # {}
  <2>1. \A i \in s : n - i \in Nat
    OBVIOUS
  <2> QED BY <2>1
<1>2. PICK d \in Below : \A e \in Below : d <= e
  BY <1>1, LeastNatural
<1>3. PICK i \in s : d = n - i
  BY <1>2
<1>4. \A j \in s : n - i <= n - j
  BY <1>2, <1>3
<1>5. \A j \in s : i >= j
  BY <1>4
<1> QED BY <1>3, <1>5 DEF Max

\* What a sweep needs of its rows.
IsSwept(recorded) == IsFiniteSet(DOMAIN recorded) /\ \A i \in DOMAIN recorded : recorded[i].confidence \in Nat

LEMMA ThresholdsGrow ==
  /\ Len(Thresholds) \in Nat \ {0} /\ DOMAIN Thresholds = 1..Len(Thresholds) /\ Thresholds[1] = 0
  /\ \A k \in DOMAIN Thresholds : Thresholds[k] \in Nat
  /\ \A i, j \in DOMAIN Thresholds : i <= j => Thresholds[i] <= Thresholds[j]
<1>1. /\ Thresholds \in Seq(Nat) /\ Thresholds # <<>> /\ Thresholds[1] = 0
      /\ \A i, j \in DOMAIN Thresholds : i < j => Thresholds[i] < Thresholds[j]
  BY GridAscends
<1>2. Len(Thresholds) \in Nat \ {0} /\ DOMAIN Thresholds = 1..Len(Thresholds)
  BY <1>1
<1>3. \A k \in DOMAIN Thresholds : Thresholds[k] \in Nat
  BY <1>1
<1>4. ASSUME NEW i \in DOMAIN Thresholds, NEW j \in DOMAIN Thresholds, i <= j
      PROVE  Thresholds[i] <= Thresholds[j]
  BY <1>1, <1>2, <1>3, <1>4
<1> QED BY <1>1, <1>2, <1>3, <1>4

\* A higher threshold queues what a lower one does.
LEMMA QueuesGrow ==
  ASSUME NEW recorded, IsSwept(recorded), NEW low \in Nat, NEW high \in Nat, low <= high
  PROVE  Cardinality(Queued(recorded, low)) <= Cardinality(Queued(recorded, high))
<1>1. Queued(recorded, low) \in SUBSET Queued(recorded, high)
  BY DEF Queued, IsSwept
<1>2. Queued(recorded, high) \in SUBSET DOMAIN recorded
  BY DEF Queued
<1>3. IsFiniteSet(Queued(recorded, high))
  BY <1>2, FS_Subset DEF IsSwept
<1> QED BY <1>1, <1>3, FS_Subset

LEMMA SeparationIsBounded ==
  ASSUME NEW recorded, IsSwept(recorded), NEW threshold
  PROVE  LET w == Cardinality(Wrong(recorded))
             r == Cardinality(Right(recorded))
         IN w \in Nat /\ r \in Nat /\ Separation(recorded, threshold) \in 0..(w * r + r * w)
<1> DEFINE W == Wrong(recorded)
           R == Right(recorded)
           Q == Queued(recorded, threshold)
           w == Cardinality(W)
           r == Cardinality(R)
           x == Cardinality(W \cap Q)
           y == Cardinality(R \ Q)
<1>1. IsFiniteSet(W) /\ IsFiniteSet(R)
  <2>1. W \in SUBSET DOMAIN recorded /\ R \in SUBSET DOMAIN recorded
    BY DEF Wrong, Right
  <2> HIDE DEF W, R
  <2> QED BY <2>1, FS_Subset DEF IsSwept
<1>2. Separation(recorded, threshold) = x * r + y * w
  BY DEF Separation
<1> HIDE DEF W, R, Q
<1>3. W \cap Q \in SUBSET W /\ R \ Q \in SUBSET R
  OBVIOUS
<1>4. IsFiniteSet(W \cap Q) /\ IsFiniteSet(R \ Q)
  BY <1>1, <1>3, FS_Subset
<1>5. w \in Nat /\ r \in Nat /\ x \in Nat /\ y \in Nat /\ x <= w /\ y <= r
  BY <1>1, <1>3, <1>4, FS_Subset, FS_CardinalityType
<1> HIDE DEF w, r, x, y
<1>6. \A a, b, c \in Nat : a <= b => a * c <= b * c /\ a * c \in Nat /\ b * c \in Nat
  OBVIOUS
<1>7. x * r <= w * r /\ x * r \in Nat /\ w * r \in Nat
  BY <1>5, <1>6
<1>8. y * w <= r * w /\ y * w \in Nat /\ r * w \in Nat
  BY <1>5, <1>6
<1>9. x * r + y * w \in 0..(w * r + r * w)
  BY <1>7, <1>8
<1>10. w \in Nat /\ r \in Nat /\ Separation(recorded, threshold) \in 0..(w * r + r * w)
  BY <1>2, <1>5, <1>9
<1> QED BY <1>10 DEF w, r, W, R

\* At zero nothing is queued.
LEMMA ZeroQueuesNothing ==
  ASSUME NEW recorded, IsSwept(recorded)
  PROVE  Separation(recorded, 0) = Cardinality(Wrong(recorded)) * Cardinality(Right(recorded))
<1> DEFINE w == Cardinality(Wrong(recorded))
           r == Cardinality(Right(recorded))
<1>1. Queued(recorded, 0) = {}
  BY DEF Queued, IsSwept
<1>2. Wrong(recorded) \cap Queued(recorded, 0) = {} /\ Right(recorded) \ Queued(recorded, 0) = Right(recorded)
  BY <1>1
<1>3. Cardinality({}) = 0
  BY FS_EmptySet
<1>4. Separation(recorded, 0) = 0 * r + r * w
  BY <1>2, <1>3 DEF Separation
<1>5. w \in Nat /\ r \in Nat
  BY SeparationIsBounded
<1> HIDE DEF w, r
<1>6. 0 * r + r * w = w * r
  BY <1>5
<1> QED BY <1>4, <1>6 DEF w, r

LEMMA ChosenIsFirstBest ==
  ASSUME NEW recorded, IsSwept(recorded)
  PROVE  \E c \in DOMAIN Thresholds :
           /\ ChooseThreshold(recorded) = Thresholds[c]
           /\ \A k \in DOMAIN Thresholds :
                /\ Separation(recorded, Thresholds[k]) <= Separation(recorded, Thresholds[c])
                /\ Separation(recorded, Thresholds[k]) = Separation(recorded, Thresholds[c]) => c <= k
<1> DEFINE S(k) == Separation(recorded, Thresholds[k])
           values == {S(k) : k \in DOMAIN Thresholds}
           best == Max(values)
           first == {k \in DOMAIN Thresholds : S(k) = best}
           w == Cardinality(Wrong(recorded))
           r == Cardinality(Right(recorded))
           bound == w * r + r * w
<1>1. w \in Nat /\ r \in Nat /\ \A k \in DOMAIN Thresholds : S(k) \in 0..bound
  BY SeparationIsBounded
<1>2. bound \in Nat
  <2> HIDE DEF w, r
  <2> QED BY <1>1
<1>3. values \in SUBSET (0..bound) /\ values # {}
  <2> HIDE DEF bound, S
  <2>1. 1 \in DOMAIN Thresholds
    BY ThresholdsGrow
  <2> QED BY <1>1, <2>1
<1> HIDE DEF bound
<1>4. best \in values /\ \A v \in values : v <= best
  <2> HIDE DEF values
  <2> QED BY <1>2, <1>3, GreatestNatural
<1>5. first # {} /\ first \in SUBSET (1..Len(Thresholds)) /\ Len(Thresholds) \in Nat
  <2> HIDE DEF best, S
  <2> QED BY <1>4, ThresholdsGrow
<1> DEFINE c == Min(first)
<1>6. c \in first /\ \A k \in first : c <= k
  <2> HIDE DEF first
  <2> QED BY <1>5, MinProperties
<1>7. ChooseThreshold(recorded) = Thresholds[c]
  BY DEF ChooseThreshold
<1>8. c \in DOMAIN Thresholds /\ S(c) = best
  <2> HIDE DEF c, best, S
  <2> QED BY <1>6
<1>9. ASSUME NEW k \in DOMAIN Thresholds PROVE S(k) <= S(c) /\ (S(k) = S(c) => c <= k)
  <2> HIDE DEF c, best, S
  <2> QED BY <1>4, <1>6, <1>8
<1> HIDE DEF c
<1> QED BY <1>7, <1>8, <1>9

LEMMA ThresholdIsSound ==
  ASSUME NEW recorded, IsSwept(recorded)
  PROVE  ThresholdSeparates(recorded)
<1> DEFINE chosen == ChooseThreshold(recorded)
           nothing == Cardinality(Wrong(recorded)) * Cardinality(Right(recorded))
<1>1. PICK c \in DOMAIN Thresholds :
        /\ ChooseThreshold(recorded) = Thresholds[c]
        /\ \A k \in DOMAIN Thresholds :
             /\ Separation(recorded, Thresholds[k]) <= Separation(recorded, Thresholds[c])
             /\ Separation(recorded, Thresholds[k]) = Separation(recorded, Thresholds[c]) => c <= k
  BY ChosenIsFirstBest
<1>2. Separation(recorded, chosen) >= nothing
  <2>1. 1 \in DOMAIN Thresholds /\ Thresholds[1] = 0
    BY ThresholdsGrow
  <2>2. Separation(recorded, Thresholds[1]) = nothing
    BY <2>1, ZeroQueuesNothing
  <2>3. nothing <= Separation(recorded, chosen)
    BY <1>1, <2>1, <2>2
  <2> QED BY <2>3
<1>3. ASSUME NEW k \in DOMAIN Thresholds, Separation(recorded, Thresholds[k]) >= Separation(recorded, chosen)
      PROVE  Cardinality(Queued(recorded, chosen)) <= Cardinality(Queued(recorded, Thresholds[k]))
  <2> DEFINE one == Separation(recorded, Thresholds[k])
             other == Separation(recorded, Thresholds[c])
  <2>1. one \in Int /\ other \in Int
    BY SeparationIsBounded
  <2>2. one <= other /\ one >= other /\ (one = other => c <= k)
    BY <1>1, <1>3
  <2> HIDE DEF one, other
  <2>3. c <= k
    BY <2>1, <2>2
  <2>4. Thresholds[c] \in Nat /\ Thresholds[k] \in Nat /\ Thresholds[c] <= Thresholds[k]
    BY <2>3, ThresholdsGrow
  <2> QED BY <1>1, <2>4, QueuesGrow
<1> QED BY <1>2, <1>3 DEF ThresholdSeparates

-----------------------------------------------------------------------------
(* Every file the tool leaves behind *)

LEMMA DiskIsAFile ==
  ASSUME disk \in Seq(FileRow)
  PROVE  IsFile(disk)
<1>1. \A row \in FileRow : DOMAIN row.labels = Annotators
  BY DEF FileRow
<1>2. Len(disk) \in Nat /\ DOMAIN disk = 1..Len(disk) /\ \A i \in DOMAIN disk : disk[i] \in FileRow
  OBVIOUS
<1> QED BY <1>1, <1>2 DEF IsFile

\* The recorded predictions of one side sweep as they should.
LEMMA RecordingIsSound ==
  ASSUME NEW side, IsScored(side), NEW predicted,
         NEW confidence \in [DOMAIN side -> Range(Thresholds)]
  PROVE  ThresholdSeparates(Recording(side, predicted, confidence))
<1> DEFINE recorded == Recording(side, predicted, confidence)
<1>1. \A i \in DOMAIN side : confidence[i] \in Nat
  <2>1. \A i \in DOMAIN side : \E k \in DOMAIN Thresholds : confidence[i] = Thresholds[k]
    BY DEF Range
  <2> QED BY <2>1, ThresholdsGrow
<1>2. \A i \in DOMAIN side : recorded[i].confidence = confidence[i]
  BY DEF Recording, Recorded
<1>3. DOMAIN recorded = DOMAIN side /\ IsFiniteSet(DOMAIN side)
  BY DEF Recording, IsScored
<1> HIDE DEF recorded
<1>4. IsSwept(recorded)
  BY <1>1, <1>2, <1>3 DEF IsSwept
<1>5. ThresholdSeparates(recorded)
  BY <1>4, ThresholdIsSound
<1> QED BY <1>5 DEF recorded

\* Every file annotate.py leaves behind, also one whose last line is torn, the
\* loader accepts only if the validator has no error for it, and what it calls
\* usable splits by merchant; either side is scored unless all of it is
\* ambiguous, adds up and sweeps, whatever a system predicted and however sure
\* it was: EvaluationStands.
THEOREM FilesAreEvaluated == Spec => []EvaluationStands
<1>1. AInv => EvaluationStands
  <2> SUFFICES ASSUME AInv, term.phase = "off"
               PROVE  /\ ValidatedMeansScorable(disk)
                      /\ RowErrors(disk) = {} => Opens(disk)
                      /\ Usable(disk) /\ Splits(disk) =>
                           /\ SplitIsDisjoint(disk)
                           /\ \A side \in {Holdout(disk), Development(disk)} :
                                /\ KappaIsAtMostOne(side)
                                /\ \A predicted \in [DOMAIN side -> LabelSpace] :
                                     /\ ScoresAddUp(side, predicted)
                                     /\ \A confidence \in [DOMAIN side -> Range(Thresholds)] :
                                          ThresholdSeparates(Recording(side, predicted, confidence))
    BY DEF EvaluationStands
  <2>1. IsFile(disk)
    BY DiskIsAFile DEF AInv
  <2>2. RowErrors(disk) = {} => Opens(disk)
    BY <2>1, RowsAreSensible DEF Sensible, Opens
  <2>3. ASSUME Usable(disk), NEW side \in {Holdout(disk), Development(disk)}
        PROVE  /\ KappaIsAtMostOne(side)
               /\ \A predicted \in [DOMAIN side -> LabelSpace] :
                    /\ ScoresAddUp(side, predicted)
                    /\ \A confidence \in [DOMAIN side -> Range(Thresholds)] :
                         ThresholdSeparates(Recording(side, predicted, confidence))
    <3>1. IsScored(side)
      BY <2>1, <2>3, SidesAreScored DEF Usable
    <3>2. KappaIsAtMostOne(side)
      BY <3>1, KappaIsSound
    <3>3. \A predicted \in [DOMAIN side -> LabelSpace] : ScoresAddUp(side, predicted)
      BY <3>1, ScoresAreSound
    <3>4. \A predicted \in [DOMAIN side -> LabelSpace] :
            \A confidence \in [DOMAIN side -> Range(Thresholds)] :
              ThresholdSeparates(Recording(side, predicted, confidence))
      BY <3>1, RecordingIsSound
    <3> QED BY <3>2, <3>3, <3>4
  <2> QED BY <2>1, <2>2, <2>3, ValidatedIsScorable, SplitIsSound
<1> QED BY <1>1, PassIsSound, PTL
=============================================================================
