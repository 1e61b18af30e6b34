------------------------ MODULE TrainingBatchProofs ------------------------
(***************************************************************************)
(* Theorems about TrainingBatch, for every number of problems, samples,    *)
(* turns, agents and workers and every set of rewards, filters and ratios. *)
(***************************************************************************)
EXTENDS TrainingBatch, FiniteSetTheorems, WellFoundedInduction, SequenceTheorems, TLAPS

-----------------------------------------------------------------------------
(* Padding and selecting. *)

LEMMA Workers == WorldSize \in Nat \ {0}
BY BatchAssumption

(* Rows become a multiple of the workers, with less than one row for each. *)
LEMMA PadSizeFills ==
  ASSUME NEW n \in Nat
  PROVE  PadSize(n) \in Nat /\ (n + PadSize(n)) % WorldSize = 0
<1> DEFINE r == n % WorldSize
           q == n \div WorldSize
<1>1. r \in 0..(WorldSize - 1) /\ q \in Nat /\ n = WorldSize * q + r
  BY Workers
<1> HIDE DEF r, q
<1>2. CASE r = 0
  <2>1. PadSize(n) = 0
    BY <1>2, Workers DEF PadSize, r
  <2>2. (WorldSize * q) % WorldSize = 0
    BY <1>1, Workers
  <2>3. n = WorldSize * q
    BY <1>1, <1>2, Workers
  <2>4. (n + PadSize(n)) = WorldSize * q
    BY <2>1, <2>3
  <2>5. QED
    BY <2>1, <2>2, <2>4
<1>3. CASE r # 0
  <2>1. WorldSize - r \in 0..(WorldSize - 1)
    BY <1>1, <1>3, Workers
  <2>2. (WorldSize - r) % WorldSize = WorldSize - r
    BY <2>1, Workers
  <2>3. PadSize(n) = WorldSize - r
    BY <2>2 DEF PadSize, r
  <2>4. n + PadSize(n) = WorldSize * (q + 1)
    <3>1. WorldSize * (q + 1) = WorldSize * q + WorldSize
      BY <1>1, Workers
    <3>2. WorldSize * q \in Nat
      BY <1>1, Workers
    <3>3. QED
      BY <1>1, <2>3, <3>1, <3>2, Workers
  <2>5. (WorldSize * (q + 1)) % WorldSize = 0
    BY <1>1, Workers
  <2>6. QED
    BY <2>1, <2>3, <2>4, <2>5
<1>4. QED
  BY <1>2, <1>3

LEMMA PaddingType ==
  ASSUME NEW r \in Row
  PROVE  AsPadding(r) \in Row /\ AsPadding(AsPadding(r)) = AsPadding(r) /\ AsPadding(r).copy
         /\ Place(AsPadding(r)) = Place(r) /\ AsPadding(r).agent = r.agent
BY DEF AsPadding, Row, Place

(* A padded batch is the batch, and copies of its rows behind it. *)
LEMMA PaddedRows ==
  ASSUME NEW s \in Seq(Row)
  PROVE  /\ Padded(s) \in Seq(Row)
         /\ Len(Padded(s)) % WorldSize = 0
         /\ Len(s) <= Len(Padded(s)) /\ (s # <<>> => Padded(s) # <<>>)
         /\ \A i \in 1..Len(s) : Padded(s)[i] = s[i]
         /\ \A i \in DOMAIN Padded(s) : i > Len(s) =>
              \E j \in DOMAIN s : Padded(s)[i] = AsPadding(s[j])
<1>1. CASE s = <<>>
  BY <1>1, Workers DEF Padded
<1>2. CASE s # <<>>
  <2> DEFINE n   == Len(s)
             m   == PadSize(n)
             src(i) == ((i - 1) % n) + 1
             t   == [i \in 1..m |-> AsPadding(s[src(i)])]
  <2>1. n \in Nat \ {0} /\ m \in Nat /\ (n + m) % WorldSize = 0
    BY <1>2, PadSizeFills
  <2>2. \A i \in 1..m : src(i) \in 1..n
    <3> TAKE i \in 1..m
    <3>1. i - 1 \in Nat
      BY <2>1
    <3>2. (i - 1) % n \in 0..(n - 1)
      BY <2>1, <3>1
    <3>3. QED
      BY <2>1, <3>2
  <2> HIDE DEF n, m, src
  <2>3. \A i \in 1..m : s[src(i)] \in Row /\ AsPadding(s[src(i)]) \in Row
    BY <2>2, PaddingType DEF n
  <2>4. t \in Seq(Row) /\ Len(t) = m
    BY <2>1, <2>3
  <2>5. Padded(s) = s \o t
    BY <1>2 DEF Padded, n, m, src
  <2>6. \A i \in 1..m : \E j \in DOMAIN s : t[i] = AsPadding(s[j])
    BY <2>2 DEF n
  <2> HIDE DEF t
  <2>7. s \o t \in Seq(Row) /\ Len(s \o t) = n + m
    BY <2>4 DEF n
  <2>8. \A i \in 1..(n + m) : (s \o t)[i] = IF i <= n THEN s[i] ELSE t[i - n]
    BY <2>4 DEF n
  <2>9. \A i \in 1..(n + m) : i > n => i - n \in 1..m
    BY <2>1
  <2>10. QED
    <3>1. DOMAIN (s \o t) = 1..(n + m)
      BY <2>7
    <3>2. n <= n + m /\ (s \o t # <<>>)
      BY <2>1, <2>7
    <3>3. ASSUME NEW i \in 1..n PROVE (s \o t)[i] = s[i]
      <4>1. i \in 1..(n + m) /\ i <= n
        BY <2>1
      <4>2. QED
        BY <2>8, <4>1
    <3>4. ASSUME NEW i \in 1..(n + m), i > n
          PROVE  \E j \in DOMAIN s : (s \o t)[i] = AsPadding(s[j])
      <4>1. i - n \in 1..m /\ ~(i <= n)
        BY <2>1, <2>9, <3>4
      <4>2. (s \o t)[i] = t[i - n]
        BY <2>8, <4>1
      <4>3. QED
        BY <2>6, <4>1, <4>2
    <3>5. QED
      BY <2>1, <2>5, <2>7, <3>1, <3>2, <3>3, <3>4 DEF n
<1>3. QED
  BY <1>1, <1>2

(* Indices are numbered in their order: every number up to their count is taken once. *)
LEMMA Ranks ==
  ASSUME NEW n \in Nat, NEW I \in SUBSET (1..n)
  PROVE  /\ IsFiniteSet(I) /\ Cardinality(I) \in Nat
         /\ \A i \in I : Cardinality({j \in I : j <= i}) \in 1..Cardinality(I)
         /\ \A i, h \in I : Cardinality({j \in I : j <= i}) = Cardinality({j \in I : j <= h}) => i = h
         /\ \A k \in 1..Cardinality(I) : \E i \in I : Cardinality({j \in I : j <= i}) = k
<1> DEFINE Upto(i) == {j \in I : j <= i}
           c       == Cardinality(I)
           rank    == [i \in I |-> Cardinality(Upto(i))]
<1>1. IsFiniteSet(I) /\ c \in Nat
  <2>1. IsFiniteSet(1..n)
    BY FS_Interval
  <2>2. IsFiniteSet(I)
    BY <2>1, FS_Subset
  <2>3. QED
    BY <2>2, FS_CardinalityType
<1>2. \A i \in I : /\ IsFiniteSet(Upto(i)) /\ Upto(i) \subseteq I /\ i \in Upto(i)
                   /\ Cardinality(Upto(i)) \in 1..c
  <2> TAKE i \in I
  <2>1. Upto(i) \subseteq I /\ i \in Upto(i)
    OBVIOUS
  <2>2. IsFiniteSet(Upto(i)) /\ Cardinality(Upto(i)) \in Nat /\ Cardinality(Upto(i)) <= c
    BY <1>1, <2>1, FS_Subset, FS_CardinalityType
  <2>3. Cardinality(Upto(i)) # 0
    BY <2>1, <2>2, FS_EmptySet
  <2>4. QED
    BY <1>1, <2>1, <2>2, <2>3
<1>3. ASSUME NEW i \in I, NEW h \in I, i < h
      PROVE  Cardinality(Upto(i)) # Cardinality(Upto(h))
  <2>1. Upto(i) \subseteq Upto(h) /\ h \notin Upto(i)
    <3>1. i \in Nat /\ h \in Nat /\ \A j \in I : j \in Nat
      OBVIOUS
    <3>2. ~(h <= i) /\ \A j \in I : j <= i => j <= h
      BY <1>3, <3>1
    <3>3. QED
      BY <3>2
  <2>2. QED
    BY <1>2, <2>1, FS_Subset
<1>4. \A i, h \in I : Cardinality(Upto(i)) = Cardinality(Upto(h)) => i = h
  BY <1>3
<1> HIDE DEF Upto, c
<1>5. rank \in Injection(I, 1..c)
  BY <1>2, <1>4 DEF Injection, IsInjective
<1>6. IsFiniteSet(1..c) /\ Cardinality(1..c) = c
  BY <1>1, FS_Interval
<1>7. rank \in Surjection(I, 1..c)
  BY <1>5, <1>6, FS_Injection DEF c
<1>8. \A k \in 1..c : \E i \in I : Cardinality(Upto(i)) = k
  BY <1>7 DEF Surjection
<1>9. QED
  BY <1>1, <1>2, <1>4, <1>8 DEF Upto, c

(* select_idxs keeps the rows of the indices, each once. *)
LEMMA SelectedRows ==
  ASSUME NEW s \in Seq(Row), NEW I \in SUBSET DOMAIN s
  PROVE  /\ Selected(s, I) \in Seq(Row)
         /\ ToSet(Selected(s, I)) = {s[i] : i \in I}
         /\ I # {} => Selected(s, I) # <<>>
<1> DEFINE Rank(i) == Cardinality({j \in I : j <= i})
           Nth(k)  == CHOOSE i \in I : Rank(i) = k
           c       == Cardinality(I)
<1>1. /\ IsFiniteSet(I) /\ c \in Nat
      /\ \A i \in I : Rank(i) \in 1..c
      /\ \A i, h \in I : Rank(i) = Rank(h) => i = h
      /\ \A k \in 1..c : \E i \in I : Rank(i) = k
  <2>1. Len(s) \in Nat /\ I \in SUBSET (1..Len(s))
    OBVIOUS
  <2>2. QED
    BY <2>1, Ranks
<1>2. Selected(s, I) = [k \in 1..c |-> s[Nth(k)]]
  BY DEF Selected
<1> HIDE DEF Rank, c
<1>3. \A k \in 1..c : Nth(k) \in I /\ Rank(Nth(k)) = k
  BY <1>1
<1>4. \A i \in I : Nth(Rank(i)) = i
  BY <1>1, <1>3
<1> HIDE DEF Nth
<1>5. Selected(s, I) \in Seq(Row) /\ DOMAIN Selected(s, I) = 1..c /\ Len(Selected(s, I)) = c
  BY <1>1, <1>2, <1>3
<1>6. ToSet(Selected(s, I)) = {s[i] : i \in I}
  BY <1>1, <1>2, <1>3, <1>4, <1>5 DEF ToSet
<1>7. I # {} => c # 0
  BY <1>1, FS_EmptySet DEF c
<1>8. QED
  BY <1>5, <1>6, <1>7

-----------------------------------------------------------------------------
\* From the filters on, the kept rows are those the configured filter leaves.
KeptInv ==
  Filtered => /\ config \in Configs
              /\ kept = DOMAIN rows \ Removed(rows, config)

LEMMA InitKept == Init => KeptInv
BY DEF Init, KeptInv, Filtered

LEMMA NextKept == KeptInv /\ [Next]_vars => KeptInv'
<1> SUFFICES ASSUME KeptInv, [Next]_vars PROVE KeptInv'
  OBVIOUS
<1>1. CASE AssignUids
  BY <1>1 DEF AssignUids, KeptInv
<1>2. CASE (\E t \in Tasks : TaskCompletes(t) \/ TaskFails(t)) \/ PadToWorldSize
  BY <1>2 DEF KeptInv, Filtered, TaskCompletes, TaskFails, PadToWorldSize
<1>3. CASE Update \/ SkipUpdate \/ UpdateRaises
  BY <1>3 DEF KeptInv, Filtered, Update, SkipUpdate, UpdateRaises
<1>4. CASE Ended \/ UNCHANGED vars
  BY <1>4 DEF KeptInv, Filtered, Ended, vars
<1> QED BY <1>1, <1>2, <1>3, <1>4 DEF Next

LEMMA AlwaysKept == Spec => []KeptInv
BY InitKept, NextKept, PTL DEF Spec


-----------------------------------------------------------------------------
(* Collection. *)

(***************************************************************************)
(* Before the padding every row is one of a completed task, and no place   *)
(* is taken twice.                                                         *)
(***************************************************************************)
CollectInv ==
  pc = "collect" =>
    /\ \A i \in DOMAIN rows : \E t \in Tasks : task[t] = "completed" /\ rows[i] \in TaskRows(t)
    /\ \A i, j \in DOMAIN rows : i # j => Place(rows[i]) # Place(rows[j])

UpdateInv == pc \in {"collect", "padded", "assigned"} => updates = {}

BatchInv == TypeOK /\ KeptInv /\ CollectInv /\ CollectedOnce /\ UpdateInv

(* The place of a row tells its task. *)
LEMMA TaskOfPlace ==
  ASSUME NEW t \in Tasks, NEW u \in Tasks, NEW r \in TaskRows(t), NEW q \in TaskRows(u),
         Place(r) = Place(q)
  PROVE  t = u
<1>1. r.env = q.env /\ r.sample = q.sample
  BY DEF Place
<1>2. CASE Tree
  BY <1>1, <1>2 DEF TaskRows
<1>3. CASE ~Tree
  <2>1. t \in Nat /\ u \in Nat /\ SampleNum \in Nat \ {0}
    BY <1>3, BatchAssumption DEF Tasks
  <2>2. t \div SampleNum = u \div SampleNum /\ t % SampleNum = u % SampleNum
    BY <1>1, <1>3 DEF TaskRows
  <2>3. /\ t = SampleNum * (t \div SampleNum) + (t % SampleNum)
        /\ u = SampleNum * (u \div SampleNum) + (u % SampleNum)
    BY <2>1
  <2>4. QED
    BY <2>2, <2>3
<1>4. QED
  BY <1>2, <1>3

(* A result is in the order of the slots, so it holds no place twice. *)
LEMMA ResultPlaces ==
  ASSUME NEW t \in Tasks, NEW s \in Results(t)
  PROVE  /\ s \in Seq(Row) /\ \A i \in DOMAIN s : s[i] \in TaskRows(t)
         /\ \A i, j \in DOMAIN s : i # j => Place(s[i]) # Place(s[j])
<1>1. PICK m \in 0..MaxRows : s \in [1..m -> TaskRows(t)]
  BY DEF Results, SeqOf
<1>2. m \in Nat /\ TaskRows(t) \subseteq Row
  BY <1>1, BatchAssumption DEF TaskRows
<1>3. s \in Seq(Row) /\ DOMAIN s = 1..m
  BY <1>1, <1>2
<1>4. ASSUME NEW i \in 1..m, NEW j \in 1..m, i < j PROVE Place(s[i]) # Place(s[j])
  <2>1. Slot(s[i]) < Slot(s[j])
    BY <1>3, <1>4 DEF Results
  <2>2. Slot(s[i]) \in Nat
    <3>1. s[i] \in Row
      BY <1>3
    <3>2. s[i].turn \in Nat /\ s[i].agent \in Nat /\ s[i].sample \in Nat
      BY <3>1, BatchAssumption DEF Row, Agents
    <3>3. NumAgents \in Nat /\ SampleNum \in Nat
      BY BatchAssumption
    <3>4. s[i].turn * NumAgents + s[i].agent \in Nat
      BY <3>2, <3>3
    <3>5. (s[i].turn * NumAgents + s[i].agent) * SampleNum \in Nat
      BY <3>3, <3>4
    <3>6. QED
      BY <3>2, <3>5 DEF Slot
  <2>3. Place(s[i]) = Place(s[j]) => Slot(s[i]) = Slot(s[j])
    BY DEF Place, Slot
  <2>4. QED
    BY <2>1, <2>2, <2>3
<1>5. \A i, j \in 1..m : i # j => i < j \/ j < i
  BY <1>2
<1>6. QED
  BY <1>1, <1>3, <1>4, <1>5

(* Concatenation, by index. *)
LEMMA Joined ==
  ASSUME NEW s \in Seq(Row), NEW t \in Seq(Row)
  PROVE  /\ s \o t \in Seq(Row)
         /\ \A i \in DOMAIN (s \o t) : \/ i \in DOMAIN s /\ (s \o t)[i] = s[i]
                                       \/ /\ i \notin DOMAIN s /\ i - Len(s) \in DOMAIN t
                                          /\ (s \o t)[i] = t[i - Len(s)]
<1>1. Len(s) \in Nat /\ Len(t) \in Nat /\ DOMAIN s = 1..Len(s) /\ DOMAIN t = 1..Len(t)
  OBVIOUS
<1>2. s \o t \in Seq(Row) /\ DOMAIN (s \o t) = 1..(Len(s) + Len(t))
  OBVIOUS
<1>3. \A i \in 1..(Len(s) + Len(t)) : (s \o t)[i] = IF i <= Len(s) THEN s[i] ELSE t[i - Len(s)]
  OBVIOUS
<1>4. \A i \in 1..(Len(s) + Len(t)) : IF i <= Len(s) THEN i \in 1..Len(s)
                                       ELSE i \notin 1..Len(s) /\ i - Len(s) \in 1..Len(t)
  BY <1>1
<1>5. QED
  BY <1>1, <1>2, <1>3, <1>4

LEMMA CompletesCollects ==
  ASSUME BatchInv, NEW t \in Tasks, TaskCompletes(t)
  PROVE  /\ rows' \in Seq(Row) /\ CollectInv'
<1>1. PICK s \in Results(t) : rows' = rows \o s
  BY DEF TaskCompletes
<1>2. /\ s \in Seq(Row) /\ \A i \in DOMAIN s : s[i] \in TaskRows(t)
      /\ \A i, j \in DOMAIN s : i # j => Place(s[i]) # Place(s[j])
  BY ResultPlaces
<1>3. rows \in Seq(Row) /\ task \in [Tasks -> Statuses]
  BY DEF BatchInv, TypeOK
<1>4. /\ rows' \in Seq(Row)
      /\ \A i \in DOMAIN rows' : \/ i \in DOMAIN rows /\ rows'[i] = rows[i]
                                 \/ /\ i \notin DOMAIN rows /\ i - Len(rows) \in DOMAIN s
                                    /\ rows'[i] = s[i - Len(rows)]
  BY <1>1, <1>2, <1>3, Joined
<1>5. /\ \A i \in DOMAIN rows : \E u \in Tasks : task[u] = "completed" /\ rows[i] \in TaskRows(u)
      /\ \A i, j \in DOMAIN rows : i # j => Place(rows[i]) # Place(rows[j])
      /\ task[t] = "pending" /\ task' = [task EXCEPT ![t] = "completed"]
  BY DEF BatchInv, CollectInv, TaskCompletes
<1>6. \A u \in Tasks : task[u] = "completed" \/ u = t => task'[u] = "completed"
  BY <1>3, <1>5
<1>7. ASSUME NEW i \in DOMAIN rows'
      PROVE  \E u \in Tasks : task'[u] = "completed" /\ rows'[i] \in TaskRows(u)
  BY <1>2, <1>4, <1>5, <1>6
<1>8. ASSUME NEW i \in DOMAIN rows, NEW j \in DOMAIN s PROVE Place(rows[i]) # Place(s[j])
  <2>1. PICK u \in Tasks : task[u] = "completed" /\ rows[i] \in TaskRows(u)
    BY <1>5
  <2>2. u # t
    BY <1>5, <2>1
  <2>3. QED
    BY <1>2, <2>1, <2>2, TaskOfPlace
<1>9. ASSUME NEW i \in DOMAIN rows', NEW j \in DOMAIN rows', i # j
      PROVE  Place(rows'[i]) # Place(rows'[j])
  <2>1. i \in Int /\ j \in Int /\ Len(rows) \in Int
    BY <1>3, <1>4
  <2>2. i - Len(rows) # j - Len(rows)
    BY <1>9, <2>1
  <2>3. CASE i \in DOMAIN rows /\ j \in DOMAIN rows
    BY <1>4, <1>5, <1>9, <2>3
  <2>4. CASE i \in DOMAIN rows /\ j \notin DOMAIN rows
    BY <1>4, <1>8, <2>4
  <2>5. CASE i \notin DOMAIN rows /\ j \in DOMAIN rows
    BY <1>4, <1>8, <2>5
  <2>6. CASE i \notin DOMAIN rows /\ j \notin DOMAIN rows
    BY <1>2, <1>4, <2>2, <2>6
  <2>7. QED
    BY <2>3, <2>4, <2>5, <2>6
<1>10. CollectInv'
  <2>1. \A i \in DOMAIN rows' : \E u \in Tasks : task'[u] = "completed" /\ rows'[i] \in TaskRows(u)
    BY <1>7
  <2>2. \A i, j \in DOMAIN rows' : i # j => Place(rows'[i]) # Place(rows'[j])
    BY <1>9
  <2>3. QED
    BY <2>1, <2>2 DEF CollectInv, Place, TaskRows
<1>11. QED
  BY <1>4, <1>10

(* While rows are collected none is padding. *)
LEMMA CollectedIsOnce ==
  ASSUME CollectInv, pc = "collect"
  PROVE  CollectedOnce /\ \A i \in DOMAIN rows : ~rows[i].copy
<1>1. \A i \in DOMAIN rows : ~rows[i].copy
  BY DEF CollectInv, TaskRows
<1>2. QED
  BY <1>1 DEF CollectInv, CollectedOnce

(* The rows added as padding copy rows that were collected. *)
LEMMA PaddedIsOnce ==
  ASSUME BatchInv, PadToWorldSize
  PROVE  rows' \in Seq(Row) /\ CollectedOnce'
<1>1. rows \in Seq(Row) /\ rows' = Padded(rows)
  BY DEF BatchInv, TypeOK, PadToWorldSize
<1>2. /\ \A i \in DOMAIN rows : ~rows[i].copy
      /\ \A i, j \in DOMAIN rows : i # j => Place(rows[i]) # Place(rows[j])
  BY CollectedIsOnce DEF BatchInv, CollectInv, PadToWorldSize
<1>3. /\ rows' \in Seq(Row) /\ DOMAIN rows \subseteq DOMAIN rows'
      /\ \A i \in DOMAIN rows : rows'[i] = rows[i]
      /\ \A i \in DOMAIN rows' : i \notin DOMAIN rows => \E j \in DOMAIN rows : rows'[i] = AsPadding(rows[j])
  <2>1. /\ Padded(rows) \in Seq(Row) /\ Len(rows) <= Len(Padded(rows))
        /\ \A i \in 1..Len(rows) : Padded(rows)[i] = rows[i]
        /\ \A i \in DOMAIN Padded(rows) : i > Len(rows) =>
             \E j \in DOMAIN rows : Padded(rows)[i] = AsPadding(rows[j])
    BY <1>1, PaddedRows
  <2>2. Len(rows) \in Nat /\ DOMAIN rows = 1..Len(rows)
    BY <1>1
  <2>3. Len(Padded(rows)) \in Nat /\ DOMAIN Padded(rows) = 1..Len(Padded(rows))
    BY <2>1
  <2>4. DOMAIN rows \subseteq DOMAIN Padded(rows)
        /\ \A i \in DOMAIN Padded(rows) : i \notin DOMAIN rows => i > Len(rows)
    BY <2>1, <2>2, <2>3
  <2>5. QED
    BY <1>1, <2>1, <2>2, <2>4
<1>4. \A i \in DOMAIN rows' : i \notin DOMAIN rows => rows'[i].copy
  BY <1>1, <1>3, PaddingType
<1>5. ASSUME NEW i \in DOMAIN rows', NEW j \in DOMAIN rows', i # j, Place(rows'[i]) = Place(rows'[j])
      PROVE  rows'[i].copy \/ rows'[j].copy
  BY <1>2, <1>3, <1>4, <1>5
<1>6. ASSUME NEW i \in DOMAIN rows', rows'[i].copy
      PROVE  \E n \in DOMAIN rows' : ~rows'[n].copy /\ AsPadding(rows'[n]) = rows'[i]
  BY <1>2, <1>3, <1>6
<1>7. CollectedOnce'
  BY <1>5, <1>6 DEF CollectedOnce, Place, AsPadding
<1>8. QED
  BY <1>3, <1>7

-----------------------------------------------------------------------------
(* Updates. *)

(* What a batch holds, padding or not. *)
Contents(b) == {AsPadding(r) : r \in ToSet(b)}

LEMMA PaddedContents == ASSUME NEW s \in Seq(Row) PROVE Contents(Padded(s)) = Contents(s)
<1>1. /\ Padded(s) \in Seq(Row) /\ Len(s) <= Len(Padded(s))
      /\ \A i \in 1..Len(s) : Padded(s)[i] = s[i]
      /\ \A i \in DOMAIN Padded(s) : i > Len(s) => \E j \in DOMAIN s : Padded(s)[i] = AsPadding(s[j])
  BY PaddedRows
<1>2. /\ Len(s) \in Nat /\ DOMAIN s = 1..Len(s)
      /\ Len(Padded(s)) \in Nat /\ DOMAIN Padded(s) = 1..Len(Padded(s))
  BY <1>1
<1>3. \A i \in DOMAIN s : i \in DOMAIN Padded(s) /\ Padded(s)[i] = s[i]
  BY <1>1, <1>2
<1>4. ASSUME NEW i \in DOMAIN Padded(s)
      PROVE  \E j \in DOMAIN s : AsPadding(Padded(s)[i]) = AsPadding(s[j])
  <2>1. CASE i \in DOMAIN s
    BY <1>3, <2>1
  <2>2. CASE i \notin DOMAIN s
    <3>1. i > Len(s)
      BY <1>1, <1>2, <2>2
    <3>2. PICK j \in DOMAIN s : Padded(s)[i] = AsPadding(s[j])
      BY <1>1, <3>1
    <3>3. s[j] \in Row
      OBVIOUS
    <3>4. QED
      BY <3>2, <3>3, PaddingType
  <2>3. QED
    BY <2>1, <2>2
<1>5. QED
  BY <1>3, <1>4 DEF Contents, ToSet

(* Padding a batch of one agent takes no row of another. *)
LEMMA PaddedAgent ==
  ASSUME NEW s \in Seq(Row), NEW a, \A i \in DOMAIN s : s[i].agent = a
  PROVE  \A i \in DOMAIN Padded(s) : Padded(s)[i].agent = a
<1> TAKE i \in DOMAIN Padded(s)
<1>1. Padded(s) \in Seq(Row) /\ Padded(s)[i] \in Row
  BY PaddedRows
<1>2. AsPadding(Padded(s)[i]) \in Contents(s)
  BY PaddedContents DEF Contents, ToSet
<1>3. PICK j \in DOMAIN s : AsPadding(Padded(s)[i]) = AsPadding(s[j])
  BY <1>2 DEF Contents, ToSet
<1>4. s[j] \in Row
  OBVIOUS
<1>5. AsPadding(Padded(s)[i]).agent = Padded(s)[i].agent /\ AsPadding(s[j]).agent = s[j].agent
  BY <1>1, <1>4, PaddingType
<1>6. QED
  BY <1>3, <1>5

(* One batch for update_actor. *)
Aligned(b) == b \in Seq(Row) /\ b # <<>> /\ Len(b) % WorldSize = 0

LEMMA SelectedAligned ==
  ASSUME NEW s \in Seq(Row), NEW I \in SUBSET DOMAIN s, I # {}
  PROVE  Aligned(Padded(Selected(s, I))) /\ Contents(Padded(Selected(s, I))) = {AsPadding(s[i]) : i \in I}
<1>1. /\ Selected(s, I) \in Seq(Row) /\ Selected(s, I) # <<>>
      /\ ToSet(Selected(s, I)) = {s[i] : i \in I}
  BY SelectedRows
<1>2. Aligned(Padded(Selected(s, I)))
  BY <1>1, PaddedRows DEF Aligned
<1>3. Contents(Padded(Selected(s, I))) = Contents(Selected(s, I))
  BY <1>1, PaddedContents
<1>4. Contents(Selected(s, I)) = {AsPadding(s[i]) : i \in I}
  <2>1. Contents(Selected(s, I)) = {AsPadding(r) : r \in {s[i] : i \in I}}
    BY <1>1 DEF Contents
  <2>2. {AsPadding(r) : r \in {s[i] : i \in I}} = {AsPadding(s[i]) : i \in I}
    OBVIOUS
  <2>3. QED
    BY <2>1, <2>2
<1>5. QED
  BY <1>2, <1>3, <1>4

(* The batches of the agents share out the batch. *)
LEMMA PerAgentShares ==
  ASSUME NEW s \in Seq(Row)
  PROVE  /\ \A b \in PerAgent(s) : Aligned(b) /\ \A i, j \in DOMAIN b : b[i].agent = b[j].agent
         /\ UNION {Contents(b) : b \in PerAgent(s)} = Contents(s)
<1> DEFINE Of(a) == {i \in DOMAIN s : s[i].agent = a}
           A     == {s[i].agent : i \in DOMAIN s}
<1>1. ASSUME NEW a \in A
      PROVE  /\ Aligned(Padded(AgentOf(s, a)))
             /\ Contents(Padded(AgentOf(s, a))) = {AsPadding(s[i]) : i \in Of(a)}
             /\ \A i \in DOMAIN Padded(AgentOf(s, a)) : Padded(AgentOf(s, a))[i].agent = a
  <2>1. Of(a) \in SUBSET DOMAIN s /\ Of(a) # {} /\ AgentOf(s, a) = Selected(s, Of(a))
    BY DEF AgentOf
  <2>2. \A i \in Of(a) : s[i].agent = a
    OBVIOUS
  <2> HIDE DEF Of
  <2>3. Aligned(Padded(AgentOf(s, a))) /\ Contents(Padded(AgentOf(s, a))) = {AsPadding(s[i]) : i \in Of(a)}
    BY <2>1, SelectedAligned
  <2>4. AgentOf(s, a) \in Seq(Row) /\ ToSet(AgentOf(s, a)) = {s[i] : i \in Of(a)}
    BY <2>1, SelectedRows
  <2>5. \A i \in DOMAIN AgentOf(s, a) : AgentOf(s, a)[i].agent = a
    BY <2>2, <2>4 DEF ToSet
  <2>6. \A i \in DOMAIN Padded(AgentOf(s, a)) : Padded(AgentOf(s, a))[i].agent = a
    BY <2>4, <2>5, PaddedAgent
  <2>7. QED
    BY <2>3, <2>6
<1>2. PerAgent(s) = {Padded(AgentOf(s, a)) : a \in A}
  BY DEF PerAgent
<1>3. ASSUME NEW x
      PROVE  x \in UNION {Contents(b) : b \in PerAgent(s)} <=> x \in Contents(s)
  <2>1. x \in UNION {Contents(b) : b \in PerAgent(s)} <=> \E a \in A : x \in Contents(Padded(AgentOf(s, a)))
    BY <1>2
  <2>2. (\E a \in A : x \in Contents(Padded(AgentOf(s, a))))
          <=> \E a \in A : \E i \in Of(a) : x = AsPadding(s[i])
    <3> HIDE DEF Of, A
    <3>1. \A a \in A : x \in Contents(Padded(AgentOf(s, a))) <=> x \in {AsPadding(s[i]) : i \in Of(a)}
      BY <1>1
    <3>2. QED
      BY <3>1
  <2>3. (\E a \in A : \E i \in Of(a) : x = AsPadding(s[i])) <=> \E i \in DOMAIN s : x = AsPadding(s[i])
    OBVIOUS
  <2>4. x \in Contents(s) <=> \E i \in DOMAIN s : x = AsPadding(s[i])
    BY DEF Contents, ToSet
  <2>5. QED
    BY <2>1, <2>2, <2>3, <2>4
<1>4. UNION {Contents(b) : b \in PerAgent(s)} = Contents(s)
  BY <1>3
<1>5. QED
  BY <1>1, <1>2, <1>4

LEMMA UpdateBatches ==
  ASSUME BatchInv, Update
  PROVE  /\ \A b \in updates' : Aligned(b)
         /\ UNION {Contents(b) : b \in updates'} = {AsPadding(rows[i]) : i \in Trained}
         /\ LoraDiffer => \A b \in updates' : \A i, j \in DOMAIN b : b[i].agent = b[j].agent
<1> DEFINE batch == Padded(Selected(rows, Trained))
<1>1. rows \in Seq(Row) /\ Trained \in SUBSET DOMAIN rows /\ Trained # {}
  BY DEF BatchInv, TypeOK, Trained, Update
<1>2. Aligned(batch) /\ Contents(batch) = {AsPadding(rows[i]) : i \in Trained}
  BY <1>1, SelectedAligned
<1>3. updates' = IF LoraDiffer THEN PerAgent(batch) ELSE {batch}
  BY DEF Update
<1> HIDE DEF batch
<1>4. CASE LoraDiffer
  <2>1. batch \in Seq(Row) /\ updates' = PerAgent(batch)
    BY <1>2, <1>3, <1>4 DEF Aligned
  <2>2. QED
    BY <1>2, <2>1, PerAgentShares
<1>5. CASE ~LoraDiffer
  <2>1. updates' = {batch}
    BY <1>3, <1>5
  <2>2. UNION {Contents(b) : b \in {batch}} = Contents(batch)
    OBVIOUS
  <2>3. QED
    BY <1>2, <1>5, <2>1, <2>2
<1>6. QED
  BY <1>4, <1>5

(* The properties of the updates, with what the updates are. *)
UpdatesInv ==
  /\ \A b \in updates : Aligned(b)
  /\ UpdatesAreTheKept

LEMMA ContentsOfAll ==
  ASSUME NEW B
  PROVE  {AsPadding(r) : r \in UNION {ToSet(b) : b \in B}} = UNION {Contents(b) : b \in B}
<1>1. ASSUME NEW x
      PROVE  x \in {AsPadding(r) : r \in UNION {ToSet(b) : b \in B}} <=> x \in UNION {Contents(b) : b \in B}
  <2>1. x \in {AsPadding(r) : r \in UNION {ToSet(b) : b \in B}}
          <=> \E b \in B : \E r \in ToSet(b) : x = AsPadding(r)
    OBVIOUS
  <2>2. x \in UNION {Contents(b) : b \in B} <=> \E b \in B : x \in Contents(b)
    OBVIOUS
  <2>3. \A b \in B : x \in Contents(b) <=> \E r \in ToSet(b) : x = AsPadding(r)
    BY DEF Contents
  <2>4. QED
    BY <2>1, <2>2, <2>3
<1>2. QED
  BY <1>1

LEMMA BatchInit == Init => BatchInv /\ UpdatesInv
<1> SUFFICES ASSUME Init PROVE BatchInv /\ UpdatesInv
  OBVIOUS
<1>1. TypeOK
  BY DEF Init, TypeOK, Pcs, Statuses
<1>2. CollectInv /\ CollectedOnce
  BY DEF Init, CollectInv, CollectedOnce
<1>3. UpdateInv /\ UpdatesInv
  BY DEF Init, UpdateInv, UpdatesInv, UpdatesAreTheKept
<1>4. QED
  BY <1>1, <1>2, <1>3, InitKept DEF BatchInv

LEMMA BatchNext == BatchInv /\ UpdatesInv /\ [Next]_vars => BatchInv' /\ UpdatesInv'
<1> SUFFICES ASSUME BatchInv, UpdatesInv, [Next]_vars PROVE BatchInv' /\ UpdatesInv'
  OBVIOUS
<1>0. KeptInv'
  BY NextKept DEF BatchInv
<1>1. ASSUME NEW t \in Tasks, TaskCompletes(t) PROVE BatchInv' /\ UpdatesInv'
  <2>1. rows' \in Seq(Row) /\ CollectInv'
    BY <1>1, CompletesCollects
  <2>2. pc' = "collect" /\ pc = "collect" /\ UNCHANGED <<config, kept, updates>>
        /\ task' = [task EXCEPT ![t] = "completed"]
    BY <1>1 DEF TaskCompletes
  <2>3. CollectedOnce'
    <3>1. (CollectInv /\ pc = "collect" => CollectedOnce)'
      BY CollectedIsOnce, PTL
    <3>2. QED
      BY <2>1, <2>2, <3>1
  <2>4. updates = {} /\ kept \subseteq DOMAIN rows'
    <3>1. DOMAIN rows \subseteq DOMAIN rows'
      <4>1. PICK s \in Results(t) : rows' = rows \o s
        BY <1>1 DEF TaskCompletes
      <4>2. s \in Seq(Row) /\ rows \in Seq(Row)
        BY ResultPlaces DEF BatchInv, TypeOK
      <4>3. QED
        BY <4>1, <4>2
    <3>2. QED
      BY <2>2, <3>1 DEF BatchInv, UpdateInv, TypeOK
  <2>5. TypeOK' /\ UpdateInv'
    BY <2>1, <2>2, <2>4 DEF BatchInv, TypeOK, UpdateInv, Statuses
  <2>6. UpdatesInv'
    BY <2>2, <2>4 DEF UpdatesInv, UpdatesAreTheKept
  <2>7. QED
    BY <1>0, <2>1, <2>3, <2>5, <2>6 DEF BatchInv
<1>2. ASSUME NEW t \in Tasks, TaskFails(t) PROVE BatchInv' /\ UpdatesInv'
  <2>1. /\ pc' = "collect" /\ pc = "collect" /\ UNCHANGED <<rows, config, kept, updates>>
        /\ task[t] = "pending" /\ task' = [task EXCEPT ![t] = "failed"]
    BY <1>2 DEF TaskFails
  <2>2. TypeOK' /\ UpdateInv'
    BY <2>1 DEF BatchInv, TypeOK, UpdateInv, Statuses
  <2>3. CollectInv'
    <3>1. \A u \in Tasks : task[u] = "completed" => task'[u] = "completed"
      BY <2>1 DEF BatchInv, TypeOK
    <3>2. QED
      BY <2>1, <3>1 DEF BatchInv, CollectInv, Place, TaskRows
  <2>4. CollectedOnce'
    BY <2>1 DEF BatchInv, CollectedOnce, Place, AsPadding
  <2>5. UpdatesInv'
    BY <2>1 DEF UpdatesInv, UpdatesAreTheKept, Aligned
  <2>6. QED
    BY <1>0, <2>2, <2>3, <2>4, <2>5 DEF BatchInv
<1>3. CASE PadToWorldSize
  <2>1. rows' \in Seq(Row) /\ CollectedOnce'
    BY <1>3, PaddedIsOnce
  <2>2. pc' = "padded" /\ pc = "collect" /\ UNCHANGED <<task, config, kept, updates>>
    BY <1>3 DEF PadToWorldSize
  <2>3. kept \subseteq DOMAIN rows'
    <3>1. rows \in Seq(Row) /\ rows' = Padded(rows)
      BY <1>3 DEF PadToWorldSize, BatchInv, TypeOK
    <3>2. Len(rows) <= Len(rows') /\ Len(rows) \in Nat /\ Len(rows') \in Nat
      BY <2>1, <3>1, PaddedRows
    <3>3. DOMAIN rows = 1..Len(rows) /\ DOMAIN rows' = 1..Len(rows')
      BY <2>1, <3>1
    <3>4. DOMAIN rows \subseteq DOMAIN rows'
      BY <3>2, <3>3
    <3>5. QED
      BY <3>4 DEF BatchInv, TypeOK
  <2>4. TypeOK' /\ UpdateInv' /\ CollectInv'
    BY <2>1, <2>2, <2>3 DEF BatchInv, TypeOK, UpdateInv, CollectInv, Pcs
  <2>5. UpdatesInv'
    BY <2>2 DEF UpdatesInv, UpdatesAreTheKept, Aligned
  <2>6. QED
    BY <1>0, <2>1, <2>4, <2>5 DEF BatchInv
<1>4. CASE AssignUids
  <2>1. pc' = "assigned" /\ pc = "padded" /\ UNCHANGED <<task, rows, updates>>
        /\ config' \in Configs /\ kept' = DOMAIN rows \ Removed(rows, config')
    BY <1>4 DEF AssignUids
  <2>2. TypeOK' /\ UpdateInv' /\ CollectInv'
    BY <2>1 DEF BatchInv, TypeOK, UpdateInv, CollectInv, Pcs
  <2>3. CollectedOnce'
    BY <2>1 DEF BatchInv, CollectedOnce, Place, AsPadding
  <2>4. UpdatesInv'
    BY <2>1 DEF UpdatesInv, UpdatesAreTheKept, Aligned
  <2>5. QED
    BY <1>0, <2>2, <2>3, <2>4 DEF BatchInv
<1>5. CASE Update
  <2>1. pc' = "updated" /\ UNCHANGED <<task, rows, config, kept>>
    BY <1>5 DEF Update
  <2>2. /\ \A b \in updates' : Aligned(b)
        /\ UNION {Contents(b) : b \in updates'} = {AsPadding(rows[i]) : i \in Trained}
        /\ LoraDiffer => \A b \in updates' : \A i, j \in DOMAIN b : b[i].agent = b[j].agent
    BY <1>5, UpdateBatches
  <2>3. TypeOK' /\ UpdateInv' /\ CollectInv'
    BY <2>1, <2>2 DEF BatchInv, TypeOK, UpdateInv, CollectInv, Pcs, Aligned
  <2>4. CollectedOnce'
    BY <2>1 DEF BatchInv, CollectedOnce, Place, AsPadding
  <2>5. UpdatesInv'
    <3>1. {AsPadding(r) : r \in UNION {ToSet(b) : b \in updates'}} = {AsPadding(rows[i]) : i \in Trained}
      BY <2>2, ContentsOfAll
    <3>2. QED
      BY <2>1, <2>2, <3>1 DEF UpdatesInv, UpdatesAreTheKept, Aligned, AsPadding, ToSet, Trained
  <2>6. QED
    BY <1>0, <2>3, <2>4, <2>5 DEF BatchInv
<1>6. CASE SkipUpdate \/ UpdateRaises \/ Ended \/ UNCHANGED vars
  <2>1. /\ UNCHANGED <<task, rows, config, kept, updates>>
        /\ pc' \in {"skipped", "crashed"} \/ pc' = pc
    BY <1>6 DEF SkipUpdate, UpdateRaises, Ended, vars
  <2>2. TypeOK' /\ UpdateInv' /\ CollectInv'
    BY <2>1 DEF BatchInv, TypeOK, UpdateInv, CollectInv, Pcs, Place, TaskRows
  <2>3. CollectedOnce'
    BY <2>1 DEF BatchInv, CollectedOnce, Place, AsPadding
  <2>4. UpdatesInv'
    BY <2>1 DEF UpdatesInv, UpdatesAreTheKept, Aligned, AsPadding, ToSet, Trained
  <2>5. QED
    BY <1>0, <2>2, <2>3, <2>4 DEF BatchInv
<1>7. QED
  BY <1>1, <1>2, <1>3, <1>4, <1>5, <1>6 DEF Next

LEMMA BatchInvariant == Spec => [](BatchInv /\ UpdatesInv)
BY BatchInit, BatchNext, PTL DEF Spec

-----------------------------------------------------------------------------
(* What the filters leave. *)

Smaller == {xy \in Nat \X Nat : xy[1] < xy[2]}

LEMMA LeastNumber ==
  ASSUME NEW T \in SUBSET Nat, T # {}
  PROVE  \E x \in T : \A y \in T : x <= y
<1>1. IsWellFoundedOn(Smaller, Nat)
  BY NatLessThanWellFounded DEF OpToRel, Smaller
<1>2. PICK x \in T : \A y \in T : <<y, x>> \notin Smaller
  BY <1>1, WFMin
<1>3. \A y \in T : ~(y < x)
  BY <1>2 DEF Smaller
<1>4. QED
  BY <1>3

(***************************************************************************)
(* A finite set in a strict order has a last element, and all others are   *)
(* before it: it is the one with the fewest elements behind it.            *)
(***************************************************************************)
LEMMA LastOfOrder ==
  ASSUME NEW S, IsFiniteSet(S), S # {}, NEW R,
         \A x \in S : <<x, x>> \notin R,
         \A x, y \in S : x # y => <<x, y>> \in R \/ <<y, x>> \in R,
         \A x, y, z \in S : <<x, y>> \in R /\ <<y, z>> \in R => <<x, z>> \in R
  PROVE  \E m \in S : {x \in S : <<x, m>> \in R} = S \ {m}
<1> DEFINE Behind(x) == {y \in S : <<x, y>> \in R}
           T         == {Cardinality(Behind(x)) : x \in S}
<1>1. \A x \in S : /\ IsFiniteSet(Behind(x)) /\ Cardinality(Behind(x)) \in Nat
                   /\ \A y \in S : Behind(y) \subseteq Behind(x) =>
                        /\ Cardinality(Behind(y)) <= Cardinality(Behind(x))
                        /\ Cardinality(Behind(y)) = Cardinality(Behind(x)) => Behind(y) = Behind(x)
  <2>1. \A x \in S : IsFiniteSet(Behind(x))
    BY FS_Subset
  <2> HIDE DEF Behind
  <2>2. QED
    BY <2>1, FS_Subset, FS_CardinalityType
<1>b. \A x, y \in S : y \in Behind(x) <=> <<x, y>> \in R
  OBVIOUS
<1>s. \A x \in S : Behind(x) \subseteq S
  OBVIOUS
<1> HIDE DEF Behind
<1>2. T \in SUBSET Nat /\ T # {}
  BY <1>1
<1>3. PICK c \in T : \A d \in T : c <= d
  <2> HIDE DEF T
  <2>1. QED
    BY <1>2, LeastNumber
<1>4. PICK m \in S : c = Cardinality(Behind(m))
  OBVIOUS
<1>5. ASSUME NEW x \in S, <<m, x>> \in R PROVE FALSE
  <2>1. Behind(x) \subseteq Behind(m)
    <3>1. \A y \in S : <<x, y>> \in R => <<m, y>> \in R
      BY <1>5
    <3>2. QED
      BY <1>b, <1>s, <3>1
  <2>2. x \in Behind(m) /\ x \notin Behind(x)
    BY <1>5, <1>b
  <2>3. Cardinality(Behind(x)) < Cardinality(Behind(m))
    BY <1>1, <2>1, <2>2
  <2>4. Cardinality(Behind(m)) <= Cardinality(Behind(x))
    BY <1>3, <1>4
  <2>5. QED
    BY <1>1, <2>3, <2>4
<1>6. QED
  BY <1>5

(* A quota is less than the whole, so the last element is never in it. *)
LEMMA QuotaIsLess ==
  ASSUME NEW n \in Nat \ {0}, NEW p \in 0..99
  PROVE  ~(n - 1 < Quota(n, p))
<1>1. n * p < 100 * n
  OBVIOUS
<1>2. n * p \in Nat
  OBVIOUS
<1>3. (n * p) \div 100 < n /\ (n * p) \div 100 \in Nat
  BY <1>1, <1>2
<1>4. QED
  BY <1>3 DEF Quota

LEMMA LastIsOutsideQuota ==
  ASSUME NEW S, IsFiniteSet(S), S # {}, NEW R, NEW p \in 0..99,
         \A x \in S : <<x, x>> \notin R,
         \A x, y \in S : x # y => <<x, y>> \in R \/ <<y, x>> \in R,
         \A x, y, z \in S : <<x, y>> \in R /\ <<y, z>> \in R => <<x, z>> \in R
  PROVE  \E m \in S : ~(Cardinality({x \in S : <<x, m>> \in R}) < Quota(Cardinality(S), p))
<1>1. PICK m \in S : {x \in S : <<x, m>> \in R} = S \ {m}
  BY LastOfOrder
<1>2. Cardinality(S) \in Nat /\ Cardinality(S) # 0
  BY FS_CardinalityType, FS_EmptySet
<1>3. Cardinality(S \ {m}) = Cardinality(S) - 1
  BY FS_RemoveElement
<1>4. ~(Cardinality(S) - 1 < Quota(Cardinality(S), p))
  BY <1>2, QuotaIsLess
<1>5. QED
  BY <1>1, <1>3, <1>4

(* "no_tree": a row of the last turn of its problem is kept. *)
LEMMA LastTurnIsKept ==
  ASSUME NEW s \in Seq(Row), NEW i \in DOMAIN s
  PROVE  \E j \in DOMAIN s \ NotLastTurn(s) : s[j].env = s[i].env
<1> DEFINE Peers == {j \in DOMAIN s : s[j].env = s[i].env}
           T     == {MaxTurns - s[j].turn : j \in Peers}
<1>1. \A j \in DOMAIN s : s[j].turn \in 0..(MaxTurns - 1)
  <2>1. \A j \in DOMAIN s : s[j] \in Row
    OBVIOUS
  <2>2. QED
    BY <2>1 DEF Row
<1>2. MaxTurns \in Nat
  BY BatchAssumption
<1>3. T \in SUBSET Nat /\ T # {}
  BY <1>1, <1>2
<1>4. PICK c \in T : \A d \in T : c <= d
  <2> HIDE DEF T
  <2>1. QED
    BY <1>3, LeastNumber
<1>5. PICK j \in Peers : c = MaxTurns - s[j].turn
  OBVIOUS
<1>6. \A h \in Peers : MaxTurns - s[j].turn <= MaxTurns - s[h].turn
  BY <1>4, <1>5
<1>7. \A h \in Peers : ~(s[j].turn < s[h].turn)
  BY <1>1, <1>2, <1>6
<1>8. j \notin NotLastTurn(s)
  BY <1>7 DEF NotLastTurn
<1>9. QED
  BY <1>8

(***************************************************************************)
(* Sums are numbers: first the fold is well defined, as a function on ever *)
(* larger subsets, then all its values are numbers.                        *)
(***************************************************************************)
LEMMA SumType ==
  ASSUME NEW S, IsFiniteSet(S), NEW f \in [S -> Nat]
  PROVE  SumFunction(f) \in Nat
<1> DEFINE first(s)    == CHOOSE x \in s : TRUE
           rest(s)     == s \ {first(s)}
           sum(it, s)  == IF s = {} THEN 0 ELSE f[first(s)] + it[rest(s)]
           Small(n)    == {s \in SUBSET S : Cardinality(s) <= n}
           Good(n)     == \E it \in [Small(n) -> Nat] : \A s \in Small(n) : it[s] = sum(it, s)
<1>1. ASSUME NEW s \in SUBSET S
      PROVE  /\ Cardinality(s) \in Nat
             /\ Cardinality(s) = 0 <=> s = {}
             /\ s # {} => /\ f[first(s)] \in Nat
                          /\ rest(s) \in SUBSET S
                          /\ Cardinality(rest(s)) = Cardinality(s) - 1
  <2>1. IsFiniteSet(s)
    BY <1>1, FS_Subset
  <2>2. Cardinality(s) \in Nat /\ (Cardinality(s) = 0 <=> s = {})
    BY <2>1, FS_CardinalityType, FS_EmptySet
  <2>3. CASE s # {}
    <3>1. first(s) \in s
      BY <2>3
    <3>2. Cardinality(s \ {first(s)}) = Cardinality(s) - 1
      BY <2>1, <3>1, FS_RemoveElement
    <3>3. QED
      BY <1>1, <2>2, <3>1, <3>2
  <2>4. QED
    BY <2>2, <2>3
<1> HIDE DEF first, rest
<1>2. Good(0)
  <2>1. \A s \in Small(0) : s = {}
    BY <1>1
  <2> DEFINE it == [s \in Small(0) |-> 0]
  <2>2. it \in [Small(0) -> Nat] /\ \A s \in Small(0) : it[s] = sum(it, s)
    BY <2>1
  <2>3. QED
    BY <2>2
<1>3. ASSUME NEW n \in Nat, Good(n) PROVE Good(n + 1)
  <2>1. PICK it \in [Small(n) -> Nat] : \A s \in Small(n) : it[s] = sum(it, s)
    BY <1>3
  <2>2. ASSUME NEW s \in Small(n + 1), s # {}
        PROVE  rest(s) \in Small(n) /\ rest(s) \in Small(n + 1) /\ f[first(s)] \in Nat
    BY <1>1, <2>2
  <2>3. \A s \in Small(n) : s \in Small(n + 1)
    BY <1>1
  <2> DEFINE jt == [s \in Small(n + 1) |-> sum(it, s)]
  <2> HIDE DEF Small
  <2>4. jt \in [Small(n + 1) -> Nat]
    BY <2>2
  <2>5. \A s \in Small(n) : jt[s] = it[s]
    BY <2>1, <2>3
  <2>6. \A s \in Small(n + 1) : jt[s] = sum(jt, s)
    BY <2>2, <2>5
  <2>7. QED
    BY <2>4, <2>6
<1>4. \A n \in Nat : Good(n)
  <2> DEFINE T == {n \in Nat : ~Good(n)}
  <2> HIDE DEF Good
  <2> SUFFICES ASSUME T # {} PROVE FALSE
    OBVIOUS
  <2>1. PICK n \in T : \A y \in T : n <= y
    BY LeastNumber
  <2>2. n # 0
    BY <1>2, <2>1
  <2>3. n - 1 \in Nat /\ n - 1 \notin T
    BY <2>1, <2>2
  <2>4. Good((n - 1) + 1)
    BY <1>3, <2>3
  <2>5. QED
    BY <2>1, <2>4
<1> DEFINE Solves(it) == it = [s \in SUBSET S |-> sum(it, s)]
           chosen     == CHOOSE it : Solves(it)
<1>5. Solves(chosen)
  <2>1. PICK it \in [Small(Cardinality(S)) -> Nat] :
               \A s \in Small(Cardinality(S)) : it[s] = sum(it, s)
    BY <1>1, <1>4
  <2>2. Small(Cardinality(S)) = SUBSET S
    BY FS_Subset
  <2>3. Solves(it)
    BY <2>1, <2>2
  <2>4. QED
    BY <2>3
<1>6. ASSUME NEW s \in SUBSET S PROVE chosen[s] \in Nat
  <2> DEFINE T == {Cardinality(x) : x \in {y \in SUBSET S : chosen[y] \notin Nat}}
  <2> HIDE DEF chosen
  <2> SUFFICES ASSUME T # {} PROVE FALSE
    BY <1>6
  <2>1. T \in SUBSET Nat
    BY <1>1
  <2>2. PICK n \in T : \A y \in T : n <= y
    BY <2>1, LeastNumber
  <2>3. PICK x \in SUBSET S : Cardinality(x) = n /\ chosen[x] \notin Nat
    BY <2>2
  <2>4. chosen[x] = sum(chosen, x)
    BY <1>5
  <2>5. x # {}
    BY <2>3, <2>4
  <2>6. rest(x) \in SUBSET S /\ Cardinality(rest(x)) < n /\ Cardinality(rest(x)) \in Nat
    BY <1>1, <2>3, <2>5
  <2>7. chosen[rest(x)] \in Nat
    BY <2>1, <2>2, <2>6
  <2>8. QED
    BY <1>1, <2>3, <2>4, <2>5, <2>7
<1>7. SumFunction(f) = chosen[S]
  BY DEF SumFunction, SumFunctionOnSet, FoldFunctionOnSet, MapThenFoldSet, first, rest
<1>8. QED
  BY <1>6, <1>7


LEMMA GroupType ==
  ASSUME NEW s \in Seq(Row)
  PROVE  /\ IsFiniteSet(Groups(s))
         /\ \A i \in DOMAIN s : i \in Group(s, i) /\ Group(s, i) \in Groups(s)
         /\ \A g \in Groups(s) : /\ g \subseteq DOMAIN s /\ g # {} /\ IsFiniteSet(g)
                                 /\ Cardinality(g) \in Nat \ {0}
                                 /\ \A i \in g : g = Group(s, i)
<1>1. IsFiniteSet(DOMAIN s)
  <2>1. Len(s) \in Nat /\ DOMAIN s = 1..Len(s)
    OBVIOUS
  <2>2. QED
    BY <2>1, FS_Interval
<1>2. IsFiniteSet(Groups(s))
  <2>1. \A g \in Groups(s) : g \in SUBSET DOMAIN s
    BY DEF Groups, Group
  <2>2. QED
    BY <1>1, <2>1, FS_SUBSET, FS_Subset
<1>3. \A i \in DOMAIN s : i \in Group(s, i) /\ Group(s, i) \in Groups(s)
  BY DEF Groups, Group
<1>4. ASSUME NEW g \in Groups(s)
      PROVE  /\ g \subseteq DOMAIN s /\ g # {} /\ IsFiniteSet(g)
             /\ Cardinality(g) \in Nat \ {0}
             /\ \A i \in g : g = Group(s, i)
  <2>1. g \subseteq DOMAIN s /\ g # {} /\ \A i \in g : g = Group(s, i)
    BY DEF Groups, Group
  <2>2. IsFiniteSet(g)
    BY <1>1, <2>1, FS_Subset
  <2>3. QED
    BY <2>1, <2>2, FS_CardinalityType, FS_EmptySet
<1>5. QED
  BY <1>2, <1>3, <1>4

LEMMA RewardType ==
  ASSUME NEW s \in Seq(Row)
  PROVE  \A i \in DOMAIN s : s[i].reward \in Nat
<1>1. \A i \in DOMAIN s : s[i] \in Row
  OBVIOUS
<1>2. QED
  BY <1>1, BatchAssumption DEF Row

LEMMA TotalsType ==
  ASSUME NEW s \in Seq(Row), NEW g \in Groups(s)
  PROVE  Total(s, g) \in Nat /\ Squares(s, g) \in Nat
<1>1. IsFiniteSet(g) /\ \A i \in g : s[i].reward \in Nat
  BY GroupType, RewardType
<1>2. /\ [i \in g |-> s[i].reward] \in [g -> Nat]
      /\ [i \in g |-> s[i].reward * s[i].reward] \in [g -> Nat]
  BY <1>1
<1>3. QED
  BY <1>1, <1>2, SumType DEF Total, Squares

-----------------------------------------------------------------------------
(* filter_method "uid": some row of every group is no outlier. *)
LEMMA SomeIsNoOutlier ==
  ASSUME NEW s \in Seq(Row), NEW g \in Groups(s), NEW p \in 0..99
  PROVE  \E j \in g : j \notin Outliers(s, g, p)
<1> DEFINE Before(i, j) == \/ Deviation(s, g, i) > Deviation(s, g, j)
                           \/ Deviation(s, g, i) = Deviation(s, g, j) /\ i < j
           R == {ij \in g \X g : Before(ij[1], ij[2])}
<1>1. /\ IsFiniteSet(g) /\ g # {} /\ Cardinality(g) \in Nat
      /\ \A i \in g : i \in Nat /\ s[i].reward \in Nat
  BY GroupType, RewardType
<1>2. \A i \in g : Deviation(s, g, i) \in Nat
  <2> TAKE i \in g
  <2> DEFINE a == Cardinality(g) * s[i].reward
             b == Total(s, g)
  <2>1. a \in Nat /\ b \in Nat
    BY <1>1, TotalsType
  <2>2. Deviation(s, g, i) = IF a < b THEN b - a ELSE a - b
    BY DEF Deviation
  <2> HIDE DEF a, b
  <2>3. QED
    BY <2>1, <2>2
<1>3. /\ \A x \in g : <<x, x>> \notin R
      /\ \A x, y \in g : x # y => <<x, y>> \in R \/ <<y, x>> \in R
      /\ \A x, y, z \in g : <<x, y>> \in R /\ <<y, z>> \in R => <<x, z>> \in R
  <2>1. \A x, y \in g : <<x, y>> \in R <=> Before(x, y)
    OBVIOUS
  <2> HIDE DEF R
  <2>2. QED
    BY <1>1, <1>2, <2>1
<1>4. \A j \in g : {x \in g : <<x, j>> \in R} = {i \in g : Before(i, j)}
  OBVIOUS
<1> HIDE DEF R
<1>5. PICK m \in g : ~(Cardinality({x \in g : <<x, m>> \in R}) < Quota(Cardinality(g), p))
  BY <1>1, <1>3, LastIsOutsideQuota
<1>6. ~(Cardinality({i \in g : Before(i, m)}) < Quota(Cardinality(g), p))
  BY <1>4, <1>5
<1>7. m \notin Outliers(s, g, p)
  BY <1>6 DEF Outliers
<1>8. QED
  BY <1>7

-----------------------------------------------------------------------------
(* Filters "std" and "mean": the scores of the groups are in order. *)
Fraction == Int \X (Nat \ {0})

LEMMA CrossMultiplied ==
  ASSUME NEW a \in Int, NEW b \in Nat \ {0}, NEW c \in Int, NEW d \in Nat \ {0},
         NEW e \in Int, NEW f \in Nat \ {0}, a * d <= c * b, c * f <= e * d
  PROVE  a * f <= e * b
<1>1. (a * d) * f <= (c * b) * f
  OBVIOUS
<1>2. (c * f) * b <= (e * d) * b
  OBVIOUS
<1>3. (a * f) * d <= (e * b) * d
  BY <1>1, <1>2
<1>4. a * f \in Int /\ e * b \in Int
  OBVIOUS
<1>5. QED
  BY <1>3, <1>4

LEMMA FractionOrder ==
  ASSUME NEW x \in Fraction, NEW y \in Fraction, NEW z \in Fraction
  PROVE  /\ ~Less(x, x)
         /\ ~(Less(x, y) /\ Less(y, x))
         /\ ~Less(y, x) /\ ~Less(z, y) => ~Less(z, x)
<1>1. /\ x[1] \in Int /\ x[2] \in Nat \ {0} /\ y[1] \in Int /\ y[2] \in Nat \ {0}
      /\ z[1] \in Int /\ z[2] \in Nat \ {0}
  BY DEF Fraction
<1>2. /\ x[1] * x[2] \in Int /\ x[1] * y[2] \in Int /\ y[1] * x[2] \in Int
      /\ y[1] * z[2] \in Int /\ z[1] * y[2] \in Int /\ x[1] * z[2] \in Int /\ z[1] * x[2] \in Int
  BY <1>1
<1>3. ~Less(y, x) /\ ~Less(z, y) => ~Less(z, x)
  <2> SUFFICES ASSUME ~Less(y, x), ~Less(z, y) PROVE ~Less(z, x)
    OBVIOUS
  <2>1. x[1] * y[2] <= y[1] * x[2] /\ y[1] * z[2] <= z[1] * y[2]
    BY <1>2 DEF Less
  <2>2. x[1] * z[2] <= z[1] * x[2]
    BY <1>1, <2>1, CrossMultiplied
  <2>3. QED
    BY <1>2, <2>2 DEF Less
<1>4. QED
  BY <1>2, <1>3 DEF Less

(* Some group is outside the lowest ones, whatever the scores. *)
LEMMA SomeIsNotLowest ==
  ASSUME NEW s \in Seq(Row), s # <<>>, NEW score \in [Groups(s) -> Fraction], NEW p \in 0..99
  PROVE  \E i \in DOMAIN s : i \notin Lowest(s, score, p)
<1> DEFINE G == Groups(s)
           Before(g, h) == \/ Less(score[g], score[h])
                           \/ ~Less(score[h], score[g]) /\ Min(g) < Min(h)
           R == {gh \in G \X G : Before(gh[1], gh[2])}
<1>1. IsFiniteSet(G) /\ G # {}
  <2>1. 1 \in DOMAIN s
    OBVIOUS
  <2>2. QED
    BY <2>1, GroupType
<1>2. \A g \in G : Min(g) \in g /\ Min(g) \in Nat
  <2> TAKE g \in G
  <2>1. g \in SUBSET Nat /\ g # {}
    BY GroupType
  <2>2. \E x \in g : \A y \in g : x <= y
    BY <2>1, LeastNumber
  <2>3. QED
    BY <2>1, <2>2 DEF Min
<1>3. \A g, h \in G : g # h => Min(g) # Min(h)
  BY <1>2, GroupType
<1>4. \A g \in G : score[g] \in Fraction
  OBVIOUS
<1>5. \A g, h \in G : <<g, h>> \in R <=> Before(g, h)
  OBVIOUS
<1> HIDE DEF G, R
<1>6. \A g, h, k \in G : /\ ~Less(score[g], score[g])
                         /\ ~(Less(score[g], score[h]) /\ Less(score[h], score[g]))
                         /\ ~Less(score[h], score[g]) /\ ~Less(score[k], score[h])
                              => ~Less(score[k], score[g])
  BY <1>4, FractionOrder
<1>7. \A g \in G : <<g, g>> \notin R
  BY <1>2, <1>5, <1>6
<1>8. \A g, h \in G : g # h => <<g, h>> \in R \/ <<h, g>> \in R
  BY <1>2, <1>3, <1>5, <1>6
<1>9. ASSUME NEW g \in G, NEW h \in G, NEW k \in G, <<g, h>> \in R, <<h, k>> \in R
      PROVE  <<g, k>> \in R
  <2>1. Before(g, h) /\ Before(h, k)
    BY <1>5, <1>9
  <2>2. ~Less(score[k], score[g])
    BY <1>6, <2>1
  <2>3. CASE Less(score[g], score[k])
    BY <1>5, <2>3
  <2>4. CASE ~Less(score[g], score[k])
    <3>1. ~Less(score[g], score[h]) /\ ~Less(score[h], score[k])
      BY <1>6, <2>1, <2>4
    <3>2. Min(g) < Min(h) /\ Min(h) < Min(k)
      BY <2>1, <3>1
    <3>3. QED
      BY <1>2, <1>5, <2>2, <3>2
  <2>5. QED
    BY <2>3, <2>4
<1>10. PICK m \in G : ~(Cardinality({h \in G : <<h, m>> \in R}) < Quota(Cardinality(G), p))
  BY <1>1, <1>7, <1>8, <1>9, LastIsOutsideQuota
<1>11. {h \in G : <<h, m>> \in R} = {h \in G : Before(h, m)}
  BY <1>5
<1>12. PICK i \in m : i \in DOMAIN s
  BY GroupType DEF G
<1>13. \A g \in G : i \in g => g = m
  BY <1>12, GroupType DEF G
<1>14. i \notin Lowest(s, score, p)
  BY <1>10, <1>11, <1>13 DEF Lowest, G
<1>15. QED
  BY <1>12, <1>14

(* The scores of the code are fractions. *)
LEMMA ScoreType ==
  ASSUME NEW s \in Seq(Row), NEW g \in Groups(s)
  PROVE  Spread(s, g) \in Fraction /\ MeanReward(s, g) \in Fraction
<1> DEFINE n   == Cardinality(g)
           rng == Max(RewardsOf(s, g)) - Min(RewardsOf(s, g))
<1>1. /\ n \in Nat \ {0} /\ Total(s, g) \in Nat /\ Squares(s, g) \in Nat
  BY GroupType, TotalsType
<1>2. RewardsOf(s, g) \in SUBSET Nat /\ RewardsOf(s, g) # {} /\ IsFiniteSet(RewardsOf(s, g))
  <2>1. IsFiniteSet(g) /\ g # {} /\ \A i \in g : s[i].reward \in Nat
    BY GroupType, RewardType
  <2>2. [i \in g |-> s[i].reward] \in Surjection(g, RewardsOf(s, g))
    BY DEF Surjection, RewardsOf
  <2>3. IsFiniteSet(RewardsOf(s, g))
    BY <2>1, <2>2, FS_Surjection
  <2>4. RewardsOf(s, g) \in SUBSET Nat /\ RewardsOf(s, g) # {}
    BY <2>1 DEF RewardsOf
  <2>5. QED
    BY <2>3, <2>4
<1>3. Min(RewardsOf(s, g)) \in Nat
  <2>1. \E x \in RewardsOf(s, g) : \A y \in RewardsOf(s, g) : x <= y
    BY <1>2, LeastNumber
  <2>2. QED
    BY <1>2, <2>1 DEF Min
<1>4. Max(RewardsOf(s, g)) \in Nat
  <2> DEFINE T == RewardsOf(s, g)
             R == {xy \in T \X T : xy[1] < xy[2]}
  <2>1. \A x, y \in T : <<x, y>> \in R <=> x < y
    OBVIOUS
  <2> HIDE DEF T, R
  <2>2. T \in SUBSET Nat /\ T # {} /\ IsFiniteSet(T)
    BY <1>2 DEF T
  <2>3. /\ \A x \in T : <<x, x>> \notin R
        /\ \A x, y \in T : x # y => <<x, y>> \in R \/ <<y, x>> \in R
        /\ \A x, y, z \in T : <<x, y>> \in R /\ <<y, z>> \in R => <<x, z>> \in R
    BY <2>1, <2>2
  <2>4. PICK m \in T : {x \in T : <<x, m>> \in R} = T \ {m}
    BY <2>2, <2>3, LastOfOrder
  <2>5. \A y \in T : m >= y
    <3>1. \A y \in T : y = m \/ <<y, m>> \in R
      BY <2>4
    <3>2. \A y \in T : y = m \/ y < m
      BY <2>1, <3>1
    <3>3. m \in Nat /\ \A y \in T : y \in Nat
      BY <2>2
    <3>4. QED
      BY <3>2, <3>3
  <2>6. Max(T) \in T
    BY <2>5 DEF Max
  <2>7. QED
    BY <2>2, <2>6 DEF T
<1>5. rng \in Int
  BY <1>3, <1>4
<1> HIDE DEF n, rng
<1>6. Spread(s, g) = IF rng = 0 THEN <<0, 1>>
                     ELSE <<n * Squares(s, g) - Total(s, g) * Total(s, g), n * n * rng * rng>>
  BY DEF Spread, n, rng
<1>7. rng # 0 => n * n * rng * rng \in Nat \ {0}
  <2> SUFFICES ASSUME rng # 0 PROVE n * n * rng * rng \in Nat \ {0}
    OBVIOUS
  <2>1. rng * rng \in Nat \ {0}
    BY <1>5
  <2>2. n * n \in Nat \ {0}
    BY <1>1
  <2>3. (n * n) * (rng * rng) \in Nat \ {0}
    BY <2>1, <2>2
  <2>4. n * n * rng * rng = (n * n) * (rng * rng)
    BY <1>1, <1>5
  <2>5. QED
    BY <2>3, <2>4
<1>8. n * Squares(s, g) - Total(s, g) * Total(s, g) \in Int
  BY <1>1
<1>9. Spread(s, g) \in Fraction
  BY <1>6, <1>7, <1>8 DEF Fraction
<1>10. MeanReward(s, g) \in Fraction
  BY <1>1 DEF MeanReward, Fraction, n
<1>11. QED
  BY <1>9, <1>10

-----------------------------------------------------------------------------
LEMMA LeavesRows == BatchInv => FilterLeavesRows
<1> SUFFICES ASSUME BatchInv, Filtered, rows # <<>>, ~(Tree /\ config.method = "dapo")
             PROVE  kept # {} /\ (~ByGroup => \A i \in DOMAIN rows : \E j \in kept : Uid(rows[i]) = Uid(rows[j]))
  BY DEF FilterLeavesRows
<1>1. /\ rows \in Seq(Row) /\ kept = DOMAIN rows \ Removed(rows, config)
      /\ config.percent \in 0..99 /\ config.method \in {"dapo", "std", "mean", "uid"}
  BY BatchAssumption DEF BatchInv, TypeOK, KeptInv, Configs
<1>2. 1 \in DOMAIN rows
  BY <1>1
<1>3. CASE ~Tree
  <2>1. kept = DOMAIN rows \ NotLastTurn(rows)
    BY <1>1, <1>3 DEF Removed
  <2>2. \A i \in DOMAIN rows : \E j \in kept : rows[j].env = rows[i].env
    BY <1>1, <2>1, LastTurnIsKept
  <2>3. \A i, j \in DOMAIN rows : rows[j].env = rows[i].env => Uid(rows[i]) = Uid(rows[j])
    BY <1>3 DEF Uid
  <2>4. QED
    BY <1>2, <2>1, <2>2, <2>3
<1>4. CASE Tree /\ config.percent = 0
  <2>1. kept = DOMAIN rows
    BY <1>1, <1>4 DEF Removed
  <2>2. QED
    BY <1>2, <2>1
<1>5. CASE Tree /\ config.percent # 0 /\ config.method = "uid"
  <2>1. kept = DOMAIN rows \ UNION {Outliers(rows, g, config.percent) : g \in Groups(rows)}
    BY <1>1, <1>5 DEF Removed
  <2>2. ASSUME NEW i \in DOMAIN rows
        PROVE  \E j \in kept : Uid(rows[i]) = Uid(rows[j])
    <3>1. Group(rows, i) \in Groups(rows)
      BY <1>1, GroupType
    <3>2. PICK j \in Group(rows, i) : j \notin Outliers(rows, Group(rows, i), config.percent)
      BY <1>1, <3>1, SomeIsNoOutlier
    <3>3. j \in DOMAIN rows /\ Uid(rows[i]) = Uid(rows[j])
      BY DEF Group
    <3>4. \A g \in Groups(rows) : j \in g => g = Group(rows, i)
      BY <1>1, <3>1, GroupType
    <3>5. \A g \in Groups(rows) : Outliers(rows, g, config.percent) \subseteq g
      BY DEF Outliers
    <3>6. \A g \in Groups(rows) : j \notin Outliers(rows, g, config.percent)
      BY <3>2, <3>4, <3>5
    <3>7. QED
      BY <2>1, <3>3, <3>6
  <2>3. QED
    BY <1>2, <2>2
<1>6. CASE Tree /\ config.percent # 0 /\ config.method \in {"std", "mean"}
  <2>1. PICK score \in [Groups(rows) -> Fraction] : Removed(rows, config) = Lowest(rows, score, config.percent)
    <3>1. CASE config.method = "std"
      <4>1. Removed(rows, config) = Lowest(rows, [g \in Groups(rows) |-> Spread(rows, g)], config.percent)
        BY <1>6, <3>1 DEF Removed
      <4>2. [g \in Groups(rows) |-> Spread(rows, g)] \in [Groups(rows) -> Fraction]
        BY <1>1, ScoreType
      <4>3. QED
        BY <4>1, <4>2
    <3>2. CASE config.method = "mean"
      <4>1. Removed(rows, config) = Lowest(rows, [g \in Groups(rows) |-> MeanReward(rows, g)], config.percent)
        BY <1>6, <3>2 DEF Removed
      <4>2. [g \in Groups(rows) |-> MeanReward(rows, g)] \in [Groups(rows) -> Fraction]
        BY <1>1, ScoreType
      <4>3. QED
        BY <4>1, <4>2
    <3>3. QED
      BY <1>6, <3>1, <3>2
  <2>2. PICK i \in DOMAIN rows : i \notin Lowest(rows, score, config.percent)
    BY <1>1, SomeIsNotLowest
  <2>3. i \in kept
    BY <1>1, <2>1, <2>2
  <2>4. ByGroup
    BY <1>6 DEF ByGroup
  <2>5. QED
    BY <2>3, <2>4
<1>7. QED
  BY <1>1, <1>3, <1>4, <1>5, <1>6

-----------------------------------------------------------------------------
\* A group holds either both of two rows with one uid or neither.
LEMMA UidDecides ==
  ASSUME NEW i \in DOMAIN rows, NEW j \in DOMAIN rows, Uid(rows[i]) = Uid(rows[j]),
         NEW g \in Groups(rows)
  PROVE  i \in g <=> j \in g
BY DEF Groups, Group

\* So does any union of groups.
LEMMA UnionOfGroups ==
  ASSUME NEW i \in DOMAIN rows, NEW j \in DOMAIN rows, Uid(rows[i]) = Uid(rows[j]),
         NEW G \in SUBSET Groups(rows)
  PROVE  i \in UNION G <=> j \in UNION G
<1>1. \A g \in G : i \in g <=> j \in g
  BY UidDecides
<1> QED BY <1>1

\* The filters "dapo", "std" and "mean" keep all rows of a group or none, those
\* repeated as padding included, whatever the rewards and the ratio.
THEOREM GroupsStayWhole == Spec => []WholeGroups
<1>1. KeptInv => WholeGroups
  <2> SUFFICES ASSUME KeptInv, Filtered, ByGroup,
                      NEW i \in DOMAIN rows, NEW j \in DOMAIN rows,
                      Uid(rows[i]) = Uid(rows[j])
               PROVE  i \in kept <=> j \in kept
    BY DEF WholeGroups
  <2>1. /\ config.method \in {"dapo", "std", "mean"} /\ Tree
        /\ kept = DOMAIN rows \ Removed(rows, config)
    BY BatchAssumption DEF KeptInv, ByGroup, Configs
  <2>2. \E G \in SUBSET Groups(rows) : Removed(rows, config) = UNION G
    <3>1. CASE config.percent = 0
      BY <2>1, <3>1 DEF Removed
    <3>2. CASE config.percent # 0 /\ config.method = "dapo"
      BY <2>1, <3>2 DEF Removed, NoSignal
    <3>3. CASE config.percent # 0 /\ config.method = "std"
      BY <2>1, <3>3 DEF Removed, Lowest
    <3>4. CASE config.percent # 0 /\ config.method = "mean"
      BY <2>1, <3>4 DEF Removed, Lowest
    <3> QED BY <2>1, <3>1, <3>2, <3>3, <3>4
  <2>3. i \in Removed(rows, config) <=> j \in Removed(rows, config)
    BY <2>2, UnionOfGroups
  <2> QED BY <2>1, <2>3
<1> QED BY <1>1, AlwaysKept, PTL

\* With "dapo" and a positive ratio the actor is trained on exactly the groups
\* that hold two different rewards.
THEOREM OnlySignalRemains == Spec => []SignalRemains
<1>1. KeptInv => SignalRemains
  <2> SUFFICES ASSUME KeptInv, Filtered, Tree, config.method = "dapo",
                      config.percent > 0, NEW i \in DOMAIN rows
               PROVE  i \in kept <=> \E j \in DOMAIN rows :
                        Uid(rows[j]) = Uid(rows[i]) /\ rows[j].reward # rows[i].reward
    BY DEF SignalRemains
  <2>1. kept = DOMAIN rows \ Removed(rows, config)
    BY DEF KeptInv
  <2>2. Removed(rows, config) = NoSignal(rows)
    <3>1. config.percent \in 0..99
      BY BatchAssumption DEF KeptInv, Configs
    <3> QED BY <3>1 DEF Removed
  <2>3. i \in NoSignal(rows) <=> SameReward(rows, Group(rows, i))
    <3>1. i \in Group(rows, i) /\ Group(rows, i) \in Groups(rows)
      BY DEF Group, Groups
    <3>2. \A g \in Groups(rows) : i \in g => g = Group(rows, i)
      BY DEF Group, Groups
    <3> QED BY <3>1, <3>2 DEF NoSignal
  <2>4. SameReward(rows, Group(rows, i)) <=>
          ~ \E j \in DOMAIN rows :
              Uid(rows[j]) = Uid(rows[i]) /\ rows[j].reward # rows[i].reward
    BY DEF SameReward, Group
  <2> QED BY <2>1, <2>2, <2>3, <2>4
<1> QED BY <1>1, AlwaysKept, PTL

-----------------------------------------------------------------------------
\* The variables hold what the steps can give them; in particular the filters
\* keep indices of the rows, also of those that were added as padding.
THEOREM TypeCorrect == Spec => []TypeOK
<1>1. BatchInv => TypeOK
  BY DEF BatchInv
<1>2. QED
  BY <1>1, BatchInvariant, PTL

\* In whatever order the tasks finish or fail, an answer is collected once, and
\* padding repeats only what was collected.
THEOREM RowsAreCollectedOnce == Spec => []CollectedOnce
<1>1. BatchInv => CollectedOnce
  BY DEF BatchInv
<1>2. QED
  BY <1>1, BatchInvariant, PTL

\* Every batch given to update_actor splits evenly over the workers, however
\* many rows the filters and the split by agent have left.
THEOREM UpdatesDivide == Spec => []WorldDivides
<1>1. UpdatesInv => WorldDivides
  BY DEF UpdatesInv, WorldDivides, Aligned
<1>2. QED
  BY <1>1, BatchInvariant, PTL

\* The updates hold the kept rows of the trained agents, all and no others.
THEOREM UpdatesHoldTheKept == Spec => []UpdatesAreTheKept
<1>1. UpdatesInv => UpdatesAreTheKept
  BY DEF UpdatesInv
<1>2. QED
  BY <1>1, BatchInvariant, PTL

\* No filter but "dapo" removes everything, whatever the ratio below 100 and
\* the rewards; "uid" and the last-turn filter empty no group.
THEOREM FiltersLeaveRows == Spec => []FilterLeavesRows
BY LeavesRows, BatchInvariant, PTL

=============================================================================
