-------------------------- MODULE ContainersProofs --------------------------
(***************************************************************************)
(* Proofs about the containers: the ring buffer implements a bounded queue *)
(* for every capacity, the pointers of pickable queues are those of their  *)
(* sequences, and binary search finds what was inserted into sorted arrays *)
(* (modules Ring, PicqNodes and AddrMaps).                                 *)
(***************************************************************************)
EXTENDS Ring, PicqNodes, AddrMaps, SequenceTheorems, FiniteSetTheorems, WellFoundedInduction,
        TLAPS

----------------------------------------------------------------------------
(***************************************************************************)
(* The ring                                                                *)
(***************************************************************************)

LEMMA AdvanceAt ==
  ASSUME NEW t \in 0..(cap - 1), NEW k \in 0..cap
  PROVE  /\ Advance(t) \in 0..(cap - 1)
         /\ k < cap => At(t, k) \in 0..(cap - 1)
         /\ k < cap => Advance(At(t, k)) = At(t, k + 1)
         /\ k > 0 => At(Advance(t), k - 1) = At(t, k)
         /\ \A m \in 0..(cap - 1) : k < cap /\ At(t, k) = At(t, m) => k = m
BY CapAssumption DEF Advance, At

LEMMA EntriesSeq ==
  ASSUME NEW sl \in [0..(cap - 1) -> Vals], NEW t \in 0..(cap - 1), NEW k \in 0..cap
  PROVE  /\ Entries(sl, t, k) \in Seq(Vals)
         /\ Len(Entries(sl, t, k)) = k
         /\ \A j \in 1..k : Entries(sl, t, k)[j] = sl[At(t, j - 1)]
<1>1. cap \in Nat /\ k \in Nat
  BY CapAssumption
<1>2. ASSUME NEW j \in 1..k
      PROVE  sl[At(t, j - 1)] \in Vals
  <2>1. j - 1 \in 0..cap /\ j - 1 < cap
    BY <1>1
  <2>2. At(t, j - 1) \in 0..(cap - 1)
    BY <2>1, AdvanceAt
  <2> QED BY <2>2
<1>3. Entries(sl, t, k) \in [1..k -> Vals]
  BY <1>2 DEF Entries
<1>4. Entries(sl, t, k) \in Seq(Vals) /\ Len(Entries(sl, t, k)) = k
  BY <1>1, <1>3
<1> QED BY <1>4 DEF Entries

(* An entry written at the head is the newest entry.                       *)
LEMMA EntriesAppend ==
  ASSUME NEW sl \in [0..(cap - 1) -> Vals], NEW t \in 0..(cap - 1), NEW k \in 0..(cap - 1),
         NEW v \in Vals
  PROVE  Entries([sl EXCEPT ![At(t, k)] = v], t, k + 1) = Append(Entries(sl, t, k), v)
<1> DEFINE new == [sl EXCEPT ![At(t, k)] = v]
           e == Entries(sl, t, k)
           f == Entries(new, t, k + 1)
<1>1. cap \in Nat /\ k \in Nat /\ k \in 0..cap /\ k + 1 \in 0..cap /\ k < cap
  BY CapAssumption
<1>2. At(t, k) \in 0..(cap - 1)
  BY <1>1, AdvanceAt
<1>3. new \in [0..(cap - 1) -> Vals]
  BY <1>2
<1>4. e \in Seq(Vals) /\ Len(e) = k /\ \A j \in 1..k : e[j] = sl[At(t, j - 1)]
  BY <1>1, EntriesSeq
<1>5. f \in Seq(Vals) /\ Len(f) = k + 1 /\ \A j \in 1..(k + 1) : f[j] = new[At(t, j - 1)]
  BY <1>1, <1>3, EntriesSeq
<1>6. Append(e, v) \in Seq(Vals) /\ Len(Append(e, v)) = k + 1
  <2> HIDE DEF e
  <2> QED BY <1>4
<1>7. ASSUME NEW j \in 1..(k + 1)
      PROVE  f[j] = Append(e, v)[j]
  <2>1. CASE j = k + 1
    <3>1. j - 1 = k /\ j \in 1..(k + 1)
      BY <1>1, <2>1
    <3>2. f[j] = v
      BY <1>2, <1>5, <3>1
    <3>3. Append(e, v)[j] = v
      <4> HIDE DEF e
      <4> QED BY <1>4, <2>1
    <3> QED BY <3>2, <3>3
  <2>2. CASE j # k + 1
    <3>1. j \in 1..k /\ j - 1 \in 0..(cap - 1) /\ j - 1 \in 0..cap /\ j - 1 # k /\ j - 1 < cap
      BY <1>1, <2>2
    <3>2. At(t, j - 1) \in 0..(cap - 1) /\ At(t, k) # At(t, j - 1)
      BY <1>1, <3>1, AdvanceAt
    <3>3. f[j] = sl[At(t, j - 1)]
      BY <1>2, <1>5, <3>2
    <3>4. Append(e, v)[j] = e[j]
      <4> HIDE DEF e
      <4> QED BY <1>4, <3>1
    <3> QED BY <1>4, <3>1, <3>3, <3>4
  <2> QED BY <2>1, <2>2
<1> HIDE DEF e, f, new
<1>8. f = Append(e, v)
  BY <1>5, <1>6, <1>7, SeqEqual
<1> QED BY <1>8 DEF e, f, new

(* Without the oldest entry the queue is its tail.                         *)
LEMMA EntriesTail ==
  ASSUME NEW sl \in [0..(cap - 1) -> Vals], NEW t \in 0..(cap - 1), NEW k \in 1..cap
  PROVE  Entries(sl, Advance(t), k - 1) = Tail(Entries(sl, t, k))
<1> DEFINE e == Entries(sl, t, k)
           f == Entries(sl, Advance(t), k - 1)
<1>1. cap \in Nat /\ k \in Nat /\ k \in 0..cap /\ k - 1 \in 0..cap
  BY CapAssumption
<1>2. Advance(t) \in 0..(cap - 1)
  BY <1>1, AdvanceAt
<1>3. e \in Seq(Vals) /\ Len(e) = k /\ \A j \in 1..k : e[j] = sl[At(t, j - 1)]
  BY <1>1, EntriesSeq
<1>4. f \in Seq(Vals) /\ Len(f) = k - 1
      /\ \A j \in 1..(k - 1) : f[j] = sl[At(Advance(t), j - 1)]
  BY <1>1, <1>2, EntriesSeq
<1>5. Tail(e) \in Seq(Vals) /\ Len(Tail(e)) = k - 1
      /\ \A j \in 1..(k - 1) : Tail(e)[j] = e[j + 1]
  <2> HIDE DEF e
  <2>1. e # <<>>
    BY <1>1, <1>3
  <2> QED BY <1>1, <1>3, <2>1
<1>6. ASSUME NEW j \in 1..(k - 1)
      PROVE  f[j] = Tail(e)[j]
  <2>1. j \in 0..cap /\ j > 0 /\ j + 1 \in 1..k /\ (j + 1) - 1 = j
    BY <1>1
  <2>2. At(Advance(t), j - 1) = At(t, j)
    BY <2>1, AdvanceAt
  <2> QED BY <1>3, <1>4, <1>5, <2>1, <2>2
<1> HIDE DEF e, f
<1>7. f = Tail(e)
  BY <1>4, <1>5, <1>6, SeqEqual
<1> QED BY <1>7 DEF e, f

(* A ring that is full when an entry is forced: the oldest is replaced.    *)
LEMMA EntriesForceFull ==
  ASSUME NEW sl \in [0..(cap - 1) -> Vals], NEW t \in 0..(cap - 1), NEW v \in Vals
  PROVE  Entries([sl EXCEPT ![t] = v], Advance(t), cap) = Tail(Append(Entries(sl, t, cap), v))
<1> DEFINE new == [sl EXCEPT ![t] = v]
           e == Entries(sl, t, cap)
           f == Entries(new, Advance(t), cap)
           a == Append(e, v)
<1>1. cap \in Nat /\ cap > 0 /\ cap \in 0..cap
  BY CapAssumption
<1>2. Advance(t) \in 0..(cap - 1) /\ new \in [0..(cap - 1) -> Vals]
  BY <1>1, AdvanceAt
<1>3. e \in Seq(Vals) /\ Len(e) = cap /\ \A j \in 1..cap : e[j] = sl[At(t, j - 1)]
  BY <1>1, EntriesSeq
<1>4. f \in Seq(Vals) /\ Len(f) = cap
      /\ \A j \in 1..cap : f[j] = new[At(Advance(t), j - 1)]
  BY <1>1, <1>2, EntriesSeq
<1>5. /\ a \in Seq(Vals) /\ Len(a) = cap + 1 /\ a[cap + 1] = v
      /\ \A j \in 1..cap : a[j] = e[j]
  <2> HIDE DEF e
  <2> QED BY <1>1, <1>3
<1>6. /\ Tail(a) \in Seq(Vals) /\ Len(Tail(a)) = cap
      /\ \A j \in 1..cap : Tail(a)[j] = a[j + 1]
  <2> HIDE DEF a
  <2>1. a # <<>>
    BY <1>1, <1>5
  <2> QED BY <1>1, <1>5, <2>1
<1>7. ASSUME NEW j \in 1..cap
      PROVE  f[j] = Tail(a)[j]
  <2>1. j \in 0..cap /\ j > 0 /\ j + 1 \in 1..(cap + 1) /\ (j + 1) - 1 = j
    BY <1>1
  <2>2. At(Advance(t), j - 1) = At(t, j)
    BY <2>1, AdvanceAt
  <2>3. CASE j = cap
    <3>1. At(t, j) = t
      BY <1>1, <2>3 DEF At
    <3>2. f[j] = v
      BY <1>4, <2>2, <3>1
    <3> QED BY <1>5, <1>6, <2>3, <3>2
  <2>4. CASE j # cap
    <3>1. j < cap /\ j + 1 \in 1..cap
      BY <1>1, <2>1, <2>4
    <3>2. At(t, j) \in 0..(cap - 1) /\ At(t, j) # t
      BY <1>1, <2>1, <3>1 DEF At
    <3>3. f[j] = sl[At(t, j)]
      BY <1>4, <2>2, <3>2
    <3>4. Tail(a)[j] = e[j + 1] /\ e[j + 1] = sl[At(t, j)]
      BY <1>3, <1>5, <1>6, <2>1, <3>1
    <3> QED BY <3>3, <3>4
  <2> QED BY <2>3, <2>4
<1> HIDE DEF e, f, a, new
<1>8. f = Tail(a)
  BY <1>4, <1>6, <1>7, SeqEqual
<1> QED BY <1>8 DEF e, f, a, new

----------------------------------------------------------------------------
LEMMA InitAgrees == rgaAlloc => PointersAgree
BY CapAssumption DEF rgaAlloc, PointersAgree, At

LEMMA NextAgrees == PointersAgree /\ [Next]_ringVars => PointersAgree'
<1> SUFFICES ASSUME PointersAgree, [Next]_ringVars
             PROVE  PointersAgree'
  OBVIOUS
<1>1. /\ cap \in Nat /\ cap > 0 /\ slot \in [0..(cap - 1) -> Vals]
      /\ tail \in 0..(cap - 1) /\ count \in 0..cap /\ peak \in count..cap
      /\ head = At(tail, count)
  BY CapAssumption DEF PointersAgree
<1>2. CASE rgaNextTail
  <2>1. /\ count > 0 /\ tail' = Advance(tail) /\ count' = count - 1
        /\ slot' = slot /\ head' = head /\ peak' = peak
    BY <1>2 DEF rgaNextTail
  <2>2. Advance(tail) \in 0..(cap - 1) /\ At(Advance(tail), count - 1) = At(tail, count)
    BY <1>1, <2>1, AdvanceAt
  <2>3. count - 1 \in 0..cap /\ peak \in (count - 1)..cap
    BY <1>1, <2>1
  <2>4. head' = At(tail', count')
    BY <1>1, <2>1, <2>2 DEF At
  <2> QED BY <1>1, <2>1, <2>2, <2>3, <2>4 DEF PointersAgree
<1>3. ASSUME NEW v \in Vals, rgaNextHead(v)
      PROVE  PointersAgree'
  <2>1. /\ count < cap /\ slot' = [slot EXCEPT ![head] = v] /\ head' = Advance(head)
        /\ count' = count + 1 /\ peak' = (IF count + 1 > peak THEN count + 1 ELSE peak)
        /\ tail' = tail
    BY <1>3 DEF rgaNextHead
  <2>2. Advance(head) = At(tail, count + 1)
    BY <1>1, <2>1, AdvanceAt
  <2>3. count + 1 \in 0..cap /\ peak' \in (count + 1)..cap
    BY <1>1, <2>1
  <2>4. slot' \in [0..(cap - 1) -> Vals]
    BY <1>1, <2>1
  <2>5. head' = At(tail', count')
    BY <2>1, <2>2 DEF At
  <2> QED BY <1>1, <2>1, <2>3, <2>4, <2>5 DEF PointersAgree
<1>4. ASSUME NEW v \in Vals, rgaForceHead(v)
      PROVE  PointersAgree'
  <2>1. /\ slot' = [slot EXCEPT ![head] = v] /\ head' = Advance(head)
        /\ tail' = (IF count + 1 >= cap THEN Advance(tail) ELSE tail)
        /\ count' = (IF count + 1 >= cap THEN count ELSE count + 1)
        /\ peak' = (IF count' > peak THEN count' ELSE peak)
    BY <1>4 DEF rgaForceHead
  <2>2. slot' \in [0..(cap - 1) -> Vals]
    BY <1>1, <2>1
  <2>3. tail' \in 0..(cap - 1)
    BY <1>1, <2>1, AdvanceAt
  <2>4. count' \in 0..cap /\ peak' \in count'..cap
    BY <1>1, <2>1
  <2>5. head' = At(tail', count')
    BY <1>1, <2>1 DEF At, Advance
  <2> QED BY <2>2, <2>3, <2>4, <2>5 DEF PointersAgree
<1>5. CASE UNCHANGED ringVars
  BY <1>5 DEF ringVars, PointersAgree
<1> QED BY <1>2, <1>3, <1>4, <1>5 DEF Next

(* Head, tail and count agree in every ring, whatever its capacity and     *)
(* whatever calls are made (rgaNextHead, rgaForceHead, rgaNextTail).       *)
THEOREM PointersAlwaysAgree == Spec => []PointersAgree
BY InitAgrees, NextAgrees, PTL DEF Spec

(* What the queue is after a step of the ring.                             *)
LEMMA StepQueue ==
  ASSUME PointersAgree, [Next]_ringVars
  PROVE  [F!Next]_<<Queue, peak>>
<1>1. /\ cap \in Nat /\ cap > 0 /\ slot \in [0..(cap - 1) -> Vals]
      /\ tail \in 0..(cap - 1) /\ count \in 0..cap /\ peak \in count..cap
      /\ head = At(tail, count)
  BY CapAssumption DEF PointersAgree
<1>2. Queue \in Seq(Vals) /\ Len(Queue) = count
  BY <1>1, EntriesSeq DEF Queue
<1>3. Queue' = Entries(slot', tail', count')
  BY DEF Queue, Entries, At
<1>4. CASE rgaNextTail
  <2>1. count \in 1..cap
    BY <1>1, <1>4 DEF rgaNextTail
  <2>2. Queue' = Tail(Queue)
    BY <1>1, <1>3, <1>4, <2>1, EntriesTail DEF rgaNextTail, Queue
  <2>3. Queue # <<>>
    BY <1>2, <2>1
  <2>4. F!Pop
    BY <1>4, <2>2, <2>3 DEF rgaNextTail, F!Pop
  <2> QED BY <2>4 DEF F!Next
<1>5. ASSUME PointersAgree'
      PROVE  Len(Queue') = count'
  <2>1. /\ slot' \in [0..(cap - 1) -> Vals] /\ tail' \in 0..(cap - 1) /\ count' \in 0..cap
    BY <1>5 DEF PointersAgree
  <2> QED BY <1>3, <2>1, EntriesSeq
<1>6. Len(Queue') = count'
  BY <1>5, NextAgrees
<1>7. ASSUME NEW v \in Vals, rgaNextHead(v)
      PROVE  F!Push(v)
  <2>1. count \in 0..(cap - 1) /\ count < cap
    BY <1>1, <1>7 DEF rgaNextHead
  <2>2. slot' = [slot EXCEPT ![At(tail, count)] = v] /\ tail' = tail /\ count' = count + 1
    BY <1>1, <1>7 DEF rgaNextHead
  <2>3. Queue' = Append(Queue, v)
    BY <1>1, <1>3, <2>1, <2>2, EntriesAppend DEF Queue
  <2>4. peak' = IF Len(Queue') > peak THEN Len(Queue') ELSE peak
    BY <1>6, <1>7 DEF rgaNextHead
  <2> QED BY <1>2, <2>1, <2>3, <2>4 DEF F!Push
<1>8. ASSUME NEW v \in Vals, rgaForceHead(v)
      PROVE  F!Force(v)
  <2>1. peak' = IF Len(Queue') > peak THEN Len(Queue') ELSE peak
    BY <1>6, <1>8 DEF rgaForceHead
  <2>2. slot' = [slot EXCEPT ![At(tail, count)] = v]
    BY <1>1, <1>8 DEF rgaForceHead
  <2>3. CASE count + 1 < cap
    <3>1. count \in 0..(cap - 1) /\ tail' = tail /\ count' = count + 1
      BY <1>1, <1>8, <2>3 DEF rgaForceHead
    <3>2. Queue' = Append(Queue, v)
      BY <1>1, <1>3, <2>2, <3>1, EntriesAppend DEF Queue
    <3> QED BY <1>2, <2>1, <2>3, <3>2 DEF F!Force
  <2>4. CASE count + 1 >= cap
    <3>1. tail' = Advance(tail) /\ count' = count
      BY <1>1, <1>8, <2>4 DEF rgaForceHead
    <3>2. Queue' = Tail(Append(Queue, v))
      <4>1. CASE count = cap - 1
        <5>1. count \in 0..(cap - 1) /\ count + 1 \in 1..cap /\ (count + 1) - 1 = count
          BY <1>1, <4>1
        <5>2. slot' \in [0..(cap - 1) -> Vals]
          BY <1>1, <2>2, <5>1, AdvanceAt
        <5>3. Entries(slot', Advance(tail), (count + 1) - 1) = Tail(Entries(slot', tail, count + 1))
          BY <1>1, <5>1, <5>2, EntriesTail
        <5>4. Entries(slot', tail, count + 1) = Append(Queue, v)
          BY <1>1, <2>2, <5>1, EntriesAppend DEF Queue
        <5> QED BY <1>3, <3>1, <5>1, <5>3, <5>4
      <4>2. CASE count = cap
        <5>1. At(tail, count) = tail
          BY <1>1, <4>2 DEF At
        <5> QED BY <1>1, <1>3, <2>2, <3>1, <4>2, <5>1, EntriesForceFull DEF Queue
      <4> QED BY <1>1, <2>4, <4>1, <4>2
    <3>3. ~(count + 1 < cap)
      BY <1>1, <2>4
    <3> QED BY <1>2, <2>1, <3>2, <3>3 DEF F!Force
  <2> QED BY <1>1, <2>3, <2>4
<1>9. CASE UNCHANGED ringVars
  BY <1>9 DEF ringVars, Queue, Entries, At
<1> QED BY <1>4, <1>7, <1>8, <1>9 DEF Next, F!Next

(* The ring implements the bounded queue: what it returns is what was put  *)
(* in, in order and without a loss other than the oldest entry of a forced *)
(* one (rgaNextHead, rgaForceHead, rgaNextTail).                           *)
THEOREM RingImplementsFifo == Spec => RingIsFifo
<1>1. rgaAlloc => F!Init
  <2> SUFFICES ASSUME rgaAlloc PROVE F!Init
    OBVIOUS
  <2>1. tail \in 0..(cap - 1) /\ count \in 0..cap /\ count = 0 /\ slot \in [0..(cap - 1) -> Vals]
    BY CapAssumption DEF rgaAlloc
  <2>2. Queue \in Seq(Vals) /\ Len(Queue) = 0
    BY <2>1, EntriesSeq DEF Queue
  <2>3. Queue = <<>>
    BY <2>2
  <2> QED BY <2>3 DEF rgaAlloc, F!Init
<1> QED BY <1>1, StepQueue, PointersAlwaysAgree, PTL DEF Spec, RingIsFifo, F!Spec

----------------------------------------------------------------------------
(***************************************************************************)
(* Pickable queues                                                         *)
(***************************************************************************)
OrNull == Nodes \cup {NULL}

(* A node is at one place of one queue.                                    *)
PicqDistinct ==
  \A u, v \in Queues : \A i \in 1..Len(q[u]), j \in 1..Len(q[v]) :
    q[u][i] = q[v][j] => u = v /\ i = j

PicqInv ==
  /\ p \in [Nodes -> OrNull] /\ n \in [Nodes -> OrNull]
  /\ qhead \in [Queues -> OrNull] /\ qtail \in [Queues -> OrNull]
  /\ q \in [Queues -> Seq(Nodes)]
  /\ PicqDistinct /\ PointersMatch

(* A queue whose sequence is s, by its pointers.                           *)
Linked(s, h, t, nn, pp) ==
  /\ t = IF s = <<>> THEN NULL ELSE s[1]
  /\ h = IF s = <<>> THEN NULL ELSE s[Len(s)]
  /\ \A i \in 1..Len(s) : /\ nn[s[i]] = IF i = Len(s) THEN NULL ELSE s[i + 1]
                          /\ pp[s[i]] = IF i = 1 THEN NULL ELSE s[i - 1]

LEMMA LinkedQueues ==
  PointersMatch <=> /\ \A u \in Queues : Linked(q[u], qhead[u], qtail[u], n, p)
                    /\ \A x \in Nodes : Free(x) => Unlinked(x)
BY DEF PointersMatch, Linked

(* The sequence without its entry at i.                                    *)
LEMMA PickAt ==
  ASSUME NEW s \in Seq(Nodes), NEW i \in 1..Len(s),
         \A j, k \in 1..Len(s) : s[j] = s[k] => j = k
  PROVE  LET t == piqPick(s, s[i])
         IN  /\ t \in Seq(Nodes) /\ Len(t) = Len(s) - 1
             /\ \A j \in 1..Len(s) - 1 : t[j] = IF j < i THEN s[j] ELSE s[j + 1]
<1>1. InQueue(s, s[i])
  BY DEF InQueue
<1>2. (CHOOSE j \in 1..Len(s) : s[j] = s[i]) = i
  OBVIOUS
<1>3. piqPick(s, s[i]) = [j \in 1..(Len(s) - 1) |-> IF j < i THEN s[j] ELSE s[j + 1]]
  BY <1>1, <1>2 DEF piqPick
<1> DEFINE t == [j \in 1..(Len(s) - 1) |-> IF j < i THEN s[j] ELSE s[j + 1]]
<1>4. t \in [1..(Len(s) - 1) -> Nodes] /\ Len(s) - 1 \in Nat
  OBVIOUS
<1>5. t \in Seq(Nodes) /\ Len(t) = Len(s) - 1
  BY <1>4
<1> QED BY <1>3, <1>5

LEMMA PickInQueue ==
  ASSUME PicqInv, NEW u \in Queues, NEW i \in 1..Len(q[u]), piqPickNode(u, q[u][i])
  PROVE  PicqInv'
<1> DEFINE s == q[u]  x == s[i]  t == piqPick(s, x)  L == Len(s)
<1>1. /\ s \in Seq(Nodes) /\ x \in Nodes /\ L \in Nat /\ i \in 1..L /\ s # <<>>
      /\ \A j, k \in 1..L : s[j] = s[k] => j = k
      /\ \A j \in 1..L : s[j] \in Nodes
  BY DEF PicqInv, PicqDistinct
<1>2. /\ qtail[u] = s[1] /\ qhead[u] = s[L]
      /\ \A j \in 1..L : /\ n[s[j]] = IF j = L THEN NULL ELSE s[j + 1]
                         /\ p[s[j]] = IF j = 1 THEN NULL ELSE s[j - 1]
  BY <1>1, LinkedQueues DEF PicqInv, Linked
<1>3. NULL \notin Nodes
  BY NullAssumption
<1>4. ~RefusesPick(u, x)
  <2>1. Unlinked(x) => i = L /\ i = 1
    BY <1>1, <1>2, <1>3 DEF Unlinked
  <2> QED BY <1>1, <1>2, <2>1 DEF RefusesPick
<1>5. Unlink(u, x) /\ q' = [q EXCEPT ![u] = t]
  BY <1>4 DEF piqPickNode
<1>6. /\ t \in Seq(Nodes) /\ Len(t) = L - 1
      /\ \A j \in 1..L - 1 : t[j] = IF j < i THEN s[j] ELSE s[j + 1]
  BY <1>1, PickAt
<1> HIDE DEF t
<1>7. /\ q' \in [Queues -> Seq(Nodes)] /\ q'[u] = t
      /\ \A v \in Queues : v # u => q'[v] = q[v]
  BY <1>5, <1>6 DEF PicqInv
<1>8. p[x] = (IF i = 1 THEN NULL ELSE s[i - 1]) /\ n[x] = (IF i = L THEN NULL ELSE s[i + 1])
      /\ p[x] \in OrNull /\ n[x] \in OrNull
  BY <1>1, <1>2 DEF PicqInv
<1>9. /\ n' \in [Nodes -> OrNull]
      /\ \A z \in Nodes : n'[z] = IF z = x THEN NULL
                                  ELSE IF i # 1 /\ z = s[i - 1] THEN n[x] ELSE n[z]
  <2>1. n' = [(IF p[x] # NULL THEN [n EXCEPT ![p[x]] = n[x]] ELSE n) EXCEPT ![x] = NULL]
    BY <1>5 DEF Unlink
  <2>2. i # 1 => s[i - 1] \in Nodes
    BY <1>1
  <2>3. CASE i = 1
    BY <1>1, <1>3, <1>8, <2>1, <2>3 DEF PicqInv, OrNull
  <2>4. CASE i # 1
    BY <1>1, <1>3, <1>8, <2>1, <2>2, <2>4 DEF PicqInv, OrNull
  <2> QED BY <2>3, <2>4
<1>10. /\ p' \in [Nodes -> OrNull]
       /\ \A z \in Nodes : p'[z] = IF z = x THEN NULL
                                   ELSE IF i # L /\ z = s[i + 1] THEN p[x] ELSE p[z]
  <2>1. p' = [(IF n[x] # NULL THEN [p EXCEPT ![n[x]] = p[x]] ELSE p) EXCEPT ![x] = NULL]
    BY <1>5 DEF Unlink
  <2>2. i # L => s[i + 1] \in Nodes
    BY <1>1
  <2>3. CASE i = L
    BY <1>1, <1>3, <1>8, <2>1, <2>3 DEF PicqInv, OrNull
  <2>4. CASE i # L
    BY <1>1, <1>3, <1>8, <2>1, <2>2, <2>4 DEF PicqInv, OrNull
  <2> QED BY <2>3, <2>4
<1>11. /\ qtail' \in [Queues -> OrNull] /\ qtail'[u] = (IF i = 1 THEN n[x] ELSE qtail[u])
       /\ \A v \in Queues : v # u => qtail'[v] = qtail[v]
  <2>1. qtail' = IF p[x] # NULL THEN qtail ELSE [qtail EXCEPT ![u] = n[x]]
    BY <1>5 DEF Unlink
  <2>2. p[x] = NULL <=> i = 1
    BY <1>1, <1>3, <1>8
  <2> QED BY <1>8, <2>1, <2>2 DEF PicqInv
<1>12. /\ qhead' \in [Queues -> OrNull] /\ qhead'[u] = (IF i = L THEN p[x] ELSE qhead[u])
       /\ \A v \in Queues : v # u => qhead'[v] = qhead[v]
  <2>1. qhead' = IF n[x] # NULL THEN qhead ELSE [qhead EXCEPT ![u] = p[x]]
    BY <1>5 DEF Unlink
  <2>2. n[x] = NULL <=> i = L
    BY <1>1, <1>3, <1>8
  <2> QED BY <1>8, <2>1, <2>2 DEF PicqInv
<1>13. ASSUME NEW v \in Queues, v # u
       PROVE  Linked(q'[v], qhead'[v], qtail'[v], n', p')
  <2>1. Linked(q[v], qhead[v], qtail[v], n, p) /\ q[v] \in Seq(Nodes)
    BY LinkedQueues DEF PicqInv
  <2>2. ASSUME NEW j \in 1..Len(q[v])
        PROVE  q[v][j] \in Nodes /\ n'[q[v][j]] = n[q[v][j]] /\ p'[q[v][j]] = p[q[v][j]]
    <3>1. \A k \in 1..L : q[v][j] # s[k]
      BY <1>13 DEF PicqInv, PicqDistinct
    <3>2. q[v][j] \in Nodes
      BY <2>1
    <3>3. q[v][j] # x /\ (i # 1 => q[v][j] # s[i - 1]) /\ (i # L => q[v][j] # s[i + 1])
      BY <1>1, <3>1
    <3> QED BY <1>9, <1>10, <3>2, <3>3
  <2> QED BY <1>7, <1>11, <1>12, <1>13, <2>1, <2>2 DEF Linked
<1>18. L \in Nat /\ i \in 1..L
  BY <1>1
<1>14. Linked(t, qhead'[u], qtail'[u], n', p')
  <2>1. t = <<>> <=> L = 1
    <3>1. t = <<>> <=> Len(t) = 0
      BY <1>6, EmptySeq
    <3>2. Len(t) = 0 <=> L = 1
      BY <1>1, <1>6
    <3> QED BY <3>1, <3>2
  <2>2. qtail'[u] = IF t = <<>> THEN NULL ELSE t[1]
    <3>1. CASE L = 1
      BY <1>1, <1>2, <1>8, <1>11, <2>1, <3>1
    <3>2. CASE L # 1
      <4>1. 1 \in 1..L - 1 /\ 1 + 1 = 2 /\ (i = 1 \/ 1 < i)
        <5>1. \A a \in Nat : \A b \in 1..a :
                a # 1 => 1 \in 1..a - 1 /\ 1 + 1 = 2 /\ (b = 1 \/ 1 < b)
          OBVIOUS
        <5> HIDE DEF L
        <5> QED BY <1>18, <3>2, <5>1, Zenon
      <4>2. t[1] = IF 1 < i THEN s[1] ELSE s[2]
        BY <1>6, <4>1
      <4>3. t # <<>>
        BY <2>1, <3>2
      <4>4. CASE i = 1
        BY <1>8, <1>11, <3>2, <4>2, <4>3, <4>4
      <4>5. CASE i # 1
        BY <1>2, <1>11, <4>1, <4>2, <4>3, <4>5
      <4> QED BY <4>4, <4>5
    <3> QED BY <3>1, <3>2
  <2>3. qhead'[u] = IF t = <<>> THEN NULL ELSE t[Len(t)]
    BY <1>1, <1>2, <1>6, <1>8, <1>12, <2>1
  <2>4. ASSUME NEW j \in 1..L - 1
        PROVE  /\ n'[t[j]] = IF j = L - 1 THEN NULL ELSE t[j + 1]
               /\ p'[t[j]] = IF j = 1 THEN NULL ELSE t[j - 1]
    <3> DEFINE m == IF j < i THEN j ELSE j + 1
    <3>1. m \in 1..L /\ t[j] = s[m] /\ s[m] \in Nodes /\ m # i /\ s[m] # x
      BY <1>1, <1>6, SMTT(30)
    <3>2. /\ i # 1 => (s[m] = s[i - 1] <=> m = i - 1)
          /\ i # L => (s[m] = s[i + 1] <=> m = i + 1)
      BY <1>1, <3>1
    <3>3. n'[s[m]] = (IF m = i - 1 THEN n[x] ELSE n[s[m]])
          /\ p'[s[m]] = (IF m = i + 1 THEN p[x] ELSE p[s[m]])
      BY <1>1, <1>9, <1>10, <3>1, <3>2, SMTT(30)
    <3>4. /\ n[s[m]] = (IF m = L THEN NULL ELSE s[m + 1])
          /\ p[s[m]] = (IF m = 1 THEN NULL ELSE s[m - 1])
      BY <1>2, <3>1
    <3>5. n'[t[j]] = IF j = L - 1 THEN NULL ELSE t[j + 1]
      <4>1. CASE j = L - 1
        BY <1>1, <1>8, <3>1, <3>3, <3>4, <4>1
      <4>2. CASE j # L - 1
        <5>1. j + 1 \in 1..L - 1 /\ t[j + 1] = IF j + 1 < i THEN s[j + 1] ELSE s[j + 2]
          <6>1. j + 1 \in 1..L - 1 /\ (j + 1) + 1 = j + 2
            BY <1>1, <4>2
          <6> QED BY <1>6, <6>1
        <5> QED BY <1>1, <1>8, <3>1, <3>3, <3>4, <4>2, <5>1
      <4> QED BY <4>1, <4>2
    <3>6. p'[t[j]] = IF j = 1 THEN NULL ELSE t[j - 1]
      <4>1. CASE j = 1
        BY <1>1, <1>8, <3>1, <3>3, <3>4, <4>1
      <4>2. CASE j # 1
        <5>1. j - 1 \in 1..L - 1 /\ t[j - 1] = IF j - 1 < i THEN s[j - 1] ELSE s[j]
          <6>1. j - 1 \in 1..L - 1 /\ (j - 1) + 1 = j
            BY <1>1, <4>2
          <6> QED BY <1>6, <6>1
        <5> QED BY <1>1, <1>8, <3>1, <3>3, <3>4, <4>2, <5>1
      <4> QED BY <4>1, <4>2
    <3> QED BY <3>5, <3>6
  <2> QED BY <1>6, <2>2, <2>3, <2>4 DEF Linked
<1>15. \A z \in Nodes : Free(z)' => Unlinked(z)'
  <2> SUFFICES ASSUME NEW z \in Nodes, Free(z)'
               PROVE  n'[z] = NULL /\ p'[z] = NULL
    BY DEF Unlinked
  <2>1. CASE z = x
    BY <1>1, <1>9, <1>10, <2>1
  <2>2. CASE z # x
    <3>1. ASSUME NEW v \in Queues
          PROVE  ~InQueue(q[v], z)
      <4>1. CASE v # u
        BY <1>7, <4>1 DEF Free, InQueue
      <4>2. CASE v = u
        <5> SUFFICES ASSUME NEW j \in 1..L, s[j] = z
                     PROVE  FALSE
          BY <4>2 DEF InQueue
        <5> DEFINE k == IF j < i THEN j ELSE j - 1
        <5>1. k \in 1..Len(t) /\ t[k] = z
          BY <1>1, <1>6, <2>2
        <5> QED BY <1>7, <5>1 DEF Free, InQueue
      <4> QED BY <4>1, <4>2
    <3>2. Free(z) /\ n[z] = NULL /\ p[z] = NULL
      BY <3>1 DEF Free, PicqInv, PointersMatch, Unlinked
    <3>3. (i # 1 => z # s[i - 1]) /\ (i # L => z # s[i + 1])
      BY <1>1, <3>1 DEF InQueue
    <3> QED BY <1>9, <1>10, <2>2, <3>2, <3>3
  <2> QED BY <2>1, <2>2
<1>16. PointersMatch'
  <2>1. \A v \in Queues : Linked(q'[v], qhead'[v], qtail'[v], n', p')
    BY <1>7, <1>13, <1>14
  <2> QED BY <1>15, <2>1 DEF PointersMatch, Linked
<1>17. PicqDistinct'
  <2> SUFFICES ASSUME NEW v \in Queues, NEW w \in Queues,
                      NEW j \in 1..Len(q'[v]), NEW k \in 1..Len(q'[w]), q'[v][j] = q'[w][k]
               PROVE  v = w /\ j = k
    BY DEF PicqDistinct
  <2> DEFINE Before(w1, j1) == IF w1 = u /\ j1 >= i THEN j1 + 1 ELSE j1
  <2>1. ASSUME NEW w1 \in Queues, NEW j1 \in 1..Len(q'[w1])
        PROVE  /\ j1 \in Nat /\ Before(w1, j1) \in 1..Len(q[w1])
               /\ q'[w1][j1] = q[w1][Before(w1, j1)]
    <3>1. CASE w1 = u
      <4>1. j1 \in 1..L - 1
        BY <1>6, <1>7, <3>1
      <4>2. j1 \in Nat /\ Before(w1, j1) = (IF j1 < i THEN j1 ELSE j1 + 1) /\ Before(w1, j1) \in 1..L
        BY <1>1, <3>1, <4>1
      <4>3. t[j1] = s[Before(w1, j1)]
        BY <1>6, <4>1, <4>2
      <4> QED BY <1>7, <3>1, <4>2, <4>3
    <3>2. CASE w1 # u
      BY <1>7, <3>2
    <3> QED BY <3>1, <3>2
  <2>2. PICK jj \in 1..Len(q[v]) : jj = Before(v, j) /\ q'[v][j] = q[v][jj]
    BY <2>1
  <2>3. PICK kk \in 1..Len(q[w]) : kk = Before(w, k) /\ q'[w][k] = q[w][kk]
    BY <2>1
  <2>4. v = w /\ jj = kk
    <3>1. q[v][jj] = q[w][kk]
      BY <2>2, <2>3
    <3>2. PicqDistinct
      BY DEF PicqInv
    <3> HIDE DEF Before
    <3> QED BY <3>1, <3>2 DEF PicqDistinct
  <2>5. j \in Nat /\ k \in Nat
    BY <2>1
  <2> QED BY <1>1, <2>2, <2>3, <2>4, <2>5
<1> QED BY <1>7, <1>9, <1>10, <1>11, <1>12, <1>16, <1>17 DEF PicqInv

(* A node in no queue is refused.                                          *)
LEMMA PickFree ==
  ASSUME PicqInv, NEW u \in Queues, NEW x \in Nodes, Free(x), piqPickNode(u, x)
  PROVE  PicqInv' /\ UNCHANGED nodeVars
<1>1. ~InQueue(q[u], x) /\ Unlinked(x) /\ q \in [Queues -> Seq(Nodes)] /\ NULL \notin Nodes
  BY NullAssumption DEF Free, PicqInv, PointersMatch
<1>2. qhead[u] # x
  <2>1. qhead[u] = IF q[u] = <<>> THEN NULL ELSE q[u][Len(q[u])]
    BY DEF PicqInv, PointersMatch
  <2>2. q[u] # <<>> => Len(q[u]) \in 1..Len(q[u])
    BY <1>1
  <2> QED BY <1>1, <2>1, <2>2 DEF InQueue
<1>3. RefusesPick(u, x)
  BY <1>1, <1>2 DEF RefusesPick
<1>4. piqPick(q[u], x) = q[u]
  BY <1>1 DEF piqPick
<1>5. UNCHANGED <<p, n, qhead, qtail>> /\ q' = q
  BY <1>1, <1>3, <1>4 DEF piqPickNode
<1> QED BY <1>5 DEF nodeVars, PicqInv, PicqDistinct, PointersMatch, Free, Unlinked, InQueue

(* A node put into a queue, at the place "at" of its new sequence t.       *)
Inserted(u, x, t, at) ==
  /\ t \in Seq(Nodes) /\ Len(t) = Len(q[u]) + 1 /\ at \in 1..Len(t) /\ t[at] = x
  /\ \A j \in 1..Len(q[u]) : t[IF j < at THEN j ELSE j + 1] = q[u][j]
  /\ q' = [q EXCEPT ![u] = t]

LEMMA InsertedDistinct ==
  ASSUME PicqInv, NEW u \in Queues, NEW x \in Nodes, Free(x), NEW t, NEW at, Inserted(u, x, t, at)
  PROVE  /\ q' \in [Queues -> Seq(Nodes)] /\ q'[u] = t
         /\ \A v \in Queues : v # u => q'[v] = q[v]
         /\ PicqDistinct'
         /\ \A z \in Nodes : Free(z)' => z # x /\ Free(z)
<1>1. /\ t \in Seq(Nodes) /\ Len(t) = Len(q[u]) + 1 /\ at \in 1..Len(t) /\ t[at] = x
      /\ \A j \in 1..Len(q[u]) : t[IF j < at THEN j ELSE j + 1] = q[u][j]
      /\ q \in [Queues -> Seq(Nodes)] /\ q' = [q EXCEPT ![u] = t] /\ PicqDistinct
      /\ Len(q[u]) \in Nat /\ at \in Nat
  BY DEF Inserted, PicqInv
<1>2. q' \in [Queues -> Seq(Nodes)] /\ q'[u] = t /\ \A v \in Queues : v # u => q'[v] = q[v]
  BY <1>1
<1> DEFINE Before(v, j) == IF v = u /\ j > at THEN j - 1 ELSE j
<1>3. ASSUME NEW v \in Queues, NEW j \in 1..Len(q'[v])
      PROVE  /\ j \in Nat
             /\ ~(v = u /\ j = at) => /\ Before(v, j) \in 1..Len(q[v])
                                      /\ q'[v][j] = q[v][Before(v, j)] /\ q'[v][j] # x
  <2>1. CASE v = u
    <3>1. j \in 1..Len(q[u]) + 1
      BY <1>1, <1>2, <2>1
    <3>2. SUFFICES ASSUME j # at
                   PROVE  Before(v, j) \in 1..Len(q[u]) /\ t[j] = q[u][Before(v, j)]
      BY <1>2, <2>1, <3>1 DEF Free, InQueue
    <3>3. Before(v, j) \in 1..Len(q[u])
      BY <1>1, <2>1, <3>1, <3>2
    <3>4. (IF Before(v, j) < at THEN Before(v, j) ELSE Before(v, j) + 1) = j
      BY <1>1, <2>1, <3>1, <3>2
    <3> QED BY <1>1, <3>3, <3>4
  <2>2. CASE v # u
    BY <1>2, <2>2 DEF Free, InQueue
  <2> QED BY <2>1, <2>2
<1>4. PicqDistinct'
  <2> SUFFICES ASSUME NEW v \in Queues, NEW w \in Queues,
                      NEW j \in 1..Len(q'[v]), NEW k \in 1..Len(q'[w]), q'[v][j] = q'[w][k]
               PROVE  v = w /\ j = k
    BY DEF PicqDistinct
  <2>1. CASE (v = u /\ j = at) \/ (w = u /\ k = at)
    BY <1>1, <1>2, <1>3, <2>1
  <2>2. CASE ~(v = u /\ j = at) /\ ~(w = u /\ k = at)
    <3>1. PICK jj \in 1..Len(q[v]) : jj = Before(v, j) /\ q'[v][j] = q[v][jj]
      BY <1>3, <2>2
    <3>2. PICK kk \in 1..Len(q[w]) : kk = Before(w, k) /\ q'[w][k] = q[w][kk]
      BY <1>3, <2>2
    <3>3. q[v][jj] = q[w][kk]
      BY <3>1, <3>2
    <3>4. v = w /\ jj = kk
      <4> HIDE DEF Before
      <4> QED BY <1>1, <3>3 DEF PicqDistinct
    <3>5. j \in Nat /\ k \in Nat
      BY <1>3
    <3> QED BY <1>1, <2>2, <3>1, <3>2, <3>4, <3>5
  <2> QED BY <2>1, <2>2
<1>5. ASSUME NEW z \in Nodes, Free(z)'
      PROVE  z # x /\ Free(z)
  <2>1. \A v \in Queues : \A j \in 1..Len(q'[v]) : q'[v][j] # z
    BY <1>5 DEF Free, InQueue
  <2>2. z # x
    BY <1>1, <1>2, <2>1
  <2>3. ASSUME NEW v \in Queues, NEW j \in 1..Len(q[v])
        PROVE  q[v][j] # z
    <3>1. CASE v = u
      <4>1. (IF j < at THEN j ELSE j + 1) \in 1..Len(t)
        BY <1>1, <3>1
      <4> QED BY <1>1, <1>2, <2>1, <3>1, <4>1
    <3>2. CASE v # u
      BY <1>2, <2>1, <3>2
    <3> QED BY <3>1, <3>2
  <2> QED BY <2>2, <2>3 DEF Free, InQueue
<1> QED BY <1>2, <1>4, <1>5

(* The pointers of the queues that a step leaves alone, when it changes    *)
(* those of a node of u or of a free node only.                            *)
LEMMA OthersLinked ==
  ASSUME PicqInv, NEW u \in Queues, NEW v \in Queues, v # u, NEW x \in Nodes, Free(x), NEW y,
         y = NULL \/ InQueue(q[u], y),
         NEW nn, NEW pp,
         \A z \in Nodes : z # x /\ z # y => nn[z] = n[z] /\ pp[z] = p[z]
  PROVE  Linked(q[v], qhead[v], qtail[v], nn, pp)
<1>1. Linked(q[v], qhead[v], qtail[v], n, p) /\ q[v] \in Seq(Nodes) /\ NULL \notin Nodes
  BY LinkedQueues, NullAssumption DEF PicqInv
<1>2. ASSUME NEW j \in 1..Len(q[v])
      PROVE  nn[q[v][j]] = n[q[v][j]] /\ pp[q[v][j]] = p[q[v][j]]
  <2>1. q[v][j] \in Nodes /\ q[v][j] # x
    BY <1>1 DEF Free, InQueue
  <2>2. q[v][j] # y
    BY <1>1, <2>1 DEF PicqInv, PicqDistinct, InQueue
  <2> QED BY <2>1, <2>2
<1> QED BY <1>1, <1>2 DEF Linked

LEMMA EnQInv ==
  ASSUME PicqInv, NEW u \in Queues, NEW x \in Nodes, Free(x), piqEnQNode(u, x)
  PROVE  PicqInv'
<1> DEFINE s == q[u]  L == Len(s)  h == qhead[u]  t == Append(s, x)
<1>1. /\ s \in Seq(Nodes) /\ L \in Nat /\ NULL \notin Nodes
      /\ p \in [Nodes -> OrNull] /\ n \in [Nodes -> OrNull]
      /\ qhead \in [Queues -> OrNull] /\ qtail \in [Queues -> OrNull]
      /\ Linked(s, h, qtail[u], n, p)
      /\ \A j \in 1..L : s[j] \in Nodes /\ s[j] # x
      /\ n[x] = NULL /\ p[x] = NULL
  BY NullAssumption, LinkedQueues DEF PicqInv, Free, InQueue, Unlinked
<1>2. s = <<>> <=> L = 0
  BY <1>1, EmptySeq
<1>3. h = (IF L = 0 THEN NULL ELSE s[L]) /\ h \in OrNull /\ (L # 0 => h \in Nodes /\ h # x)
      /\ (h = NULL <=> L = 0)
  BY <1>1, <1>2 DEF Linked, OrNull
<1>4. /\ t \in Seq(Nodes) /\ Len(t) = L + 1 /\ t[L + 1] = x
      /\ \A j \in 1..L : t[j] = s[j]
      /\ t # <<>>
  BY <1>1
<1>5. Inserted(u, x, t, L + 1)
  <2>1. q' = [q EXCEPT ![u] = t]
    BY DEF piqEnQNode, piqEnQ
  <2>2. \A j \in 1..L : (IF j < L + 1 THEN j ELSE j + 1) = j
    BY <1>1
  <2> QED BY <1>1, <1>4, <2>1, <2>2 DEF Inserted
<1>6. /\ q' \in [Queues -> Seq(Nodes)] /\ q'[u] = t
      /\ \A v \in Queues : v # u => q'[v] = q[v]
      /\ PicqDistinct'
      /\ \A z \in Nodes : Free(z)' => z # x /\ Free(z)
  BY <1>5, InsertedDistinct
<1> HIDE DEF t
<1>7. /\ p' \in [Nodes -> OrNull] /\ n' \in [Nodes -> OrNull]
      /\ \A z \in Nodes : p'[z] = IF z = x THEN h ELSE p[z]
      /\ \A z \in Nodes : n'[z] = IF L # 0 /\ z = h THEN x ELSE n[z]
  <2>1. p' = [p EXCEPT ![x] = h] /\ n' = IF h # NULL THEN [n EXCEPT ![h] = x] ELSE n
    BY DEF piqEnQNode
  <2>2. p' \in [Nodes -> OrNull] /\ \A z \in Nodes : p'[z] = IF z = x THEN h ELSE p[z]
    BY <1>1, <1>3, <2>1
  <2>3. CASE L = 0
    BY <1>1, <1>3, <2>1, <2>2, <2>3
  <2>4. CASE L # 0
    <3>1. n' = [n EXCEPT ![h] = x] /\ h \in Nodes /\ x \in OrNull
      BY <1>3, <2>1, <2>4 DEF OrNull
    <3> QED BY <1>1, <2>2, <2>4, <3>1
  <2> QED BY <2>3, <2>4
<1>8. /\ qhead' \in [Queues -> OrNull] /\ qtail' \in [Queues -> OrNull]
      /\ qhead'[u] = x /\ qtail'[u] = (IF L # 0 THEN qtail[u] ELSE x)
      /\ \A v \in Queues : v # u => qhead'[v] = qhead[v] /\ qtail'[v] = qtail[v]
  BY <1>1, <1>3 DEF piqEnQNode, OrNull
<1>9. ASSUME NEW v \in Queues, v # u
      PROVE  Linked(q'[v], qhead'[v], qtail'[v], n', p')
  <2>1. h = NULL \/ InQueue(s, h)
    BY <1>1, <1>3 DEF InQueue
  <2>2. \A z \in Nodes : z # x /\ z # h => n'[z] = n[z] /\ p'[z] = p[z]
    BY <1>7
  <2>3. Linked(q[v], qhead[v], qtail[v], n', p')
    BY <1>9, <2>1, <2>2, OthersLinked
  <2> QED BY <1>6, <1>8, <1>9, <2>3
<1>10. Linked(t, qhead'[u], qtail'[u], n', p')
  <2>1. qtail'[u] = t[1] /\ qhead'[u] = t[L + 1]
    BY <1>1, <1>2, <1>4, <1>8 DEF Linked
  <2>2. ASSUME NEW j \in 1..L + 1
        PROVE  /\ n'[t[j]] = IF j = L + 1 THEN NULL ELSE t[j + 1]
               /\ p'[t[j]] = IF j = 1 THEN NULL ELSE t[j - 1]
    <3>1. CASE j = L + 1
      <4>1. L # 0 => L \in 1..L
        BY <1>1
      <4> QED BY <1>1, <1>3, <1>4, <1>7, <3>1, <4>1
    <3>2. CASE j # L + 1
      <4>1. j \in 1..L /\ L # 0 /\ t[j] = s[j] /\ s[j] \in Nodes /\ s[j] # x
        BY <1>1, <1>4, <3>2
      <4>2. /\ n[s[j]] = IF j = L THEN NULL ELSE s[j + 1]
            /\ p[s[j]] = IF j = 1 THEN NULL ELSE s[j - 1]
        BY <1>1, <4>1 DEF Linked
      <4>3. s[j] = h <=> j = L
        BY <1>1, <1>3, <4>1 DEF PicqInv, PicqDistinct
      <4>4. n'[s[j]] = (IF j = L THEN x ELSE s[j + 1]) /\ p'[s[j]] = p[s[j]]
        BY <1>7, <4>1, <4>2, <4>3
      <4>5. t[j + 1] = IF j = L THEN x ELSE s[j + 1]
        BY <1>1, <1>4, <4>1, SMTT(30)
      <4>6. j # 1 => t[j - 1] = s[j - 1]
        BY <1>1, <1>4, <4>1
      <4> QED BY <3>2, <4>1, <4>2, <4>4, <4>5, <4>6
    <3> QED BY <3>1, <3>2
  <2> QED BY <1>4, <2>1, <2>2 DEF Linked
<1>11. ASSUME NEW z \in Nodes, Free(z)'
       PROVE  n'[z] = NULL /\ p'[z] = NULL
  <2>1. z # x /\ Free(z)
    BY <1>6, <1>11
  <2>2. n[z] = NULL /\ p[z] = NULL
    BY <2>1 DEF PicqInv, PointersMatch, Unlinked
  <2>3. L # 0 => z # h
    BY <1>1, <1>3, <2>1 DEF Free, InQueue
  <2> QED BY <1>7, <2>1, <2>2, <2>3
<1>12. PointersMatch'
  <2>1. \A v \in Queues : Linked(q'[v], qhead'[v], qtail'[v], n', p')
    BY <1>6, <1>9, <1>10
  <2>2. \A z \in Nodes : Free(z)' => Unlinked(z)'
    BY <1>11 DEF Unlinked
  <2> QED BY <2>1, <2>2 DEF PointersMatch, Linked
<1> QED BY <1>6, <1>7, <1>8, <1>12 DEF PicqInv

LEMMA UnshiftInv ==
  ASSUME PicqInv, NEW u \in Queues, NEW x \in Nodes, Free(x), piqUnshift(u, x)
  PROVE  PicqInv'
<1> DEFINE s == q[u]  L == Len(s)  h == qtail[u]  t == <<x>> \o s
<1>1. /\ s \in Seq(Nodes) /\ L \in Nat /\ NULL \notin Nodes
      /\ p \in [Nodes -> OrNull] /\ n \in [Nodes -> OrNull]
      /\ qhead \in [Queues -> OrNull] /\ qtail \in [Queues -> OrNull]
      /\ Linked(s, qhead[u], h, n, p)
      /\ \A j \in 1..L : s[j] \in Nodes /\ s[j] # x
      /\ n[x] = NULL /\ p[x] = NULL
  BY NullAssumption, LinkedQueues DEF PicqInv, Free, InQueue, Unlinked
<1>2. s = <<>> <=> L = 0
  BY <1>1, EmptySeq
<1>3. h = (IF L = 0 THEN NULL ELSE s[1]) /\ h \in OrNull /\ (L # 0 => h \in Nodes /\ h # x)
      /\ (h = NULL <=> L = 0)
  BY <1>1, <1>2 DEF Linked, OrNull
<1>4. /\ t \in Seq(Nodes) /\ Len(t) = L + 1 /\ t[1] = x
      /\ \A j \in 1..L : t[j + 1] = s[j]
      /\ t # <<>>
  <2>1. <<x>> \in Seq(Nodes) /\ Len(<<x>>) = 1
    OBVIOUS
  <2> QED BY <1>1, <2>1
<1>5. Inserted(u, x, t, 1)
  <2>1. q' = [q EXCEPT ![u] = t]
    BY DEF piqUnshift
  <2>2. \A j \in 1..L : (IF j < 1 THEN j ELSE j + 1) = j + 1
    BY <1>1
  <2> QED BY <1>1, <1>4, <2>1, <2>2 DEF Inserted
<1>6. /\ q' \in [Queues -> Seq(Nodes)] /\ q'[u] = t
      /\ \A v \in Queues : v # u => q'[v] = q[v]
      /\ PicqDistinct'
      /\ \A z \in Nodes : Free(z)' => z # x /\ Free(z)
  BY <1>5, InsertedDistinct
<1> HIDE DEF t
<1>7. /\ p' \in [Nodes -> OrNull] /\ n' \in [Nodes -> OrNull]
      /\ \A z \in Nodes : n'[z] = IF z = x THEN h ELSE n[z]
      /\ \A z \in Nodes : p'[z] = IF L # 0 /\ z = h THEN x ELSE p[z]
  <2>1. n' = [n EXCEPT ![x] = h] /\ p' = IF h # NULL THEN [p EXCEPT ![h] = x] ELSE p
    BY DEF piqUnshift
  <2>2. n' \in [Nodes -> OrNull] /\ \A z \in Nodes : n'[z] = IF z = x THEN h ELSE n[z]
    BY <1>1, <1>3, <2>1
  <2>3. CASE L = 0
    BY <1>1, <1>3, <2>1, <2>2, <2>3
  <2>4. CASE L # 0
    <3>1. p' = [p EXCEPT ![h] = x] /\ h \in Nodes /\ x \in OrNull
      BY <1>3, <2>1, <2>4 DEF OrNull
    <3> QED BY <1>1, <2>2, <2>4, <3>1
  <2> QED BY <2>3, <2>4
<1>8. /\ qhead' \in [Queues -> OrNull] /\ qtail' \in [Queues -> OrNull]
      /\ qtail'[u] = x /\ qhead'[u] = (IF L # 0 THEN qhead[u] ELSE x)
      /\ \A v \in Queues : v # u => qhead'[v] = qhead[v] /\ qtail'[v] = qtail[v]
  BY <1>1, <1>3 DEF piqUnshift, OrNull
<1>9. ASSUME NEW v \in Queues, v # u
      PROVE  Linked(q'[v], qhead'[v], qtail'[v], n', p')
  <2>1. h = NULL \/ InQueue(s, h)
    BY <1>1, <1>3 DEF InQueue
  <2>2. \A z \in Nodes : z # x /\ z # h => n'[z] = n[z] /\ p'[z] = p[z]
    BY <1>7
  <2>3. Linked(q[v], qhead[v], qtail[v], n', p')
    BY <1>9, <2>1, <2>2, OthersLinked, SMTT(30)
  <2> QED BY <1>6, <1>8, <1>9, <2>3
<1>10. Linked(t, qhead'[u], qtail'[u], n', p')
  <2>1. qtail'[u] = t[1] /\ qhead'[u] = t[L + 1]
    <3>1. L # 0 => qhead[u] = s[L] /\ L \in 1..L
      BY <1>1, <1>2 DEF Linked
    <3> QED BY <1>1, <1>4, <1>8, <3>1
  <2>2. ASSUME NEW j \in 1..L + 1
        PROVE  /\ n'[t[j]] = IF j = L + 1 THEN NULL ELSE t[j + 1]
               /\ p'[t[j]] = IF j = 1 THEN NULL ELSE t[j - 1]
    <3>1. CASE j = 1
      <4>1. L # 0 => 1 \in 1..L /\ t[2] = s[1]
        BY <1>1, <1>4
      <4> QED BY <1>1, <1>3, <1>4, <1>7, <3>1, <4>1
    <3>2. CASE j # 1
      <4> DEFINE k == j - 1
      <4>1. k \in 1..L /\ L # 0 /\ j = k + 1 /\ t[j] = s[k] /\ s[k] \in Nodes /\ s[k] # x
        BY <1>1, <1>4, <3>2
      <4>2. /\ n[s[k]] = IF k = L THEN NULL ELSE s[k + 1]
            /\ p[s[k]] = IF k = 1 THEN NULL ELSE s[k - 1]
        BY <1>1, <4>1 DEF Linked
      <4>3. s[k] = h <=> k = 1
        BY <1>1, <1>3, <4>1 DEF PicqInv, PicqDistinct
      <4>4. p'[s[k]] = (IF k = 1 THEN x ELSE s[k - 1]) /\ n'[s[k]] = n[s[k]]
        BY <1>7, <4>1, <4>2, <4>3
      <4>5. t[j - 1] = IF k = 1 THEN x ELSE s[k - 1]
        <5>1. CASE k = 1
          BY <1>4, <4>1, <5>1
        <5>2. CASE k # 1
          <6>1. k - 1 \in 1..L /\ (k - 1) + 1 = j - 1
            BY <1>1, <4>1, <5>2
          <6> QED BY <1>4, <5>2, <6>1
        <5> QED BY <5>1, <5>2
      <4>6. j # L + 1 => t[j + 1] = s[k + 1]
        BY <1>1, <1>4, <4>1
      <4> QED BY <1>1, <3>2, <4>1, <4>2, <4>4, <4>5, <4>6
    <3> QED BY <3>1, <3>2
  <2> QED BY <1>4, <2>1, <2>2 DEF Linked
<1>11. ASSUME NEW z \in Nodes, Free(z)'
       PROVE  n'[z] = NULL /\ p'[z] = NULL
  <2>1. z # x /\ Free(z)
    BY <1>6, <1>11
  <2>2. n[z] = NULL /\ p[z] = NULL
    BY <2>1 DEF PicqInv, PointersMatch, Unlinked
  <2>3. L # 0 => z # h
    BY <1>1, <1>3, <2>1 DEF Free, InQueue
  <2> QED BY <1>7, <2>1, <2>2, <2>3
<1>12. PointersMatch'
  <2>1. \A v \in Queues : Linked(q'[v], qhead'[v], qtail'[v], n', p')
    BY <1>6, <1>9, <1>10
  <2>2. \A z \in Nodes : Free(z)' => Unlinked(z)'
    BY <1>11 DEF Unlinked
  <2> QED BY <2>1, <2>2 DEF PointersMatch, Linked
<1> QED BY <1>6, <1>7, <1>8, <1>12 DEF PicqInv

LEMMA PicqStep == PicqInv /\ [PicqNext]_nodeVars => PicqInv'
<1> SUFFICES ASSUME PicqInv, [PicqNext]_nodeVars
             PROVE  PicqInv'
  OBVIOUS
<1>1. ASSUME NEW u \in Queues, NEW x, InQueue(q[u], x), piqPickNode(u, x)
      PROVE  PicqInv'
  <2>1. PICK i \in 1..Len(q[u]) : q[u][i] = x
    BY <1>1 DEF InQueue
  <2> QED BY <1>1, <2>1, PickInQueue
<1>2. ASSUME NEW u \in Queues
      PROVE  /\ qhead[u] # NULL => InQueue(q[u], qhead[u])
             /\ qtail[u] # NULL => InQueue(q[u], qtail[u])
  <2>1. q[u] \in Seq(Nodes) /\ Linked(q[u], qhead[u], qtail[u], n, p)
    BY LinkedQueues DEF PicqInv
  <2>2. q[u] # <<>> => 1 \in 1..Len(q[u]) /\ Len(q[u]) \in 1..Len(q[u])
    BY <2>1
  <2> QED BY <2>1, <2>2 DEF Linked, InQueue
<1>3. ASSUME NEW u \in Queues, piqShift(u)
      PROVE  PicqInv'
  BY <1>1, <1>2, <1>3 DEF piqShift
<1>4. ASSUME NEW u \in Queues, piqDeQ(u)
      PROVE  PicqInv'
  BY <1>1, <1>2, <1>4 DEF piqDeQ
<1>5. ASSUME NEW u \in Queues, NEW x \in Nodes, Free(x) \/ InQueue(q[u], x), piqPickNode(u, x)
      PROVE  PicqInv'
  BY <1>1, <1>5, PickFree
<1>6. CASE UNCHANGED nodeVars
  BY <1>6 DEF nodeVars, PicqInv, PicqDistinct, PointersMatch, Free, Unlinked, InQueue
<1> QED BY <1>3, <1>4, <1>5, <1>6, EnQInv, UnshiftInv DEF PicqNext

(* The pointers of every queue are those of its sequence, however nodes    *)
(* are put at either end, taken from either end or picked from the middle  *)
(* and moved between queues (piqEnQ, piqUnshift, piqShift, piqDeQ,         *)
(* piqPick): for any number of queues and nodes.                           *)
THEOREM QueuesKeepTheirPointers == PicqSpec => []PointersMatch
<1>1. PicqInit => PicqInv
  <2> SUFFICES ASSUME PicqInit PROVE PicqInv
    OBVIOUS
  <2>1. /\ p \in [Nodes -> OrNull] /\ n \in [Nodes -> OrNull]
        /\ qhead \in [Queues -> OrNull] /\ qtail \in [Queues -> OrNull]
    BY DEF PicqInit, OrNull
  <2>2. <<>> \in Seq(Nodes) /\ Len(<<>>) = 0
    OBVIOUS
  <2>3. q \in [Queues -> Seq(Nodes)] /\ \A u \in Queues : q[u] = <<>> /\ Len(q[u]) = 0
    BY <2>2 DEF PicqInit
  <2>4. PicqDistinct
    BY <2>3 DEF PicqDistinct
  <2>5. PointersMatch
    BY <2>3 DEF PointersMatch, PicqInit, Unlinked
  <2> QED BY <2>1, <2>3, <2>4, <2>5 DEF PicqInv
<1>2. PicqInv => PointersMatch
  BY DEF PicqInv
<1> QED BY <1>1, <1>2, PicqStep, PTL DEF PicqSpec

----------------------------------------------------------------------------
(***************************************************************************)
(* The address maps: insertion                                             *)
(***************************************************************************)

(* Entries of an array, what is added to it, and the entry of an addition. *)
MapEntry == [a : Int, b : Int, ifnum : Nat]
Additions == NetPrefixes \X (Nat \ {0})
EntryOf(x) == [a |-> From(x[1]), b |-> To(x[1]), ifnum |-> x[2]]

Sorted(map) == \A i, j \in 1..Len(map) : i < j => map[i].b < map[j].a
Apart(P) == \A x, y \in P : x # y => To(x[1]) < From(y[1]) \/ To(y[1]) < From(x[1])

(* The array map holds an entry for each of the additions P, and is sorted *)
(* if they do not overlap.                                                 *)
Holds(map, P) ==
  /\ map \in Seq(MapEntry) /\ P \subseteq Additions
  /\ IsFiniteSet(P) /\ Cardinality(P) <= Len(map)
  /\ \A i \in 1..Len(map) : \E x \in P : map[i] = EntryOf(x)
  /\ \A x \in P : \E i \in 1..Len(map) : map[i] = EntryOf(x)
  /\ Cardinality(P) = Len(map) /\ Apart(P) => Sorted(map)

(* A prefix is in its range.                                               *)
LEMMA PrefixInRange ==
  ASSUME NEW u \in NetPrefixes
  PROVE  /\ u[1] \in Int /\ From(u) \in Int /\ To(u) \in Int
         /\ From(u) <= u[1] /\ u[1] <= To(u)
<1>1. u[1] \in Int /\ u[1] >= 0 /\ u[2] \in Int /\ AddrBits - u[2] \in 0..AddrBits
  BY AddrAssumption
<1>2. 2^(AddrBits - u[2]) > 0 /\ 2^(AddrBits - u[2]) \in Int
  BY <1>1, MaskAssumption
<1> DEFINE m == 2^(AddrBits - u[2])
<1> HIDE DEF m
<1>3. m \in Int /\ m > 0 /\ qfPrefixMask(u) = m
  BY <1>2 DEF m, qfPrefixMask
<1>4. \A x \in Int : x % m \in 0..(m - 1)
  BY <1>3
<1>5. u[1] % m \in 0..(m - 1)
  BY <1>1, <1>4
<1> QED BY <1>1, <1>3, <1>5 DEF From, To

LEMMA EntryIsRange ==
  ASSUME NEW x \in Additions
  PROVE  /\ EntryOf(x) \in MapEntry /\ EntryOf(x).a = From(x[1]) /\ EntryOf(x).b = To(x[1])
         /\ EntryOf(x).ifnum = x[2] /\ x[2] # 0
         /\ x[1] \in NetPrefixes /\ x[1][1] \in Int
         /\ From(x[1]) <= x[1][1] /\ x[1][1] <= To(x[1])
<1>1. x[1] \in NetPrefixes /\ x[2] \in Nat \ {0}
  BY DEF Additions
<1> QED BY <1>1, PrefixInRange DEF EntryOf, MapEntry

(* The array with e at i, the rest moved up.                               *)
InsertedAt(new, map, i, e) ==
  /\ new \in Seq(MapEntry) /\ Len(new) = Len(map) + 1
  /\ \A j \in 1..(Len(map) + 1) :
       new[j] = IF j = i THEN e ELSE IF j < i THEN map[j] ELSE map[j - 1]

(* Insertion does that, if entries are shifted as intended.                *)
LEMMA InsertionAt ==
  ASSUME NEW map \in Seq(MapEntry), NEW u \in NetPrefixes, NEW ifnum \in Nat \ {0},
         NEW i \in 1..(Len(map) + 1), i = Position(map, u[1])
  PROVE  InsertedAt(qfMapInsert(map, u, ifnum, FALSE), map, i, EntryOf(<<u, ifnum>>))
<1> DEFINE e == EntryOf(<<u, ifnum>>)
           k == Len(map)
           room == IF i > Len(map) THEN Append(map, 0) ELSE Moved(map, i)
<1>1. k \in Nat /\ i \in 1..(k + 1)
  BY LenProperties
<1>2. <<u, ifnum>> \in Additions /\ e \in MapEntry
  BY EntryIsRange DEF Additions
<1>3. e = [a |-> From(u), b |-> To(u), ifnum |-> ifnum]
  BY DEF EntryOf
<1> HIDE DEF e
<1>4. qfMapInsert(map, u, ifnum, FALSE) = [room EXCEPT ![i] = e]
  BY <1>3 DEF qfMapInsert
<1>5. /\ room \in Seq(MapEntry \cup {0}) /\ Len(room) = k + 1
      /\ \A j \in 1..(k + 1) : /\ j < i => room[j] = map[j]
                               /\ j > i => room[j] = map[j - 1]
  <2>1. map \in Seq(MapEntry \cup {0})
    BY SeqMonotonic
  <2>2. CASE i > k
    <3>1. room = Append(map, 0)
      BY <2>2
    <3>2. /\ Append(map, 0) \in Seq(MapEntry \cup {0}) /\ Len(Append(map, 0)) = k + 1
          /\ \A j \in 1..k : Append(map, 0)[j] = map[j]
      BY <2>1, AppendProperties
    <3> HIDE DEF room
    <3> QED BY <1>1, <2>2, <3>1, <3>2
  <2>3. CASE i <= k
    <3> DEFINE s1 == SubSeq(map, 1, i)
               s2 == SubSeq(map, i, k)
    <3>1. room = s1 \o s2
      <4>1. ~(i > Len(map))
        BY <1>1, <2>3
      <4>2. room = Moved(map, i)
        BY <4>1, Zenon
      <4> QED BY <4>2, Zenon DEF Moved
    <3>2. s1 \in Seq(MapEntry \cup {0}) /\ Len(s1) = i /\ \A j \in 1..i : s1[j] = map[j]
      <4>1. \A j \in 1..i : map[j] \in MapEntry \cup {0}
        BY <1>1, <2>3, ElementOfSeq
      <4> QED BY <1>1, <4>1, SubSeqProperties
    <3>3. /\ s2 \in Seq(MapEntry \cup {0}) /\ Len(s2) = k - i + 1
          /\ \A j \in 1..(k - i + 1) : s2[j] = map[i + j - 1]
      <4>1. \A j \in i..k : map[j] \in MapEntry \cup {0}
        BY <1>1, <2>3, ElementOfSeq
      <4> QED BY <1>1, <2>3, <4>1, SubSeqProperties
    <3> HIDE DEF s1, s2, room
    <3>4. /\ room \in Seq(MapEntry \cup {0}) /\ Len(room) = Len(s1) + Len(s2)
          /\ \A j \in 1..(Len(s1) + Len(s2)) :
               room[j] = IF j <= Len(s1) THEN s1[j] ELSE s2[j - Len(s1)]
      BY <3>1, <3>2, <3>3, ConcatProperties
    <3>5. Len(room) = k + 1
      BY <1>1, <3>2, <3>3, <3>4
    <3>6. ASSUME NEW j \in 1..(k + 1)
          PROVE  /\ j < i => room[j] = map[j]
                 /\ j > i => room[j] = map[j - 1]
      <4>1. CASE j < i
        BY <1>1, <3>2, <3>3, <3>4, <4>1, SMTT(30)
      <4>2. CASE j > i
        <5>1. j - i \in 1..(k - i + 1) /\ i + (j - i) - 1 = j - 1
          BY <1>1, <4>2
        <5>2. j \in 1..(Len(s1) + Len(s2)) /\ ~(j <= Len(s1)) /\ j - Len(s1) = j - i
          BY <1>1, <3>2, <3>3, <4>2
        <5>3. room[j] = s2[j - i]
          BY <3>4, <5>2
        <5>4. s2[j - i] = map[j - 1]
          BY <3>3, <5>1
        <5> QED BY <1>1, <4>2, <5>3, <5>4
      <4> QED BY <1>1, <4>1, <4>2
    <3> QED BY <3>4, <3>5, <3>6
  <2> HIDE DEF room
  <2> QED BY <1>1, <2>2, <2>3
<1> DEFINE new == [room EXCEPT ![i] = e]
<1> HIDE DEF room
<1>6. /\ new \in Seq(MapEntry \cup {0}) /\ Len(new) = k + 1
      /\ \A j \in 1..(k + 1) : new[j] = IF j = i THEN e ELSE room[j]
  BY <1>1, <1>2, <1>5, ExceptSeq
<1> HIDE DEF new
<1>7. \A j \in 1..(k + 1) : new[j] = IF j = i THEN e ELSE IF j < i THEN map[j] ELSE map[j - 1]
  BY <1>1, <1>5, <1>6
<1>8. new \in Seq(MapEntry)
  <2>1. ASSUME NEW j \in 1..(k + 1)
        PROVE  new[j] \in MapEntry
    <3>1. CASE j < i
      BY <1>1, <1>7, <3>1, ElementOfSeq
    <3>2. CASE j > i
      <4>1. j - 1 \in 1..k
        BY <1>1, <3>2
      <4>2. map[j - 1] \in MapEntry
        BY <4>1, ElementOfSeq
      <4> QED BY <1>1, <1>7, <3>2, <4>2
    <3> QED BY <1>1, <1>2, <1>7, <3>1, <3>2
  <2>2. new \in [1..(k + 1) -> MapEntry]
    BY <1>6, <2>1, LenProperties
  <2> QED BY <1>1, <2>2
<1>9. InsertedAt(new, map, i, e)
  BY <1>6, <1>7, <1>8 DEF InsertedAt
<1> QED BY <1>4, <1>9 DEF new, e

(* A nonempty set of numbers has a least element.                          *)
LEMMA LessThanRelation ==
  \E R : IsWellFoundedOn(R, Nat) /\ \A x, y \in Nat : <<y, x>> \in R <=> y < x
<1>1. \A x, y \in Nat : <<y, x>> \in OpToRel(<, Nat) <=> y < x
  BY Zenon DEF OpToRel
<1> QED BY <1>1, NatLessThanWellFounded, Zenon

LEMMA LeastNumber ==
  ASSUME NEW S \in SUBSET Nat, S # {}
  PROVE  \E x \in S : \A y \in S : x <= y
<1>1. PICK R : IsWellFoundedOn(R, Nat) /\ \A x, y \in Nat : <<y, x>> \in R <=> y < x
  BY LessThanRelation
<1>2. PICK x \in S : \A y \in S : ~(<<y, x>> \in R)
  BY <1>1, WFMin, Zenon
<1>3. \A y \in S : ~(y < x)
  BY <1>1, <1>2
<1> QED BY <1>2, <1>3

(* The gaps of a search, and the place it ends at.                         *)
Gaps(map, addr) == {i \in 2..Len(map) : map[i - 1].b < addr /\ addr < map[i].a}

LEMMA PositionCases ==
  ASSUME NEW map \in Seq(MapEntry), NEW addr
  PROVE  LET k == Len(map)
             i == Position(map, addr)
         IN  /\ i \in 1..(k + 1)
             /\ \/ (k = 0 \/ addr < map[1].a) /\ i = 1
                \/ k # 0 /\ ~(addr < map[1].a) /\ addr > map[k].b /\ i = k + 1
                \/ k # 0 /\ ~(addr < map[1].a) /\ ~(addr > map[k].b)
                   /\ (IF Gaps(map, addr) = {} THEN i = k + 1 ELSE i \in Gaps(map, addr))
<1> DEFINE k == Len(map)
           G == Gaps(map, addr)
           least == CHOOSE i \in G : \A j \in G : i <= j
<1>1. k \in Nat
  BY LenProperties
<1>2. G \in SUBSET Nat /\ \A i \in G : i \in 1..(k + 1)
  BY <1>1 DEF Gaps
<1>3. G # {} => least \in G
  <2> HIDE DEF G
  <2> QED BY <1>2, LeastNumber
<1>4. Position(map, addr) = IF k = 0 \/ addr < map[1].a THEN 1
                            ELSE IF addr > map[k].b \/ G = {} THEN k + 1 ELSE least
  BY Zenon DEF Position, Gaps
<1> HIDE DEF G, k, least
<1>5. 1 \in 1..(k + 1) /\ k + 1 \in 1..(k + 1)
  BY <1>1
<1> QED BY <1>2, <1>3, <1>4, <1>5 DEF G, k

LEMMA PositionFits ==
  ASSUME NEW map \in Seq(MapEntry), Sorted(map), NEW addr \in Int,
         \A i \in 1..Len(map) : map[i].a <= map[i].b /\ (addr < map[i].a \/ map[i].b < addr)
  PROVE  \A j \in 1..Len(map) :
           IF j < Position(map, addr) THEN map[j].b < addr ELSE addr < map[j].a
<1> DEFINE k == Len(map)
           i == Position(map, addr)
<1>1. k \in Nat /\ i \in 1..(k + 1)
  BY LenProperties, PositionCases
<1>2. \A j \in 1..k : map[j].a \in Int /\ map[j].b \in Int
  <2>1. \A j \in 1..k : map[j] \in MapEntry
    BY ElementOfSeq
  <2> QED BY <2>1 DEF MapEntry
<1>3. \A j, l \in 1..k : j < l => map[j].b < map[l].a
  BY DEF Sorted
<1>4. \A j \in 1..k : map[j].a <= map[j].b /\ (addr < map[j].a \/ map[j].b < addr)
  OBVIOUS
<1> SUFFICES ASSUME NEW j \in 1..k
             PROVE  IF j < i THEN map[j].b < addr ELSE addr < map[j].a
  BY Zenon
<1>5. CASE addr < map[1].a /\ i = 1
  <2>1. 1 \in 1..k /\ (j = 1 \/ 1 < j)
    BY <1>1
  <2> QED BY <1>2, <1>3, <1>4, <1>5, <2>1
<1>6. CASE k # 0 /\ addr > map[k].b /\ i = k + 1
  <2>1. k \in 1..k /\ (j = k \/ j < k) /\ j < i
    BY <1>1, <1>6
  <2> QED BY <1>2, <1>3, <1>4, <1>6, <2>1
<1>7. CASE i \in Gaps(map, addr)
  <2>1. i \in 2..k /\ map[i - 1].b < addr /\ addr < map[i].a
    BY <1>7 DEF Gaps
  <2>2. i - 1 \in 1..k /\ i \in 1..k
    BY <1>1, <2>1
  <2>3. CASE j < i
    <3>1. j = i - 1 \/ j < i - 1
      BY <1>1, <2>2, <2>3
    <3> QED BY <1>2, <1>3, <1>4, <2>1, <2>2, <2>3, <3>1
  <2>4. CASE ~(j < i)
    <3>1. j = i \/ i < j
      BY <1>1, <2>2, <2>4
    <3> QED BY <1>2, <1>3, <1>4, <2>1, <2>2, <2>4, <3>1
  <2> QED BY <2>3, <2>4
<1>8. CASE k # 0 /\ ~(addr < map[1].a) /\ ~(addr > map[k].b) /\ Gaps(map, addr) = {}
  <2> DEFINE S == {l \in 1..k : addr < map[l].a}
  <2>1. k \in 1..k /\ 1 \in 1..k
    BY <1>1, <1>8
  <2>2. k \in S /\ 1 \notin S /\ S \in SUBSET Nat
    BY <1>2, <1>4, <1>8, <2>1
  <2>3. PICK l \in S : \A m \in S : l <= m
    BY <2>2, LeastNumber
  <2>4. l \in 2..k /\ l - 1 \in 1..k /\ l - 1 \notin S
    BY <1>1, <2>2, <2>3
  <2>5. l \in Gaps(map, addr)
    BY <1>2, <1>4, <2>3, <2>4 DEF Gaps
  <2> QED BY <1>8, <2>5
<1> HIDE DEF i
<1>9. k = 0 \/ (addr < map[1].a /\ i = 1) \/ (k # 0 /\ addr > map[k].b /\ i = k + 1)
      \/ i \in Gaps(map, addr)
      \/ (k # 0 /\ ~(addr < map[1].a) /\ ~(addr > map[k].b) /\ Gaps(map, addr) = {})
  BY PositionCases, Zenon DEF i
<1> QED BY <1>1, <1>5, <1>6, <1>7, <1>8, <1>9

(* Insertion keeps the array sorted while additions do not overlap.        *)
LEMMA InsertionSorted ==
  ASSUME NEW map \in Seq(MapEntry), NEW P \in SUBSET Additions, NEW x \in Additions, x \notin P,
         Sorted(map), \A i \in 1..Len(map) : \E y \in P : map[i] = EntryOf(y),
         Apart(P \cup {x}), NEW new,
         InsertedAt(new, map, Position(map, x[1][1]), EntryOf(x))
  PROVE  Sorted(new)
<1> DEFINE k == Len(map)
           addr == x[1][1]
           i == Position(map, addr)
           e == EntryOf(x)
<1>1. k \in Nat /\ i \in 1..(k + 1) /\ Len(new) = k + 1
  BY LenProperties, PositionCases DEF InsertedAt
<1>2. /\ addr \in Int /\ e.a \in Int /\ e.b \in Int /\ e.a <= addr /\ addr <= e.b
      /\ e.a = From(x[1]) /\ e.b = To(x[1])
  BY EntryIsRange DEF MapEntry
<1>3. ASSUME NEW j \in 1..k
      PROVE  /\ map[j].a \in Int /\ map[j].b \in Int /\ map[j].a <= map[j].b
             /\ e.b < map[j].a \/ map[j].b < e.a
  <2>1. PICK y \in P : map[j] = EntryOf(y)
    OBVIOUS
  <2>2. y \in Additions /\ y # x
    OBVIOUS
  <2>3. To(x[1]) < From(y[1]) \/ To(y[1]) < From(x[1])
    BY <2>2 DEF Apart
  <2>4. /\ map[j].a \in Int /\ map[j].b \in Int /\ map[j].a <= map[j].b
        /\ map[j].a = From(y[1]) /\ map[j].b = To(y[1])
    <3>1. EntryOf(y) \in MapEntry /\ EntryOf(y).a <= EntryOf(y).b
          /\ EntryOf(y).a = From(y[1]) /\ EntryOf(y).b = To(y[1])
      <4>1. EntryOf(y) \in MapEntry
        BY <2>2, EntryIsRange
      <4>2. From(y[1]) \in Int /\ To(y[1]) \in Int /\ From(y[1]) <= To(y[1])
        <5>1. y[1] \in NetPrefixes
          BY <2>2 DEF Additions
        <5> QED BY <5>1, PrefixInRange
      <4> QED BY <4>1, <4>2, <2>2, EntryIsRange
    <3> QED BY <2>1, <3>1 DEF MapEntry
  <2>5. map[j].a > e.b \/ map[j].b < e.a
    BY <1>2, <2>3, <2>4
  <2> QED BY <2>4, <2>5
<1>4. \A j \in 1..k : map[j].a <= map[j].b /\ (addr < map[j].a \/ map[j].b < addr)
  BY <1>2, <1>3
<1>5. \A j \in 1..k : IF j < i THEN map[j].b < addr ELSE addr < map[j].a
  BY <1>2, <1>4, PositionFits
<1>6. \A j \in 1..k : IF j < i THEN map[j].b < e.a ELSE e.b < map[j].a
  BY <1>2, <1>3, <1>5
<1>7. \A j \in 1..(k + 1) : new[j] = IF j = i THEN e ELSE IF j < i THEN map[j] ELSE map[j - 1]
  BY DEF InsertedAt
<1>8. \A j, l \in 1..k : j < l => map[j].b < map[l].a
  BY DEF Sorted
<1> HIDE DEF i, e, addr, k
<1>9. SUFFICES ASSUME NEW j \in 1..(k + 1), NEW l \in 1..(k + 1), j < l
               PROVE  new[j].b < new[l].a
  BY <1>1 DEF Sorted
<1>10. CASE l < i
  <2>1. j \in 1..k /\ l \in 1..k /\ j < i /\ j # i /\ l # i
    BY <1>1, <1>9, <1>10
  <2> QED BY <1>7, <1>8, <1>9, <1>10, <2>1
<1>11. CASE l = i
  <2>1. j \in 1..k /\ j < i /\ j # i
    BY <1>1, <1>9, <1>11
  <2> QED BY <1>6, <1>7, <1>11, <2>1
<1>12. CASE l > i
  <2>1. l - 1 \in 1..k /\ l # i /\ ~(l < i) /\ ~(l - 1 < i)
    BY <1>1, <1>12
  <2>2. new[l] = map[l - 1]
    BY <1>7, <2>1
  <2>3. CASE j < i
    <3>1. j \in 1..k /\ j # i /\ j < l - 1
      BY <1>1, <1>12, <2>3
    <3> QED BY <1>7, <1>8, <2>1, <2>2, <2>3, <3>1
  <2>4. CASE j = i
    BY <1>6, <1>7, <2>1, <2>2, <2>4
  <2>5. CASE j > i
    <3>1. j - 1 \in 1..k /\ j # i /\ ~(j < i) /\ j - 1 < l - 1
      BY <1>1, <1>9, <2>5
    <3>2. new[j] = map[j - 1]
      BY <1>7, <3>1
    <3> QED BY <1>8, <2>1, <2>2, <3>1, <3>2
  <2> QED BY <1>1, <2>3, <2>4, <2>5
<1> QED BY <1>1, <1>10, <1>11, <1>12

LEMMA InsertionHolds ==
  ASSUME NEW map, NEW P, Holds(map, P), NEW x \in Additions
  PROVE  Holds(qfMapInsert(map, x[1], x[2], FALSE), P \cup {x})
<1> DEFINE k == Len(map)
           i == Position(map, x[1][1])
           e == EntryOf(x)
           new == qfMapInsert(map, x[1], x[2], FALSE)
           P2 == P \cup {x}
<1>1. /\ map \in Seq(MapEntry) /\ P \in SUBSET Additions /\ IsFiniteSet(P) /\ Cardinality(P) <= k
      /\ \A j \in 1..k : \E y \in P : map[j] = EntryOf(y)
      /\ \A y \in P : \E j \in 1..k : map[j] = EntryOf(y)
  BY DEF Holds
<1>2. k \in Nat /\ i \in 1..(k + 1)
  BY <1>1, LenProperties, PositionCases
<1>3. InsertedAt(new, map, i, e)
  <2>1. x[1] \in NetPrefixes /\ x[2] \in Nat \ {0} /\ <<x[1], x[2]>> = x
    BY DEF Additions
  <2>2. InsertedAt(new, map, i, EntryOf(<<x[1], x[2]>>))
    BY <1>1, <1>2, <2>1, InsertionAt
  <2> QED BY <2>1, <2>2
<1> HIDE DEF new, i, e
<1>4. /\ new \in Seq(MapEntry) /\ Len(new) = k + 1
      /\ \A j \in 1..(k + 1) : new[j] = IF j = i THEN e ELSE IF j < i THEN map[j] ELSE map[j - 1]
  BY <1>3 DEF InsertedAt
<1>5. /\ IsFiniteSet(P2) /\ Cardinality(P) \in Nat /\ Cardinality(P2) \in Nat
      /\ Cardinality(P2) = IF x \in P THEN Cardinality(P) ELSE Cardinality(P) + 1
  BY <1>1, FS_AddElement, FS_CardinalityType
<1>6. P2 \subseteq Additions
  BY <1>1
<1>7. ASSUME NEW j \in 1..(k + 1)
      PROVE  \E y \in P2 : new[j] = EntryOf(y)
  <2>1. CASE j = i
    BY <1>4, <2>1 DEF e
  <2>2. CASE j < i
    <3>1. j \in 1..k /\ j # i
      BY <1>2, <2>2
    <3> QED BY <1>1, <1>4, <2>2, <3>1
  <2>3. CASE j > i
    <3>1. j - 1 \in 1..k /\ j # i /\ ~(j < i)
      BY <1>2, <2>3
    <3> QED BY <1>1, <1>4, <2>3, <3>1
  <2> QED BY <1>2, <2>1, <2>2, <2>3
<1>8. ASSUME NEW y \in P2
      PROVE  \E j \in 1..(k + 1) : new[j] = EntryOf(y)
  <2>1. CASE y = x
    BY <1>2, <1>4, <2>1 DEF e
  <2>2. CASE y \in P
    <3>1. PICK j \in 1..k : map[j] = EntryOf(y)
      BY <1>1, <2>2
    <3>2. CASE j < i
      <4>1. j \in 1..(k + 1) /\ j # i
        BY <1>2, <3>2
      <4> QED BY <1>4, <3>1, <3>2, <4>1
    <3>3. CASE j >= i
      <4>1. j + 1 \in 1..(k + 1) /\ j + 1 # i /\ ~(j + 1 < i) /\ (j + 1) - 1 = j
        BY <1>2, <3>3
      <4> QED BY <1>4, <3>1, <4>1
    <3> QED BY <1>2, <3>2, <3>3
  <2> QED BY <2>1, <2>2
<1>9. ASSUME Cardinality(P2) = k + 1, Apart(P2)
      PROVE  Sorted(new)
  <2>1. x \notin P /\ Cardinality(P) = k
    BY <1>1, <1>2, <1>5, <1>9
  <2>2. Apart(P)
    BY <1>9 DEF Apart
  <2>3. Sorted(map)
    BY <2>1, <2>2 DEF Holds
  <2> QED BY <1>1, <1>3, <1>9, <2>1, <2>3, InsertionSorted DEF e, i
<1>10. Cardinality(P2) <= Len(new)
  BY <1>1, <1>2, <1>4, <1>5
<1> HIDE DEF P2, k
<1>11. Holds(new, P2)
  BY <1>4, <1>5, <1>6, <1>7, <1>8, <1>9, <1>10 DEF Holds
<1> QED BY <1>11 DEF new, P2

----------------------------------------------------------------------------
(***************************************************************************)
(* The address maps: binary search                                         *)
(***************************************************************************)

(* What the search does with the entries from r[1] to r[2], f being the    *)
(* search itself ...                                                       *)
Spans(k) == (0..k) \X (-1..k - 1)
HalveStep(side, f, r) ==
  LET i == (r[1] + r[2]) \div 2
  IN  IF r[1] > r[2] THEN -1
      ELSE IF side[i] = "here" THEN i
      ELSE IF side[i] = "above" THEN f[<<i + 1, r[2]>>] ELSE f[<<r[1], i - 1>>]

(* ... and that f is it.                                                   *)
Halves(k, side, f) == f = [r \in Spans(k) |-> HalveStep(side, f, r)]

LEMMA HalvesAt ==
  ASSUME NEW k \in Nat, NEW side, NEW f, Halves(k, side, f), NEW r \in Spans(k)
  PROVE  f[r] = HalveStep(side, f, r)
<1> DEFINE g == [u \in Spans(k) |-> HalveStep(side, f, u)]
<1>1. f = g
  BY DEF Halves
<1>2. g[r] = HalveStep(side, f, r)
  OBVIOUS
<1> HIDE DEF g
<1> QED BY <1>1, <1>2

LEMMA Middle ==
  ASSUME NEW k \in Nat, NEW r \in Spans(k), r[1] <= r[2]
  PROVE  LET i == (r[1] + r[2]) \div 2
         IN  /\ i \in 0..k - 1 /\ r[1] <= i /\ i <= r[2] /\ r[1] \in Nat /\ r[2] \in Int
             /\ <<i + 1, r[2]>> \in Spans(k) /\ <<r[1], i - 1>> \in Spans(k)
<1>1. r[1] \in 0..k /\ r[2] \in -1..k - 1
  BY DEF Spans
<1>2. \A x \in 0..k : \A y \in -1..k - 1 : x <= y =>
        /\ (x + y) \div 2 \in 0..k - 1 /\ x <= (x + y) \div 2 /\ (x + y) \div 2 <= y
  OBVIOUS
<1> QED BY <1>1, <1>2 DEF Spans

(* There is but one such function.                                         *)
LEMMA HalvesUnique ==
  ASSUME NEW k \in Nat, NEW side, NEW f, Halves(k, side, f), NEW g, Halves(k, side, g)
  PROVE  \A r \in Spans(k) : f[r] = g[r]
<1> DEFINE Bad == {d \in Nat : \E r \in Spans(k) : r[2] - r[1] + 1 <= d /\ f[r] # g[r]}
<1>1. SUFFICES Bad = {}
  <2> SUFFICES ASSUME NEW r \in Spans(k), f[r] # g[r]
               PROVE  FALSE
    OBVIOUS
  <2>1. r[2] - r[1] + 1 <= k
    BY DEF Spans
  <2>2. k \in Bad
    BY <2>1
  <2> QED BY <1>1, <2>2
<1>2. SUFFICES ASSUME Bad # {}
               PROVE  FALSE
  OBVIOUS
<1>3. PICK d \in Bad : \A e \in Bad : d <= e
  BY <1>2, LeastNumber
<1>4. PICK r \in Spans(k) : r[2] - r[1] + 1 <= d /\ f[r] # g[r]
  BY <1>3
<1>5. f[r] = HalveStep(side, f, r) /\ g[r] = HalveStep(side, g, r)
  BY HalvesAt
<1>6. r[1] \in Int /\ r[2] \in Int
  BY DEF Spans
<1>7. r[1] <= r[2]
  BY <1>4, <1>5, <1>6 DEF HalveStep
<1> DEFINE i == (r[1] + r[2]) \div 2
<1>8. /\ i \in 0..k - 1 /\ r[1] <= i /\ i <= r[2]
      /\ <<i + 1, r[2]>> \in Spans(k) /\ <<r[1], i - 1>> \in Spans(k)
  BY <1>7, Middle
<1>9. ~(r[1] > r[2])
  BY <1>6, <1>7
<1>10. /\ f[r] = IF side[i] = "here" THEN i
                 ELSE IF side[i] = "above" THEN f[<<i + 1, r[2]>>] ELSE f[<<r[1], i - 1>>]
       /\ g[r] = IF side[i] = "here" THEN i
                 ELSE IF side[i] = "above" THEN g[<<i + 1, r[2]>>] ELSE g[<<r[1], i - 1>>]
  BY <1>5, <1>9 DEF HalveStep
<1> HIDE DEF i
<1>11. d \in Nat /\ d - 1 \in Nat /\ d - 1 \notin Bad
  BY <1>3, <1>4, <1>6, <1>7
<1>12. r[2] - (i + 1) + 1 <= d - 1 /\ (i - 1) - r[1] + 1 <= d - 1
  BY <1>4, <1>6, <1>8, <1>11
<1>13. \A u \in Spans(k) : u[2] - u[1] + 1 <= d - 1 => f[u] = g[u]
  BY <1>11
<1>14. f[<<i + 1, r[2]>>] = g[<<i + 1, r[2]>>] /\ f[<<r[1], i - 1>>] = g[<<r[1], i - 1>>]
  BY <1>8, <1>12, <1>13
<1> QED BY <1>4, <1>10, <1>14

(* So the search does what a function does that fits its definition.       *)
LEMMA HalveIs ==
  ASSUME NEW k \in Nat, NEW side, NEW w, Halves(k, side, w)
  PROVE  Halve(k, side) = w[<<0, k - 1>>]
<1> DEFINE find == CHOOSE f : Halves(k, side, f)
<1>1. Halves(k, side, find)
  OBVIOUS
<1>2. Halve(k, side) = find[<<0, k - 1>>]
  BY Zenon DEF Halve, Halves, HalveStep, Spans
<1>3. <<0, k - 1>> \in Spans(k)
  BY DEF Spans
<1> HIDE DEF find
<1> QED BY <1>1, <1>2, <1>3, HalvesUnique

(* A function w fits it that does what a step does.                        *)
LEMMA HalvesBy ==
  ASSUME NEW k \in Nat, NEW side, NEW w, w = [r \in Spans(k) |-> w[r]],
         \A r \in Spans(k) : w[r] = HalveStep(side, w, r)
  PROVE  Halves(k, side, w)
BY DEF Halves

(* The search finds the one entry that has what is sought ...              *)
LEMMA HalveFinds ==
  ASSUME NEW k \in Nat, NEW side, NEW h \in 0..k - 1, side[h] = "here",
         \A j \in 0..k - 1 : j < h => side[j] = "above",
         \A j \in 0..k - 1 : j > h => side[j] = "below"
  PROVE  Halve(k, side) = h
<1> DEFINE w == [r \in Spans(k) |-> IF r[1] <= h /\ h <= r[2] THEN h ELSE -1]
<1>1. w = [r \in Spans(k) |-> w[r]]
  OBVIOUS
<1>2. \A r \in Spans(k) : w[r] = IF r[1] <= h /\ h <= r[2] THEN h ELSE -1
  OBVIOUS
<1>3. <<0, k - 1>> \in Spans(k)
  BY DEF Spans
<1> HIDE DEF w
<1>4. ASSUME NEW r \in Spans(k)
      PROVE  w[r] = HalveStep(side, w, r)
  <2> DEFINE i == (r[1] + r[2]) \div 2
  <2>1. r[1] \in Int /\ r[2] \in Int
    BY DEF Spans
  <2>2. CASE r[1] > r[2]
    BY <1>2, <2>1, <2>2 DEF HalveStep
  <2>3. CASE r[1] <= r[2]
    <3>1. /\ i \in 0..k - 1 /\ r[1] <= i /\ i <= r[2]
          /\ <<i + 1, r[2]>> \in Spans(k) /\ <<r[1], i - 1>> \in Spans(k)
      BY <2>3, Middle
    <3>2. HalveStep(side, w, r) = IF side[i] = "here" THEN i
                                  ELSE IF side[i] = "above" THEN w[<<i + 1, r[2]>>]
                                  ELSE w[<<r[1], i - 1>>]
      BY <2>1, <2>3 DEF HalveStep
    <3>3. /\ w[<<i + 1, r[2]>>] = IF i + 1 <= h /\ h <= r[2] THEN h ELSE -1
          /\ w[<<r[1], i - 1>>] = IF r[1] <= h /\ h <= i - 1 THEN h ELSE -1
      BY <1>2, <3>1
    <3>4. w[r] = IF r[1] <= h /\ h <= r[2] THEN h ELSE -1
      BY <1>2
    <3> HIDE DEF i
    <3>5. CASE i = h
      BY <3>1, <3>2, <3>4, <3>5
    <3>6. CASE i < h
      BY <2>1, <3>1, <3>2, <3>3, <3>4, <3>6
    <3>7. CASE i > h
      BY <2>1, <3>1, <3>2, <3>3, <3>4, <3>7
    <3> QED BY <3>1, <3>5, <3>6, <3>7
  <2> QED BY <2>1, <2>2, <2>3
<1>5. w[<<0, k - 1>>] = h
  BY <1>2, <1>3
<1> QED BY <1>1, <1>4, <1>5, HalvesBy, HalveIs

(* ... nothing, if no entry has it ...                                     *)
LEMMA HalveMisses ==
  ASSUME NEW k \in Nat, NEW side, \A j \in 0..k - 1 : side[j] # "here"
  PROVE  Halve(k, side) = -1
<1> DEFINE w == [r \in Spans(k) |-> -1]
<1>1. w = [r \in Spans(k) |-> w[r]]
  OBVIOUS
<1>2. \A r \in Spans(k) : w[r] = -1
  OBVIOUS
<1>3. <<0, k - 1>> \in Spans(k)
  BY DEF Spans
<1> HIDE DEF w
<1>4. ASSUME NEW r \in Spans(k)
      PROVE  w[r] = HalveStep(side, w, r)
  <2>1. r[1] \in Int /\ r[2] \in Int
    BY DEF Spans
  <2>2. CASE r[1] > r[2]
    BY <1>2, <2>2 DEF HalveStep
  <2>3. CASE r[1] <= r[2]
    BY <1>2, <2>1, <2>3, Middle DEF HalveStep
  <2> QED BY <2>1, <2>2, <2>3
<1> QED BY <1>1, <1>2, <1>3, <1>4, HalvesBy, HalveIs

(* ... and some entry, if all have it.                                     *)
LEMMA HalveFindsAny ==
  ASSUME NEW k \in Nat \ {0}, NEW side, \A j \in 0..k - 1 : side[j] = "here"
  PROVE  Halve(k, side) # -1
<1> DEFINE w == [r \in Spans(k) |-> IF r[1] > r[2] THEN -1 ELSE (r[1] + r[2]) \div 2]
<1>1. w = [r \in Spans(k) |-> w[r]]
  OBVIOUS
<1>2. \A r \in Spans(k) : w[r] = IF r[1] > r[2] THEN -1 ELSE (r[1] + r[2]) \div 2
  OBVIOUS
<1>3. <<0, k - 1>> \in Spans(k)
  BY DEF Spans
<1> HIDE DEF w
<1>4. ASSUME NEW r \in Spans(k)
      PROVE  w[r] = HalveStep(side, w, r)
  <2>1. r[1] \in Int /\ r[2] \in Int
    BY DEF Spans
  <2>2. CASE r[1] > r[2]
    BY <1>2, <2>2 DEF HalveStep
  <2>3. CASE r[1] <= r[2]
    BY <1>2, <2>1, <2>3, Middle DEF HalveStep
  <2> QED BY <2>1, <2>2, <2>3
<1>5. w[<<0, k - 1>>] = (k - 1) \div 2
  BY <1>2, <1>3
<1>6. (k - 1) \div 2 # -1
  OBVIOUS
<1> QED BY <1>1, <1>4, <1>5, <1>6, HalvesBy, HalveIs

(* The entry that has the address, in a sorted array, and what it gives.   *)
LEMMA SearchFinds ==
  ASSUME NEW map \in Seq(MapEntry), Sorted(map), \A j \in 1..Len(map) : map[j].a <= map[j].b,
         NEW addr \in Int, NEW i \in 1..Len(map), map[i].a <= addr, addr <= map[i].b
  PROVE  qfMapSearch(map, addr) = map[i].ifnum
<1> DEFINE k == Len(map)
           side == [j \in 0..Len(map) - 1 |->
                      LET e == map[j + 1]
                      IN  IF e.a <= addr /\ addr <= e.b THEN "here"
                          ELSE IF (IF version = 4 THEN e.b ELSE e.a) < addr THEN "above"
                          ELSE "below"]
<1>1. k \in Nat /\ i - 1 \in 0..k - 1 /\ i \in 1..k /\ (i - 1) + 1 = i
  BY LenProperties
<1>2. \A j \in 1..k : map[j].a \in Int /\ map[j].b \in Int /\ map[j].a <= map[j].b
  <2>1. \A j \in 1..k : map[j] \in MapEntry
    BY ElementOfSeq
  <2> QED BY <2>1 DEF MapEntry
<1>3. \A j, l \in 1..k : j < l => map[j].b < map[l].a
  BY DEF Sorted
<1>4. side[i - 1] = "here"
  BY <1>1
<1>5. ASSUME NEW j \in 0..k - 1, j < i - 1
      PROVE  side[j] = "above"
  <2>1. j + 1 \in 1..k /\ j + 1 < i
    BY <1>1, <1>5
  <2>2. map[j + 1].b < addr /\ map[j + 1].a < addr /\ ~(addr <= map[j + 1].b)
    BY <1>2, <1>3, <2>1
  <2> QED BY <2>2
<1>6. ASSUME NEW j \in 0..k - 1, j > i - 1
      PROVE  side[j] = "below"
  <2>1. j + 1 \in 1..k /\ i < j + 1
    BY <1>1, <1>6
  <2>2. ~(map[j + 1].a <= addr) /\ ~(map[j + 1].b < addr) /\ ~(map[j + 1].a < addr)
    BY <1>2, <1>3, <2>1
  <2> QED BY <2>2
<1>7. qfMapSearch(map, addr) = IF Halve(k, side) = -1 THEN 0 ELSE map[Halve(k, side) + 1].ifnum
  BY Zenon DEF qfMapSearch
<1> HIDE DEF side
<1>8. Halve(k, side) = i - 1
  BY <1>1, <1>4, <1>5, <1>6, HalveFinds
<1> QED BY <1>1, <1>7, <1>8

LEMMA SearchMisses ==
  ASSUME NEW map \in Seq(MapEntry), NEW addr,
         \A j \in 1..Len(map) : ~(map[j].a <= addr /\ addr <= map[j].b)
  PROVE  qfMapSearch(map, addr) = 0
<1> DEFINE k == Len(map)
           side == [j \in 0..Len(map) - 1 |->
                      LET e == map[j + 1]
                      IN  IF e.a <= addr /\ addr <= e.b THEN "here"
                          ELSE IF (IF version = 4 THEN e.b ELSE e.a) < addr THEN "above"
                          ELSE "below"]
<1>1. k \in Nat
  BY LenProperties
<1>2. ASSUME NEW j \in 0..k - 1
      PROVE  side[j] # "here"
  <2>1. j + 1 \in 1..k
    BY <1>1
  <2> QED BY <2>1
<1>3. qfMapSearch(map, addr) = IF Halve(k, side) = -1 THEN 0 ELSE map[Halve(k, side) + 1].ifnum
  BY Zenon DEF qfMapSearch
<1> HIDE DEF side
<1> QED BY <1>1, <1>2, <1>3, HalveMisses

(* What additions P that do not overlap want for an address is found.      *)
WantedOf(P, addr) ==
  LET hits == {x \in P : From(x[1]) <= addr /\ addr <= To(x[1])}
  IN  IF hits = {} THEN 0 ELSE (CHOOSE x \in hits : TRUE)[2]

LEMMA SearchWanted ==
  ASSUME NEW map, NEW P, Holds(map, P), Cardinality(P) = Len(map), Apart(P), NEW addr \in Int
  PROVE  /\ qfMapSearch(map, addr) = WantedOf(P, addr)
         /\ WantedOf(P, addr) = 0 \/ \E x \in P : WantedOf(P, addr) = x[2]
<1> DEFINE hits == {x \in P : From(x[1]) <= addr /\ addr <= To(x[1])}
<1>1. /\ map \in Seq(MapEntry) /\ P \in SUBSET Additions /\ Sorted(map)
      /\ \A j \in 1..Len(map) : \E y \in P : map[j] = EntryOf(y)
      /\ \A y \in P : \E j \in 1..Len(map) : map[j] = EntryOf(y)
  BY DEF Holds
<1>2. \A x \in P : /\ EntryOf(x).a = From(x[1]) /\ EntryOf(x).b = To(x[1])
                   /\ EntryOf(x).ifnum = x[2] /\ EntryOf(x).a <= EntryOf(x).b
  <2>1. ASSUME NEW x \in P
        PROVE  /\ EntryOf(x).a = From(x[1]) /\ EntryOf(x).b = To(x[1])
               /\ EntryOf(x).ifnum = x[2] /\ EntryOf(x).a <= EntryOf(x).b
    <3>1. x \in Additions /\ x[1] \in NetPrefixes
      BY <1>1 DEF Additions
    <3>2. From(x[1]) \in Int /\ To(x[1]) \in Int /\ From(x[1]) <= x[1][1] /\ x[1][1] <= To(x[1])
          /\ x[1][1] \in Int
      BY <3>1, PrefixInRange
    <3>3. From(x[1]) <= To(x[1])
      BY <3>2
    <3> QED BY <3>1, <3>3, EntryIsRange
  <2> QED BY <2>1
<1>3. \A j \in 1..Len(map) : map[j].a <= map[j].b
  BY <1>1, <1>2
<1>4. CASE hits = {}
  <2>1. \A j \in 1..Len(map) : ~(map[j].a <= addr /\ addr <= map[j].b)
    BY <1>1, <1>2, <1>4
  <2>2. qfMapSearch(map, addr) = 0
    BY <1>1, <2>1, SearchMisses
  <2> QED BY <1>4, <2>2 DEF WantedOf
<1>5. CASE hits # {}
  <2> DEFINE x == CHOOSE y \in hits : TRUE
  <2>1. x \in hits
    BY <1>5
  <2>2. WantedOf(P, addr) = x[2]
    BY <1>5 DEF WantedOf
  <2> HIDE DEF x
  <2>3. x \in P /\ From(x[1]) <= addr /\ addr <= To(x[1])
    BY <2>1
  <2>4. PICK j \in 1..Len(map) : map[j] = EntryOf(x)
    BY <1>1, <2>3
  <2>5. map[j].a <= addr /\ addr <= map[j].b /\ map[j].ifnum = x[2]
    BY <1>2, <2>3, <2>4
  <2>6. qfMapSearch(map, addr) = map[j].ifnum
    BY <1>1, <1>3, <2>5, SearchFinds
  <2> QED BY <2>2, <2>3, <2>5, <2>6
<1> QED BY <1>4, <1>5

----------------------------------------------------------------------------
(***************************************************************************)
(* The address maps: the invariant                                         *)
(***************************************************************************)

(* Every MAC address of the list is the first one, which is what was added.*)
MacsHold ==
  /\ macs \in Seq(Nat)
  /\ \A i \in 1..Len(macs) : macs[i] = macs[1] /\ macs[1] \in added["mac"]
  /\ \A mac \in added["mac"] : macs # <<>> /\ mac = macs[1]

AddrInv ==
  /\ added = [m \in Arrays \cup {"mac"} |-> added[m]]
  /\ maps = [m \in Arrays |-> maps[m]]
  /\ failed = {} => /\ \A m \in Arrays : Holds(maps[m], added[m])
                    /\ \A x \in added["net"] : x[2] = 1
                    /\ MacsHold

LEMMA AddrInvInit == qfIfMapInit => AddrInv
<1> SUFFICES ASSUME qfIfMapInit
             PROVE  AddrInv
  OBVIOUS
<1>1. /\ added = [m \in Arrays \cup {"mac"} |-> {}] /\ maps = [m \in Arrays |-> <<>>]
      /\ macs = <<>>
  BY DEF qfIfMapInit
<1>2. Holds(<<>>, {})
  <2>1. <<>> \in Seq(MapEntry) /\ Len(<<>>) = 0
    BY EmptySeq
  <2> QED BY <2>1, FS_EmptySet DEF Holds, Sorted
<1>3. \A m \in Arrays : Holds(maps[m], added[m])
  BY <1>1, <1>2
<1>4. MacsHold
  <2>1. <<>> \in Seq(Nat) /\ Len(<<>>) = 0
    BY EmptySeq
  <2> QED BY <1>1, <2>1 DEF MacsHold
<1>5. \A x \in added["net"] : x[2] = 1
  BY <1>1 DEF Arrays
<1> QED BY <1>1, <1>3, <1>4, <1>5 DEF AddrInv

LEMMA AddToKeeps ==
  ASSUME AddrInv, NEW u \in NetPrefixes, NEW ifnum, \A m \in Arrays : ifnum[m] \in Nat,
         ifnum["net"] \in {0, 1}, AddTo(u, ifnum)
  PROVE  AddrInv'
<1> DEFINE used == {m \in Arrays : ifnum[m] # 0}
<1>1. /\ added' = [m \in Arrays \cup {"mac"} |->
                     IF m \in used THEN added[m] \cup {<<u, ifnum[m]>>} ELSE added[m]]
      /\ macs' = macs
  BY DEF AddTo, AddrInv
<1>2. "mac" \notin used /\ "net" \in Arrays /\ "mac" \in Arrays \cup {"mac"}
  BY DEF Arrays
<1>3. \/ /\ maps' = [m \in Arrays |->
                      IF m \in used THEN qfMapInsert(maps[m], u, ifnum[m], FALSE) ELSE maps[m]]
         /\ failed' = failed
      \/ /\ maps' = [m \in Arrays |->
                      IF m \in used THEN qfMapInsert(maps[m], u, ifnum[m], TRUE) ELSE maps[m]]
         /\ failed' = failed \cup {"copy"}
  BY Zenon DEF AddTo
<1>4. (added = [m \in Arrays \cup {"mac"} |-> added[m]])'
  BY <1>1
<1>5. (maps = [m \in Arrays |-> maps[m]])'
  BY <1>3
<1>6. ASSUME failed' = {}
      PROVE  /\ \A m \in Arrays : Holds(maps'[m], added'[m])
             /\ \A x \in added'["net"] : x[2] = 1
             /\ MacsHold'
  <2>1. /\ failed = {}
        /\ maps' = [m \in Arrays |->
                      IF m \in used THEN qfMapInsert(maps[m], u, ifnum[m], FALSE) ELSE maps[m]]
    BY <1>3, <1>6
  <2>2. /\ \A m \in Arrays : Holds(maps[m], added[m])
        /\ \A x \in added["net"] : x[2] = 1
        /\ MacsHold
    BY <2>1 DEF AddrInv
  <2>3. ASSUME NEW m \in Arrays
        PROVE  Holds(maps'[m], added'[m])
    <3>1. CASE m \in used
      <4> DEFINE x == <<u, ifnum[m]>>
      <4>1. x \in Additions /\ x[1] = u /\ x[2] = ifnum[m]
        BY <3>1 DEF Additions
      <4>2. Holds(qfMapInsert(maps[m], x[1], x[2], FALSE), added[m] \cup {x})
        BY <2>2, <4>1, InsertionHolds
      <4>3. /\ maps'[m] = qfMapInsert(maps[m], u, ifnum[m], FALSE)
            /\ added'[m] = added[m] \cup {x}
        BY <1>1, <2>1, <3>1
      <4> HIDE DEF x
      <4>4. qfMapInsert(maps[m], x[1], x[2], FALSE) = qfMapInsert(maps[m], u, ifnum[m], FALSE)
        BY <4>1, Zenon
      <4> QED BY <4>2, <4>3, <4>4, Zenon
    <3>2. CASE m \notin used
      BY <1>1, <2>1, <2>2, <3>2
    <3> QED BY <3>1, <3>2
  <2>4. \A x \in added'["net"] : x[2] = 1
    <3>1. CASE "net" \in used
      <4>1. ifnum["net"] = 1
        BY <3>1
      <4>2. added'["net"] = added["net"] \cup {<<u, 1>>}
        BY <1>1, <1>2, <3>1, <4>1
      <4> QED BY <2>2, <4>2
    <3>2. CASE "net" \notin used
      BY <1>1, <1>2, <2>2, <3>2
    <3> QED BY <3>1, <3>2
  <2>5. MacsHold'
    <3>1. added'["mac"] = added["mac"]
      BY <1>1, <1>2
    <3> QED BY <1>1, <2>2, <3>1 DEF MacsHold
  <2> QED BY <2>3, <2>4, <2>5
<1> QED BY <1>4, <1>5, <1>6 DEF AddrInv

LEMMA MacListAddKeeps ==
  ASSUME AddrInv, NEW mac \in Macs, qfMacListAdd(mac)
  PROVE  AddrInv'
<1>1. /\ added = [m \in Arrays \cup {"mac"} |-> added[m]]
      /\ added' = [added EXCEPT !["mac"] = @ \cup {mac}]
      /\ maps' = maps
  BY DEF qfMacListAdd, AddrInv
<1>2. /\ added' = [m \in Arrays \cup {"mac"} |-> added'[m]]
      /\ added'["mac"] = added["mac"] \cup {mac}
      /\ \A m \in Arrays : added'[m] = added[m]
  <2>1. "mac" \notin Arrays
    BY DEF Arrays
  <2> QED BY <1>1, <2>1
<1>3. ASSUME failed' = {}
      PROVE  MacsHold' /\ failed = {}
  <2>1. /\ macs = <<>> \/ mac = macs[1]
        /\ macs' = Append(macs, mac) /\ failed = {}
    BY <1>3 DEF qfMacListAdd
  <2>2. MacsHold
    BY <2>1 DEF AddrInv
  <2>3. macs \in Seq(Nat) /\ mac \in Nat /\ Len(macs) \in Nat
    BY <2>2, AddrAssumption, LenProperties DEF MacsHold
  <2>4. /\ macs' \in Seq(Nat) /\ Len(macs') = Len(macs) + 1 /\ macs' # <<>>
        /\ \A i \in 1..Len(macs) : macs'[i] = macs[i]
        /\ macs'[Len(macs) + 1] = mac
    BY <2>1, <2>3, AppendProperties
  <2>5. macs = <<>> => Len(macs) = 0 /\ added["mac"] = {}
    BY <2>2 DEF MacsHold
  <2>6. macs # <<>> => 1 \in 1..Len(macs)
    BY <2>3, EmptySeq
  <2>7. macs'[1] = mac
    BY <2>1, <2>4, <2>5, <2>6
  <2>8. \A i \in 1..Len(macs') : macs'[i] = mac
    <3> SUFFICES ASSUME NEW i \in 1..Len(macs')
                 PROVE  macs'[i] = mac
      OBVIOUS
    <3>1. CASE i = Len(macs) + 1
      BY <2>4, <3>1
    <3>2. CASE i \in 1..Len(macs)
      <4>1. macs # <<>>
        BY <2>5, <3>2
      <4>2. macs[i] = macs[1] /\ mac = macs[1]
        BY <2>1, <2>2, <3>2, <4>1 DEF MacsHold
      <4> QED BY <2>4, <3>2, <4>2
    <3> QED BY <2>3, <2>4, <3>1, <3>2
  <2>9. \A x \in added'["mac"] : x = mac
    BY <1>2, <2>1, <2>2, <2>5 DEF MacsHold
  <2> QED BY <1>2, <2>1, <2>4, <2>7, <2>8, <2>9 DEF MacsHold
<1>4. (maps = [m \in Arrays |-> maps[m]])'
  BY <1>1 DEF AddrInv
<1>5. failed' = {} => /\ \A m \in Arrays : Holds(maps'[m], added'[m])
                      /\ \A x \in added'["net"] : x[2] = 1
  <2>1. "net" \in Arrays
    BY DEF Arrays
  <2> QED BY <1>1, <1>2, <1>3, <2>1 DEF AddrInv
<1> QED BY <1>2, <1>3, <1>4, <1>5 DEF AddrInv

LEMMA AddrInvNext == AddrInv /\ [AddrNext]_addrVars => AddrInv'
<1> SUFFICES ASSUME AddrInv, [AddrNext]_addrVars
             PROVE  AddrInv'
  OBVIOUS
<1>1. ASSUME NEW u \in NetPrefixes, NEW i \in Ifs, qfIfMapAddMapping(u, i[1], i[2])
      PROVE  AddrInv'
  <2> DEFINE f == [m \in Arrays |-> CASE m = "src" -> i[1] [] m = "dst" -> i[2] [] OTHER -> 0]
  <2>1. AddTo(u, f)
    BY <1>1 DEF qfIfMapAddMapping
  <2>2. i[1] \in Nat /\ i[2] \in Nat
    BY AddrAssumption
  <2>3. f["net"] = 0 /\ \A m \in Arrays : f[m] \in Nat
    BY <2>2 DEF Arrays
  <2> HIDE DEF f
  <2> QED BY <2>1, <2>3, AddToKeeps
<1>2. ASSUME NEW u \in NetPrefixes, qfNetListAdd(u)
      PROVE  AddrInv'
  <2> DEFINE f == [m \in Arrays |-> IF m = "net" THEN 1 ELSE 0]
  <2>1. AddTo(u, f)
    BY <1>2 DEF qfNetListAdd
  <2>2. f["net"] = 1 /\ \A m \in Arrays : f[m] \in Nat
    BY DEF Arrays
  <2> HIDE DEF f
  <2> QED BY <2>1, <2>2, AddToKeeps
<1>3. CASE UNCHANGED addrVars
  BY <1>3 DEF AddrInv, MacsHold, addrVars
<1> QED BY <1>1, <1>2, <1>3, MacListAddKeeps DEF AddrNext

LEMMA MacsFound ==
  ASSUME AddrInv, failed = {}, NEW mac \in Macs
  PROVE  qfMacListContains(mac) <=> mac \in added["mac"]
<1> DEFINE k == Len(macs)
           side == [j \in 0..Len(macs) - 1 |->
                      CASE macs[j + 1] = mac -> "here" [] macs[j + 1] < mac -> "above"
                        [] OTHER -> "below"]
<1>1. MacsHold
  BY DEF AddrInv
<1>2. macs \in Seq(Nat) /\ k \in Nat /\ (macs # <<>> => k # 0)
  BY <1>1, LenProperties, EmptySeq DEF MacsHold
<1>3. qfMacListContains(mac) <=> Halve(k, side) # -1
  BY Zenon DEF qfMacListContains
<1>4. \A j \in 0..k - 1 : j + 1 \in 1..k
  BY <1>2
<1>5. \A j \in 0..k - 1 : macs[j + 1] = macs[1] /\ macs[1] \in added["mac"]
  BY <1>1, <1>4 DEF MacsHold
<1>6. CASE mac \in added["mac"]
  <2>1. k # 0 /\ mac = macs[1]
    BY <1>1, <1>2, <1>6 DEF MacsHold
  <2>2. ASSUME NEW j \in 0..k - 1
        PROVE  side[j] = "here"
    <3>1. macs[j + 1] = mac /\ ~(macs[j + 1] < mac)
      <4>1. mac \in Nat
        BY AddrAssumption
      <4>2. ~(mac < mac)
        BY <4>1
      <4> QED BY <1>5, <2>1, <4>2
    <3>2. side[j] = CASE macs[j + 1] = mac -> "here" [] macs[j + 1] < mac -> "above"
                      [] OTHER -> "below"
      OBVIOUS
    <3> HIDE DEF side
    <3> QED BY <3>1, <3>2
  <2> HIDE DEF side
  <2>3. Halve(k, side) # -1
    BY <1>2, <2>1, <2>2, HalveFindsAny
  <2> QED BY <1>3, <1>6, <2>3
<1>7. CASE mac \notin added["mac"]
  <2>1. ASSUME NEW j \in 0..k - 1
        PROVE  side[j] # "here"
    <3>1. macs[j + 1] # mac
      BY <1>5, <1>7
    <3>2. CASE macs[j + 1] < mac
      BY <3>1, <3>2
    <3>3. CASE ~(macs[j + 1] < mac)
      BY <3>1, <3>3
    <3> QED BY <3>2, <3>3
  <2> HIDE DEF side
  <2>2. Halve(k, side) = -1
    BY <1>2, <2>1, HalveMisses
  <2> QED BY <1>3, <1>7, <2>2
<1> QED BY <1>6, <1>7

LEMMA ArraysFound ==
  ASSUME AddrInv, failed = {}, NEW m \in Arrays, Disjoint(m), NEW addr \in Addrs
  PROVE  /\ qfMapSearch(maps[m], addr) = Wanted(m, addr)
         /\ m = "net" => Wanted(m, addr) \in {0, 1}
<1>1. Holds(maps[m], added[m]) /\ \A x \in added["net"] : x[2] = 1
  BY DEF AddrInv
<1>2. addr \in Int
  BY DEF Addrs
<1>3. Cardinality(added[m]) = Len(maps[m]) /\ Apart(added[m])
  BY Zenon DEF Disjoint, Apart
<1>4. Wanted(m, addr) = WantedOf(added[m], addr)
  BY Zenon DEF Wanted, WantedOf
<1> QED BY <1>1, <1>2, <1>3, <1>4, SearchWanted

(* Every lookup finds what was added, both ways, for flow directions and   *)
(* for MAC addresses (qfMapSearch4, qfMapSearch6, qofifmap.c; qofmaclist.c)*)
(* whatever the width of addresses, the prefixes and their order.          *)
THEOREM LookupsAlwaysFindAdded == AddrSpec => []LookupsFindAdded
<1>1. AddrInv => LookupsFindAdded
  <2> SUFFICES ASSUME AddrInv, failed = {}, \E m \in DOMAIN added : added[m] # {}
               PROVE  LookupsFindAdded
    BY DEF LookupsFindAdded
  <2>1. ASSUME NEW s \in Addrs, NEW d \in Addrs, Disjoint("src"), Disjoint("dst")
        PROVE  qfIfMapAddresses(s, d) = <<Wanted("src", s), Wanted("dst", d)>>
    <3>1. "src" \in Arrays /\ "dst" \in Arrays
      BY DEF Arrays
    <3>2. qfMapSearch(maps["src"], s) = Wanted("src", s)
      BY <2>1, <3>1, ArraysFound
    <3>3. qfMapSearch(maps["dst"], d) = Wanted("dst", d)
      BY <2>1, <3>1, ArraysFound
    <3> QED BY <3>2, <3>3 DEF qfIfMapAddresses
  <2>2. ASSUME NEW s \in Addrs, NEW d \in Addrs, Disjoint("net")
        PROVE  qfFlowDirection(s, d) =
                 CASE Wanted("net", s) = 1 /\ Wanted("net", d) = 1 -> "INT"
                   [] Wanted("net", s) = 1 /\ Wanted("net", d) = 0 -> "IN"
                   [] Wanted("net", s) = 0 /\ Wanted("net", d) = 1 -> "OUT"
                   [] OTHER -> "EXT"
    <3>1. "net" \in Arrays
      BY DEF Arrays
    <3>2. qfMapSearch(maps["net"], s) = Wanted("net", s) /\ Wanted("net", s) \in {0, 1}
      BY <2>2, <3>1, ArraysFound
    <3>3. qfMapSearch(maps["net"], d) = Wanted("net", d) /\ Wanted("net", d) \in {0, 1}
      BY <2>2, <3>1, ArraysFound
    <3> QED BY <3>2, <3>3 DEF qfFlowDirection
  <2> QED BY <2>1, <2>2, MacsFound, Zenon DEF LookupsFindAdded
<1> QED BY <1>1, AddrInvInit, AddrInvNext, PTL DEF AddrSpec

=============================================================================
