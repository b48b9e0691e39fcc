-------------------------- MODULE FragTableProofs ---------------------------
(***************************************************************************)
(* Proofs about the fragment table, for every set of datagrams, limit,     *)
(* timeout and pruning delay.                                              *)
(***************************************************************************)
EXTENDS FragTable, FiniteSetTheorems, SequenceTheorems, WellFoundedInduction, TLAPS

(***************************************************************************)
(* Queues                                                                  *)
(***************************************************************************)
Distinct(s) == \A i, j \in 1..Len(s) : s[i] = s[j] => i = j

(* t is s without x, in the order of s.                                    *)
PickedOut(s, x, t) ==
  /\ t \in Seq(Dgrams) /\ Len(t) = Len(s) - 1 /\ Distinct(t)
  /\ \A e : InQueue(t, e) <=> e # x /\ InQueue(s, e)
  /\ \A j, k \in 1..Len(t) : j < k =>
       \E a, b \in 1..Len(s) : a < b /\ t[j] = s[a] /\ t[k] = s[b]

LEMMA PickFacts ==
  ASSUME NEW s \in Seq(Dgrams), Distinct(s), NEW x, InQueue(s, x)
  PROVE  PickedOut(s, x, piqPick(s, x))
<1>1. PICK i \in 1..Len(s) : s[i] = x
  BY DEF InQueue
<1>2. (CHOOSE j \in 1..Len(s) : s[j] = x) = i
  BY <1>1 DEF Distinct
<1> DEFINE t == [j \in 1..(Len(s) - 1) |-> IF j < i THEN s[j] ELSE s[j + 1]]
<1>3. piqPick(s, x) = t
  BY <1>2 DEF piqPick
<1>4. Len(s) - 1 \in Nat /\ i \in Nat /\ Len(s) \in Nat /\ \A j \in 1..Len(s) : s[j] \in Dgrams
  BY <1>1
<1>5. t \in [1..(Len(s) - 1) -> Dgrams]
  BY <1>4
<1>6. /\ t \in Seq(Dgrams) /\ Len(t) = Len(s) - 1
      /\ \A j \in 1..(Len(s) - 1) : t[j] = IF j < i THEN s[j] ELSE s[j + 1]
  BY <1>4, <1>5
<1> HIDE DEF t
<1> DEFINE At(j) == IF j < i THEN j ELSE j + 1
<1>7. \A j \in 1..Len(t) : At(j) \in 1..Len(s) /\ At(j) # i /\ t[j] = s[At(j)]
  BY <1>4, <1>6
<1>8. \A j, k \in 1..Len(t) : j < k => At(j) < At(k)
  BY <1>4, <1>6
<1>9. Distinct(t)
  <2> SUFFICES ASSUME NEW j \in 1..Len(t), NEW k \in 1..Len(t), t[j] = t[k]
               PROVE  j = k
    BY DEF Distinct
  <2>1. At(j) = At(k)
    <3> HIDE DEF At
    <3> QED BY <1>7 DEF Distinct
  <2> QED BY <1>4, <1>6, <2>1
<1>10. ASSUME NEW e
       PROVE  InQueue(t, e) <=> e # x /\ InQueue(s, e)
  <2>1. InQueue(t, e) => e # x /\ InQueue(s, e)
    <3> HIDE DEF At
    <3> QED BY <1>1, <1>7 DEF InQueue, Distinct
  <2>2. ASSUME e # x, NEW k \in 1..Len(s), s[k] = e
        PROVE  InQueue(t, e)
    <3> DEFINE j == IF k < i THEN k ELSE k - 1
    <3>1. k # i
      BY <1>1, <2>2
    <3>2. j \in 1..Len(t) /\ t[j] = s[k]
      BY <1>4, <1>6, <3>1
    <3> QED BY <2>2, <3>2 DEF InQueue
  <2> QED BY <2>1, <2>2 DEF InQueue
<1>11. \A j, k \in 1..Len(t) : j < k =>
         \E a, b \in 1..Len(s) : a < b /\ t[j] = s[a] /\ t[k] = s[b]
  <2> HIDE DEF At
  <2> QED BY <1>7, <1>8
<1> QED BY <1>3, <1>6, <1>9, <1>10, <1>11 DEF PickedOut

LEMMA EnQFacts ==
  ASSUME NEW s \in Seq(Dgrams), Distinct(s), NEW x \in Dgrams, ~InQueue(s, x),
         NEW t, t = piqEnQ(s, x)
  PROVE  /\ t \in Seq(Dgrams) /\ Len(t) = Len(s) + 1 /\ Distinct(t) /\ t[Len(t)] = x
         /\ \A e : InQueue(t, e) <=> e = x \/ InQueue(s, e)
         /\ \A j \in 1..Len(s) : t[j] = s[j]
<1>1. /\ t \in Seq(Dgrams) /\ Len(t) = Len(s) + 1 /\ t[Len(s) + 1] = x
      /\ \A j \in 1..Len(s) : t[j] = s[j]
      /\ Len(s) \in Nat
  BY DEF piqEnQ
<1>2. \A j \in 1..Len(t) : j = Len(s) + 1 \/ j \in 1..Len(s)
  BY <1>1
<1>3. Distinct(t)
  BY <1>1, <1>2 DEF Distinct, InQueue
<1>4. Len(t) \in 1..Len(t) /\ \A j \in 1..Len(s) : j \in 1..Len(t)
  BY <1>1
<1>5. \A e : InQueue(t, e) <=> e = x \/ InQueue(s, e)
  BY <1>1, <1>2, <1>4 DEF InQueue
<1> QED BY <1>1, <1>3, <1>5

----------------------------------------------------------------------------
(***************************************************************************)
(* Table, queue and count                                                  *)
(***************************************************************************)
HeldIn(g, d) == g.table[d] # NoNode

FragWF(g) ==
  /\ g \in FragTab
  /\ Distinct(g.fraq)
  /\ g.count = Len(g.fraq)
  /\ \A d \in Dgrams : HeldIn(g, d) <=> InQueue(g.fraq, d)
  /\ \A i, j \in 1..Len(g.fraq) :
       i < j => g.table[g.fraq[i]].last_ctime <= g.table[g.fraq[j]].last_ctime
  /\ \A d \in Dgrams : HeldIn(g, d) => g.table[d].last_ctime <= g.ctime

(* What pruning has done and when it is due again.                         *)
Timely(g) ==
  /\ g.prunetime <= g.ctime
  /\ g.prunetime = 0 => g.fraq = <<>>
  /\ g.prunetime # 0 => g.ctime < g.prunetime + YF_FRAGPRUNE_DELAY
  /\ \A d \in Dgrams : HeldIn(g, d) =>
       g.prunetime - g.table[d].last_ctime <= YF_FRAG_TIMEOUT

FragInv == FragWF(fg) /\ Timely(fg)

LEMMA NodeFields ==
  ASSUME NEW n \in FragNode
  PROVE  n # NoNode /\ n.last_ctime \in Nat /\ n.records \in SUBSET Record
BY DEF FragNode, NoNode

LEMMA TabFields ==
  ASSUME NEW g \in FragTab
  PROVE  /\ g.ctime \in Nat /\ g.prunetime \in Nat
         /\ g.table \in [Dgrams -> FragNode \cup {NoNode}]
         /\ g.fraq \in Seq(Dgrams) /\ g.count \in Int /\ g.frags \in Nat /\ g.seqrej \in Nat
         /\ g.packets \in Nat /\ g.dropped \in Nat /\ g.peak \in Int
         /\ Len(g.fraq) \in Nat
         /\ \A i \in 1..Len(g.fraq) : g.fraq[i] \in Dgrams
         /\ \A d \in Dgrams : HeldIn(g, d) => g.table[d] \in FragNode /\ g.table[d].last_ctime \in Nat
<1>1. /\ g.ctime \in Nat /\ g.prunetime \in Nat
      /\ g.table \in [Dgrams -> FragNode \cup {NoNode}]
      /\ g.fraq \in Seq(Dgrams) /\ g.count \in Int /\ g.frags \in Nat /\ g.seqrej \in Nat
      /\ g.packets \in Nat /\ g.dropped \in Nat /\ g.peak \in Int
  BY DEF FragTab
<1>2. \A d \in Dgrams : HeldIn(g, d) => g.table[d] \in FragNode /\ g.table[d].last_ctime \in Nat
  BY <1>1, NodeFields DEF HeldIn
<1> QED BY <1>1, <1>2

(* The nodes of h are nodes of g, unchanged.                               *)
FewerNodes(g, h) ==
  /\ h.ctime = g.ctime
  /\ \A d \in Dgrams : HeldIn(h, d) => HeldIn(g, d) /\ h.table[d] = g.table[d]

LEMMA RemoveWF ==
  ASSUME NEW g, FragWF(g), NEW d \in Dgrams, HeldIn(g, d), NEW drop \in BOOLEAN,
         NEW h, h = yfFragRemoveNode(g, d, drop)
  PROVE  /\ FragWF(h) /\ FewerNodes(g, h)
         /\ h.prunetime = g.prunetime /\ h.frags = g.frags /\ h.seqrej = g.seqrej
<1>1. /\ g \in FragTab /\ Distinct(g.fraq) /\ g.count = Len(g.fraq) /\ InQueue(g.fraq, d)
      /\ g.fraq \in Seq(Dgrams) /\ Len(g.fraq) \in Nat
  BY TabFields DEF FragWF
<1> DEFINE q == piqPick(g.fraq, d)
<1>2. PickedOut(g.fraq, d, q)
  BY <1>1, PickFacts
<1>3. /\ h.table = [g.table EXCEPT ![d] = NoNode] /\ h.fraq = q /\ h.count = g.count - 1
      /\ h.ctime = g.ctime /\ h.prunetime = g.prunetime
      /\ h.frags = g.frags /\ h.seqrej = g.seqrej
  BY <1>1 DEF yfFragRemoveNode, FragTab
<1>4. h \in FragTab
  <2>1. /\ [g.table EXCEPT ![d] = NoNode] \in [Dgrams -> FragNode \cup {NoNode}]
        /\ q \in Seq(Dgrams) /\ g.count - 1 \in Int
        /\ g.dropped + 1 \in Nat /\ g.packets + 1 \in Nat
    BY <1>1, <1>2, TabFields DEF PickedOut
  <2> HIDE DEF q
  <2> DEFINE drops == IF drop THEN g.dropped + 1 ELSE g.dropped
             packs == IF drop THEN g.packets ELSE g.packets + 1
  <2>2. drops \in Nat /\ packs \in Nat
    BY <1>1, <2>1, TabFields
  <2>3. h = [g EXCEPT !.table[d] = NoNode, !.fraq = q, !.count = g.count - 1,
                      !.dropped = drops, !.packets = packs]
    BY DEF yfFragRemoveNode, q
  <2> HIDE DEF drops, packs
  <2> QED BY <1>1, <2>1, <2>2, <2>3, ZenonT(30) DEF FragTab
<1> HIDE DEF q
<1>5. \A e \in Dgrams : h.table[e] = IF e = d THEN NoNode ELSE g.table[e]
  BY <1>1, <1>3, TabFields
<1>6. \A e \in Dgrams : HeldIn(h, e) <=> e # d /\ HeldIn(g, e)
  BY <1>5 DEF HeldIn
<1>7. FewerNodes(g, h)
  BY <1>3, <1>5, <1>6 DEF FewerNodes
<1>8. \A e \in Dgrams : HeldIn(h, e) <=> InQueue(h.fraq, e)
  BY <1>2, <1>3, <1>6 DEF FragWF, PickedOut
<1>9. ASSUME NEW i \in 1..Len(h.fraq), NEW j \in 1..Len(h.fraq), i < j
      PROVE  h.table[h.fraq[i]].last_ctime <= h.table[h.fraq[j]].last_ctime
  <2>0. \A m, k \in 1..Len(h.fraq) : m < k =>
          \E a, b \in 1..Len(g.fraq) : a < b /\ h.fraq[m] = g.fraq[a] /\ h.fraq[k] = g.fraq[b]
    BY <1>2, <1>3 DEF PickedOut
  <2>1. PICK a \in 1..Len(g.fraq), b \in 1..Len(g.fraq) :
               a < b /\ h.fraq[i] = g.fraq[a] /\ h.fraq[j] = g.fraq[b]
    BY <1>9, <2>0
  <2>2. \A k \in 1..Len(h.fraq) : h.fraq[k] \in Dgrams /\ h.fraq[k] # d
    BY <1>2, <1>3, <1>4, TabFields DEF PickedOut, InQueue
  <2>3. g.table[g.fraq[a]].last_ctime <= g.table[g.fraq[b]].last_ctime
    BY <2>1 DEF FragWF
  <2> QED BY <1>5, <2>1, <2>2, <2>3
<1>10. \A e \in Dgrams : HeldIn(h, e) => h.table[e].last_ctime <= h.ctime
  BY <1>3, <1>5, <1>6 DEF FragWF
<1>11. Distinct(h.fraq) /\ h.count = Len(h.fraq)
  BY <1>1, <1>2, <1>3 DEF PickedOut
<1> QED BY <1>3, <1>4, <1>7, <1>8, <1>9, <1>10, <1>11 DEF FragWF

(* What Added does to the node: a new one, or the old one moved to the     *)
(* head of the queue with the time of the packet, and the fragment in it.  *)
FreshNode(ptime, p) ==
  [last_ctime |-> ptime, have_first |-> FALSE, have_last |-> FALSE,
   have_l4hdr |-> FALSE, ports |-> p.ports, records |-> {},
   from_first |-> p.info.off = 0]

NodeBefore(g, d, p, ptime) ==
  IF HeldIn(g, d) THEN [g.table[d] EXCEPT !.last_ctime = ptime] ELSE FreshNode(ptime, p)

NodeAfter(g, d, p, ptime) == yfFragAdd(StashFirst(NodeBefore(g, d, p, ptime), p), p)

Pbuf == [info : [off : Nat, more : BOOLEAN], len : Nat, l4 : BOOLEAN, ports : PortNums]

LEMMA DecodedType ==
  ASSUME NEW d \in Dgrams, NEW f \in d.frags, NEW stale \in PortNums
  PROVE  yfDecodeIP(d, f, stale) \in Pbuf
<1>1. /\ f \in Fragment /\ f.off \in Nat /\ f.len \in Nat /\ f.more \in BOOLEAN
      /\ d.ports \in PortNums /\ 0 \in PortNums
  BY DgramsAssumption, FragConfigAssumption DEF Fragment
<1>2. DecodedPorts(d, f, stale) \in PortNums
  BY <1>1 DEF DecodedPorts
<1>3. HasL4(d, f) \in BOOLEAN
  BY DEF HasL4
<1>4. (IF d.version = 4 THEN yfDecodeIPv4(d, f) ELSE yfDecodeIPv6(d, f))
        \in [off : Nat, more : BOOLEAN]
  BY <1>1 DEF yfDecodeIPv4, yfDecodeIPv6
<1> QED BY <1>1, <1>2, <1>3, <1>4 DEF yfDecodeIP, Pbuf

LEMMA NodeAfterType ==
  ASSUME NEW g \in FragTab, NEW d \in Dgrams, NEW p \in Pbuf, NEW ptime \in Nat
  PROVE  /\ NodeBefore(g, d, p, ptime) \in FragNode
         /\ NodeAfter(g, d, p, ptime) \in FragNode
         /\ NodeAfter(g, d, p, ptime).last_ctime = ptime
<1> DEFINE a == NodeBefore(g, d, p, ptime)
           b == StashFirst(a, p)
<1>1. a \in FragNode /\ a.last_ctime = ptime
  <2>1. CASE HeldIn(g, d)
    <3>1. g.table[d] \in FragNode
      BY <2>1, TabFields
    <3> QED BY <2>1, <3>1 DEF NodeBefore, FragNode
  <2>2. CASE ~HeldIn(g, d)
    BY <2>2 DEF NodeBefore, FreshNode, FragNode, Pbuf
  <2> QED BY <2>1, <2>2
<1> HIDE DEF a
<1>2. b \in FragNode /\ b.last_ctime = ptime
  BY <1>1 DEF StashFirst, FragNode, Pbuf
<1> HIDE DEF b
<1>3. [off |-> p.info.off, len |-> p.len] \in Record
  BY DEF Record, Pbuf
<1>4. yfFragAdd(b, p) \in FragNode /\ yfFragAdd(b, p).last_ctime = ptime
  BY <1>2, <1>3 DEF yfFragAdd, FragNode
<1> QED BY <1>1, <1>4 DEF NodeAfter, a, b

LEMMA AddedWF ==
  ASSUME NEW g, FragWF(g), NEW d \in Dgrams, NEW p \in Pbuf, NEW ptime \in Nat,
         g.ctime <= ptime, NEW h, h = Added(g, d, p, ptime)
  PROVE  /\ FragWF(h)
         /\ h.ctime = ptime /\ h.prunetime = g.prunetime
         /\ h.frags = g.frags + 1 /\ h.seqrej = g.seqrej
         /\ h.table[d] = NodeAfter(g, d, p, ptime)
         /\ \A e \in Dgrams : e # d => h.table[e] = g.table[e]
<1>1. /\ g \in FragTab /\ Distinct(g.fraq) /\ g.count = Len(g.fraq)
      /\ g.fraq \in Seq(Dgrams) /\ Len(g.fraq) \in Nat /\ g.count \in Int
      /\ g.table \in [Dgrams -> FragNode \cup {NoNode}] /\ g.peak \in Int
      /\ g.ctime \in Nat /\ g.frags \in Nat /\ g.frags + 1 \in Nat /\ g.count + 1 \in Int
      /\ (HeldIn(g, d) <=> InQueue(g.fraq, d))
  BY TabFields DEF FragWF
<1>2. NodeAfter(g, d, p, ptime) \in FragNode /\ NodeAfter(g, d, p, ptime).last_ctime = ptime
      /\ NodeAfter(g, d, p, ptime) # NoNode
  BY <1>1, NodeAfterType, NodeFields
<1> DEFINE nd == NodeAfter(g, d, p, ptime)
           rest == IF HeldIn(g, d) THEN piqPick(g.fraq, d) ELSE g.fraq
           q == piqEnQ(rest, d)
           count == IF HeldIn(g, d) THEN g.count ELSE g.count + 1
           peak == IF HeldIn(g, d) THEN g.peak
                   ELSE IF g.count + 1 > g.peak THEN g.count + 1 ELSE g.peak
<1>3. h = [g EXCEPT !.ctime = ptime, !.table = [g.table EXCEPT ![d] = nd], !.fraq = q,
                    !.count = count, !.peak = peak, !.frags = g.frags + 1]
  <2> DEFINE c == [g EXCEPT !.ctime = ptime]
             k == yfFragGetNode(c, d, p)
  <2>1. c.table = g.table /\ c.fraq = g.fraq /\ c.count = g.count /\ c.peak = g.peak
        /\ c.ctime = ptime /\ c \in FragTab
    BY <1>1 DEF FragTab
  <2>2. h = [k EXCEPT !.table[d] = yfFragAdd(StashFirst(@, p), p), !.frags = @ + 1]
    BY DEF Added
  <2>3. k = [g EXCEPT !.ctime = ptime,
                      !.table = [g.table EXCEPT ![d] = NodeBefore(g, d, p, ptime)],
                      !.fraq = q, !.count = count, !.peak = peak]
    <3>1. CASE HeldIn(g, d)
      <4>1. k = [c EXCEPT !.fraq = piqEnQ(piqPick(@, d), d), !.table[d].last_ctime = ptime]
        BY <2>1, <3>1 DEF yfFragGetNode, HeldIn
      <4>2. k = [c EXCEPT !.fraq = q, !.table = [g.table EXCEPT ![d] = NodeBefore(g, d, p, ptime)]]
        BY <2>1, <3>1, <4>1 DEF NodeBefore
      <4> HIDE DEF q
      <4> QED BY <1>1, <3>1, <4>2 DEF FragTab
    <3>2. CASE ~HeldIn(g, d)
      <4>1. k = [c EXCEPT !.table[d] = FreshNode(ptime, p), !.fraq = piqEnQ(@, d), !.count = @ + 1,
                          !.peak = IF c.count + 1 > @ THEN c.count + 1 ELSE @]
        BY <2>1, <3>2 DEF yfFragGetNode, HeldIn, FreshNode
      <4>2. k = [c EXCEPT !.table = [g.table EXCEPT ![d] = NodeBefore(g, d, p, ptime)], !.fraq = q,
                          !.count = count, !.peak = peak]
        BY <2>1, <3>2, <4>1 DEF NodeBefore
      <4> HIDE DEF q, count, peak
      <4> QED BY <1>1, <4>2 DEF FragTab
    <3> QED BY <3>1, <3>2
  <2> HIDE DEF k, q, count, peak
  <2>4. k.table = [g.table EXCEPT ![d] = NodeBefore(g, d, p, ptime)] /\ k.frags = g.frags
    BY <1>1, <2>3 DEF FragTab
  <2>5. k.table[d] = NodeBefore(g, d, p, ptime)
    BY <1>1, <2>4
  <2>6. [k.table EXCEPT ![d] = nd] = [g.table EXCEPT ![d] = nd]
    BY <1>1, <2>4
  <2>7. h = [k EXCEPT !.table = [g.table EXCEPT ![d] = nd], !.frags = g.frags + 1]
    BY <2>2, <2>4, <2>5, <2>6 DEF NodeAfter
  <2> HIDE DEF nd
  <2> QED BY <1>1, <2>3, <2>7 DEF FragTab
<1>4. /\ rest \in Seq(Dgrams) /\ Distinct(rest) /\ Len(rest) + 1 = count
      /\ \A e : InQueue(rest, e) <=> e # d /\ InQueue(g.fraq, e)
      /\ \A j, k \in 1..Len(rest) : j < k =>
           \E a, b \in 1..Len(g.fraq) : a < b /\ rest[j] = g.fraq[a] /\ rest[k] = g.fraq[b]
  <2>1. CASE HeldIn(g, d)
    <3>1. PickedOut(g.fraq, d, rest)
      BY <1>1, <2>1, PickFacts
    <3> HIDE DEF rest
    <3> QED BY <1>1, <2>1, <3>1 DEF PickedOut
  <2>2. CASE ~HeldIn(g, d)
    BY <1>1, <2>2
  <2> QED BY <2>1, <2>2
<1>5. count \in Int /\ peak \in Int
  BY <1>1
<1> HIDE DEF rest, count, peak
<1>6. /\ q \in Seq(Dgrams) /\ Len(q) = Len(rest) + 1 /\ Distinct(q) /\ q[Len(q)] = d
      /\ \A e : InQueue(q, e) <=> e = d \/ InQueue(rest, e)
      /\ \A j \in 1..Len(rest) : q[j] = rest[j]
  BY <1>4, EnQFacts
<1> HIDE DEF q, nd
<1>7. /\ h.ctime = ptime /\ h.prunetime = g.prunetime /\ h.frags = g.frags + 1
      /\ h.seqrej = g.seqrej /\ h.table = [g.table EXCEPT ![d] = nd] /\ h.fraq = q
      /\ h.count = count
  BY <1>1, <1>3 DEF FragTab
<1>8. h \in FragTab
  <2>1. [g.table EXCEPT ![d] = nd] \in [Dgrams -> FragNode \cup {NoNode}]
    BY <1>1, <1>2 DEF nd
  <2> QED BY <1>1, <1>3, <1>5, <1>6, <2>1, ZenonT(30) DEF FragTab
<1>9. h.table[d] = nd /\ \A e \in Dgrams : e # d => h.table[e] = g.table[e]
  BY <1>1, <1>7
<1>10. \A e \in Dgrams : HeldIn(h, e) <=> e = d \/ HeldIn(g, e)
  BY <1>2, <1>9 DEF HeldIn, nd
<1>11. \A e \in Dgrams : HeldIn(h, e) <=> InQueue(h.fraq, e)
  BY <1>4, <1>6, <1>7, <1>10 DEF FragWF
<1>12. \A e \in Dgrams : HeldIn(h, e) => h.table[e].last_ctime <= ptime
  <2>1. \A e \in Dgrams : HeldIn(g, e) => g.table[e].last_ctime <= g.ctime /\ g.table[e].last_ctime \in Nat
    BY <1>1, TabFields DEF FragWF
  <2>2. \A e \in Dgrams : HeldIn(g, e) => g.table[e].last_ctime <= ptime
    BY <1>1, <2>1
  <2> QED BY <1>2, <1>9, <1>10, <2>2 DEF nd
<1>13. ASSUME NEW i \in 1..Len(q), NEW j \in 1..Len(q), i < j
       PROVE  h.table[q[i]].last_ctime <= h.table[q[j]].last_ctime
  <2>0. Len(rest) \in Nat /\ Len(q) = Len(rest) + 1
    BY <1>4, <1>6
  <2>1. i \in 1..Len(rest) /\ (j \in 1..Len(rest) \/ j = Len(q))
    BY <1>13, <2>0
  <2>2. ASSUME NEW k \in 1..Len(rest)
        PROVE  q[k] \in Dgrams /\ q[k] # d /\ HeldIn(g, q[k])
    <3>1. q[k] = rest[k] /\ rest[k] \in Dgrams /\ InQueue(rest, rest[k])
      BY <1>4, <1>6 DEF InQueue
    <3> QED BY <1>4, <3>1 DEF FragWF
  <2>3. CASE j = Len(q)
    BY <1>2, <1>6, <1>9, <1>10, <1>12, <2>1, <2>2, <2>3 DEF nd
  <2>4. CASE j \in 1..Len(rest)
    <3>1. PICK a \in 1..Len(g.fraq), b \in 1..Len(g.fraq) :
                 a < b /\ rest[i] = g.fraq[a] /\ rest[j] = g.fraq[b]
      BY <1>4, <1>13, <2>1, <2>4
    <3>2. g.table[g.fraq[a]].last_ctime <= g.table[g.fraq[b]].last_ctime
      BY <3>1 DEF FragWF
    <3>3. q[i] = g.fraq[a] /\ q[j] = g.fraq[b]
      BY <1>6, <2>1, <2>4, <3>1
    <3>4. h.table[q[i]] = g.table[q[i]] /\ h.table[q[j]] = g.table[q[j]]
      BY <1>9, <2>1, <2>2, <2>4
    <3> QED BY <3>2, <3>3, <3>4
  <2> QED BY <2>1, <2>3, <2>4
<1>14. FragWF(h)
  BY <1>4, <1>6, <1>7, <1>8, <1>11, <1>12, <1>13 DEF FragWF
<1> QED BY <1>7, <1>9, <1>14 DEF nd

----------------------------------------------------------------------------
(***************************************************************************)
(* Pruning                                                                 *)
(***************************************************************************)
LEMMA DropOldestWF ==
  ASSUME NEW g, FragWF(g), NEW n \in 0..Len(g.fraq), NEW h, h = DropOldest(g, n)
  PROVE  /\ FragWF(h) /\ FewerNodes(g, h)
         /\ h.prunetime = g.prunetime /\ h.frags = g.frags /\ h.seqrej = g.seqrej
         /\ Len(h.fraq) = Len(g.fraq) - n
         /\ \A k \in 1..Len(h.fraq) : h.fraq[k] = g.fraq[k + n]
<1>1. /\ g \in FragTab /\ Distinct(g.fraq) /\ g.count = Len(g.fraq) /\ n \in Nat
      /\ g.fraq \in Seq(Dgrams) /\ Len(g.fraq) \in Nat /\ g.count - n \in Int
      /\ g.table \in [Dgrams -> FragNode \cup {NoNode}] /\ g.dropped + n \in Nat
  BY TabFields DEF FragWF
<1> DEFINE gone(d) == \E i \in 1..n : g.fraq[i] = d
           table == [d \in Dgrams |-> IF gone(d) THEN NoNode ELSE g.table[d]]
           q == SubSeq(g.fraq, n + 1, Len(g.fraq))
           L == Len(g.fraq) - n
<1>2. q \in Seq(Dgrams) /\ Len(q) = L /\ \A k \in 1..L : q[k] = g.fraq[k + n]
  <2>1. n + 1 \in 1..(Len(g.fraq) + 1) /\ Len(g.fraq) \in n..Len(g.fraq)
    BY <1>1
  <2>2. CASE n = Len(g.fraq)
    <3>1. q = <<>>
      BY <1>1, <2>2
    <3> QED BY <1>1, <2>2, <3>1
  <2>3. CASE n < Len(g.fraq)
    BY <1>1, <2>3, SMTT(30)
  <2> QED BY <1>1, <2>2, <2>3
<1> HIDE DEF q
<1>3. table \in [Dgrams -> FragNode \cup {NoNode}]
  <2> HIDE DEF gone
  <2> QED BY <1>1
<1>4. h = [g EXCEPT !.table = table, !.fraq = q, !.count = g.count - n, !.dropped = g.dropped + n]
  BY <1>1 DEF DropOldest, q
<1>5. \A d \in Dgrams : table[d] = IF gone(d) THEN NoNode ELSE g.table[d]
  OBVIOUS
<1> HIDE DEF table
<1>6. h \in FragTab
  BY <1>1, <1>2, <1>3, <1>4 DEF FragTab
<1>7. /\ h.ctime = g.ctime /\ h.prunetime = g.prunetime /\ h.frags = g.frags
      /\ h.seqrej = g.seqrej /\ h.table = table /\ h.fraq = q /\ h.count = g.count - n
  BY <1>1, <1>4 DEF FragTab
<1>8. L \in Nat /\ \A k \in 1..L : k + n \in 1..Len(g.fraq) /\ k + n > n
  BY <1>1
<1>9. Distinct(q)
  BY <1>1, <1>2, <1>8 DEF Distinct
<1>10. ASSUME NEW d \in Dgrams
       PROVE  InQueue(q, d) <=> InQueue(g.fraq, d) /\ ~gone(d)
  <2>1. ASSUME NEW k \in 1..L, q[k] = d
        PROVE  InQueue(g.fraq, d) /\ ~gone(d)
    <3>1. g.fraq[k + n] = d /\ k + n \in 1..Len(g.fraq)
      BY <1>2, <1>8, <2>1
    <3>2. \A m \in 1..n : m \in 1..Len(g.fraq) /\ m # k + n
      BY <1>1, <1>8
    <3> QED BY <1>1, <3>1, <3>2 DEF InQueue, Distinct
  <2>2. ASSUME NEW k \in 1..Len(g.fraq), g.fraq[k] = d, ~gone(d)
        PROVE  InQueue(q, d)
    <3>1. ~(k <= n)
      BY <1>1, <2>2
    <3>2. k - n \in 1..L /\ (k - n) + n = k
      BY <1>1, <3>1
    <3> QED BY <1>2, <2>2, <3>2 DEF InQueue
  <2> QED BY <1>2, <2>1, <2>2 DEF InQueue
<1>11. \A d \in Dgrams : HeldIn(h, d) <=> HeldIn(g, d) /\ ~gone(d)
  BY <1>5, <1>7 DEF HeldIn
<1>12. FewerNodes(g, h)
  BY <1>5, <1>7, <1>11 DEF FewerNodes
<1>13. \A d \in Dgrams : HeldIn(h, d) <=> InQueue(h.fraq, d)
  BY <1>7, <1>10, <1>11 DEF FragWF
<1>14. \A k \in 1..L : h.fraq[k] = g.fraq[k + n] /\ h.table[h.fraq[k]] = g.table[g.fraq[k + n]]
  <2> SUFFICES ASSUME NEW k \in 1..L
               PROVE  h.fraq[k] = g.fraq[k + n] /\ h.table[h.fraq[k]] = g.table[g.fraq[k + n]]
    OBVIOUS
  <2>1. h.fraq[k] = g.fraq[k + n] /\ h.fraq[k] \in Dgrams /\ InQueue(h.fraq, h.fraq[k])
    BY <1>2, <1>7 DEF InQueue
  <2> QED BY <1>12, <1>13, <2>1 DEF FewerNodes
<1>15. ASSUME NEW i \in 1..Len(h.fraq), NEW j \in 1..Len(h.fraq), i < j
       PROVE  h.table[h.fraq[i]].last_ctime <= h.table[h.fraq[j]].last_ctime
  <2>1. i \in 1..L /\ j \in 1..L /\ i + n < j + n
    BY <1>1, <1>2, <1>7, <1>15
  <2>2. g.table[g.fraq[i + n]].last_ctime <= g.table[g.fraq[j + n]].last_ctime
    BY <1>8, <2>1 DEF FragWF
  <2> QED BY <1>14, <2>1, <2>2
<1>16. \A d \in Dgrams : HeldIn(h, d) => h.table[d].last_ctime <= h.ctime
  BY <1>12 DEF FewerNodes, FragWF
<1>17. Distinct(h.fraq) /\ h.count = Len(h.fraq) /\ Len(h.fraq) = L
  BY <1>1, <1>2, <1>7, <1>9
<1> QED BY <1>6, <1>7, <1>12, <1>13, <1>14, <1>15, <1>16, <1>17 DEF FragWF

LEMMA LessThanRelation ==
  \E R : IsWellFoundedOn(R, Nat) /\ \A x, y \in Nat : <<y, x>> \in R <=> y < x
<1>1. \A x, y \in Nat : <<y, x>> \in OpToRel(<, Nat) <=> y < x
  BY Zenon DEF OpToRel
<1> QED BY <1>1, NatLessThanWellFounded, Zenon

LEMMA LeastNumber ==
  ASSUME NEW S \in SUBSET Nat, S # {}
  PROVE  \E x \in S : \A y \in S : x <= y
<1>1. PICK R : IsWellFoundedOn(R, Nat) /\ \A x, y \in Nat : <<y, x>> \in R <=> y < x
  BY LessThanRelation
<1>2. \E x \in S : \A y \in S : ~(<<y, x>> \in R)
  BY <1>1, WFMin, Zenon
<1>3. PICK x \in S : \A y \in S : ~(<<y, x>> \in R)
  BY <1>2
<1>4. \A y \in S : ~(y < x)
  BY <1>1, <1>3
<1> QED BY <1>3, <1>4

(* The loop over expired nodes stops somewhere.                            *)
Expired(g, i) == g.ctime - g.table[g.fraq[i]].last_ctime > YF_FRAG_TIMEOUT

LEMMA ExpiredRunFacts ==
  ASSUME NEW g, FragWF(g)
  PROVE  /\ ExpiredRun(g) \in 0..Len(g.fraq)
         /\ \A i \in 1..ExpiredRun(g) : Expired(g, i)
         /\ ExpiredRun(g) < Len(g.fraq) => ~Expired(g, ExpiredRun(g) + 1)
<1>1. Len(g.fraq) \in Nat
  BY TabFields DEF FragWF
<1> DEFINE L == Len(g.fraq)
           S == {m \in 0..L : m = L \/ ~Expired(g, m + 1)}
           Stops(m) == (\A i \in 1..m : Expired(g, i)) /\ (m < L => ~Expired(g, m + 1))
<1>2. PICK m \in S : \A k \in S : m <= k
  <2>1. S \in SUBSET Nat /\ L \in S
    BY <1>1
  <2> HIDE DEF S
  <2> QED BY <2>1, LeastNumber
<1>3. m \in 0..L /\ (m < L => ~Expired(g, m + 1))
  BY <1>1, <1>2
<1>4. ASSUME NEW i \in 1..m
      PROVE  Expired(g, i)
  <2>1. i - 1 \in 0..L /\ i - 1 # L /\ ~(m <= i - 1) /\ (i - 1) + 1 = i
    BY <1>1, <1>3
  <2>2. i - 1 \notin S
    <3> HIDE DEF S
    <3> QED BY <1>2, <2>1
  <2>3. ~(i - 1 = L \/ ~Expired(g, (i - 1) + 1))
    BY <2>1, <2>2
  <2> QED BY <2>1, <2>3
<1>5. \E k \in 0..L : Stops(k)
  BY <1>3, <1>4
<1>6. ExpiredRun(g) = CHOOSE k \in 0..L : Stops(k)
  BY DEF ExpiredRun, Expired
<1> HIDE DEF Stops
<1>7. ExpiredRun(g) \in 0..L /\ Stops(ExpiredRun(g))
  BY <1>5, <1>6
<1> QED BY <1>7 DEF Stops

(* After a pass no node is expired and the limit holds.                    *)
LEMMA PruneFacts ==
  ASSUME NEW g, FragWF(g), NEW h, h = yfFragQueuePrune(g)
  PROVE  /\ FragWF(h) /\ FewerNodes(g, h)
         /\ h.frags = g.frags /\ h.seqrej = g.seqrej
         /\ \/ /\ g.prunetime # 0 /\ g.ctime < g.prunetime + YF_FRAGPRUNE_DELAY
               /\ h.prunetime = g.prunetime
            \/ /\ h.prunetime = g.ctime
               /\ max_frags # 0 => h.count < max_frags
               /\ \A d \in Dgrams : HeldIn(h, d) =>
                    h.ctime - h.table[d].last_ctime <= YF_FRAG_TIMEOUT
<1>1. g \in FragTab /\ g.count = Len(g.fraq) /\ Len(g.fraq) \in Nat /\ max_frags \in Nat
      /\ g.ctime \in Nat /\ YF_FRAG_TIMEOUT \in Nat
  BY TabFields, FragConfigAssumption DEF FragWF
<1>2. CASE g.prunetime # 0 /\ g.ctime < g.prunetime + YF_FRAGPRUNE_DELAY
  BY <1>2 DEF yfFragQueuePrune, FewerNodes
<1>3. CASE ~(g.prunetime # 0 /\ g.ctime < g.prunetime + YF_FRAGPRUNE_DELAY)
  <2> DEFINE a == [g EXCEPT !.prunetime = g.ctime]
             b == DropOldest(a, OverLimit(g))
  <2>1. /\ a \in FragTab /\ a.prunetime = g.ctime /\ a.ctime = g.ctime /\ a.table = g.table
        /\ a.fraq = g.fraq /\ a.count = g.count /\ a.frags = g.frags /\ a.seqrej = g.seqrej
    BY <1>1 DEF FragTab
  <2>2. h = DropOldest(b, ExpiredRun(b))
    BY <1>3 DEF yfFragQueuePrune
  <2> HIDE DEF a
  <2>3. FragWF(a) /\ FewerNodes(g, a)
    BY <2>1 DEF FragWF, HeldIn, FewerNodes
  <2>4. OverLimit(g) \in 0..Len(g.fraq) /\ (max_frags # 0 => Len(g.fraq) - OverLimit(g) < max_frags)
    <3> DEFINE L == Len(g.fraq)
    <3>1. OverLimit(g) = IF max_frags = 0 \/ L < max_frags THEN 0 ELSE L - max_frags + 1
      BY <1>1 DEF OverLimit
    <3>2. L \in Nat /\ max_frags \in Nat
      BY <1>1
    <3> HIDE DEF L
    <3>3. OverLimit(g) \in 0..L /\ (max_frags # 0 => L - OverLimit(g) < max_frags)
      BY <3>1, <3>2
    <3> QED BY <3>3 DEF L
  <2>5. /\ FragWF(b) /\ FewerNodes(a, b) /\ b.prunetime = a.prunetime
        /\ b.frags = a.frags /\ b.seqrej = a.seqrej
        /\ Len(b.fraq) = Len(g.fraq) - OverLimit(g)
    BY <2>1, <2>3, <2>4, DropOldestWF
  <2> HIDE DEF b
  <2> DEFINE n == ExpiredRun(b)
  <2>6. /\ n \in 0..Len(b.fraq)
        /\ n < Len(b.fraq) => ~Expired(b, n + 1)
    BY <2>5, ExpiredRunFacts
  <2> HIDE DEF n
  <2>7. /\ FragWF(h) /\ FewerNodes(b, h) /\ h.prunetime = b.prunetime
        /\ h.frags = b.frags /\ h.seqrej = b.seqrej
        /\ Len(h.fraq) = Len(b.fraq) - n
        /\ \A k \in 1..Len(h.fraq) : h.fraq[k] = b.fraq[k + n]
    <3>1. h = DropOldest(b, n)
      BY <2>2 DEF n
    <3>2. FragWF(b) /\ n \in 0..Len(b.fraq)
      BY <2>5, <2>6
    <3>3. /\ FragWF(h) /\ FewerNodes(b, h) /\ h.prunetime = b.prunetime
          /\ h.frags = b.frags /\ h.seqrej = b.seqrej
      BY <3>1, <3>2, DropOldestWF
    <3>4. Len(h.fraq) = Len(b.fraq) - n
      BY <3>1, <3>2, DropOldestWF
    <3>5. \A k \in 1..Len(h.fraq) : h.fraq[k] = b.fraq[k + n]
      BY <3>1, <3>2, DropOldestWF
    <3> QED BY <3>3, <3>4, <3>5
  <2>8. FewerNodes(g, h)
    BY <2>3, <2>5, <2>7 DEF FewerNodes
  <2>9. Len(b.fraq) \in Nat /\ n \in Nat /\ Len(h.fraq) \in Nat /\ h.count = Len(h.fraq)
        /\ h \in FragTab /\ b \in FragTab /\ h.ctime \in Nat
    BY <2>5, <2>6, <2>7, TabFields DEF FragWF
  <2>10. max_frags # 0 => h.count < max_frags
    BY <1>1, <2>4, <2>5, <2>7, <2>9
  <2>11. ASSUME NEW d \in Dgrams, HeldIn(h, d)
         PROVE  h.ctime - h.table[d].last_ctime <= YF_FRAG_TIMEOUT
    <3>1. PICK k \in 1..Len(h.fraq) : h.fraq[k] = d
      BY <2>7, <2>11 DEF FragWF, InQueue
    <3>2. n < Len(b.fraq) /\ n + 1 \in 1..Len(b.fraq) /\ 1 \in 1..Len(h.fraq)
          /\ n + 1 = 1 + n
      BY <2>7, <2>9, <3>1
    <3>3. h.fraq[1] = b.fraq[n + 1] /\ h.fraq[1] \in Dgrams /\ HeldIn(h, h.fraq[1])
      BY <2>7, <2>9, <3>2, TabFields, SMTT(30) DEF FragWF, InQueue
    <3>4. h.table[h.fraq[1]] = b.table[b.fraq[n + 1]] /\ h.ctime = b.ctime
          /\ h.table[h.fraq[1]].last_ctime \in Nat /\ h.table[d].last_ctime \in Nat
      BY <2>7, <2>9, <2>11, <3>3, TabFields DEF FewerNodes
    <3>5. ~(h.ctime - h.table[h.fraq[1]].last_ctime > YF_FRAG_TIMEOUT)
      BY <2>6, <3>2, <3>4 DEF Expired
    <3>6. h.table[h.fraq[1]].last_ctime <= h.table[d].last_ctime
      <4>1. CASE k = 1
        BY <3>1, <3>4, <4>1
      <4>2. CASE k # 1
        <5>1. 1 < k
          BY <4>2
        <5> QED BY <2>7, <3>1, <3>2, <5>1 DEF FragWF
      <4> QED BY <4>1, <4>2
    <3> DEFINE x == h.table[h.fraq[1]].last_ctime
               y == h.table[d].last_ctime
    <3>7. x \in Nat /\ y \in Nat /\ x <= y /\ ~(h.ctime - x > YF_FRAG_TIMEOUT)
      BY <3>4, <3>5, <3>6
    <3> HIDE DEF x, y
    <3>8. h.ctime - y <= YF_FRAG_TIMEOUT
      BY <1>1, <2>9, <3>7
    <3> QED BY <3>8 DEF y
  <2> QED BY <2>1, <2>5, <2>7, <2>8, <2>10, <2>11
<1> QED BY <1>2, <1>3

----------------------------------------------------------------------------
(***************************************************************************)
(* One fragment                                                            *)
(***************************************************************************)
LEMMA RejectInv ==
  ASSUME FragInv, NEW d, NEW f, NEW ptime, DefragReject(d, f, ptime)
  PROVE  FragInv' /\ fg'.prunetime = fg.prunetime
<1>1. fg \in FragTab /\ fg.seqrej + 1 \in Nat
  BY TabFields DEF FragInv, FragWF
<1>2. fg' = [fg EXCEPT !.seqrej = fg.seqrej + 1]
  BY <1>1 DEF DefragReject
<1>3. /\ fg' \in FragTab /\ fg'.ctime = fg.ctime /\ fg'.prunetime = fg.prunetime
      /\ fg'.table = fg.table /\ fg'.fraq = fg.fraq /\ fg'.count = fg.count
  BY <1>1, <1>2 DEF FragTab
<1>4. FragWF(fg')
  BY <1>3 DEF FragInv, FragWF, HeldIn
<1>5. Timely(fg')
  BY <1>3 DEF FragInv, Timely, HeldIn
<1> QED BY <1>3, <1>4, <1>5 DEF FragInv

LEMMA DefragInv ==
  ASSUME FragInv, NEW d \in Dgrams, NEW f \in d.frags, NEW stale \in PortNums,
         NEW ptime \in Nat \ {0}, Defrag(d, f, stale, ptime)
  PROVE  /\ FragInv'
         /\ fg'.prunetime # fg.prunetime /\ max_frags # 0 => fg'.count < max_frags
<1> DEFINE p == yfDecodeIP(d, f, stale)
           g == Added(fg, d, p, ptime)
<1>1. /\ fg \in FragTab /\ FragWF(fg) /\ Timely(fg) /\ fg.ctime \in Nat /\ fg.prunetime \in Nat
      /\ fg.ctime <= ptime /\ ptime \in Nat /\ ptime # 0
      /\ YF_FRAG_TIMEOUT \in Nat /\ YF_FRAGPRUNE_DELAY \in Nat /\ YF_FRAGPRUNE_DELAY # 0
  BY TabFields, FragConfigAssumption DEF FragInv, FragWF, Defrag
<1>2. p \in Pbuf
  BY DecodedType
<1>3. PICK k : /\ fg' = yfFragQueuePrune(k)
               /\ k = g \/ \E drop \in BOOLEAN : k = yfFragRemoveNode(g, d, drop)
  <2>1. PICK s \in yfFragSortByOffset(g.table[d].records) :
          fg' = yfFragQueuePrune(
                  IF yfFragComplete(g.table[d], d, s) = "incomplete" THEN g
                  ELSE yfFragRemoveNode(g, d, yfFragComplete(g.table[d], d, s) = "dropped"))
    BY DEF Defrag
  <2>2. (yfFragComplete(g.table[d], d, s) = "dropped") \in BOOLEAN
    OBVIOUS
  <2> QED BY <2>1, <2>2
<1> HIDE DEF p
<1>4. /\ FragWF(g) /\ g.ctime = ptime /\ g.prunetime = fg.prunetime
      /\ g.table[d] = NodeAfter(fg, d, p, ptime)
      /\ \A e \in Dgrams : e # d => g.table[e] = fg.table[e]
  BY <1>1, <1>2, AddedWF
<1>5. NodeAfter(fg, d, p, ptime).last_ctime = ptime /\ HeldIn(g, d)
  BY <1>1, <1>2, <1>4, NodeAfterType, NodeFields DEF HeldIn
<1> HIDE DEF g
<1>6. FragWF(k) /\ FewerNodes(g, k) /\ k.prunetime = g.prunetime
  BY <1>3, <1>4, <1>5, RemoveWF DEF FewerNodes
<1>7. /\ FragWF(fg') /\ FewerNodes(k, fg')
      /\ \/ /\ k.prunetime # 0 /\ k.ctime < k.prunetime + YF_FRAGPRUNE_DELAY
            /\ fg'.prunetime = k.prunetime
         \/ /\ fg'.prunetime = k.ctime
            /\ max_frags # 0 => fg'.count < max_frags
            /\ \A e \in Dgrams : HeldIn(fg', e) =>
                 fg'.ctime - fg'.table[e].last_ctime <= YF_FRAG_TIMEOUT
  BY <1>3, <1>6, PruneFacts
<1>8. k.ctime = ptime /\ fg'.ctime = ptime /\ k.prunetime = fg.prunetime
  BY <1>4, <1>6, <1>7 DEF FewerNodes
<1>9. CASE /\ k.prunetime # 0 /\ k.ctime < k.prunetime + YF_FRAGPRUNE_DELAY
           /\ fg'.prunetime = k.prunetime
  <2>1. fg.prunetime # 0 /\ ptime < fg.prunetime + YF_FRAGPRUNE_DELAY /\ fg'.prunetime = fg.prunetime
    BY <1>8, <1>9
  <2>2. ASSUME NEW e \in Dgrams, HeldIn(fg', e)
        PROVE  fg'.prunetime - fg'.table[e].last_ctime <= YF_FRAG_TIMEOUT
    <3>1. fg'.table[e] = g.table[e] /\ HeldIn(g, e)
      BY <1>6, <1>7, <2>2 DEF FewerNodes
    <3>2. CASE e = d
      <4>1. fg.prunetime <= fg.ctime
        BY <1>1 DEF Timely
      <4>2. fg.prunetime - ptime <= YF_FRAG_TIMEOUT
        BY <1>1, <4>1
      <4> QED BY <1>4, <1>5, <2>1, <3>1, <3>2, <4>2
    <3>3. CASE e # d
      <4>1. fg'.table[e] = fg.table[e] /\ HeldIn(fg, e)
        BY <1>4, <3>1, <3>3 DEF HeldIn
      <4> QED BY <1>1, <2>1, <4>1 DEF Timely
    <3> QED BY <3>2, <3>3
  <2>3. fg'.prunetime <= fg'.ctime
    BY <1>1, <1>8, <2>1 DEF Timely
  <2>4. Timely(fg')
    BY <1>8, <2>1, <2>2, <2>3 DEF Timely
  <2> QED BY <1>7, <2>1, <2>4 DEF FragInv
<1>10. CASE /\ fg'.prunetime = k.ctime
            /\ max_frags # 0 => fg'.count < max_frags
            /\ \A e \in Dgrams : HeldIn(fg', e) =>
                 fg'.ctime - fg'.table[e].last_ctime <= YF_FRAG_TIMEOUT
  <2>1. ptime < ptime + YF_FRAGPRUNE_DELAY /\ ptime <= ptime
    BY <1>1
  <2>2. Timely(fg')
    BY <1>1, <1>8, <1>10, <2>1 DEF Timely
  <2> QED BY <1>7, <1>10, <2>2 DEF FragInv
<1> QED BY <1>7, <1>9, <1>10

LEMMA NextInv ==
  FragInv /\ [Next]_vars =>
    /\ FragInv'
    /\ fg'.prunetime # fg.prunetime /\ max_frags # 0 => fg'.count < max_frags
<1> SUFFICES ASSUME FragInv, [Next]_vars
             PROVE  /\ FragInv'
                    /\ fg'.prunetime # fg.prunetime /\ max_frags # 0 => fg'.count < max_frags
  OBVIOUS
<1>1. CASE UNCHANGED vars
  BY <1>1 DEF vars, FragInv
<1>2. CASE Next
  <2>1. PICK d \in Dgrams, ptime \in 1..MaxTime : \E f \in d.frags :
          \/ DefragReject(d, f, ptime)
          \/ \E stale \in PortNums : Defrag(d, f, stale, ptime)
    BY <1>2 DEF Next
  <2>2. ptime \in Nat \ {0}
    BY FragConfigAssumption
  <2> QED BY <2>1, <2>2, RejectInv, DefragInv
<1> QED BY <1>1, <1>2

LEMMA InitInv == Init => FragInv
<1> SUFFICES ASSUME Init PROVE FragInv
  OBVIOUS
<1>1. fg = yfFragTabAlloc
  BY DEF Init
<1>2. <<>> \in Seq(Dgrams) /\ [d \in Dgrams |-> NoNode] \in [Dgrams -> FragNode \cup {NoNode}]
  OBVIOUS
<1>3. fg \in FragTab
  BY <1>1, <1>2 DEF yfFragTabAlloc, FragTab
<1>4. /\ fg.fraq = <<>> /\ Len(fg.fraq) = 0 /\ fg.count = 0 /\ fg.prunetime = 0 /\ fg.ctime = 0
      /\ fg.table = [d \in Dgrams |-> NoNode]
  BY <1>1 DEF yfFragTabAlloc
<1>5. \A d \in Dgrams : ~HeldIn(fg, d) /\ ~InQueue(fg.fraq, d)
  BY <1>4 DEF HeldIn, InQueue
<1>6. FragWF(fg)
  BY <1>3, <1>4, <1>5 DEF FragWF, Distinct
<1>7. Timely(fg)
  BY <1>4, <1>5 DEF Timely
<1> QED BY <1>6, <1>7 DEF FragInv

LEMMA Invariance == Spec => []FragInv
<1>1. FragInv /\ [Next]_vars => FragInv'
  BY NextInv
<1> QED BY <1>1, InitInv, PTL DEF Spec

(* Table, queue and count of the fragment table always agree, the queue is *)
(* in the order of the last fragments, and no node outlives the timeout by *)
(* more than one pruning delay (yfFragGetNode, yfFragRemoveNode,           *)
(* yfFragQueuePrune).                                                      *)
THEOREM FragmentQueueMatches == Spec => []FraqMatches
<1>1. FragInv => FraqMatches
  <2> SUFFICES ASSUME FragInv PROVE FraqMatches
    OBVIOUS
  <2>1. /\ fg \in FragTab /\ FragWF(fg) /\ Timely(fg) /\ Len(fg.fraq) \in Nat
        /\ fg.fraq \in Seq(Dgrams) /\ fg.ctime \in Nat /\ fg.prunetime \in Nat
        /\ YF_FRAG_TIMEOUT \in Nat /\ YF_FRAGPRUNE_DELAY \in Nat
        /\ \A i \in 1..Len(fg.fraq) : fg.fraq[i] \in Dgrams
    BY TabFields, FragConfigAssumption DEF FragInv, FragWF
  <2>2. {fg.fraq[i] : i \in 1..Len(fg.fraq)} = Held
    <3>1. \A d \in Dgrams : d \in Held <=> InQueue(fg.fraq, d)
      BY <2>1 DEF Held, FragWF, HeldIn
    <3>2. Held \subseteq Dgrams
      BY DEF Held
    <3> QED BY <2>1, <3>1, <3>2 DEF InQueue
  <2>3. Cardinality(Held) = Len(fg.fraq)
    <3> DEFINE m == Len(fg.fraq)
               b == [i \in 1..m |-> fg.fraq[i]]
    <3>1. b \in [1..m -> Held]
      BY <2>2
    <3>2. \A i, j \in 1..m : b[i] = b[j] => i = j
      BY <2>1 DEF FragWF, Distinct
    <3>3. \A d \in Held : \E i \in 1..m : b[i] = d
      BY <2>2
    <3>4. b \in Bijection(1..m, Held)
      BY <3>1, <3>2, <3>3 DEF Bijection, Injection, Surjection, IsInjective
    <3>5. ExistsBijection(1..m, Held)
      BY <3>4 DEF ExistsBijection
    <3> HIDE DEF b
    <3> QED BY <2>1, <3>5, FS_CountingElements
  <2>4. ASSUME NEW d \in Held
        PROVE  fg.ctime - fg.table[d].last_ctime < YF_FRAG_TIMEOUT + YF_FRAGPRUNE_DELAY
    <3>1. d \in Dgrams /\ HeldIn(fg, d) /\ InQueue(fg.fraq, d)
      BY <2>1 DEF Held, HeldIn, FragWF
    <3>2. fg.prunetime # 0
      BY <2>1, <3>1 DEF Timely, InQueue
    <3>3. fg.ctime < fg.prunetime + YF_FRAGPRUNE_DELAY
          /\ fg.prunetime - fg.table[d].last_ctime <= YF_FRAG_TIMEOUT
          /\ fg.table[d].last_ctime \in Nat
      BY <2>1, <3>1, <3>2, TabFields DEF Timely
    <3> QED BY <2>1, <3>3
  <2>5. fg.count = Cardinality(Held)
    BY <2>1, <2>3 DEF FragWF
  <2> QED BY <2>1, <2>2, <2>3, <2>4, <2>5 DEF FragWF, FraqMatches
<1> QED BY <1>1, Invariance, PTL

(* Every pruning pass leaves the table below max_frags (yfFragQueuePrune). *)
THEOREM PruningKeepsLimit == Spec => PruneKeepsLimit
<1>1. FragInv /\ [Next]_vars =>
        [fg'.prunetime # fg.prunetime /\ max_frags # 0 => fg'.count < max_frags]_vars
  BY NextInv
<1> QED BY <1>1, Invariance, PTL DEF Spec, PruneKeepsLimit

----------------------------------------------------------------------------
(***************************************************************************)
(* Reassembly                                                              *)
(***************************************************************************)
RecordOf(f) == [off |-> f.off, len |-> f.len]

(* What the node of datagram d says of the fragments it has seen.          *)
NodeOf(d, n) ==
  /\ \A r \in n.records : \E f \in d.frags : r = RecordOf(f)
  /\ n.have_first <=> \E r \in n.records : r.off = 0
  /\ n.have_last => \E f \in d.frags : ~f.more /\ RecordOf(f) \in n.records
  /\ d.version = 4 /\ Pieces(d) =>
       \A f \in d.frags : ~f.more /\ RecordOf(f) \in n.records => n.have_last
  /\ n.have_l4hdr => n.ports = d.ports
  /\ d.proto = "other" => ~n.have_l4hdr
  /\ d.proto = "other" /\ n.from_first => n.ports = d.ports
  /\ HeaderCaptured(d) /\ d.proto # "other" /\ n.have_first => n.have_l4hdr

NodesOf(g) == \A d \in Dgrams : HeldIn(g, d) => NodeOf(d, g.table[d])

LEMMA NodeAfterOf ==
  ASSUME NEW g \in FragTab, NodesOf(g), NEW d \in Dgrams, NEW f \in d.frags, NEW stale \in PortNums,
         NEW ptime \in Nat, NEW p, p = yfDecodeIP(d, f, stale)
  PROVE  NodeOf(d, NodeAfter(g, d, p, ptime))
<1> DEFINE a == NodeBefore(g, d, p, ptime)
           b == StashFirst(a, p)
           c == yfFragAdd(b, p)
<1>0. d.proto = "other" /\ f.off = 0 => p.ports = d.ports
  BY DgramsAssumption DEF yfDecodeIP, DecodedPorts, HasL4
<1>1. p \in Pbuf /\ p.info.off = f.off /\ p.len = f.len /\ p.l4 = HasL4(d, f)
      /\ (p.l4 => p.ports = d.ports)
      /\ (d.version = 4 => p.info.more = f.more) /\ (~p.info.more => ~f.more)
  BY DecodedType DEF yfDecodeIP, yfDecodeIPv4, yfDecodeIPv6, DecodedPorts
<1>2. a \in FragNode
  BY <1>1, NodeAfterType
<1>3. NodeOf(d, a)
  <2>1. CASE HeldIn(g, d)
    <3>1. g.table[d] \in FragNode /\ NodeOf(d, g.table[d])
      BY <2>1, TabFields DEF NodesOf
    <3>2. /\ a.records = g.table[d].records /\ a.have_first = g.table[d].have_first
          /\ a.have_last = g.table[d].have_last /\ a.have_l4hdr = g.table[d].have_l4hdr
          /\ a.ports = g.table[d].ports /\ a.from_first = g.table[d].from_first
      BY <2>1, <3>1 DEF NodeBefore, FragNode
    <3> HIDE DEF a
    <3> QED BY <3>1, <3>2 DEF NodeOf
  <2>2. CASE ~HeldIn(g, d)
    <3>1. /\ a.records = {} /\ ~a.have_first /\ ~a.have_last /\ ~a.have_l4hdr
          /\ a.ports = p.ports /\ a.from_first = (f.off = 0)
      BY <1>1, <2>2 DEF NodeBefore, FreshNode
    <3>2. d.proto = "other" /\ a.from_first => a.ports = d.ports
      BY <1>0, <3>1
    <3> HIDE DEF a
    <3> QED BY <3>1, <3>2 DEF NodeOf
  <2> QED BY <2>1, <2>2
<1> HIDE DEF a
<1>4. /\ b \in FragNode /\ b.records = a.records /\ b.have_first = a.have_first
      /\ b.have_last = a.have_last
      /\ b.have_l4hdr <=> a.have_l4hdr \/ (f.off = 0 /\ HasL4(d, f))
      /\ b.have_l4hdr => b.ports = d.ports
      /\ d.proto = "other" => b.ports = a.ports
      /\ b.from_first = a.from_first
  <2>1. CASE f.off = 0 /\ HasL4(d, f)
    <3>1. b = [a EXCEPT !.ports = p.ports, !.have_l4hdr = TRUE] /\ p.ports = d.ports
      BY <1>1, <2>1 DEF StashFirst
    <3>2. d.proto # "other"
      BY <2>1 DEF HasL4
    <3>3. p.ports \in PortNums
      BY <1>1 DEF Pbuf
    <3> QED BY <1>2, <2>1, <3>1, <3>2, <3>3 DEF FragNode
  <2>2. CASE ~(f.off = 0 /\ HasL4(d, f))
    <3>1. b = a
      BY <1>1, <2>2 DEF StashFirst
    <3> QED BY <1>2, <1>3, <2>2, <3>1 DEF NodeOf
  <2> QED BY <2>1, <2>2
<1> HIDE DEF b
<1>5. /\ c.records = a.records \cup {RecordOf(f)}
      /\ c.have_first <=> a.have_first \/ f.off = 0
      /\ c.have_last <=> a.have_last \/ ~p.info.more
      /\ c.have_l4hdr = b.have_l4hdr /\ c.ports = b.ports /\ c.from_first = b.from_first
  BY <1>1, <1>4 DEF yfFragAdd, FragNode, RecordOf
<1>6. NodeAfter(g, d, p, ptime) = c
  BY DEF NodeAfter, a, b
<1> HIDE DEF c
<1>7. \A r \in c.records : \E e \in d.frags : r = RecordOf(e)
  BY <1>3, <1>5 DEF NodeOf
<1>8. c.have_first <=> \E r \in c.records : r.off = 0
  <2>1. RecordOf(f).off = f.off
    BY DEF RecordOf
  <2> QED BY <1>3, <1>5, <2>1 DEF NodeOf
<1>9. c.have_last => \E e \in d.frags : ~e.more /\ RecordOf(e) \in c.records
  BY <1>1, <1>3, <1>5 DEF NodeOf
<1>10. ASSUME d.version = 4, Pieces(d), NEW e \in d.frags, ~e.more, RecordOf(e) \in c.records
       PROVE  c.have_last
  <2>1. CASE RecordOf(e) \in a.records
    BY <1>3, <1>5, <1>10, <2>1 DEF NodeOf
  <2>2. CASE RecordOf(e) = RecordOf(f)
    <3>1. e.off = f.off /\ e.len = f.len
      BY <2>2 DEF RecordOf
    <3>2. e.off \in Nat /\ e.len \in Nat \ {0}
      BY DgramsAssumption DEF Fragment
    <3>3. ~(e.off + e.len <= e.off)
      BY <3>2
    <3>4. e.more = f.more
      BY <1>10, <3>1, <3>3 DEF Pieces
    <3> QED BY <1>1, <1>5, <1>10, <3>4
  <2> QED BY <1>5, <1>10, <2>1, <2>2
<1>11. c.have_l4hdr => c.ports = d.ports
  BY <1>4, <1>5
<1>12. HeaderCaptured(d) /\ d.proto # "other" /\ c.have_first => c.have_l4hdr
  <2>1. HeaderCaptured(d) /\ d.proto # "other" /\ f.off = 0 => HasL4(d, f)
    BY DgramsAssumption DEF HeaderCaptured, HasL4
  <2> QED BY <1>3, <1>4, <1>5, <2>1 DEF NodeOf
<1>13. /\ d.proto = "other" => ~c.have_l4hdr
       /\ d.proto = "other" /\ c.from_first => c.ports = d.ports
  <2>1. d.proto = "other" => ~HasL4(d, f)
    BY DEF HasL4
  <2> QED BY <1>3, <1>4, <1>5, <2>1 DEF NodeOf
<1> QED BY <1>6, <1>7, <1>8, <1>9, <1>10, <1>11, <1>12, <1>13 DEF NodeOf

(* The records of a node are finitely many.                                *)
LEMMA RecordsFinite ==
  ASSUME NEW d \in Dgrams, NEW n, NodeOf(d, n)
  PROVE  IsFiniteSet(n.records)
<1> DEFINE R == {RecordOf(f) : f \in d.frags}
           g == [f \in d.frags |-> RecordOf(f)]
<1>1. IsFiniteSet(d.frags)
  BY DgramsAssumption
<1>2. g \in Surjection(d.frags, R)
  <2>1. g \in [d.frags -> R]
    OBVIOUS
  <2>2. \A r \in R : \E f \in d.frags : g[f] = r
    OBVIOUS
  <2> QED BY <2>1, <2>2 DEF Surjection
<1>3. IsFiniteSet(R)
  <2> HIDE DEF g, R
  <2> QED BY <1>1, <1>2, FS_Surjection
<1>4. n.records \in SUBSET R
  BY DEF NodeOf
<1> HIDE DEF R
<1> QED BY <1>3, <1>4, FS_Subset

(* A sorted sequence of the records has each of them.                      *)
LEMMA SortedFacts ==
  ASSUME NEW R, IsFiniteSet(R), NEW s \in yfFragSortByOffset(R)
  PROVE  /\ Len(s) \in Nat /\ DOMAIN s = 1..Len(s)
         /\ \A i \in 1..Len(s) : s[i] \in R
         /\ \A r \in R : \E i \in 1..Len(s) : s[i] = r
         /\ \A i, j \in 1..Len(s) : i < j => s[i] # s[j] /\ s[i].off <= s[j].off
<1> DEFINE N == Cardinality(R)
<1>1. N \in Nat
  BY FS_CardinalityType
<1>2. /\ s \in [1..N -> R]
      /\ \A i, j \in 1..N : i # j => s[i] # s[j]
      /\ \A i, j \in 1..N : i < j => s[i].off <= s[j].off
  BY DEF yfFragSortByOffset
<1> HIDE DEF N
<1>3. s \in Seq(R) /\ Len(s) = N
  BY <1>1, <1>2
<1>4. s \in Injection(1..N, R)
  BY <1>2 DEF Injection, IsInjective
<1>5. IsFiniteSet(1..N) /\ Cardinality(1..N) = N
  BY <1>1, FS_Interval
<1>6. s \in Surjection(1..N, R)
  BY <1>4, <1>5, FS_Injection DEF N
<1>7. \A r \in R : \E i \in 1..N : s[i] = r
  BY <1>6 DEF Surjection
<1>8. \A i, j \in 1..N : i < j => i # j
  BY <1>1
<1> QED BY <1>1, <1>2, <1>3, <1>7, <1>8

(* In a datagram in pieces every fragment is before the last one, or is    *)
(* it, and the length of the datagram is where the last one ends.          *)
LEMMA LastPiece ==
  ASSUME NEW d \in Dgrams, Pieces(d), NEW e \in d.frags, ~e.more
  PROVE  /\ \A f \in d.frags : RecordOf(f) = RecordOf(e) \/ f.off + f.len <= e.off
         /\ TotalLen(d) = e.off + e.len
<1>1. \A f \in d.frags : f.off \in Nat /\ f.len \in Nat /\ f.len # 0
  BY DgramsAssumption DEF Fragment
<1>2. ASSUME NEW f \in d.frags
      PROVE  (f.off = e.off /\ f.len = e.len) \/ f.off + f.len <= e.off
  <2>1. f.off <= e.off
    BY DEF Pieces
  <2>2. ~(e.off + e.len <= f.off)
    BY <1>1, <2>1
  <2> QED BY <2>2 DEF Pieces
<1>3. \A f \in d.frags : RecordOf(f) = RecordOf(e) \/ f.off + f.len <= e.off
  BY <1>2 DEF RecordOf
<1>4. TotalLen(d) = e.off + e.len
  <2> DEFINE c == CHOOSE x \in d.frags : ~x.more
  <2>1. c \in d.frags /\ ~c.more
    OBVIOUS
  <2>2. TotalLen(d) = c.off + c.len
    BY DEF TotalLen
  <2> HIDE DEF c
  <2>3. e.off <= c.off
    BY <2>1 DEF Pieces
  <2>4. c.off = e.off /\ c.len = e.len
    BY <1>1, <1>2, <2>1, <2>3
  <2> QED BY <2>2, <2>4
<1> QED BY <1>3, <1>4

(* Sorted records without a gap that have the last piece are the whole     *)
(* datagram and end where it ends.                                         *)
LEMMA FitIsWhole ==
  ASSUME NEW d \in Dgrams, Pieces(d), NEW n, NodeOf(d, n), n.have_last,
         NEW s \in yfFragSortByOffset(n.records), Fit(s)
  PROVE  Whole(d, n.records) /\ EndOf(s) = TotalLen(d)
<1> DEFINE N == Len(s)
<1>1. /\ N \in Nat /\ DOMAIN s = 1..N
      /\ \A i \in 1..N : s[i] \in n.records
      /\ \A r \in n.records : \E i \in 1..N : s[i] = r
      /\ \A i, j \in 1..N : i < j => s[i] # s[j] /\ s[i].off <= s[j].off
  BY RecordsFinite, SortedFacts
<1>2. PICK e \in d.frags : ~e.more /\ RecordOf(e) \in n.records
  BY DEF NodeOf
<1>3. PICK k \in 1..N : s[k] = RecordOf(e)
  BY <1>1, <1>2
<1>4. \A i \in 1..N : s[i].off \in Nat /\ s[i].len \in Nat /\ s[i].len # 0
                      /\ (s[i] = s[k] \/ s[i].off + s[i].len <= s[k].off)
  <2> SUFFICES ASSUME NEW i \in 1..N
               PROVE  /\ s[i].off \in Nat /\ s[i].len \in Nat /\ s[i].len # 0
                      /\ s[i] = s[k] \/ s[i].off + s[i].len <= s[k].off
    OBVIOUS
  <2>1. PICK f \in d.frags : s[i] = RecordOf(f)
    BY <1>1 DEF NodeOf
  <2>2. f.off \in Nat /\ f.len \in Nat /\ f.len # 0
    BY DgramsAssumption DEF Fragment
  <2>3. s[i].off = f.off /\ s[i].len = f.len /\ s[k].off = e.off
    BY <1>3, <2>1 DEF RecordOf
  <2> QED BY <1>2, <1>3, <2>1, <2>2, <2>3, LastPiece
<1>5. k = N
  <2>1. SUFFICES ASSUME k # N PROVE FALSE
    OBVIOUS
  <2>2. k < N /\ N \in 1..N
    <3>1. N \in Nat /\ k \in 1..N
      BY <1>1, <1>3
    <3> HIDE DEF N
    <3> QED BY <2>1, <3>1
  <2>3. s[k] # s[N] /\ s[k].off <= s[N].off
    BY <1>1, <2>2
  <2>4. s[N].off + s[N].len <= s[k].off
    BY <1>4, <2>2, <2>3
  <2> QED BY <1>4, <2>2, <2>3, <2>4
<1>6. EndOf(s) = TotalLen(d)
  <2>1. s[k].off = e.off /\ s[k].len = e.len
    BY <1>3 DEF RecordOf
  <2> QED BY <1>2, <1>5, <2>1, LastPiece DEF EndOf
<1>7. ASSUME NEW u \in 0..(TotalLen(d) - 1)
      PROVE  \E r \in n.records : u >= r.off /\ u < r.off + r.len
  <2>1. /\ N \in 1..N /\ 1 \in 1..N /\ TotalLen(d) = s[N].off + s[N].len
        /\ u \in Nat /\ u < s[N].off + s[N].len
    BY <1>1, <1>3, <1>4, <1>5, <1>6 DEF EndOf
  <2> DEFINE S == {j \in 1..N + 1 : j = N + 1 \/ s[j].off > u}
  <2>2. S \in SUBSET Nat /\ N + 1 \in S
    BY <1>1
  <2>3. PICK j \in S : \A m \in S : j <= m
    <3> HIDE DEF S
    <3> QED BY <2>2, LeastNumber
  <2>4. j \in 1..N + 1 /\ (j = N + 1 \/ s[j].off > u)
    BY <2>3
  <2>5. j # 1
    <3>1. s[1].off <= 0
      BY <1>1, <2>1 DEF Fit
    <3> QED BY <1>1, <1>4, <2>1, <2>4, <3>1
  <2>6. j - 1 \in 1..N /\ j - 1 \notin S
    <3>1. j - 1 \in 1..N /\ ~(j <= j - 1)
      BY <1>1, <2>4, <2>5
    <3> HIDE DEF S
    <3> QED BY <2>3, <3>1
  <2>7. s[j - 1].off <= u
    BY <1>1, <1>4, <2>1, <2>6
  <2>8. u < s[j - 1].off + s[j - 1].len
    <3>1. CASE j = N + 1
      <4>1. j - 1 = N
        BY <1>1, <3>1
      <4> QED BY <2>1, <4>1
    <3>2. CASE j # N + 1
      <4>1. j \in 1..N /\ s[j].off > u
        BY <1>1, <2>4, <3>2
      <4>2. s[j].off <= s[j - 1].off + s[j - 1].len
        BY <1>1, <2>5, <4>1 DEF Fit
      <4> QED BY <1>4, <2>1, <2>6, <4>1, <4>2, SMTT(30)
    <3> QED BY <3>1, <3>2
  <2> QED BY <1>1, <2>6, <2>7, <2>8
<1> QED BY <1>6, <1>7 DEF Whole

(* And the other way round: records that are the whole datagram have the   *)
(* first and the last piece and fit.                                       *)
LEMMA WholeIsComplete ==
  ASSUME NEW d \in Dgrams, Pieces(d), HeaderCaptured(d), d.version = 4,
         NEW n, NodeOf(d, n), NEW s \in yfFragSortByOffset(n.records),
         Whole(d, n.records)
  PROVE  yfFragComplete(n, d, s) = "assembled"
<1> DEFINE N == Len(s)
<1>1. /\ N \in Nat /\ DOMAIN s = 1..N
      /\ \A i \in 1..N : s[i] \in n.records
      /\ \A r \in n.records : \E i \in 1..N : s[i] = r
      /\ \A i, j \in 1..N : i < j => s[i] # s[j] /\ s[i].off <= s[j].off
  BY RecordsFinite, SortedFacts
<1>2. \A f \in d.frags : f.off \in Nat /\ f.len \in Nat /\ f.len # 0
                         /\ RecordOf(f).off = f.off /\ RecordOf(f).len = f.len
  BY DgramsAssumption DEF Fragment, RecordOf
<1>3. PICK e \in d.frags : ~e.more
  BY DEF Pieces
<1>4. TotalLen(d) = e.off + e.len /\ \A f \in d.frags : RecordOf(f) = RecordOf(e) \/ f.off + f.len <= e.off
  BY <1>3, LastPiece
<1>5. \A u \in 0..(TotalLen(d) - 1) : \E r \in n.records : u >= r.off /\ u < r.off + r.len
  BY DEF Whole
<1>6. \A r \in n.records : \E f \in d.frags : r = RecordOf(f)
  BY DEF NodeOf
<1>7. n.have_first
  <2>1. 0 \in 0..(TotalLen(d) - 1)
    BY <1>2, <1>4
  <2>2. PICK r \in n.records : 0 >= r.off
    BY <1>5, <2>1
  <2>3. r.off = 0
    BY <1>2, <1>6, <2>2
  <2> QED BY <2>3 DEF NodeOf
<1>8. n.have_last
  <2>1. TotalLen(d) - 1 \in 0..(TotalLen(d) - 1)
    BY <1>2, <1>4
  <2>2. PICK r \in n.records : TotalLen(d) - 1 < r.off + r.len
    BY <1>5, <2>1
  <2>3. PICK f \in d.frags : r = RecordOf(f)
    BY <1>6
  <2>4. ~(f.off + f.len <= e.off)
    BY <1>2, <1>4, <2>2, <2>3
  <2>5. r = RecordOf(e)
    BY <1>4, <2>3, <2>4
  <2> QED BY <1>3, <2>5 DEF NodeOf
<1>9. Fit(s)
  <2> SUFFICES ASSUME NEW i \in 1..N
               PROVE  s[i].off <= IF i = 1 THEN 0 ELSE s[i - 1].off + s[i - 1].len
    BY <1>1 DEF Fit
  <2>1. CASE i = 1
    <3>1. PICK r \in n.records : r.off = 0
      BY <1>7 DEF NodeOf
    <3>2. PICK j \in 1..N : s[j] = r
      BY <1>1, <3>1
    <3>3. j = 1 \/ 1 < j
      OBVIOUS
    <3> QED BY <1>1, <2>1, <3>1, <3>2, <3>3
  <2>2. CASE i # 1
    <3>1. SUFFICES ASSUME ~(s[i].off <= s[i - 1].off + s[i - 1].len)
                   PROVE  FALSE
      BY <2>2
    <3>2. i - 1 \in 1..N /\ i - 1 < i
      BY <1>1, <2>2
    <3>3. PICK a \in d.frags : s[i] = RecordOf(a)
      BY <1>1, <1>6
    <3>4. PICK b \in d.frags : s[i - 1] = RecordOf(b)
      BY <1>1, <1>6, <3>2
    <3> DEFINE u == b.off + b.len
    <3>5. u \in Nat /\ u < a.off
      BY <1>2, <3>1, <3>3, <3>4
    <3>6. a.off < TotalLen(d)
      BY <1>2, <1>4
    <3>7. u \in 0..(TotalLen(d) - 1)
      BY <1>2, <1>4, <3>5, <3>6
    <3> HIDE DEF u
    <3>8. PICK r \in n.records : u >= r.off /\ u < r.off + r.len
      BY <1>5, <3>7
    <3>9. PICK f \in d.frags : r = RecordOf(f)
      BY <1>6
    <3>10. PICK j \in 1..N : s[j] = r
      BY <1>1
    <3>11. f.off <= u /\ u < f.off + f.len
      BY <1>2, <3>8, <3>9
    <3>12. ~(f.off + f.len <= b.off)
      BY <1>2, <3>11 DEF u
    <3>13. ~(f.off = b.off /\ f.len = b.len)
      BY <1>2, <3>11 DEF u
    <3>14. b.off + b.len <= f.off
      BY <3>12, <3>13 DEF Pieces
    <3>15. f.off = u /\ s[j].off = u /\ s[i - 1].off = b.off /\ s[i].off = a.off
      BY <1>2, <3>3, <3>4, <3>9, <3>10, <3>11, <3>14, SMTT(30) DEF u
    <3>16. CASE j < i
      <4>1. j = i - 1 \/ j < i - 1
        BY <1>1, <3>16
      <4>2. s[j].off <= s[i - 1].off
        BY <1>1, <1>2, <3>2, <3>15, <4>1
      <4> QED BY <1>2, <3>15, <4>2 DEF u
    <3>17. CASE ~(j < i)
      <4>1. j = i \/ i < j
        BY <1>1, <3>17
      <4>2. s[i].off <= s[j].off
        BY <1>1, <1>2, <3>15, <4>1
      <4> QED BY <1>2, <3>5, <3>15, <4>2
    <3> QED BY <3>16, <3>17
  <2> QED BY <2>1, <2>2
<1>10. n.have_l4hdr \/ d.proto # "TCP"
  BY <1>7 DEF NodeOf
<1> QED BY <1>7, <1>8, <1>9, <1>10 DEF yfFragComplete

(* One fragment, once more: what the nodes say and what is passed on.      *)
LEMMA DefragNodes ==
  ASSUME FragInv, NodesOf(fg), NEW d \in Dgrams, NEW f \in d.frags, NEW stale \in PortNums,
         NEW ptime \in Nat \ {0}, Defrag(d, f, stale, ptime)
  PROVE  /\ NodesOf(fg')
         /\ \E n : \E s \in yfFragSortByOffset(n.records) :
              /\ NodeOf(d, n)
              /\ result' = IF yfFragComplete(n, d, s) = "assembled"
                           THEN Assembled(d, n, s) ELSE Invalid(d, n)
<1> DEFINE p == yfDecodeIP(d, f, stale)
           g == Added(fg, d, p, ptime)
           n == g.table[d]
<1>1. fg \in FragTab /\ FragWF(fg) /\ fg.ctime <= ptime
  BY TabFields DEF FragInv, FragWF, Defrag
<1>2. p \in Pbuf
  BY DecodedType
<1>3. PICK s \in yfFragSortByOffset(n.records) :
        /\ fg' = yfFragQueuePrune(
                   IF yfFragComplete(n, d, s) = "incomplete" THEN g
                   ELSE yfFragRemoveNode(g, d, yfFragComplete(n, d, s) = "dropped"))
        /\ result' = IF yfFragComplete(n, d, s) = "assembled"
                           THEN Assembled(d, n, s) ELSE Invalid(d, n)
  BY DEF Defrag
<1>4. PICK k : /\ fg' = yfFragQueuePrune(k)
               /\ k = g \/ \E drop \in BOOLEAN : k = yfFragRemoveNode(g, d, drop)
  <2>1. (yfFragComplete(n, d, s) = "dropped") \in BOOLEAN
    OBVIOUS
  <2> QED BY <1>3, <2>1
<1>5. NodeOf(d, NodeAfter(fg, d, p, ptime))
  BY <1>1, NodeAfterOf
<1>6. /\ FragWF(g) /\ g.table[d] = NodeAfter(fg, d, p, ptime)
      /\ \A e \in Dgrams : e # d => g.table[e] = fg.table[e]
  <2> HIDE DEF p
  <2> QED BY <1>1, <1>2, AddedWF
<1>7. HeldIn(g, d)
  <2> HIDE DEF p
  <2> QED BY <1>1, <1>2, <1>6, NodeAfterType, NodeFields DEF HeldIn
<1>8. NodesOf(g)
  <2> HIDE DEF p, g
  <2> QED BY <1>5, <1>6 DEF NodesOf, HeldIn
<1>9. NodeOf(d, n)
  BY <1>5, <1>6
<1> HIDE DEF g, p
<1>10. FragWF(k) /\ FewerNodes(g, k)
  BY <1>4, <1>6, <1>7, RemoveWF DEF FewerNodes
<1>11. FewerNodes(k, fg')
  BY <1>4, <1>10, PruneFacts
<1>12. NodesOf(fg')
  BY <1>8, <1>10, <1>11 DEF NodesOf, FewerNodes
<1> HIDE DEF n
<1> QED BY <1>3, <1>9, <1>12

ReassemblyInv == FragInv /\ NodesOf(fg)

LEMMA ReassemblyStep ==
  ASSUME ReassemblyInv, Next
  PROVE  /\ ReassemblyInv'
         /\ \/ result' = NoResult
            \/ \E d \in Dgrams : \E n : \E s \in yfFragSortByOffset(n.records) :
                 /\ NodeOf(d, n)
                 /\ result' = IF yfFragComplete(n, d, s) = "assembled"
                           THEN Assembled(d, n, s) ELSE Invalid(d, n)
<1>1. PICK d \in Dgrams, ptime \in 1..MaxTime : \E f \in d.frags :
        \/ DefragReject(d, f, ptime)
        \/ \E stale \in PortNums : Defrag(d, f, stale, ptime)
  BY DEF Next
<1>2. ptime \in Nat \ {0}
  BY FragConfigAssumption
<1>3. FragInv'
  BY NextInv DEF ReassemblyInv
<1>4. PICK f \in d.frags : \/ DefragReject(d, f, ptime)
                           \/ \E stale \in PortNums : Defrag(d, f, stale, ptime)
  BY <1>1
<1>5. CASE DefragReject(d, f, ptime)
  <2>1. fg \in FragTab /\ fg' = [fg EXCEPT !.seqrej = @ + 1] /\ result' = NoResult
    BY <1>5 DEF DefragReject, ReassemblyInv, FragInv, FragWF
  <2>2. fg'.table = fg.table
    BY <2>1 DEF FragTab
  <2>3. NodesOf(fg')
    BY <2>2 DEF ReassemblyInv, NodesOf, HeldIn
  <2> QED BY <1>3, <2>1, <2>3 DEF ReassemblyInv
<1>6. CASE \E stale \in PortNums : Defrag(d, f, stale, ptime)
  BY <1>2, <1>3, <1>6, DefragNodes DEF ReassemblyInv
<1> QED BY <1>4, <1>5, <1>6

LEMMA ReassemblyInvariance == Spec => []ReassemblyInv
<1>1. Init => ReassemblyInv
  BY InitInv DEF Init, ReassemblyInv, NodesOf, HeldIn, yfFragTabAlloc
<1>2. ReassemblyInv /\ [Next]_vars => ReassemblyInv'
  BY ReassemblyStep DEF vars, ReassemblyInv, FragInv
<1> QED BY <1>1, <1>2, PTL DEF Spec

(* What is passed on as reassembled is the whole datagram, with its length *)
(* and the ports of its own header, in whatever order and however often    *)
(* its fragments came (yfFragComplete, yfDefragPBuf), for datagrams that   *)
(* were fragmented once; a protocol without ports has none unless a later  *)
(* fragment came first (yfFragGetNode).                                    *)
THEOREM ReassembledIsWhole ==
  ASSUME \A d \in Dgrams : Pieces(d)
  PROVE  Spec => []AssembledWhole
<1>1. Init => AssembledWhole
  BY DEF Init, NoResult, AssembledWhole
<1>2. ReassemblyInv /\ AssembledWhole /\ [Next]_vars => AssembledWhole'
  <2> SUFFICES ASSUME ReassemblyInv, AssembledWhole, [Next]_vars
               PROVE  AssembledWhole'
    OBVIOUS
  <2>1. CASE UNCHANGED vars
    BY <2>1 DEF vars, AssembledWhole
  <2>2. CASE result' = NoResult
    BY <2>2 DEF NoResult, AssembledWhole
  <2>3. ASSUME NEW d \in Dgrams, NEW n, NEW s \in yfFragSortByOffset(n.records), NodeOf(d, n),
               result' = IF yfFragComplete(n, d, s) = "assembled"
                           THEN Assembled(d, n, s) ELSE Invalid(d, n)
        PROVE  AssembledWhole'
    <3>1. CASE yfFragComplete(n, d, s) # "assembled"
      BY <2>3, <3>1 DEF Invalid, AssembledWhole
    <3>2. CASE yfFragComplete(n, d, s) = "assembled"
      <4>1. n.have_first /\ n.have_last /\ Fit(s) /\ (n.have_l4hdr \/ d.proto # "TCP")
        BY <3>2 DEF yfFragComplete, yfDefragTCP
      <4>2. Pieces(d) /\ d.proto \in {"TCP", "UDP", "other"}
        BY DgramsAssumption
      <4>3. Whole(d, n.records) /\ EndOf(s) = TotalLen(d)
        BY <2>3, <4>1, <4>2, FitIsWhole
      <4>4. n.ports = d.ports \/ (d.proto = "other" /\ ~n.from_first)
        <5>1. d.proto = "UDP" => HeaderCaptured(d)
          BY DEF HeaderCaptured
        <5> QED BY <2>3, <4>1, <4>2, <5>1 DEF NodeOf
      <4>5. result' = Assembled(d, n, s)
        BY <2>3, <3>2
      <4> QED BY <4>3, <4>4, <4>5 DEF Assembled, AssembledWhole
    <3> QED BY <3>1, <3>2
  <2> QED BY <2>1, <2>2, <2>3, ReassemblyStep
<1> QED BY <1>1, <1>2, ReassemblyInvariance, PTL DEF Spec

(* A datagram is passed on with the fragment that completes it             *)
(* (yfFragComplete), if it is IPv4, was fragmented once and its header was *)
(* captured.  That it is not for IPv6 is the finding of run frag_ipv6. *)
THEOREM CompleteIsReassembled ==
  ASSUME \A d \in Dgrams : Pieces(d) /\ HeaderCaptured(d) /\ d.version = 4
  PROVE  Spec => []CompleteIsAssembled
<1>1. Init => CompleteIsAssembled
  BY DEF Init, CompleteIsAssembled
<1>2. ReassemblyInv /\ CompleteIsAssembled /\ [Next]_vars => CompleteIsAssembled'
  <2> SUFFICES ASSUME ReassemblyInv, CompleteIsAssembled, [Next]_vars
               PROVE  CompleteIsAssembled'
    OBVIOUS
  <2>1. CASE UNCHANGED vars
    BY <2>1 DEF vars, CompleteIsAssembled
  <2>2. CASE result' = NoResult
    BY <2>2 DEF CompleteIsAssembled
  <2>3. ASSUME NEW d \in Dgrams, NEW n, NEW s \in yfFragSortByOffset(n.records), NodeOf(d, n),
               result' = IF yfFragComplete(n, d, s) = "assembled"
                           THEN Assembled(d, n, s) ELSE Invalid(d, n)
        PROVE  CompleteIsAssembled'
    <3>1. result'.dgram = d /\ result'.node = n
      BY <2>3 DEF Invalid, Assembled
    <3>2. Whole(d, n.records) => result'.valid
      BY <2>3, WholeIsComplete DEF Assembled
    <3> QED BY <3>1, <3>2 DEF CompleteIsAssembled
  <2> QED BY <2>1, <2>2, <2>3, ReassemblyStep
<1> QED BY <1>1, <1>2, ReassemblyInvariance, PTL DEF Spec

=============================================================================
