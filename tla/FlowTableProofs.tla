-------------------------- MODULE FlowTableProofs --------------------------
(***************************************************************************)
(* Proofs about the flow table, for every set of keys and every            *)
(* configuration.                                                          *)
(***************************************************************************)
EXTENDS FlowTable, FiniteSetTheorems, SequenceTheorems, TLAPS

(* What every operator keeps true of a table.  pend is the node that has   *)
(* just been made and is in the hash table but not yet in the active       *)
(* queue, or 0: yfFlowPBuf is in such a state between yfFlowGetNode and    *)
(* yfFlowTick.  busy is a node that has been given the time of the packet  *)
(* but has not been moved to the head of the queue yet, or 0.              *)
Distinct(q) == \A i, j \in 1..Len(q) : q[i] = q[j] => i = j

Queued(f, pend, n) == n = pend \/ InQueue(f.aq, n)

WFQueue(f, pend) ==
  /\ f.count = Len(f.aq) + (IF pend = 0 THEN 0 ELSE 1)
  /\ f.cq_count = Len(f.cq)
  /\ Distinct(f.aq)
  /\ \A i \in 1..Len(f.aq) : f.aq[i] # pend /\ f.aq[i] \in 1..Len(f.node)
  /\ \A i \in 1..Len(f.cq) : f.cq[i] \in 1..Len(f.node)

WFTable(f, pend) ==
  /\ \A i \in 1..Len(f.aq) : f.table[f.node[f.aq[i]].key] = f.aq[i]
  /\ pend # 0 => pend \in 1..Len(f.node) /\ f.table[f.node[pend].key] = pend
  /\ \A k \in Keys : f.table[k] # 0 =>
       /\ f.table[k] \in 1..Len(f.node)
       /\ Queued(f, pend, f.table[k])
       /\ f.node[f.table[k]].key = k

WFOrder(f, busy) ==
  /\ \A i, j \in 1..Len(f.aq) :
       i < j /\ f.aq[i] # busy /\ f.aq[j] # busy => f.node[f.aq[i]].etime <= f.node[f.aq[j]].etime
  /\ \A i \in 1..Len(f.node) : f.node[i].stime <= f.node[i].etime
                               /\ f.node[i].etime <= f.ctime

WFBiflow(f) ==
  \A k \in Keys :
    k # yfFlowKeyReverse(k) =>
      f.table[k] = 0 \/ f.table[yfFlowKeyReverse(k)] = 0

WellFormed(f, pend, busy) ==
  /\ f \in FlowTab
  /\ pend \in Nat
  /\ WFQueue(f, pend)
  /\ WFTable(f, pend)
  /\ WFOrder(f, busy)
  /\ WFBiflow(f)

LEMMA NodeFields ==
  ASSUME NEW nd \in Node
  PROVE  nd.key \in Keys /\ nd.fid \in Nat /\ nd.stime \in Nat /\ nd.etime \in Nat
         /\ nd.pkt \in [Direction -> SUBSET Nat]
BY DEF Node

(* The types of the fields of the table that are used most.                *)
LEMMA TabFields ==
  ASSUME NEW f \in FlowTab
  PROVE  /\ f.node \in Seq(Node) /\ f.table \in [Keys -> Nat]
         /\ f.aq \in Seq(Nat) /\ f.cq \in Seq(Nat)
         /\ f.count \in Int /\ f.cq_count \in Int /\ f.ctime \in Nat
         /\ f.stat_packets \in Nat /\ f.stat_seqrej \in Nat
         /\ f.stat_flows \in Nat /\ f.stat_uniflows \in Nat
BY DEF FlowTab

(* r is what is left of the queue q without its entry n, in q's order.     *)
PickedFrom(q, n, r) ==
  /\ r \in Seq(Nat)
  /\ Len(r) = Len(q) - (IF InQueue(q, n) THEN 1 ELSE 0)
  /\ ~InQueue(r, n)
  /\ \A m \in Nat : m # n => (InQueue(q, m) <=> InQueue(r, m))
  /\ \E h \in [1..Len(r) -> 1..Len(q)] :
       /\ \A i \in 1..Len(r) : r[i] = q[h[i]]
       /\ \A i, j \in 1..Len(r) : i < j => h[i] < h[j]

(* Taking an entry out of a queue without duplicates leaves the others, in *)
(* their order (piqPick).                                                  *)
LEMMA PickFacts ==
  ASSUME NEW q \in Seq(Nat), NEW n \in Nat, Distinct(q)
  PROVE  PickedFrom(q, n, piqPick(q, n))
<1>1. CASE ~InQueue(q, n)
  <2> DEFINE h == [i \in 1..Len(q) |-> i]
  <2>1. piqPick(q, n) = q
    BY <1>1 DEF piqPick
  <2>2. /\ h \in [1..Len(q) -> 1..Len(q)]
        /\ \A i \in 1..Len(q) : q[i] = q[h[i]]
        /\ \A i, j \in 1..Len(q) : i < j => h[i] < h[j]
    OBVIOUS
  <2>3. \E g \in [1..Len(q) -> 1..Len(q)] :
              /\ \A i \in 1..Len(q) : q[i] = q[g[i]]
              /\ \A i, j \in 1..Len(q) : i < j => g[i] < g[j]
    BY <2>2
  <2>4. Len(q) = Len(q) - (IF InQueue(q, n) THEN 1 ELSE 0)
    BY <1>1
  <2> QED BY <1>1, <2>1, <2>3, <2>4 DEF PickedFrom
<1>2. CASE InQueue(q, n)
  <2> DEFINE i0 == CHOOSE j \in 1..Len(q) : q[j] = n
             r == [j \in 1..(Len(q) - 1) |-> IF j < i0 THEN q[j] ELSE q[j + 1]]
             h == [j \in 1..(Len(q) - 1) |-> IF j < i0 THEN j ELSE j + 1]
  <2>1. i0 \in 1..Len(q) /\ q[i0] = n
    BY <1>2 DEF InQueue
  <2>2. piqPick(q, n) = r
    BY <1>2 DEF piqPick
  <2> HIDE DEF i0
  <2>3. Len(q) - 1 \in Nat /\ Len(q) \in Nat
    BY <2>1
  <2>4. r \in Seq(Nat) /\ Len(r) = Len(q) - 1
    BY <2>1, <2>3
  <2>5. /\ h \in [1..Len(r) -> 1..Len(q)]
        /\ \A i \in 1..Len(r) : r[i] = q[h[i]] /\ h[i] # i0
        /\ \A i, j \in 1..Len(r) : i < j => h[i] < h[j]
    BY <2>1, <2>3, <2>4
  <2>6. ~InQueue(r, n)
    BY <2>1, <2>5 DEF InQueue, Distinct
  <2>7. ASSUME NEW m \in Nat, m # n
        PROVE  InQueue(q, m) <=> InQueue(r, m)
    <3>1. ASSUME NEW i \in 1..Len(q), q[i] = m
          PROVE  InQueue(r, m)
      <4>1. i # i0
        BY <2>1, <2>7, <3>1
      <4>2. CASE i < i0
        BY <2>1, <2>3, <2>4, <3>1, <4>2 DEF InQueue
      <4>3. CASE i > i0
        <5>1. i - 1 \in 1..Len(r) /\ r[i - 1] = m
          BY <2>1, <2>3, <2>4, <3>1, <4>3
        <5> QED BY <5>1 DEF InQueue
      <4> QED BY <2>1, <2>3, <4>1, <4>2, <4>3
    <3>2. InQueue(r, m) => InQueue(q, m)
      BY <2>5 DEF InQueue
    <3> QED BY <3>1, <3>2 DEF InQueue
  <2> HIDE DEF r, h
  <2>8. Len(r) = Len(q) - (IF InQueue(q, n) THEN 1 ELSE 0)
    BY <1>2, <2>4
  <2>9. \E g \in [1..Len(r) -> 1..Len(q)] :
              /\ \A i \in 1..Len(r) : r[i] = q[g[i]]
              /\ \A i, j \in 1..Len(r) : i < j => g[i] < g[j]
    BY <2>5
  <2> QED BY <2>2, <2>4, <2>6, <2>7, <2>8, <2>9 DEF PickedFrom
<1> QED BY <1>1, <1>2

(* What yfFlowClose does to the fields of the table.                       *)
ClosedFrom(f, n, g) ==
  /\ g.node \in Seq(Node) /\ Len(g.node) = Len(f.node)
  /\ \A i \in 1..Len(f.node) :
       /\ g.node[i].key = f.node[i].key
       /\ g.node[i].stime = f.node[i].stime
       /\ g.node[i].etime = f.node[i].etime
       /\ g.node[i].fid = f.node[i].fid
  /\ g.table = [f.table EXCEPT ![f.node[n].key] = 0]
  /\ g.table \in [Keys -> Nat]
  /\ g.aq = piqPick(f.aq, n)
  /\ g.cq = Append(f.cq, n)
  /\ g.cq_count = f.cq_count + 1
  /\ g.count = f.count - 1
  /\ g.ctime = f.ctime
  /\ (g.aq \in Seq(Nat) => g \in FlowTab)

LEMMA CloseFields ==
  ASSUME NEW f \in FlowTab, NEW n \in 1..Len(f.node), NEW reason \in Reasons
  PROVE  ClosedFrom(f, n, yfFlowClose(f, n, reason))
<1> DEFINE g == yfFlowClose(f, n, reason)
<1>1. /\ g.node = [f.node EXCEPT ![n].reason = reason]
      /\ g.table = [f.table EXCEPT ![f.node[n].key] = 0]
      /\ g.aq = piqPick(f.aq, n)
      /\ g.cq = Append(f.cq, n)
      /\ g.cq_count = f.cq_count + 1
      /\ g.count = f.count - 1
      /\ g.ctime = f.ctime
  BY DEF yfFlowClose, FlowTab, piqEnQ
<1>2. f.node \in Seq(Node) /\ f.node[n] \in Node /\ f.table \in [Keys -> Nat]
  BY SMTT(30) DEF FlowTab
<1>3. [f.node[n] EXCEPT !.reason = reason] \in Node
  BY <1>2 DEF Node
<1>4. g.node \in Seq(Node) /\ Len(g.node) = Len(f.node)
  BY <1>1, <1>2, <1>3
<1>8. \A i \in 1..Len(f.node) :
         g.node[i] = IF i = n THEN [f.node[n] EXCEPT !.reason = reason] ELSE f.node[i]
  BY <1>1, <1>2
<1>5. \A i \in 1..Len(f.node) :
         /\ g.node[i].key = f.node[i].key
         /\ g.node[i].stime = f.node[i].stime
         /\ g.node[i].etime = f.node[i].etime
         /\ g.node[i].fid = f.node[i].fid
  <2> SUFFICES ASSUME NEW i \in 1..Len(f.node)
               PROVE  /\ g.node[i].key = f.node[i].key
                      /\ g.node[i].stime = f.node[i].stime
                      /\ g.node[i].etime = f.node[i].etime
                      /\ g.node[i].fid = f.node[i].fid
    OBVIOUS
  <2>1. CASE i = n
    BY <1>2, <1>8, <2>1 DEF Node
  <2>2. CASE i # n
    BY <1>8, <2>2
  <2> QED BY <2>1, <2>2
<1>6. g.table \in [Keys -> Nat]
  BY <1>1, <1>2, NodeFields
<1>7. ASSUME g.aq \in Seq(Nat)
      PROVE  g \in FlowTab
  <2>1. n \in Nat
    BY <1>2
  <2>2. g.cq \in Seq(Nat)
    BY <1>1, <2>1 DEF FlowTab
  <2>3. [f EXCEPT !.table = g.table, !.node = g.node, !.aq = g.aq, !.cq = g.cq,
                  !.cq_count = g.cq_count, !.count = g.count] \in FlowTab
    <3>1. f.cq_count \in Int /\ f.count \in Int
      BY DEF FlowTab
    <3> HIDE DEF g
    <3>2. g.cq_count \in Int /\ g.count \in Int
      BY <1>1, <3>1
    <3> QED BY <1>4, <1>6, <1>7, <2>2, <3>2 DEF FlowTab
  <2>4. g = [f EXCEPT !.table = g.table, !.node = g.node, !.aq = g.aq, !.cq = g.cq,
                      !.cq_count = g.cq_count, !.count = g.count]
    <3>1. g = [f EXCEPT !.table = [f.table EXCEPT ![f.node[n].key] = 0],
                        !.node = [f.node EXCEPT ![n].reason = reason],
                        !.aq = piqPick(f.aq, n), !.cq = Append(f.cq, n),
                        !.cq_count = f.cq_count + 1, !.count = f.count - 1]
      BY DEF yfFlowClose, piqEnQ
    <3> HIDE DEF g
    <3> QED BY <1>1, <3>1
  <2> QED BY <2>3, <2>4
<1> HIDE DEF g
<1>9. ClosedFrom(f, n, g)
  BY <1>1, <1>4, <1>5, <1>6, <1>7 DEF ClosedFrom
<1> QED BY <1>9 DEF g

(* Reversal is an involution on keys.                                      *)
LEMMA ReverseReverse ==
  ASSUME NEW k \in Keys
  PROVE  yfFlowKeyReverse(k) \in Keys /\ yfFlowKeyReverse(yfFlowKeyReverse(k)) = k
BY KeysAssumption DEF yfFlowKeyReverse

(* Closing a flow, whether it was in the active queue or had just been     *)
(* made, leaves a well-formed table without either of its keys.            *)
LEMMA CloseWF ==
  ASSUME NEW f, NEW pend, NEW busy, WellFormed(f, pend, busy),
         NEW n \in 1..Len(f.node), NEW reason \in Reasons,
         Queued(f, pend, n), pend \in {0, n}, busy \in {0, n}
  PROVE  /\ WellFormed(yfFlowClose(f, n, reason), 0, 0)
         /\ yfFlowClose(f, n, reason).table[f.node[n].key] = 0
         /\ yfFlowClose(f, n, reason).table[yfFlowKeyReverse(f.node[n].key)] = 0
<1> DEFINE g == yfFlowClose(f, n, reason)
           key == f.node[n].key
<1>1. f \in FlowTab /\ WFQueue(f, pend) /\ WFTable(f, pend) /\ WFOrder(f, busy) /\ WFBiflow(f)
  BY DEF WellFormed
<1>2. ClosedFrom(f, n, g)
  BY <1>1, CloseFields
<1>3. /\ f.aq \in Seq(Nat) /\ f.cq \in Seq(Nat) /\ f.node \in Seq(Node)
      /\ f.table \in [Keys -> Nat] /\ f.ctime \in Nat
      /\ f.count \in Int /\ f.cq_count \in Int
  BY <1>1 DEF FlowTab
<1>4. n \in Nat /\ n # 0 /\ \A i \in 1..Len(f.node) : f.node[i].key \in Keys
  <2>1. \A i \in 1..Len(f.node) : f.node[i] \in Node
    BY <1>3
  <2> QED BY <1>3, <2>1, NodeFields
<1> HIDE DEF g
<1>5. /\ Len(g.node) = Len(f.node)
      /\ \A i \in 1..Len(f.node) : g.node[i].key = f.node[i].key
      /\ \A i \in 1..Len(f.node) : g.node[i].etime = f.node[i].etime
      /\ \A i \in 1..Len(f.node) : g.node[i].stime = f.node[i].stime
  BY <1>2 DEF ClosedFrom
<1>6. g.aq = piqPick(f.aq, n) /\ g.table = [f.table EXCEPT ![key] = 0]
  BY <1>2 DEF ClosedFrom
<1>7. Distinct(f.aq) /\ PickedFrom(f.aq, n, g.aq)
  BY <1>1, <1>3, <1>4, <1>6, PickFacts DEF WFQueue
<1>8. /\ g.aq \in Seq(Nat)
      /\ Len(g.aq) = Len(f.aq) - (IF InQueue(f.aq, n) THEN 1 ELSE 0)
      /\ ~InQueue(g.aq, n)
      /\ \A m \in Nat : m # n => (InQueue(f.aq, m) <=> InQueue(g.aq, m))
  BY <1>7 DEF PickedFrom
<1>9. PICK h \in [1..Len(g.aq) -> 1..Len(f.aq)] :
           /\ \A i \in 1..Len(g.aq) : g.aq[i] = f.aq[h[i]]
           /\ \A i, j \in 1..Len(g.aq) : i < j => h[i] < h[j]
  BY <1>7 DEF PickedFrom
<1>20. \A i \in 1..Len(g.aq) : h[i] \in 1..Len(f.aq) /\ g.aq[i] = f.aq[h[i]]
  BY <1>9
<1>10. g \in FlowTab
  BY <1>2, <1>8 DEF ClosedFrom
<1>11. ASSUME NEW i \in 1..Len(g.aq)
       PROVE  /\ g.aq[i] # n /\ g.aq[i] \in 1..Len(f.node)
              /\ f.table[f.node[g.aq[i]].key] = g.aq[i]
  <2>1. g.aq[i] # n
    BY <1>8 DEF InQueue
  <2>2. h[i] \in 1..Len(f.aq) /\ g.aq[i] = f.aq[h[i]]
    BY <1>9
  <2> QED BY <1>1, <2>1, <2>2 DEF WFQueue, WFTable
<1>12. f.table[key] = n
  BY <1>1, <1>3, <1>4 DEF WFTable, Queued, InQueue
<1>13. WFQueue(g, 0)
  <2>1. f.count = Len(f.aq) + (IF pend = 0 THEN 0 ELSE 1) /\ f.cq_count = Len(f.cq)
    BY <1>1 DEF WFQueue
  <2>2. g.count = f.count - 1 /\ g.cq_count = f.cq_count + 1 /\ g.cq = Append(f.cq, n)
    BY <1>2 DEF ClosedFrom
  <2>3. InQueue(f.aq, n) <=> pend = 0
    <3>1. (\A i \in 1..Len(f.aq) : f.aq[i] # pend) /\ (n = pend \/ InQueue(f.aq, n))
      BY <1>1 DEF WFQueue, Queued
    <3> QED BY <1>4, <3>1 DEF InQueue
  <2>4. g.count = Len(g.aq)
    <3>1. CASE pend = 0
      BY <1>3, <1>8, <2>1, <2>2, <2>3, <3>1
    <3>2. CASE pend # 0
      <4>1. ~InQueue(f.aq, n) /\ f.count = Len(f.aq) + 1
        BY <2>1, <2>3, <3>2
      <4>2. Len(g.aq) = Len(f.aq) - 0
        BY <1>8, <4>1
      <4> QED BY <1>3, <2>2, <4>1, <4>2
    <3> QED BY <3>1, <3>2
  <2>5. g.cq_count = Len(g.cq)
    BY <1>3, <1>4, <2>1, <2>2
  <2>6. ASSUME NEW i \in 1..Len(g.aq), NEW j \in 1..Len(g.aq), g.aq[i] = g.aq[j]
        PROVE  i = j
    <3>4. /\ h[i] \in 1..Len(f.aq) /\ h[j] \in 1..Len(f.aq)
          /\ f.aq[h[i]] = f.aq[h[j]]
      BY <1>20, <2>6
    <3>1. h[i] = h[j]
      BY <1>7, <3>4 DEF Distinct
    <3>2. i \in Int /\ j \in Int /\ h[i] \in Int /\ h[j] \in Int
      BY <3>4
    <3>3. ~(i < j) /\ ~(j < i)
      BY <1>9, <3>1, <3>2
    <3> QED BY <3>2, <3>3
  <2>7. \A i \in 1..Len(g.cq) : g.cq[i] \in 1..Len(g.node)
    BY <1>1, <1>3, <1>4, <1>5, <2>2 DEF WFQueue
  <2> QED BY <1>5, <1>11, <2>4, <2>5, <2>6, <2>7 DEF WFQueue, Distinct
<1>14. WFTable(g, 0)
  <2>1. ASSUME NEW i \in 1..Len(g.aq)
        PROVE  g.table[g.node[g.aq[i]].key] = g.aq[i]
    <3>1. /\ g.aq[i] # n /\ g.aq[i] \in 1..Len(f.node)
          /\ f.table[f.node[g.aq[i]].key] = g.aq[i]
      BY <1>11
    <3>2. f.node[g.aq[i]].key # key /\ f.node[g.aq[i]].key \in Keys
      BY <1>4, <1>12, <3>1
    <3>3. g.node[g.aq[i]].key = f.node[g.aq[i]].key
      BY <1>5, <3>1
    <3> QED BY <1>3, <1>6, <3>1, <3>2, <3>3
  <2>2. ASSUME NEW k \in Keys, g.table[k] # 0
        PROVE  /\ g.table[k] \in 1..Len(g.node)
               /\ Queued(g, 0, g.table[k])
               /\ g.node[g.table[k]].key = k
    <3>1. k # key /\ g.table[k] = f.table[k]
      BY <1>3, <1>4, <1>6, <2>2
    <3>2. /\ f.table[k] \in 1..Len(f.node)
          /\ Queued(f, pend, f.table[k])
          /\ f.node[f.table[k]].key = k
      BY <1>1, <2>2, <3>1 DEF WFTable
    <3>3. f.table[k] # n /\ f.table[k] # pend
      BY <2>2, <3>1, <3>2
    <3>4. InQueue(g.aq, f.table[k])
      BY <1>3, <1>8, <3>2, <3>3 DEF Queued
    <3> QED BY <1>5, <3>1, <3>2, <3>4 DEF Queued
  <2> QED BY <2>1, <2>2 DEF WFTable
<1>15. WFOrder(g, 0)
  <2>1. ASSUME NEW i \in 1..Len(g.aq), NEW j \in 1..Len(g.aq), i < j
        PROVE  g.node[g.aq[i]].etime <= g.node[g.aq[j]].etime
    <3>1. h[i] \in 1..Len(f.aq) /\ h[j] \in 1..Len(f.aq) /\ h[i] < h[j]
      BY <1>9, <2>1
    <3>4. /\ g.aq[i] # n /\ g.aq[i] # 0 /\ g.aq[i] = f.aq[h[i]]
          /\ g.aq[j] # n /\ g.aq[j] # 0 /\ g.aq[j] = f.aq[h[j]]
      BY <1>11, <1>20, SMTT(40)
    <3>3. f.aq[h[i]] # busy /\ f.aq[h[j]] # busy
      BY <3>4
    <3>2. f.node[f.aq[h[i]]].etime <= f.node[f.aq[h[j]]].etime
      BY <1>1, <3>1, <3>3 DEF WFOrder
    <3> QED BY <1>5, <1>9, <1>11, <3>2
  <2>2. g.ctime = f.ctime
    BY <1>2 DEF ClosedFrom
  <2> QED BY <1>1, <1>5, <2>1, <2>2 DEF WFOrder
<1>16. WFBiflow(g)
  BY <1>1, <1>3, <1>4, <1>6, ReverseReverse DEF WFBiflow
<1>17. g.table[yfFlowKeyReverse(key)] = 0
  <2>1. CASE key = yfFlowKeyReverse(key)
    BY <1>3, <1>4, <1>6, <2>1
  <2>2. CASE key # yfFlowKeyReverse(key)
    <3>1. f.table[yfFlowKeyReverse(key)] = 0
      BY <1>1, <1>4, <1>12, <2>2 DEF WFBiflow
    <3> QED BY <1>3, <1>4, <1>6, <2>2, <3>1, ReverseReverse
  <2> QED BY <2>1, <2>2
<1>18. g.table[key] = 0
  BY <1>3, <1>4, <1>6
<1>19. WellFormed(g, 0, 0)
  BY <1>10, <1>13, <1>14, <1>15, <1>16 DEF WellFormed
<1> QED BY <1>17, <1>18, <1>19 DEF g

(* n is the open flow of a packet with this key, made just now if it is    *)
(* pend.                                                                   *)
Current(f, pend, busy, key, n) ==
  /\ WellFormed(f, pend, busy)
  /\ n = Lookup(f, key)
  /\ n \in 1..Len(f.node)
  /\ pend \in {0, n}
  /\ busy \in {0, n}
  /\ Queued(f, pend, n)
  /\ f.node[n].key \in {key, yfFlowKeyReverse(key)}

(* What yfFlowGetNode does to the fields of the table when it makes nd.    *)
MadeFrom(f, key, nd, g) ==
  /\ g \in FlowTab
  /\ g.node = Append(f.node, nd)
  /\ nd \in Node
  /\ g.table = [f.table EXCEPT ![key] = Len(f.node) + 1]
  /\ g.count = f.count + 1
  /\ g.aq = f.aq /\ g.cq = f.cq /\ g.cq_count = f.cq_count
  /\ g.ctime = f.ctime

LEMMA GetFields ==
  ASSUME NEW f \in FlowTab, NEW key \in Keys, NEW cont_fid \in Nat,
         Lookup(f, key) = 0
  PROVE  MadeFrom(f, key, NewNode(f, key, cont_fid), yfFlowGetNode(f, key, cont_fid))
<1> DEFINE nd == NewNode(f, key, cont_fid)
           peak == IF f.count + 1 > f.stat_peak THEN f.count + 1 ELSE f.stat_peak
           fid == IF cont_fid # 0 THEN f.next_fid ELSE f.next_fid + 1
           tab == [f.table EXCEPT ![key] = Len(f.node) + 1]
           c == f.count + 1
           nds == Append(f.node, nd)
           g == yfFlowGetNode(f, key, cont_fid)
<1>1. g = [f EXCEPT !.node = nds, !.next_fid = fid, !.table = tab,
                    !.count = c, !.stat_peak = peak]
  BY DEF yfFlowGetNode
<1>2. f.ctime \in Nat /\ f.next_fid \in Nat
  BY DEF FlowTab
<1>3. nd \in Node
  <2>1. FlowId(f, cont_fid) \in Nat
    BY <1>2 DEF FlowId
  <2>2. "none" \in Reasons /\ {} \in SUBSET (FinBits \cup {"RST"})
    BY DEF Reasons
  <2>3. /\ [d \in Direction |-> {}] \in [Direction -> SUBSET Nat]
        /\ [d \in Direction |-> 0] \in [Direction -> Nat]
    OBVIOUS
  <2> QED BY <1>2, <2>1, <2>2, <2>3 DEF Node, NewNode
<1> HIDE DEF nd, g
<1>4. f.node \in Seq(Node) /\ f.table \in [Keys -> Nat] /\ f.count \in Int
      /\ f.stat_peak \in Int
  BY DEF FlowTab
<1>5. nds \in Seq(Node) /\ tab \in [Keys -> Nat] /\ c \in Int /\ peak \in Int
      /\ fid \in Nat
  BY <1>2, <1>3, <1>4
<1> HIDE DEF nds, tab, c, peak, fid
<1>6. g \in FlowTab
  BY <1>1, <1>5 DEF FlowTab
<1>7. g.node = nds /\ g.table = tab /\ g.count = c /\ g.aq = f.aq /\ g.cq = f.cq
      /\ g.cq_count = f.cq_count /\ g.ctime = f.ctime
  BY <1>1 DEF FlowTab
<1>8. MadeFrom(f, key, nd, g)
  BY <1>3, <1>6, <1>7 DEF MadeFrom, nds, tab, c
<1> QED BY <1>8 DEF nd, g

(* After yfFlowGetNode the key has an open flow.                           *)
LEMMA GetCurrent ==
  ASSUME NEW f, WellFormed(f, 0, 0), NEW key \in Keys, NEW cont_fid \in Nat,
         NEW g, g = yfFlowGetNode(f, key, cont_fid)
  PROVE  /\ g.ctime = f.ctime
         /\ \E pend \in Nat, n \in Nat : Current(g, pend, 0, key, n)
<1>1. f \in FlowTab /\ WFQueue(f, 0) /\ WFTable(f, 0) /\ WFOrder(f, 0) /\ WFBiflow(f)
  BY DEF WellFormed
<1>2. /\ f.aq \in Seq(Nat) /\ f.node \in Seq(Node) /\ f.table \in [Keys -> Nat]
      /\ f.count \in Int /\ f.ctime \in Nat
  BY <1>1 DEF FlowTab
<1>3. yfFlowKeyReverse(key) \in Keys /\ yfFlowKeyReverse(yfFlowKeyReverse(key)) = key
  BY ReverseReverse
<1>4. CASE Lookup(f, key) # 0
  <2> DEFINE n == Lookup(f, key)
  <2>1. g = f
    BY <1>4 DEF yfFlowGetNode
  <2>2. PICK k \in {key, yfFlowKeyReverse(key)} : n = f.table[k]
    BY DEF Lookup
  <2>3. /\ n \in 1..Len(f.node)
        /\ Queued(f, 0, n)
        /\ f.node[n].key = k
    BY <1>1, <1>3, <1>4, <2>2 DEF WFTable
  <2>4. Current(f, 0, 0, key, n) /\ n \in Nat
    BY <2>2, <2>3 DEF Current
  <2> QED BY <2>1, <2>4
<1>5. CASE Lookup(f, key) = 0
  <2> DEFINE n == Len(f.node) + 1
             nd == NewNode(f, key, cont_fid)
  <2>1. f.table[key] = 0 /\ f.table[yfFlowKeyReverse(key)] = 0
    BY <1>5 DEF Lookup
  <2>0. MadeFrom(f, key, nd, g)
    BY <1>1, <1>5, GetFields
  <2>3. nd.key = key /\ nd.stime = f.ctime /\ nd.etime = f.ctime
    BY DEF NewNode
  <2> HIDE DEF nd
  <2>2. /\ g \in FlowTab
        /\ g.node = Append(f.node, nd)
        /\ nd \in Node
        /\ g.table = [f.table EXCEPT ![key] = n]
        /\ g.count = f.count + 1
        /\ g.aq = f.aq /\ g.cq = f.cq /\ g.cq_count = f.cq_count
        /\ g.ctime = f.ctime
    BY <2>0 DEF MadeFrom
  <2>4. /\ n \in Nat /\ n # 0 /\ Len(g.node) = n /\ g.node[n] = nd
        /\ \A i \in 1..Len(f.node) : g.node[i] = f.node[i] /\ i # n /\ i \in 1..n
    BY <1>2, <2>2, SMTT(40)
  <2> HIDE DEF n
  <2>5. g.table[key] = n /\ \A k \in Keys : k # key => g.table[k] = f.table[k]
    BY <1>2, <2>2
  <2>6. WFQueue(g, n)
    <3>1. f.count = Len(f.aq) /\ f.cq_count = Len(f.cq) /\ Distinct(f.aq)
      BY <1>1 DEF WFQueue
    <3>2. /\ \A i \in 1..Len(f.aq) : f.aq[i] # n /\ f.aq[i] \in 1..Len(g.node)
          /\ \A i \in 1..Len(f.cq) : f.cq[i] \in 1..Len(g.node)
      BY <1>1, <2>4 DEF WFQueue
    <3> QED BY <1>2, <2>2, <2>4, <3>1, <3>2 DEF WFQueue
  <2>7. WFTable(g, n)
    <3>1. ASSUME NEW i \in 1..Len(g.aq)
          PROVE  g.table[g.node[g.aq[i]].key] = g.aq[i]
      <4>1. /\ g.aq[i] = f.aq[i] /\ f.aq[i] \in 1..Len(f.node) /\ f.aq[i] # 0
            /\ f.table[f.node[f.aq[i]].key] = f.aq[i]
        BY <1>1, <2>2 DEF WFQueue, WFTable
      <4>2. g.node[f.aq[i]] = f.node[f.aq[i]] /\ f.node[f.aq[i]] \in Node
        BY <1>2, <2>4, <4>1, SMTT(40)
      <4>3. f.node[f.aq[i]].key \in Keys /\ f.node[f.aq[i]].key # key
        BY <2>1, <4>1, <4>2, NodeFields
      <4> QED BY <2>5, <4>1, <4>2, <4>3
    <3>2. ASSUME NEW k \in Keys, g.table[k] # 0
          PROVE  /\ g.table[k] \in 1..Len(g.node)
                 /\ Queued(g, n, g.table[k])
                 /\ g.node[g.table[k]].key = k
      <4>1. CASE k = key
        BY <2>3, <2>4, <2>5, <4>1 DEF Queued
      <4>2. CASE k # key
        <5>1. /\ f.table[k] \in 1..Len(f.node) /\ Queued(f, 0, f.table[k])
              /\ f.node[f.table[k]].key = k /\ g.table[k] = f.table[k]
          BY <1>1, <2>5, <3>2, <4>2 DEF WFTable
        <5>2. InQueue(g.aq, f.table[k])
          BY <2>2, <5>1 DEF Queued
        <5> QED BY <2>4, <5>1, <5>2 DEF Queued
      <4> QED BY <4>1, <4>2
    <3>3. n \in 1..Len(g.node) /\ g.table[g.node[n].key] = n
      BY <2>3, <2>4, <2>5
    <3> QED BY <3>1, <3>2, <3>3 DEF WFTable
  <2>8. WFOrder(g, 0)
    <3>1. ASSUME NEW i \in 1..Len(g.aq), NEW j \in 1..Len(g.aq), i < j
          PROVE  g.node[g.aq[i]].etime <= g.node[g.aq[j]].etime
      <4>1. /\ f.aq[i] \in 1..Len(f.node) /\ f.aq[i] # 0
            /\ f.aq[j] \in 1..Len(f.node) /\ f.aq[j] # 0
        BY <1>1, <2>2 DEF WFQueue
      <4>2. f.node[f.aq[i]].etime <= f.node[f.aq[j]].etime
        BY <1>1, <2>2, <3>1, <4>1 DEF WFOrder
      <4> QED BY <2>2, <2>4, <4>1, <4>2
    <3>2. ASSUME NEW i \in 1..Len(g.node)
          PROVE  g.node[i].stime <= g.node[i].etime /\ g.node[i].etime <= g.ctime
      <4>1. CASE i = n
        BY <1>2, <2>2, <2>3, <2>4, <4>1
      <4>2. CASE i # n
        <5>1. i \in 1..Len(f.node)
          BY <1>2, <2>4, <4>2 DEF n
        <5> QED BY <1>1, <2>2, <2>4, <5>1 DEF WFOrder
      <4> QED BY <4>1, <4>2
    <3> QED BY <3>1, <3>2 DEF WFOrder
  <2>9. WFBiflow(g)
    BY <1>1, <1>3, <2>1, <2>5, ReverseReverse DEF WFBiflow
  <2>10. WellFormed(g, n, 0)
    BY <2>2, <2>4, <2>6, <2>7, <2>8, <2>9 DEF WellFormed
  <2>11. Lookup(g, key) = n
    BY <2>4, <2>5 DEF Lookup
  <2>12. Current(g, n, 0, key, n)
    BY <2>3, <2>4, <2>10, <2>11 DEF Current, Queued
  <2> QED BY <2>2, <2>4, <2>12
<1> QED BY <1>4, <1>5

(* Changing the counters of the packet's node.  If its end time changes,   *)
(* the node is busy.                                                       *)
LEMMA UpdateCurrent ==
  ASSUME NEW f, NEW pend, NEW key \in Keys, NEW n, Current(f, pend, 0, key, n),
         NEW nd \in Node, nd.key = f.node[n].key, nd.stime = f.node[n].stime,
         nd.etime \in {f.node[n].etime, f.ctime},
         NEW g, g = [f EXCEPT !.node[n] = nd]
  PROVE  /\ g.ctime = f.ctime /\ g.node[n] = nd /\ g.table = f.table
         /\ Current(g, pend, n, key, n)
         /\ nd.etime = f.node[n].etime => Current(g, pend, 0, key, n)
<1>1. /\ f \in FlowTab /\ WFQueue(f, pend) /\ WFTable(f, pend) /\ WFOrder(f, 0)
      /\ WFBiflow(f) /\ n \in 1..Len(f.node) /\ pend \in Nat
  BY DEF WellFormed, Current
<1>2. f.node \in Seq(Node) /\ f.ctime \in Nat
  BY <1>1 DEF FlowTab
<1>3. /\ g.node = [f.node EXCEPT ![n] = nd] /\ g.table = f.table /\ g.aq = f.aq
      /\ g.cq = f.cq /\ g.count = f.count /\ g.cq_count = f.cq_count
      /\ g.ctime = f.ctime
  BY <1>1 DEF FlowTab
<1>4. g.node \in Seq(Node)
  BY <1>1, <1>2, <1>3
<1>5. g \in FlowTab
  <2>1. g = [f EXCEPT !.node = g.node]
    BY <1>3
  <2> QED BY <1>1, <1>4, <2>1 DEF FlowTab
<1>6. /\ Len(g.node) = Len(f.node)
      /\ g.node[n] = nd
      /\ \A i \in 1..Len(f.node) : i # n => g.node[i] = f.node[i]
  BY <1>1, <1>2, <1>3
<1>7. /\ \A i \in 1..Len(f.node) : g.node[i].key = f.node[i].key
      /\ \A i \in 1..Len(f.node) : g.node[i].stime = f.node[i].stime
      /\ \A i \in 1..Len(f.node) : i # n => g.node[i].etime = f.node[i].etime
  BY <1>6
<1>8. WFQueue(g, pend)
  BY <1>1, <1>3, <1>6 DEF WFQueue
<1>9. WFTable(g, pend)
  <2>1. \A i \in 1..Len(f.aq) : f.aq[i] \in 1..Len(f.node)
    BY <1>1 DEF WFQueue
  <2>2. \A i \in 1..Len(g.aq) : g.table[g.node[g.aq[i]].key] = g.aq[i]
    BY <1>1, <1>3, <1>7, <2>1 DEF WFTable
  <2>3. pend # 0 => pend \in 1..Len(g.node) /\ g.table[g.node[pend].key] = pend
    BY <1>1, <1>3, <1>6, <1>7 DEF WFTable
  <2>4. ASSUME NEW k \in Keys, g.table[k] # 0
        PROVE  /\ g.table[k] \in 1..Len(g.node)
               /\ Queued(g, pend, g.table[k])
               /\ g.node[g.table[k]].key = k
    BY <1>1, <1>3, <1>6, <1>7, <2>4 DEF WFTable, Queued
  <2> QED BY <2>2, <2>3, <2>4 DEF WFTable
<1>10. \A i \in 1..Len(g.node) : g.node[i].stime <= g.node[i].etime
                                 /\ g.node[i].etime <= g.ctime
  <2> SUFFICES ASSUME NEW i \in 1..Len(g.node)
               PROVE  g.node[i].stime <= g.node[i].etime /\ g.node[i].etime <= g.ctime
    OBVIOUS
  <2>1. /\ f.node[i].stime <= f.node[i].etime /\ f.node[i].etime <= f.ctime
        /\ f.node[i] \in Node
    BY <1>1, <1>2, <1>6 DEF WFOrder
  <2>2. f.node[i].stime \in Nat /\ f.node[i].etime \in Nat
    BY <2>1, NodeFields
  <2>3. CASE i = n
    BY <1>2, <1>3, <1>6, <2>1, <2>2, <2>3
  <2>4. CASE i # n
    BY <1>3, <1>6, <2>1, <2>4
  <2> QED BY <2>3, <2>4
<1>11. WFOrder(g, n)
  <2>1. ASSUME NEW i \in 1..Len(g.aq), NEW j \in 1..Len(g.aq), i < j,
               g.aq[i] # n, g.aq[j] # n
        PROVE  g.node[g.aq[i]].etime <= g.node[g.aq[j]].etime
    <3>1. /\ f.aq[i] \in 1..Len(f.node) /\ f.aq[j] \in 1..Len(f.node)
          /\ f.aq[i] # 0 /\ f.aq[j] # 0
      BY <1>1, <1>3 DEF WFQueue
    <3>2. f.node[f.aq[i]].etime <= f.node[f.aq[j]].etime
      BY <1>1, <1>3, <2>1, <3>1 DEF WFOrder
    <3> QED BY <1>3, <1>6, <2>1, <3>1, <3>2
  <2> QED BY <1>10, <2>1 DEF WFOrder
<1>12. ASSUME nd.etime = f.node[n].etime
       PROVE  WFOrder(g, 0)
  <2>1. ASSUME NEW i \in 1..Len(g.aq), NEW j \in 1..Len(g.aq), i < j
        PROVE  g.node[g.aq[i]].etime <= g.node[g.aq[j]].etime
    <3>1. /\ f.aq[i] \in 1..Len(f.node) /\ f.aq[j] \in 1..Len(f.node)
          /\ f.aq[i] # 0 /\ f.aq[j] # 0
      BY <1>1, <1>3 DEF WFQueue
    <3>2. f.node[f.aq[i]].etime <= f.node[f.aq[j]].etime
      BY <1>1, <1>3, <2>1, <3>1 DEF WFOrder
    <3>3. \A k \in 1..Len(f.node) : g.node[k].etime = f.node[k].etime
      BY <1>6, <1>12
    <3> QED BY <1>3, <3>1, <3>2, <3>3
  <2> QED BY <1>10, <2>1 DEF WFOrder
<1>13. WFBiflow(g)
  BY <1>1, <1>3 DEF WFBiflow
<1>14. /\ WellFormed(g, pend, n)
       /\ nd.etime = f.node[n].etime => WellFormed(g, pend, 0)
  BY <1>1, <1>5, <1>8, <1>9, <1>11, <1>12, <1>13 DEF WellFormed
<1>15. /\ n = Lookup(g, key) /\ Queued(g, pend, n) /\ pend \in {0, n}
       /\ g.node[n].key \in {key, yfFlowKeyReverse(key)}
  BY <1>3, <1>6 DEF Current, Lookup, Queued
<1> QED BY <1>1, <1>3, <1>6, <1>14, <1>15 DEF Current

(* Moving the busy node, which has the latest end time, to the head of the *)
(* queue restores the order (yfFlowTick).                                  *)
LEMMA TickWF ==
  ASSUME NEW f, NEW pend, NEW key \in Keys, NEW n, Current(f, pend, n, key, n),
         f.node[n].etime = f.ctime,
         NEW g, g = yfFlowTick(f, n)
  PROVE  WellFormed(g, 0, 0) /\ g.ctime = f.ctime
<1>1. /\ f \in FlowTab /\ WFQueue(f, pend) /\ WFTable(f, pend) /\ WFOrder(f, n)
      /\ WFBiflow(f) /\ n \in 1..Len(f.node) /\ pend \in {0, n} /\ Queued(f, pend, n)
  BY DEF WellFormed, Current
<1>2. /\ f.node \in Seq(Node) /\ f.ctime \in Nat /\ f.aq \in Seq(Nat) /\ n \in Nat
      /\ n # 0 /\ f.table \in [Keys -> Nat] /\ f.count \in Int
  BY <1>1, TabFields
<1>3. \A i \in 1..Len(f.node) : f.node[i].etime <= f.node[n].etime
  BY <1>1 DEF WFOrder
<1>4. CASE f.aq # <<>> /\ f.aq[Len(f.aq)] = n
  <2>1. g = f /\ Len(f.aq) \in 1..Len(f.aq)
    BY <1>2, <1>4 DEF yfFlowTick
  <2>2. pend = 0
    BY <1>1, <1>4, <2>1 DEF WFQueue
  <2>3. ASSUME NEW i \in 1..Len(f.aq), NEW j \in 1..Len(f.aq), i < j
        PROVE  f.node[f.aq[i]].etime <= f.node[f.aq[j]].etime
    <3>1. /\ f.aq[i] \in 1..Len(f.node)
          /\ Distinct(f.aq)
      BY <1>1 DEF WFQueue
    <3>2. CASE f.aq[j] = n
      BY <1>3, <3>1, <3>2
    <3>3. CASE f.aq[j] # n
      <4>1. f.aq[i] # n
        <5>1. i # Len(f.aq) /\ f.aq[Len(f.aq)] = n
          BY <1>2, <1>4, <2>3
        <5> QED BY <2>1, <3>1, <5>1 DEF Distinct
      <4> QED BY <1>1, <2>3, <3>3, <4>1 DEF WFOrder
    <3> QED BY <3>2, <3>3
  <2>4. WFOrder(f, 0)
    BY <1>1, <2>3 DEF WFOrder
  <2> QED BY <1>1, <1>2, <2>1, <2>2, <2>4 DEF WellFormed
<1>5. CASE ~(f.aq # <<>> /\ f.aq[Len(f.aq)] = n)
  <2> DEFINE r == piqPick(f.aq, n)
  <2>1. g = [f EXCEPT !.aq = Append(r, n)]
    BY <1>5 DEF yfFlowTick, piqEnQ
  <2>2. Distinct(f.aq) /\ PickedFrom(f.aq, n, r)
    BY <1>1, <1>2, PickFacts DEF WFQueue
  <2> HIDE DEF r
  <2>3. /\ r \in Seq(Nat)
        /\ Len(r) = Len(f.aq) - (IF InQueue(f.aq, n) THEN 1 ELSE 0)
        /\ ~InQueue(r, n)
        /\ \A m \in Nat : m # n => (InQueue(f.aq, m) <=> InQueue(r, m))
    BY <2>2 DEF PickedFrom
  <2>4. PICK h \in [1..Len(r) -> 1..Len(f.aq)] :
           /\ \A i \in 1..Len(r) : r[i] = f.aq[h[i]]
           /\ \A i, j \in 1..Len(r) : i < j => h[i] < h[j]
    BY <2>2 DEF PickedFrom
  <2>5. \A i \in 1..Len(r) : h[i] \in 1..Len(f.aq) /\ r[i] = f.aq[h[i]]
    BY <2>4
  <2>6. /\ g.aq = Append(r, n) /\ g.node = f.node /\ g.table = f.table /\ g.cq = f.cq
        /\ g.count = f.count /\ g.cq_count = f.cq_count /\ g.ctime = f.ctime
    BY <1>1, <2>1 DEF FlowTab
  <2>7. g \in FlowTab
    <3>1. Append(r, n) \in Seq(Nat)
      BY <1>2, <2>3
    <3> QED BY <1>1, <2>1, <3>1 DEF FlowTab
  <2>8. /\ Len(g.aq) = Len(r) + 1 /\ g.aq[Len(r) + 1] = n
        /\ \A i \in 1..Len(r) : g.aq[i] = r[i] /\ r[i] # n
        /\ Len(r) \in Nat
    <3>1. \A i \in 1..Len(r) : r[i] # n
      BY <2>3 DEF InQueue
    <3>2. r \in Seq(Nat) /\ g.aq = Append(r, n)
      BY <2>3, <2>6
    <3> QED BY <1>2, <3>1, <3>2
  <2>9. ASSUME NEW i \in 1..Len(r)
        PROVE  r[i] \in 1..Len(f.node) /\ f.table[f.node[r[i]].key] = r[i]
    <3>1. h[i] \in 1..Len(f.aq) /\ r[i] = f.aq[h[i]]
      BY <2>5
    <3> QED BY <1>1, <3>1 DEF WFQueue, WFTable
  <2>10. WFQueue(g, 0)
    <3>1. InQueue(f.aq, n) <=> pend = 0
      BY <1>1, <1>2 DEF WFQueue, Queued, InQueue
    <3>2. f.count = Len(f.aq) + (IF pend = 0 THEN 0 ELSE 1) /\ f.cq_count = Len(f.cq)
      BY <1>1 DEF WFQueue
    <3>3. f.count = Len(r) + 1
      <4>1. CASE pend = 0
        BY <1>2, <2>3, <3>1, <3>2, <4>1
      <4>2. CASE pend # 0
        <5>1. ~InQueue(f.aq, n) /\ f.count = Len(f.aq) + 1
          BY <3>1, <3>2, <4>2
        <5>2. Len(r) = Len(f.aq) - 0
          BY <2>3, <5>1
        <5> QED BY <1>2, <5>1, <5>2
      <4> QED BY <4>1, <4>2
    <3>4. Distinct(r)
      <4> SUFFICES ASSUME NEW i \in 1..Len(r), NEW j \in 1..Len(r), r[i] = r[j]
                   PROVE  i = j
        BY DEF Distinct
      <4>1. h[i] \in 1..Len(f.aq) /\ h[j] \in 1..Len(f.aq) /\ f.aq[h[i]] = f.aq[h[j]]
        BY <2>5
      <4>2. h[i] = h[j]
        BY <2>2, <4>1 DEF Distinct
      <4>3. i \in Int /\ j \in Int /\ h[i] \in Int /\ h[j] \in Int
        BY <4>1
      <4>4. ~(i < j) /\ ~(j < i)
        BY <2>4, <4>2, <4>3
      <4> QED BY <4>3, <4>4
    <3>5. Distinct(g.aq)
      BY <2>8, <3>4, SMTT(40) DEF Distinct
    <3>6. \A i \in 1..Len(g.aq) : g.aq[i] # 0 /\ g.aq[i] \in 1..Len(g.node)
      BY <1>1, <1>2, <2>6, <2>8, <2>9, SMTT(40)
    <3>7. g.count = Len(g.aq) + 0
      BY <2>6, <2>8, <3>3
    <3>8. g.cq_count = Len(g.cq)
      BY <2>6, <3>2
    <3>9. \A i \in 1..Len(g.cq) : g.cq[i] \in 1..Len(g.node)
      BY <1>1, <2>6 DEF WFQueue
    <3> QED BY <3>5, <3>6, <3>7, <3>8, <3>9 DEF WFQueue
  <2>11. WFTable(g, 0)
    <3>1. f.table[f.node[n].key] = n
      BY <1>1, <1>2 DEF WFTable, Queued, InQueue
    <3>2. \A i \in 1..Len(g.aq) : g.table[g.node[g.aq[i]].key] = g.aq[i]
      BY <2>6, <2>8, <2>9, <3>1
    <3>3. ASSUME NEW k \in Keys, g.table[k] # 0
          PROVE  /\ g.table[k] \in 1..Len(g.node)
                 /\ Queued(g, 0, g.table[k])
                 /\ g.node[g.table[k]].key = k
      <4>1. /\ f.table[k] \in 1..Len(f.node) /\ Queued(f, pend, f.table[k])
            /\ f.node[f.table[k]].key = k /\ g.table[k] = f.table[k] /\ f.table[k] # 0
        BY <1>1, <2>6, <3>3 DEF WFTable
      <4>2. CASE f.table[k] = n
        <5>1. InQueue(g.aq, n)
          BY <2>8 DEF InQueue
        <5> QED BY <2>6, <4>1, <4>2, <5>1 DEF Queued
      <4>3. CASE f.table[k] # n
        <5>1. InQueue(r, f.table[k])
          BY <1>1, <2>3, <4>1, <4>3 DEF Queued
        <5>2. InQueue(g.aq, f.table[k])
          BY <2>8, <5>1 DEF InQueue
        <5> QED BY <2>6, <4>1, <5>2 DEF Queued
      <4> QED BY <4>2, <4>3
    <3> QED BY <3>2, <3>3 DEF WFTable
  <2>12. WFOrder(g, 0)
    <3>1. ASSUME NEW i \in 1..Len(g.aq), NEW j \in 1..Len(g.aq), i < j
          PROVE  f.node[g.aq[i]].etime <= f.node[g.aq[j]].etime
      <4>1. i \in 1..Len(r)
        BY <2>8, <3>1
      <4>2. CASE j = Len(r) + 1
        BY <1>3, <2>8, <2>9, <4>1, <4>2
      <4>3. CASE j # Len(r) + 1
        <5>1. j \in 1..Len(r)
          BY <2>8, <4>3
        <5>2. /\ h[i] \in 1..Len(f.aq) /\ h[j] \in 1..Len(f.aq) /\ h[i] < h[j]
              /\ f.aq[h[i]] # n /\ f.aq[h[j]] # n
              /\ g.aq[i] = f.aq[h[i]] /\ g.aq[j] = f.aq[h[j]]
          BY <2>4, <2>5, <2>8, <3>1, <4>1, <5>1
        <5> QED BY <1>1, <5>2 DEF WFOrder
      <4> QED BY <4>2, <4>3
    <3> QED BY <1>1, <2>6, <3>1 DEF WFOrder
  <2>13. WFBiflow(g)
    BY <1>1, <2>6 DEF WFBiflow
  <2> QED BY <2>6, <2>7, <2>10, <2>11, <2>12, <2>13 DEF WellFormed
<1> QED BY <1>4, <1>5

(* The current time may advance.                                           *)
LEMMA TimedWF ==
  ASSUME NEW f, WellFormed(f, 0, 0), NEW t \in Nat, f.ctime <= t,
         NEW g, g = [f EXCEPT !.ctime = t, !.stat_packets = @ + 1]
  PROVE  WellFormed(g, 0, 0) /\ g.ctime = t
<1>1. f \in FlowTab /\ WFQueue(f, 0) /\ WFTable(f, 0) /\ WFOrder(f, 0) /\ WFBiflow(f)
  BY DEF WellFormed
<1>2. /\ g.node = f.node /\ g.table = f.table /\ g.aq = f.aq /\ g.cq = f.cq
      /\ g.count = f.count /\ g.cq_count = f.cq_count /\ g.ctime = t
  BY <1>1 DEF FlowTab
<1>3. g \in FlowTab
  <2>1. f.stat_packets + 1 \in Nat
    BY <1>1 DEF FlowTab
  <2> QED BY <1>1, <2>1 DEF FlowTab
<1>4. WFQueue(g, 0) /\ WFTable(g, 0) /\ WFBiflow(g)
  BY <1>1, <1>2 DEF WFQueue, WFTable, WFBiflow, Queued
<1>5. WFOrder(g, 0)
  <2>1. ASSUME NEW i \in 1..Len(f.node)
        PROVE  f.node[i].stime <= f.node[i].etime /\ f.node[i].etime <= t
    <3>1. f.node[i] \in Node /\ f.ctime \in Nat
      BY <1>1, TabFields
    <3>2. f.node[i].etime \in Nat
      BY <3>1, NodeFields
    <3>3. f.node[i].stime <= f.node[i].etime /\ f.node[i].etime <= f.ctime
      BY <1>1 DEF WFOrder
    <3> QED BY <3>1, <3>2, <3>3
  <2> QED BY <1>1, <1>2, <2>1 DEF WFOrder
<1> QED BY <1>2, <1>3, <1>4, <1>5 DEF WellFormed

(* A packet that cuts its flow at a timeout has an open flow again.        *)
LEMMA SplitCurrent ==
  ASSUME NEW f, NEW pend, NEW n, NEW key \in Keys, Current(f, pend, 0, key, n),
         NEW reason \in Reasons,
         NEW g, g = yfFlowGetNode(yfFlowClose(f, n, reason), key, f.node[n].fid)
  PROVE  /\ g.ctime = f.ctime
         /\ \E q \in Nat, m \in Nat : Current(g, q, 0, key, m)
<1>1. /\ WellFormed(f, pend, 0) /\ n \in 1..Len(f.node) /\ pend \in {0, n}
      /\ Queued(f, pend, n) /\ f \in FlowTab
  BY DEF Current, WellFormed
<1>2. WellFormed(yfFlowClose(f, n, reason), 0, 0)
  BY <1>1, CloseWF
<1>3. f.node[n].fid \in Nat
  <2>1. f.node[n] \in Node
    BY <1>1, TabFields
  <2> QED BY <2>1, NodeFields
<1>4. yfFlowClose(f, n, reason).ctime = f.ctime
  <2>1. ClosedFrom(f, n, yfFlowClose(f, n, reason))
    BY <1>1, CloseFields
  <2> QED BY <2>1 DEF ClosedFrom
<1> QED BY <1>2, <1>3, <1>4, GetCurrent

LEMMA SplitActiveCurrent ==
  ASSUME NEW f, NEW pend, NEW n, NEW p \in Packet, Current(f, pend, 0, p.key, n),
         NEW g, g = SplitActive(f, p)
  PROVE  /\ g.ctime = f.ctime
         /\ \E q \in Nat, m \in Nat : Current(g, q, 0, p.key, m)
<1>0. p.key \in Keys
  BY DEF Packet
<1>1. CASE ~ActiveExpired(f, p)
  <2>1. g = f /\ pend \in Nat /\ n \in Nat
    BY <1>1 DEF SplitActive, Current, WellFormed
  <2> QED BY <2>1
<1>2. CASE ActiveExpired(f, p)
  <2> DEFINE e == yfFlowGetNode(yfFlowClose(f, n, "ACTIVE"), p.key, f.node[n].fid)
  <2>1. n = Lookup(f, p.key) /\ "ACTIVE" \in Reasons
    BY ZenonT(40) DEF Current, Reasons
  <2>2. g = [e EXCEPT !.node[Lookup(e, p.key)].iscont = silkmode]
    BY <1>2, <2>1, ZenonT(40) DEF SplitActive
  <2> HIDE DEF e
  <2>3. e.ctime = f.ctime /\ \E q \in Nat, m \in Nat : Current(e, q, 0, p.key, m)
    BY <1>0, <2>1, SplitCurrent DEF e
  <2>4. PICK q \in Nat, m \in Nat : Current(e, q, 0, p.key, m)
    BY <2>3
  <2> DEFINE nd == [e.node[m] EXCEPT !.iscont = silkmode]
  <2>5. /\ m = Lookup(e, p.key) /\ e.node[m] \in Node
    <3>1. e \in FlowTab /\ m = Lookup(e, p.key) /\ m \in 1..Len(e.node)
      BY <2>4 DEF Current, WellFormed
    <3>2. e.node \in Seq(Node)
      BY <3>1 DEF FlowTab
    <3> QED BY <3>1, <3>2
  <2>6. /\ nd \in Node /\ nd.key = e.node[m].key /\ nd.stime = e.node[m].stime
        /\ nd.etime = e.node[m].etime
    BY <2>5, ConfigAssumption DEF Node
  <2>7. g = [e EXCEPT !.node[m] = nd]
    BY <2>2, <2>5
  <2> HIDE DEF nd
  <2>8. g.ctime = e.ctime /\ Current(g, q, 0, p.key, m)
    BY <1>0, <2>4, <2>6, <2>7, UpdateCurrent
  <2> QED BY <2>3, <2>8
<1> QED BY <1>1, <1>2

LEMMA SplitIdleCurrent ==
  ASSUME NEW f, NEW pend, NEW n, NEW p \in Packet, Current(f, pend, 0, p.key, n),
         NEW g, g = SplitIdle(f, p)
  PROVE  /\ g.ctime = f.ctime
         /\ \E q \in Nat, m \in Nat : Current(g, q, 0, p.key, m)
<1>0. p.key \in Keys
  BY DEF Packet
<1>1. n = Lookup(f, p.key) /\ pend \in Nat /\ n \in Nat /\ "IDLE" \in Reasons
  BY DEF Current, WellFormed, Reasons
<1>2. CASE p.ptime - f.node[n].etime > idle_ms
  <2>1. g = yfFlowGetNode(yfFlowClose(f, n, "IDLE"), p.key, f.node[n].fid)
    BY <1>1, <1>2 DEF SplitIdle
  <2> QED BY <1>0, <1>1, <2>1, SplitCurrent
<1>3. CASE ~(p.ptime - f.node[n].etime > idle_ms)
  <2>1. g = f
    BY <1>1, <1>3 DEF SplitIdle
  <2> QED BY <1>1, <2>1
<1> QED BY <1>2, <1>3

(* Counting a packet keeps key and start, and ends the flow at the packet. *)
LEMMA CountPacketFacts ==
  ASSUME NEW nd \in Node, NEW d \in Direction, NEW p \in Packet, NEW serial \in Nat,
         nd.stime <= p.ptime
  PROVE  /\ CountPacket(nd, d, p, serial) \in Node
         /\ CountPacket(nd, d, p, serial).key = nd.key
         /\ CountPacket(nd, d, p, serial).stime = nd.stime
         /\ CountPacket(nd, d, p, serial).etime = p.ptime
<1>1. p.flags \subseteq {"FIN", "ACK", "RST"} /\ p.iplen \in Nat /\ p.ptime \in Nat
  <2>1. p.flags \in FlagSets /\ p.iplen \in Iplens /\ p.ptime \in 1..MaxTime
    BY DEF Packet
  <2>2. p.flags \in SUBSET {"FIN", "ACK", "RST"}
    BY <2>1, InputAssumption
  <2>3. p.iplen \in Nat
    BY <2>1, InputAssumption
  <2>4. p.ptime \in Nat
    BY <2>1, InputAssumption
  <2> QED BY <2>2, <2>3, <2>4
<1>2. ASSUME NEW x \in Node
      PROVE  /\ yfFlowPktTCP(x, d, p.flags) \in Node
             /\ yfFlowPktTCP(x, d, p.flags).key = x.key
             /\ yfFlowPktTCP(x, d, p.flags).stime = x.stime
             /\ yfFlowPktTCP(x, d, p.flags).pkt = x.pkt
  BY <1>1 DEF yfFlowPktTCP, Node, FinBits
<1> DEFINE tcp == IF nd.key.proto = "TCP" THEN yfFlowPktTCP(nd, d, p.flags) ELSE nd
           rd == IF nd.pkt[d] = {} /\ d = "rval" THEN p.ptime - nd.stime ELSE tcp.rdtime
<1>3. tcp \in Node /\ tcp.key = nd.key /\ tcp.stime = nd.stime
  BY <1>2
<1> HIDE DEF tcp
<1>4. rd \in Nat
  BY <1>1, <1>3 DEF Node
<1>5. CountPacket(nd, d, p, serial) =
        [tcp EXCEPT !.rdtime = rd, !.oct[d] = @ + p.iplen,
                    !.pkt[d] = @ \cup {serial}, !.etime = p.ptime]
  BY DEF CountPacket, tcp
<1> DEFINE oct == [tcp.oct EXCEPT ![d] = @ + p.iplen]
           pkt == [tcp.pkt EXCEPT ![d] = @ \cup {serial}]
<1>6. oct \in [Direction -> Nat] /\ pkt \in [Direction -> SUBSET Nat]
  <2>1. tcp.oct \in [Direction -> Nat] /\ tcp.pkt \in [Direction -> SUBSET Nat]
    BY <1>3 DEF Node
  <2> QED BY <1>1, <2>1
<1>7. CountPacket(nd, d, p, serial) =
        [tcp EXCEPT !.rdtime = rd, !.oct = oct, !.pkt = pkt, !.etime = p.ptime]
  BY <1>5
<1> HIDE DEF rd, oct, pkt
<1> QED BY <1>1, <1>3, <1>4, <1>6, <1>7, ZenonT(60) DEF Node

(* One packet.                                                             *)
LEMMA PBufWF ==
  ASSUME NEW f, WellFormed(f, 0, 0), NEW p \in Packet, NEW g, g = yfFlowPBuf(f, p)
  PROVE  WellFormed(g, 0, 0)
<1>1. f \in FlowTab /\ p.key \in Keys /\ p.ptime \in Nat /\ f.ctime \in Nat
  <2>1. p.key \in Keys /\ p.ptime \in 1..MaxTime
    BY DEF Packet
  <2>2. p.ptime \in Nat
    BY <2>1, InputAssumption
  <2> QED BY <2>1, <2>2 DEF WellFormed, FlowTab
<1>2. CASE p.ptime < f.ctime
  <2>1. g = [f EXCEPT !.stat_seqrej = @ + 1]
    BY <1>2 DEF yfFlowPBuf
  <2>2. f.stat_seqrej + 1 \in Nat
    BY <1>1, TabFields
  <2>3. g \in FlowTab
    BY <1>1, <2>1, <2>2 DEF FlowTab
  <2>4. /\ g.node = f.node /\ g.table = f.table /\ g.aq = f.aq /\ g.cq = f.cq
        /\ g.count = f.count /\ g.cq_count = f.cq_count /\ g.ctime = f.ctime
    BY <1>1, <2>1 DEF FlowTab
  <2> QED BY <2>3, <2>4 DEF WellFormed, WFQueue, WFTable, WFOrder, WFBiflow, Queued
<1>3. CASE ~(p.ptime < f.ctime)
  <2> DEFINE timed == [f EXCEPT !.ctime = p.ptime, !.stat_packets = @ + 1]
             found == yfFlowGetNode(timed, p.key, 0)
             act == SplitActive(found, p)
             split == SplitIdle(act, p)
             n == Lookup(split, p.key)
             nd == CountPacket(split.node[n], Dir(split, p.key), p, split.stat_packets)
             counted == [split EXCEPT !.node[n] = nd]
  <2>1. g = IF Finished(counted.node[n]) THEN yfFlowClose(counted, n, "CLOSED")
            ELSE yfFlowTick(counted, n)
    BY <1>3 DEF yfFlowPBuf
  <2>2. WellFormed(timed, 0, 0) /\ timed.ctime = p.ptime
    <3>1. f.ctime <= p.ptime
      BY <1>1, <1>3
    <3>2. \E t \in Nat : /\ f.ctime <= t /\ t = p.ptime
                         /\ timed = [f EXCEPT !.ctime = t, !.stat_packets = @ + 1]
      BY <1>1, <3>1
    <3> HIDE DEF timed
    <3> QED BY <3>2, TimedWF
  <2> HIDE DEF timed
  <2>3. found.ctime = p.ptime /\ \E q \in Nat, m \in Nat : Current(found, q, 0, p.key, m)
    <3>1. \E c \in Nat : found = yfFlowGetNode(timed, p.key, c)
      OBVIOUS
    <3> HIDE DEF found
    <3>2. p.key \in Keys /\ WellFormed(timed, 0, 0)
      BY <1>1, <2>2
    <3>3. found.ctime = timed.ctime /\ \E q \in Nat, m \in Nat : Current(found, q, 0, p.key, m)
      BY <3>1, <3>2, GetCurrent
    <3> QED BY <2>2, <3>3
  <2> HIDE DEF found
  <2>4. act.ctime = p.ptime /\ \E q \in Nat, m \in Nat : Current(act, q, 0, p.key, m)
    BY <2>3, SplitActiveCurrent
  <2> HIDE DEF act
  <2>5. split.ctime = p.ptime /\ \E q \in Nat, m \in Nat : Current(split, q, 0, p.key, m)
    BY <2>4, SplitIdleCurrent
  <2> HIDE DEF split
  <2>6. PICK q \in Nat, m \in Nat : Current(split, q, 0, p.key, m)
    BY <2>5
  <2>7. n = m /\ split \in FlowTab /\ n \in 1..Len(split.node) /\ WFOrder(split, 0)
    BY <2>6 DEF Current, WellFormed
  <2>8. split.node[n] \in Node /\ split.stat_packets \in Nat
    BY <2>7, TabFields
  <2>9. split.node[n].stime <= p.ptime
    <3>1. split.node[n].stime \in Nat /\ split.node[n].etime \in Nat
      BY <2>8, NodeFields
    <3>2. split.node[n].stime <= split.node[n].etime /\ split.node[n].etime <= split.ctime
      BY <2>7 DEF WFOrder
    <3> QED BY <1>1, <2>5, <3>1, <3>2
  <2>10. Dir(split, p.key) \in Direction
    BY DEF Dir, Direction
  <2>11. /\ nd \in Node /\ nd.key = split.node[n].key /\ nd.stime = split.node[n].stime
         /\ nd.etime = p.ptime
    BY <2>8, <2>9, <2>10, CountPacketFacts
  <2> HIDE DEF nd, n
  <2>12. /\ counted.ctime = p.ptime /\ counted.node[n] = nd
         /\ Current(counted, q, n, p.key, n)
    BY <1>1, <2>5, <2>6, <2>7, <2>11, UpdateCurrent
  <2> HIDE DEF counted
  <2>13. CASE Finished(counted.node[n])
    <3>1. g = yfFlowClose(counted, n, "CLOSED") /\ "CLOSED" \in Reasons
      BY <2>1, <2>13 DEF Reasons
    <3>2. /\ WellFormed(counted, q, n) /\ n \in 1..Len(counted.node) /\ q \in {0, n}
          /\ Queued(counted, q, n) /\ n \in {0, n}
      BY <2>12 DEF Current
    <3> QED BY <3>1, <3>2, CloseWF
  <2>14. CASE ~Finished(counted.node[n])
    BY <1>1, <2>1, <2>11, <2>12, <2>14, TickWF
  <2> QED BY <2>13, <2>14
<1> QED BY <1>2, <1>3

(* What a loop that closes the n oldest flows does to the table.           *)
ClosedOldest(f, n, g) ==
  /\ g \in FlowTab
  /\ Len(g.node) = Len(f.node)
  /\ \A i \in 1..Len(f.node) :
       /\ g.node[i].key = f.node[i].key
       /\ g.node[i].stime = f.node[i].stime
       /\ g.node[i].etime = f.node[i].etime
  /\ g.ctime = f.ctime
  /\ g.stat_flush = f.stat_flush
  /\ Len(g.aq) = Len(f.aq) - n
  /\ \A i \in 1..(Len(f.aq) - n) : g.aq[i] = f.aq[i + n]
  /\ g.count = f.count - n
  /\ Len(g.cq) = Len(f.cq) + n
  /\ \A i \in 1..Len(g.cq) :
       g.cq[i] = IF i <= Len(f.cq) THEN f.cq[i] ELSE f.aq[i - Len(f.cq)]
  /\ g.cq_count = f.cq_count + n
  /\ \A k \in Keys :
       g.table[k] = IF \E j \in 1..n : f.node[f.aq[j]].key = k THEN 0 ELSE f.table[k]

LEMMA CloseOldestFields ==
  ASSUME NEW f \in FlowTab, NEW n \in 0..Len(f.aq), NEW reason \in Reasons
  PROVE  ClosedOldest(f, n, CloseOldest(f, n, reason))
<1> DEFINE closed == {f.aq[i] : i \in 1..n}
           tab == [k \in Keys |-> IF \E c \in closed : f.node[c].key = k
                                  THEN 0 ELSE f.table[k]]
           nds == [i \in 1..Len(f.node) |->
                     IF i \in closed THEN [f.node[i] EXCEPT !.reason = reason]
                     ELSE f.node[i]]
           nxt == SubSeq(f.aq, n + 1, Len(f.aq))
           old == SubSeq(f.aq, 1, n)
           cl == f.cq \o old
           cc == f.cq_count + n
           ct == f.count - n
           g == CloseOldest(f, n, reason)
<1>1. g = [f EXCEPT !.table = tab, !.node = nds, !.aq = nxt, !.cq = cl,
                    !.cq_count = cc, !.count = ct]
  BY DEF CloseOldest
<1>2. /\ f.node \in Seq(Node) /\ f.aq \in Seq(Nat) /\ f.cq \in Seq(Nat)
      /\ f.table \in [Keys -> Nat] /\ f.count \in Int /\ f.cq_count \in Int
  BY DEF FlowTab
<1>3. tab \in [Keys -> Nat] /\ cc \in Int /\ ct \in Int
  BY <1>2
<1>4. ASSUME NEW i \in 1..Len(f.node)
      PROVE  /\ nds[i] \in Node /\ nds[i].key = f.node[i].key
             /\ nds[i].stime = f.node[i].stime /\ nds[i].etime = f.node[i].etime
  <2>1. f.node[i] \in Node
    BY <1>2
  <2>2. LET x == [f.node[i] EXCEPT !.reason = reason]
        IN  /\ x \in Node /\ x.key = f.node[i].key
            /\ x.stime = f.node[i].stime /\ x.etime = f.node[i].etime
    BY <2>1 DEF Node
  <2> QED BY <2>1, <2>2
<1>5. nds \in Seq(Node) /\ Len(nds) = Len(f.node)
  <2>1. Len(f.node) \in Nat
    BY <1>2
  <2>2. nds = [i \in 1..Len(f.node) |-> nds[i]]
    OBVIOUS
  <2> HIDE DEF nds
  <2>3. \A i \in 1..Len(f.node) : nds[i] \in Node
    BY <1>4
  <2>4. nds \in [1..Len(f.node) -> Node]
    BY <2>2, <2>3
  <2> QED BY <2>1, <2>4
<1>6. /\ nxt \in Seq(Nat) /\ Len(nxt) = Len(f.aq) - n
      /\ \A i \in 1..(Len(f.aq) - n) : nxt[i] = f.aq[i + n]
  BY <1>2
<1>7. /\ old \in Seq(Nat) /\ Len(old) = n
      /\ \A i \in 1..n : old[i] = f.aq[i]
  BY <1>2
<1>8. /\ cl \in Seq(Nat) /\ Len(cl) = Len(f.cq) + n
      /\ \A i \in 1..Len(cl) : cl[i] = IF i <= Len(f.cq) THEN f.cq[i]
                                       ELSE f.aq[i - Len(f.cq)]
  <2> HIDE DEF old
  <2>1. cl \in Seq(Nat) /\ Len(cl) = Len(f.cq) + n
    BY <1>2, <1>7, ConcatProperties
  <2>2. ASSUME NEW i \in 1..Len(cl)
        PROVE  cl[i] = IF i <= Len(f.cq) THEN f.cq[i] ELSE f.aq[i - Len(f.cq)]
    <3>1. i \in 1..(Len(f.cq) + Len(old)) /\ Len(f.cq) \in Nat
      BY <1>2, <1>7, <2>1
    <3>2. cl[i] = IF i <= Len(f.cq) THEN f.cq[i] ELSE old[i - Len(f.cq)]
      BY <1>2, <1>7, <3>1, ConcatProperties
    <3>3. CASE i <= Len(f.cq)
      BY <3>2, <3>3
    <3>4. CASE ~(i <= Len(f.cq))
      <4>1. i - Len(f.cq) \in 1..n
        BY <1>7, <3>1, <3>4
      <4> QED BY <1>7, <3>2, <3>4, <4>1
    <3> QED BY <3>3, <3>4
  <2> QED BY <2>1, <2>2
<1>9. \A k \in Keys :
        tab[k] = IF \E j \in 1..n : f.node[f.aq[j]].key = k THEN 0 ELSE f.table[k]
  OBVIOUS
<1> HIDE DEF tab, nds, nxt, cl, g
<1>10. g \in FlowTab
  BY <1>1, <1>3, <1>5, <1>6, <1>8 DEF FlowTab
<1>11. /\ g.table = tab /\ g.node = nds /\ g.aq = nxt /\ g.cq = cl
       /\ g.cq_count = cc /\ g.count = ct /\ g.ctime = f.ctime
       /\ g.stat_flush = f.stat_flush
  BY <1>1 DEF FlowTab
<1>12. ClosedOldest(f, n, g)
  BY <1>4, <1>5, <1>6, <1>8, <1>9, <1>10, <1>11 DEF ClosedOldest
<1> QED BY <1>12 DEF g

LEMMA CloseOldestWF ==
  ASSUME NEW f, WellFormed(f, 0, 0), NEW n \in 0..Len(f.aq), NEW g,
         ClosedOldest(f, n, g)
  PROVE  WellFormed(g, 0, 0)
<1>1. f \in FlowTab /\ WFQueue(f, 0) /\ WFTable(f, 0) /\ WFOrder(f, 0) /\ WFBiflow(f)
  BY DEF WellFormed
<1>2. /\ f.node \in Seq(Node) /\ f.aq \in Seq(Nat) /\ f.cq \in Seq(Nat)
      /\ f.table \in [Keys -> Nat] /\ f.count \in Int /\ f.cq_count \in Int
      /\ Len(f.aq) \in Nat /\ Len(f.cq) \in Nat /\ n \in Nat
  BY <1>1, SMTT(30) DEF FlowTab
<1>3. /\ g \in FlowTab /\ Len(g.node) = Len(f.node) /\ g.ctime = f.ctime
      /\ Len(g.aq) = Len(f.aq) - n
      /\ \A k \in Keys :
           g.table[k] = IF \E j \in 1..n : f.node[f.aq[j]].key = k THEN 0 ELSE f.table[k]
      /\ \A i \in 1..Len(f.node) : g.node[i].key = f.node[i].key
      /\ \A i \in 1..Len(f.node) : g.node[i].stime = f.node[i].stime
                                   /\ g.node[i].etime = f.node[i].etime
  BY DEF ClosedOldest
<1>4. ASSUME NEW i \in 1..Len(g.aq)
      PROVE  /\ i + n \in 1..Len(f.aq) /\ g.aq[i] = f.aq[i + n]
             /\ g.aq[i] \in 1..Len(f.node) /\ g.aq[i] # 0
             /\ f.table[f.node[g.aq[i]].key] = g.aq[i]
             /\ f.node[g.aq[i]].key \in Keys
  <2>1. i + n \in 1..Len(f.aq) /\ i \in 1..(Len(f.aq) - n)
    BY <1>2, <1>3, SMTT(30)
  <2>2. g.aq[i] = f.aq[i + n]
    BY <2>1 DEF ClosedOldest
  <2>3. f.aq[i + n] \in 1..Len(f.node) /\ f.table[f.node[f.aq[i + n]].key] = f.aq[i + n]
    BY <1>1, <2>1 DEF WFQueue, WFTable
  <2>4. f.node[f.aq[i + n]] \in Node
    BY <1>2, <2>3
  <2> QED BY <2>1, <2>2, <2>3, <2>4, NodeFields
<1>5. WFQueue(g, 0)
  <2>1. Distinct(g.aq)
    <3> SUFFICES ASSUME NEW i \in 1..Len(g.aq), NEW j \in 1..Len(g.aq), g.aq[i] = g.aq[j]
                 PROVE  i = j
      BY DEF Distinct
    <3>1. i + n = j + n
      BY <1>1, <1>4 DEF WFQueue, Distinct
    <3> QED BY <1>2, <3>1
  <2>2. \A i \in 1..Len(g.cq) : g.cq[i] \in 1..Len(g.node)
    <3> SUFFICES ASSUME NEW i \in 1..Len(g.cq)
                 PROVE  g.cq[i] \in 1..Len(g.node)
      OBVIOUS
    <3>1. /\ Len(g.cq) = Len(f.cq) + n
          /\ g.cq[i] = IF i <= Len(f.cq) THEN f.cq[i] ELSE f.aq[i - Len(f.cq)]
      BY DEF ClosedOldest
    <3>2. CASE i <= Len(f.cq)
      <4>1. i \in 1..Len(f.cq) /\ g.cq[i] = f.cq[i]
        BY <1>2, <3>1, <3>2
      <4> QED BY <1>1, <1>3, <4>1 DEF WFQueue
    <3>3. CASE ~(i <= Len(f.cq))
      <4>1. g.cq[i] = f.aq[i - Len(f.cq)]
        BY <3>1, <3>3
      <4>2. i \in 1..(Len(f.cq) + n) /\ n <= Len(f.aq)
        BY <3>1, <1>2
      <4>3. i - Len(f.cq) \in 1..Len(f.aq)
        BY <1>2, <3>3, <4>2
      <4> QED BY <1>1, <1>3, <4>1, <4>3 DEF WFQueue
    <3> QED BY <3>2, <3>3
  <2>3. f.count = Len(f.aq) + 0 /\ f.cq_count = Len(f.cq)
    BY <1>1 DEF WFQueue
  <2>4. g.count = f.count - n /\ g.cq_count = f.cq_count + n /\ Len(g.cq) = Len(f.cq) + n
    BY DEF ClosedOldest
  <2>5. g.count = Len(g.aq) + 0 /\ g.cq_count = Len(g.cq)
    BY <1>2, <1>3, <2>3, <2>4
  <2>6. \A i \in 1..Len(g.aq) : g.aq[i] # 0 /\ g.aq[i] \in 1..Len(g.node)
    BY <1>3, <1>4
  <2> QED BY <2>1, <2>2, <2>5, <2>6 DEF WFQueue
<1>6. WFTable(g, 0)
  <2>1. ASSUME NEW i \in 1..Len(g.aq)
        PROVE  g.table[g.node[g.aq[i]].key] = g.aq[i]
    <3> DEFINE k == f.node[g.aq[i]].key
    <3>1. g.node[g.aq[i]].key = k /\ k \in Keys /\ f.table[k] = g.aq[i]
      BY <1>3, <1>4
    <3>2. ASSUME NEW j \in 1..n, f.node[f.aq[j]].key = k
          PROVE  FALSE
      <4>0. j \in 1..Len(f.aq)
        BY <1>2
      <4>1. f.table[f.node[f.aq[j]].key] = f.aq[j]
        BY <1>1, <4>0, SMTT(40) DEF WFTable
      <4>2. f.aq[j] = f.aq[i + n] /\ i + n \in 1..Len(f.aq)
        BY <1>4, <3>1, <3>2, <4>1
      <4>3. j = i + n
        BY <1>1, <4>0, <4>2 DEF WFQueue, Distinct
      <4> QED BY <1>2, <4>3
    <3> QED BY <1>3, <3>1, <3>2
  <2>2. ASSUME NEW k \in Keys, g.table[k] # 0
        PROVE  /\ g.table[k] \in 1..Len(g.node)
               /\ Queued(g, 0, g.table[k])
               /\ g.node[g.table[k]].key = k
    <3>1. ~(\E j \in 1..n : f.node[f.aq[j]].key = k) /\ g.table[k] = f.table[k]
      BY <1>3, <2>2
    <3>2. /\ f.table[k] \in 1..Len(f.node) /\ Queued(f, 0, f.table[k])
          /\ f.node[f.table[k]].key = k /\ f.table[k] # 0
      BY <1>1, <2>2, <3>1 DEF WFTable
    <3>3. PICK i \in 1..Len(f.aq) : f.aq[i] = f.table[k]
      BY <3>2 DEF Queued, InQueue
    <3>4. i \notin 1..n
      BY <3>1, <3>2, <3>3
    <3>5. i - n \in 1..(Len(f.aq) - n) /\ (i - n) + n = i
      BY <1>2, <3>4
    <3>6. g.aq[i - n] = f.aq[(i - n) + n]
      BY <3>5 DEF ClosedOldest
    <3>7. InQueue(g.aq, f.table[k])
      BY <1>3, <3>3, <3>5, <3>6 DEF InQueue
    <3> QED BY <1>3, <3>1, <3>2, <3>7 DEF Queued
  <2> QED BY <2>1, <2>2, SMTT(40) DEF WFTable
<1>7. WFOrder(g, 0)
  <2>1. ASSUME NEW i \in 1..Len(g.aq), NEW j \in 1..Len(g.aq), i < j
        PROVE  g.node[g.aq[i]].etime <= g.node[g.aq[j]].etime
    <3>1. /\ i + n \in 1..Len(f.aq) /\ g.aq[i] = f.aq[i + n] /\ g.aq[i] \in 1..Len(f.node)
          /\ j + n \in 1..Len(f.aq) /\ g.aq[j] = f.aq[j + n] /\ g.aq[j] \in 1..Len(f.node)
          /\ f.aq[i + n] # 0 /\ f.aq[j + n] # 0
      BY <1>4
    <3>0. i + n < j + n
      BY <1>2, <1>3, <2>1
    <3>2. f.node[f.aq[i + n]].etime <= f.node[f.aq[j + n]].etime
      BY <1>1, <3>0, <3>1 DEF WFOrder
    <3> QED BY <1>3, <3>1, <3>2, ZenonT(60)
  <2>2. \A i \in 1..Len(g.node) : g.node[i].stime <= g.node[i].etime
                                  /\ g.node[i].etime <= g.ctime
    BY <1>1, <1>3 DEF WFOrder
  <2> QED BY <2>1, <2>2 DEF WFOrder
<1>8. WFBiflow(g)
  BY <1>1, <1>3, ReverseReverse DEF WFBiflow
<1> QED BY <1>3, <1>5, <1>6, <1>7, <1>8 DEF WellFormed

LEMMA LimitArithmetic ==
  ASSUME NEW len \in Nat, NEW m \in Nat, NEW r,
         r = IF m = 0 \/ len < m THEN 0
             ELSE IF len - m + 1 < len THEN len - m + 1 ELSE len
  PROVE  r \in 0..len /\ (m # 0 => len - r < m)
<1>1. CASE m = 0 \/ len < m
  <2>1. r = 0
    BY <1>1
  <2> QED BY <1>1, <2>1
<1>2. CASE ~(m = 0 \/ len < m) /\ len - m + 1 < len
  <2>1. r = len - m + 1
    BY <1>2
  <2> QED BY <1>2, <2>1
<1>3. CASE ~(m = 0 \/ len < m) /\ ~(len - m + 1 < len)
  <2>1. r = len
    BY <1>3
  <2> QED BY <1>3, <2>1
<1> QED BY <1>1, <1>2, <1>3

LEMMA IdleArithmetic ==
  ASSUME NEW t \in Nat, NEW a \in Nat, NEW b \in Nat, NEW limit \in Nat,
         a <= b, ~(t - a > limit)
  PROVE  t - b <= limit
OBVIOUS

(* The loop for max_flows closes flows that are there, and enough of them. *)
LEMMA LimitRunFacts ==
  ASSUME NEW f, WellFormed(f, 0, 0)
  PROVE  /\ LimitRun(f) \in 0..Len(f.aq)
         /\ max_flows # 0 => Len(f.aq) - LimitRun(f) < max_flows
<1>1. Len(f.aq) \in Nat
  BY DEF WellFormed, FlowTab
<1>2. f.count = Len(f.aq)
  BY <1>1 DEF WellFormed, WFQueue
<1>3. max_flows \in Nat
  BY ConfigAssumption
<1>4. LimitRun(f) = IF max_flows = 0 \/ Len(f.aq) < max_flows THEN 0
                    ELSE IF Len(f.aq) - max_flows + 1 < Len(f.aq)
                    THEN Len(f.aq) - max_flows + 1 ELSE Len(f.aq)
  BY <1>2 DEF LimitRun
<1> QED BY <1>1, <1>3, <1>4, LimitArithmetic

(* Closing the oldest flows leaves no flow open that was not.              *)
LEMMA CloseOldestKeeps ==
  ASSUME NEW f, WellFormed(f, 0, 0), NEW n \in 0..Len(f.aq), NEW reason \in Reasons,
         NEW g, g = CloseOldest(f, n, reason)
  PROVE  /\ WellFormed(g, 0, 0)
         /\ ClosedOldest(f, n, g)
<1>1. f \in FlowTab
  BY DEF WellFormed
<1>2. ClosedOldest(f, n, g)
  BY <1>1, CloseOldestFields
<1> QED BY <1>2, CloseOldestWF

(* The open flows of g are open flows of f, with the same last packets.    *)
FewerOpen(f, g) ==
  /\ g.ctime = f.ctime
  /\ g.stat_flush = f.stat_flush
  /\ Len(g.node) = Len(f.node)
  /\ Len(g.aq) <= Len(f.aq)
  /\ \A i \in 1..Len(g.aq) :
       \E j \in 1..Len(f.aq) :
         g.aq[i] = f.aq[j] /\ g.node[g.aq[i]].etime = f.node[f.aq[j]].etime

LEMMA CloseOldestFewer ==
  ASSUME NEW f, WellFormed(f, 0, 0), NEW n \in 0..Len(f.aq), NEW g,
         ClosedOldest(f, n, g)
  PROVE  FewerOpen(f, g)
<1>1. /\ Len(f.aq) \in Nat /\ n \in Nat
      /\ \A i \in 1..Len(f.aq) : f.aq[i] \in 1..Len(f.node)
  <2>1. f \in FlowTab /\ WFQueue(f, 0)
    BY DEF WellFormed
  <2>2. Len(f.aq) \in Nat /\ n \in Nat
    BY <2>1, TabFields
  <2> QED BY <2>1, <2>2 DEF WFQueue
<1>2. /\ Len(g.aq) = Len(f.aq) - n /\ g.ctime = f.ctime /\ g.stat_flush = f.stat_flush
      /\ Len(g.node) = Len(f.node)
  BY DEF ClosedOldest
<1>3. ASSUME NEW i \in 1..Len(g.aq)
      PROVE  \E j \in 1..Len(f.aq) :
               g.aq[i] = f.aq[j] /\ g.node[g.aq[i]].etime = f.node[f.aq[j]].etime
  <2>1. i + n \in 1..Len(f.aq) /\ i \in 1..(Len(f.aq) - n)
    BY <1>1, <1>2
  <2>2. g.aq[i] = f.aq[i + n]
    BY <2>1 DEF ClosedOldest
  <2>3. f.aq[i + n] \in 1..Len(f.node)
    BY <1>1, <2>1
  <2>4. g.node[f.aq[i + n]].etime = f.node[f.aq[i + n]].etime
    BY <2>3 DEF ClosedOldest
  <2> QED BY <2>1, <2>2, <2>4
<1>4. Len(g.aq) <= Len(f.aq)
  BY <1>1, <1>2
<1> QED BY <1>2, <1>3, <1>4 DEF FewerOpen

(* Every flow still open has had a packet within the idle timeout.         *)
NoneIdle(f) ==
  \A i \in 1..Len(f.aq) : f.ctime - f.node[f.aq[i]].etime <= idle_ms

LEMMA FewerNoneIdle ==
  ASSUME NEW f, NEW g, FewerOpen(f, g), NoneIdle(f)
  PROVE  NoneIdle(g)
BY DEF FewerOpen, NoneIdle

(* Because the queue is in order, the idle flows are those at its tail: a  *)
(* loop that stops at the first flow that is not idle has found them all.  *)
LEMMA IdleRunFindsAll ==
  ASSUME NEW f, WellFormed(f, 0, 0), NEW n \in 0..Len(f.aq), IdleRun(f, n),
         NEW g, ClosedOldest(f, n, g)
  PROVE  NoneIdle(g)
<1>1. /\ Len(f.aq) \in Nat /\ n \in Nat /\ f.ctime \in Nat /\ f.node \in Seq(Node)
      /\ \A i \in 1..Len(f.aq) : f.aq[i] \in 1..Len(f.node) /\ f.aq[i] # 0
  BY SMTT(30) DEF WellFormed, FlowTab, WFQueue
<1>2. Len(g.aq) = Len(f.aq) - n /\ g.ctime = f.ctime
  BY DEF ClosedOldest
<1> SUFFICES ASSUME NEW i \in 1..Len(g.aq)
             PROVE  g.ctime - g.node[g.aq[i]].etime <= idle_ms
  BY DEF NoneIdle
<1>3. i + n \in 1..Len(f.aq) /\ i \in 1..(Len(f.aq) - n) /\ n + 1 \in 1..Len(f.aq)
      /\ n < Len(f.aq) /\ (n + 1 = i + n \/ n + 1 < i + n)
  BY <1>1, <1>2
<1>4. g.aq[i] = f.aq[i + n]
  BY <1>3 DEF ClosedOldest
<1>5. /\ f.aq[i + n] \in 1..Len(f.node) /\ f.aq[i + n] # 0
      /\ f.aq[n + 1] \in 1..Len(f.node) /\ f.aq[n + 1] # 0
  BY <1>1, <1>3
<1>6. g.node[f.aq[i + n]].etime = f.node[f.aq[i + n]].etime
  BY <1>5 DEF ClosedOldest
<1>7. f.node[f.aq[i + n]].etime \in Nat /\ f.node[f.aq[n + 1]].etime \in Nat
  <2>1. f.node[f.aq[i + n]] \in Node /\ f.node[f.aq[n + 1]] \in Node
    BY <1>1, <1>5, SMTT(40)
  <2> QED BY <2>1, NodeFields
<1>8. f.node[f.aq[n + 1]].etime <= f.node[f.aq[i + n]].etime
  <2>1. CASE n + 1 < i + n
    BY <1>3, <1>5, <2>1 DEF WellFormed, WFOrder
  <2>2. CASE n + 1 = i + n
    BY <1>7, <2>2
  <2> QED BY <1>3, <2>1, <2>2
<1>9. ~(f.ctime - f.node[f.aq[n + 1]].etime > idle_ms)
  BY <1>3 DEF IdleRun
<1>10. idle_ms \in Nat
  BY ConfigAssumption
<1>11. g.ctime = f.ctime /\ g.node[g.aq[i]].etime = f.node[f.aq[i + n]].etime
  BY <1>2, <1>4, <1>6
<1>12. f.ctime - f.node[f.aq[i + n]].etime <= idle_ms
  BY <1>1, <1>7, <1>8, <1>9, <1>10, IdleArithmetic
<1> QED BY <1>11, <1>12

(* The table at the start of a flush.                                      *)
LEMMA FlushStartWF ==
  ASSUME NEW f, WellFormed(f, 0, 0),
         NEW g, g = [f EXCEPT !.flushtime = f.ctime, !.stat_flush = @ + 1]
  PROVE  /\ WellFormed(g, 0, 0)
         /\ g.node = f.node /\ g.aq = f.aq /\ g.ctime = f.ctime
<1>1. f \in FlowTab /\ WFQueue(f, 0) /\ WFTable(f, 0) /\ WFOrder(f, 0) /\ WFBiflow(f)
  BY DEF WellFormed
<1>2. /\ g.node = f.node /\ g.table = f.table /\ g.aq = f.aq /\ g.cq = f.cq
      /\ g.count = f.count /\ g.cq_count = f.cq_count /\ g.ctime = f.ctime
  BY <1>1 DEF FlowTab
<1>3. g \in FlowTab
  <2>1. f.stat_flush + 1 \in Nat /\ f.ctime \in Nat
    BY <1>1 DEF FlowTab
  <2> QED BY <1>1, <2>1 DEF FlowTab
<1>4. WFQueue(g, 0) /\ WFTable(g, 0) /\ WFBiflow(g)
  BY <1>1, <1>2 DEF WFQueue, WFTable, WFBiflow, Queued
<1>5. WFOrder(g, 0)
  BY <1>1, <1>2 DEF WFOrder
<1> QED BY <1>2, <1>3, <1>4, <1>5 DEF WellFormed

(* The loops of a flush: no idle flow stays open, and the limit holds.     *)
AfterFlush(f, g, close) ==
  /\ WellFormed(g, 0, 0)
  /\ g.ctime = f.ctime
  /\ Len(g.node) = Len(f.node)
  /\ NoneIdle(g)
  /\ max_flows # 0 => Len(g.aq) < max_flows
  /\ close => g.aq = <<>>

LEMMA FlushedFacts ==
  ASSUME NEW f, WellFormed(f, 0, 0), NEW idle \in 0..Len(f.aq), IdleRun(f, idle),
         NEW close \in BOOLEAN
  PROVE  AfterFlush(f, Flushed(f, idle, close), close)
<1> DEFINE s == [f EXCEPT !.flushtime = f.ctime, !.stat_flush = @ + 1]
           g == CloseOldest(s, idle, "IDLE")
           h == CloseOldest(g, LimitRun(g), "RESOURCE")
           e == CloseOldest(h, Len(h.aq), "FORCED")
<1>1. Flushed(f, idle, close) = IF close THEN e ELSE h
  BY DEF Flushed, CloseForFlush
<1>2. {"IDLE", "RESOURCE", "FORCED"} \subseteq Reasons
  BY DEF Reasons
<1>3. WellFormed(s, 0, 0) /\ s.node = f.node /\ s.aq = f.aq /\ s.ctime = f.ctime
  BY FlushStartWF
<1> HIDE DEF s
<1>4. idle \in 0..Len(s.aq) /\ IdleRun(s, idle)
  BY <1>3 DEF IdleRun
<1>5. WellFormed(g, 0, 0) /\ ClosedOldest(s, idle, g)
  BY <1>2, <1>3, <1>4, CloseOldestKeeps
<1> HIDE DEF g
<1>6. NoneIdle(g) /\ FewerOpen(s, g)
  BY <1>3, <1>4, <1>5, IdleRunFindsAll, CloseOldestFewer
<1>7. LimitRun(g) \in 0..Len(g.aq) /\ (max_flows # 0 => Len(g.aq) - LimitRun(g) < max_flows)
  BY <1>5, LimitRunFacts
<1>8. WellFormed(h, 0, 0) /\ ClosedOldest(g, LimitRun(g), h)
  BY <1>2, <1>5, <1>7, CloseOldestKeeps
<1> HIDE DEF h
<1>9. NoneIdle(h) /\ FewerOpen(g, h)
  BY <1>5, <1>6, <1>7, <1>8, CloseOldestFewer, FewerNoneIdle
<1>10. max_flows # 0 => Len(h.aq) < max_flows
  BY <1>7, <1>8 DEF ClosedOldest
<1>11. h.ctime = f.ctime /\ Len(h.node) = Len(f.node)
  BY <1>3, <1>6, <1>9 DEF FewerOpen
<1>12. Len(h.aq) \in 0..Len(h.aq) /\ Len(h.aq) \in Nat
  BY <1>8 DEF WellFormed, FlowTab
<1>13. WellFormed(e, 0, 0) /\ ClosedOldest(h, Len(h.aq), e)
  BY <1>2, <1>8, <1>12, CloseOldestKeeps
<1> HIDE DEF e
<1>14. NoneIdle(e) /\ FewerOpen(h, e)
  BY <1>8, <1>9, <1>12, <1>13, CloseOldestFewer, FewerNoneIdle
<1>15. max_flows # 0 => Len(e.aq) < max_flows
  <2>1. Len(e.aq) \in Nat /\ Len(e.aq) <= Len(h.aq) /\ max_flows \in Nat
    BY <1>13, <1>14, ConfigAssumption DEF FewerOpen, WellFormed, FlowTab
  <2> QED BY <1>10, <1>12, <2>1
<1>16. e.ctime = f.ctime /\ Len(e.node) = Len(f.node)
  BY <1>11, <1>14 DEF FewerOpen
<1>17. e.aq = <<>>
  <2>1. Len(e.aq) = 0 /\ e.aq \in Seq(Nat)
    BY <1>12, <1>13 DEF ClosedOldest, WellFormed, FlowTab
  <2> QED BY <2>1, EmptySeq
<1> QED BY <1>1, <1>8, <1>9, <1>10, <1>11, <1>13, <1>14, <1>15, <1>16, <1>17 DEF AfterFlush

LEMMA SumOfNats == \A a, b \in Nat : a + b \in Nat
OBVIOUS

RecordKinds == Direction \cup {"both"}

(* Taking written flows off the close queue touches nothing else.          *)
LEMMA DequeueFacts ==
  ASSUME NEW f, WellFormed(f, 0, 0), NEW n \in 0..Len(f.cq),
         NEW records \in SUBSET ((1..Len(f.node)) \X RecordKinds),
         NEW g, g = Dequeue(f, n, records)
  PROVE  /\ WellFormed(g, 0, 0)
         /\ g.node = f.node /\ g.aq = f.aq /\ g.ctime = f.ctime
         /\ n = Len(f.cq) => g.cq = <<>>
<1> DEFINE left == SubSeq(f.cq, n + 1, Len(f.cq))
           uni == {i \in 1..n : f.node[f.cq[i]].pkt["rval"] = {}}
           cc == f.cq_count - n
           sf == f.stat_flows + Cardinality(records)
           su == f.stat_uniflows + Cardinality(uni)
<1>1. g = [f EXCEPT !.cq = left, !.cq_count = cc, !.stat_flows = sf, !.stat_uniflows = su]
  BY DEF Dequeue
<1>2. f \in FlowTab /\ WFQueue(f, 0) /\ WFTable(f, 0) /\ WFOrder(f, 0) /\ WFBiflow(f)
  BY DEF WellFormed
<1>3. /\ f.cq \in Seq(Nat) /\ f.cq_count \in Int /\ f.stat_flows \in Nat
      /\ f.stat_uniflows \in Nat /\ Len(f.node) \in Nat /\ Len(f.cq) \in Nat /\ n \in Nat
  BY <1>2, TabFields
<1>4. Cardinality(records) \in Nat
  <2>1. IsFiniteSet(1..Len(f.node))
    <3>1. 1 \in Int /\ Len(f.node) \in Int
      BY <1>3
    <3> QED BY <3>1, FS_Interval
  <2>2. IsFiniteSet(RecordKinds)
    <3>1. RecordKinds = {"val", "rval", "both"}
      BY DEF RecordKinds, Direction
    <3>2. IsFiniteSet({}) /\ IsFiniteSet({} \cup {"val"})
      BY FS_EmptySet, FS_AddElement
    <3>3. IsFiniteSet(({} \cup {"val"}) \cup {"rval"})
      BY <3>2, FS_AddElement
    <3>4. IsFiniteSet((({} \cup {"val"}) \cup {"rval"}) \cup {"both"})
      BY <3>3, FS_AddElement
    <3>5. RecordKinds = (({} \cup {"val"}) \cup {"rval"}) \cup {"both"}
      BY <3>1
    <3> QED BY <3>4, <3>5
  <2>3. IsFiniteSet((1..Len(f.node)) \X RecordKinds)
    BY <2>1, <2>2, FS_Product
  <2> QED BY <2>3, FS_Subset, FS_CardinalityType
<1>5. Cardinality(uni) \in Nat
  <2>1. 1 \in Int /\ n \in Int
    BY <1>3
  <2>2. IsFiniteSet(1..n)
    BY <2>1, FS_Interval
  <2>3. uni \in SUBSET (1..n)
    OBVIOUS
  <2> QED BY <2>2, <2>3, FS_Subset, FS_CardinalityType
<1>6. /\ left \in Seq(Nat) /\ Len(left) = Len(f.cq) - n
      /\ \A i \in 1..(Len(f.cq) - n) : left[i] = f.cq[i + n]
  BY <1>3, SMTT(40)
<1>7. cc \in Int /\ sf \in Nat /\ su \in Nat
  <2>1. PICK a, b \in Nat : a = Cardinality(records) /\ b = Cardinality(uni)
    BY <1>4, <1>5
  <2>2. cc \in Int
    BY <1>3
  <2>3. sf = f.stat_flows + a /\ su = f.stat_uniflows + b
    BY <2>1
  <2> HIDE DEF uni, cc, sf, su
  <2>4. sf \in Nat /\ su \in Nat
    BY <1>3, <2>3, SumOfNats, Zenon
  <2> QED BY <2>2, <2>4
<1>8. cc = Len(left)
  BY <1>2, <1>3, <1>6 DEF WFQueue
<1> HIDE DEF left, uni, cc, sf, su
<1>9. g \in FlowTab
  BY <1>1, <1>2, <1>6, <1>7, ZenonT(60) DEF FlowTab
<1>10. /\ g.node = f.node /\ g.table = f.table /\ g.aq = f.aq /\ g.cq = left
       /\ g.count = f.count /\ g.cq_count = cc /\ g.ctime = f.ctime
  BY <1>1, <1>2 DEF FlowTab
<1>11. ASSUME NEW i \in 1..Len(g.cq)
       PROVE  g.cq[i] \in 1..Len(g.node)
  <2>1. i \in 1..(Len(f.cq) - n) /\ i + n \in 1..Len(f.cq)
    BY <1>3, <1>6, <1>10, SMTT(40)
  <2>2. f.cq[i + n] \in 1..Len(f.node)
    BY <1>2, <2>1 DEF WFQueue
  <2> QED BY <1>6, <1>10, <2>1, <2>2
<1>12. WFQueue(g, 0)
  BY <1>2, <1>8, <1>10, <1>11 DEF WFQueue
<1>13. WFTable(g, 0) /\ WFOrder(g, 0) /\ WFBiflow(g)
  BY <1>2, <1>10 DEF WFTable, WFOrder, WFBiflow, Queued
<1>14. n = Len(f.cq) => left = <<>>
  BY <1>3, <1>6
<1> QED BY <1>9, <1>10, <1>12, <1>13, <1>14 DEF WellFormed

LEMMA RecordsType ==
  ASSUME NEW f, NEW c \in 1..Len(f.node)
  PROVE  Records(f, c) \in SUBSET ((1..Len(f.node)) \X RecordKinds)
BY DEF Records, RecordKinds, Direction

(* What the writing part of a flush leaves of the table f of its loops.    *)
Wrote(f) ==
  /\ WellFormed(ft', 0, 0)
  /\ ft'.node = f.node /\ ft'.aq = f.aq /\ ft'.ctime = f.ctime
  /\ out' \subseteq (Nat \X RecordKinds)
  /\ lost' \subseteq Nat

LEMMA WriteAllFacts ==
  ASSUME NEW f, WellFormed(f, 0, 0), WriteAll(f), TypeOK
  PROVE  Wrote(f) /\ ft'.cq = <<>> /\ lost' = lost
<1> DEFINE records == UNION {Records(f, f.cq[i]) : i \in 1..Len(f.cq)}
<1>1. /\ Len(f.cq) \in Nat /\ Len(f.node) \in Nat
      /\ \A i \in 1..Len(f.cq) : f.cq[i] \in 1..Len(f.node)
  <2>1. f \in FlowTab /\ WFQueue(f, 0)
    BY DEF WellFormed
  <2>2. Len(f.cq) \in Nat /\ Len(f.node) \in Nat
    BY <2>1, TabFields
  <2> QED BY <2>1, <2>2 DEF WFQueue
<1>2. \A i \in 1..Len(f.cq) : Records(f, f.cq[i]) \in SUBSET ((1..Len(f.node)) \X RecordKinds)
  BY <1>1, RecordsType
<1>3. records \in SUBSET ((1..Len(f.node)) \X RecordKinds)
  BY <1>2
<1>4. ft' = Dequeue(f, Len(f.cq), records) /\ out' = out \cup records /\ lost' = lost
  BY DEF WriteAll
<1> HIDE DEF records
<1>5. Len(f.cq) \in 0..Len(f.cq)
  BY <1>1
<1>6. /\ WellFormed(ft', 0, 0) /\ ft'.node = f.node /\ ft'.aq = f.aq
      /\ ft'.ctime = f.ctime /\ ft'.cq = <<>>
  BY <1>3, <1>4, <1>5, DequeueFacts
<1>7. out' \subseteq (Nat \X RecordKinds)
  BY <1>1, <1>3, <1>4 DEF TypeOK, RecordKinds
<1>8. lost' \subseteq Nat
  BY <1>4 DEF TypeOK
<1> QED BY <1>4, <1>6, <1>7, <1>8 DEF Wrote

LEMMA WriteFailsFacts ==
  ASSUME NEW f, WellFormed(f, 0, 0), NEW n \in 0..(Len(f.cq) - 1), NEW half \in BOOLEAN,
         WriteFails(f, n, half), TypeOK
  PROVE  Wrote(f)
<1> DEFINE victim == f.cq[n + 1]
           written == UNION {Records(f, f.cq[i]) : i \in 1..n}
           part == IF half THEN {<<victim, "val">>} ELSE {}
           records == written \cup part
<1>1. /\ Len(f.cq) \in Nat /\ Len(f.node) \in Nat
      /\ \A i \in 1..Len(f.cq) : f.cq[i] \in 1..Len(f.node)
  <2>0. f \in FlowTab
    BY DEF WellFormed
  <2>1. Len(f.cq) \in Nat /\ Len(f.node) \in Nat
    BY <2>0, TabFields
  <2>2. \A i \in 1..Len(f.cq) : f.cq[i] \in 1..Len(f.node)
    BY DEF WellFormed, WFQueue
  <2> QED BY <2>1, <2>2
<1>2. n + 1 \in 1..Len(f.cq) /\ n + 1 \in 0..Len(f.cq) /\ 1..n \subseteq 1..Len(f.cq)
  BY <1>1
<1>3. victim \in 1..Len(f.node)
  BY <1>1, <1>2
<1>4. \A i \in 1..n : Records(f, f.cq[i]) \in SUBSET ((1..Len(f.node)) \X RecordKinds)
  BY <1>1, <1>2, RecordsType
<1>5. ft' = Dequeue(f, n + 1, records) /\ out' = out \cup records /\ lost' = lost \cup {victim}
  BY DEF WriteFails
<1>6. part \in SUBSET ((1..Len(f.node)) \X RecordKinds)
  <2> HIDE DEF victim
  <2> QED BY <1>3 DEF RecordKinds, Direction
<1>7. written \in SUBSET ((1..Len(f.node)) \X RecordKinds)
  BY <1>4
<1> HIDE DEF victim, written, part
<1>8. records \in SUBSET ((1..Len(f.node)) \X RecordKinds)
  BY <1>6, <1>7
<1> HIDE DEF records
<1>9. WellFormed(ft', 0, 0) /\ ft'.node = f.node /\ ft'.aq = f.aq /\ ft'.ctime = f.ctime
  BY <1>2, <1>5, <1>8, DequeueFacts
<1>10. out' \subseteq (Nat \X RecordKinds)
  BY <1>1, <1>5, <1>8 DEF TypeOK, RecordKinds
<1>11. lost' \subseteq Nat
  BY <1>1, <1>3, <1>5 DEF TypeOK
<1> QED BY <1>9, <1>10, <1>11 DEF Wrote

----------------------------------------------------------------------------
(* The inductive invariant: between two calls no node is pending or busy.  *)
IInv == TypeOK /\ WellFormed(ft, 0, 0)

LEMMA InitIInv == Init => IInv
<1> SUFFICES ASSUME Init
             PROVE  IInv
  OBVIOUS
<1>1. /\ ft = yfFlowTabAlloc /\ log = <<>> /\ out = {} /\ lost = {} /\ phase = "open"
  BY DEF Init
<1>2. /\ ft.node = <<>> /\ ft.table = [k \in Keys |-> 0] /\ ft.aq = <<>> /\ ft.cq = <<>>
      /\ ft.count = 0 /\ ft.cq_count = 0
  BY <1>1 DEF yfFlowTabAlloc
<1>3. ft \in FlowTab
  <2>1. [k \in Keys |-> 0] \in [Keys -> Nat]
    OBVIOUS
  <2>2. <<>> \in Seq(Node) /\ <<>> \in Seq(Nat)
    OBVIOUS
  <2> QED BY <1>1, <2>1, <2>2 DEF yfFlowTabAlloc, FlowTab
<1>4. WFQueue(ft, 0) /\ WFTable(ft, 0) /\ WFOrder(ft, 0) /\ WFBiflow(ft)
  <2>1. Len(ft.node) = 0 /\ Len(ft.aq) = 0 /\ Len(ft.cq) = 0
    BY <1>2
  <2>2. \A k \in Keys : ft.table[k] = 0
    BY <1>2
  <2>3. 1..0 = {}
    OBVIOUS
  <2>4. WFQueue(ft, 0)
    BY <1>2, <2>1, <2>3 DEF WFQueue, Distinct
  <2>5. WFTable(ft, 0)
    BY <2>1, <2>2, <2>3 DEF WFTable
  <2>6. WFOrder(ft, 0)
    BY <2>1, <2>3 DEF WFOrder
  <2>7. WFBiflow(ft)
    BY <2>2 DEF WFBiflow
  <2> QED BY <2>4, <2>5, <2>6, <2>7
<1>5. TypeOK
  BY <1>1, <1>3 DEF TypeOK
<1> QED BY <1>3, <1>4, <1>5 DEF IInv, WellFormed

LEMMA PBufIInv ==
  ASSUME IInv, NEW p \in Packet, PBuf(p)
  PROVE  IInv'
<1>1. /\ ft' = yfFlowPBuf(ft, p)
      /\ log' = IF p.ptime < ft.ctime THEN log ELSE Append(log, p)
      /\ out' = out /\ lost' = lost /\ phase' = phase
  BY DEF PBuf
<1>2. WellFormed(ft', 0, 0)
  BY <1>1, PBufWF DEF IInv
<1>3. log' \in Seq(Packet)
  BY <1>1 DEF IInv, TypeOK
<1>4. TypeOK'
  BY <1>1, <1>2, <1>3 DEF IInv, TypeOK, WellFormed
<1> QED BY <1>2, <1>4 DEF IInv

(* What is true after a flush, whether or not its writes succeed.          *)
FlushResult(close) ==
  /\ IInv' /\ log' = log
  /\ ft'.ctime = ft.ctime
  /\ NoneIdle(ft')
  /\ max_flows # 0 => Len(ft'.aq) < max_flows
  /\ phase' # "failed" => ft'.cq = <<>> /\ lost' = lost
  /\ close => ft'.aq = <<>>

LEMMA WriteResult ==
  ASSUME IInv, NEW close \in BOOLEAN, NEW idle \in 0..Len(ft.aq), IdleRun(ft, idle),
         NEW f, f = Flushed(ft, idle, close), NEW ph \in {"open", "closed"},
         \/ WriteAll(f) /\ phase' = ph
         \/ \E n \in 0..(Len(f.cq) - 1), half \in BOOLEAN :
              WriteFails(f, n, half) /\ phase' = "failed",
         log' = log
  PROVE  FlushResult(close)
<1>1. AfterFlush(ft, f, close)
  BY FlushedFacts DEF IInv
<1>2. WellFormed(f, 0, 0)
  BY <1>1 DEF AfterFlush
<1>3. /\ Wrote(f) /\ (phase' # "failed" => ft'.cq = <<>> /\ lost' = lost)
      /\ phase' \in {"open", "closed", "failed"}
  <2>1. CASE WriteAll(f) /\ phase' = ph
    BY <1>2, <2>1, WriteAllFacts DEF IInv
  <2>2. CASE \E n \in 0..(Len(f.cq) - 1), half \in BOOLEAN :
               WriteFails(f, n, half) /\ phase' = "failed"
    BY <1>2, <2>2, WriteFailsFacts DEF IInv
  <2> QED BY <2>1, <2>2
<1>4. TypeOK'
  BY <1>3 DEF IInv, TypeOK, Wrote, WellFormed, RecordKinds
<1>5. NoneIdle(ft')
  BY <1>1, <1>3 DEF AfterFlush, Wrote, NoneIdle
<1> QED BY <1>1, <1>3, <1>4, <1>5 DEF AfterFlush, Wrote, FlushResult, IInv

LEMMA FlushIInv ==
  ASSUME IInv, Flush
  PROVE  FlushResult(FALSE) /\ phase' \in {"open", "failed"}
<1>1. PICK idle \in 0..Len(ft.aq) :
        /\ IdleRun(ft, idle)
        /\ LET f == Flushed(ft, idle, FALSE)
           IN  \/ WriteAll(f) /\ phase' = phase
               \/ \E n \in 0..(Len(f.cq) - 1), half \in BOOLEAN :
                    WriteFails(f, n, half) /\ phase' = "failed"
  BY DEF Flush
<1>2. phase = "open" /\ log' = log
  BY DEF Flush
<1> QED BY <1>1, <1>2, WriteResult

LEMMA FinalFlushIInv ==
  ASSUME IInv, FinalFlush
  PROVE  FlushResult(TRUE) /\ phase' \in {"closed", "failed"}
<1>1. PICK idle \in 0..Len(ft.aq) :
        /\ IdleRun(ft, idle)
        /\ LET f == Flushed(ft, idle, TRUE)
           IN  \/ WriteAll(f) /\ phase' = "closed"
               \/ \E n \in 0..(Len(f.cq) - 1), half \in BOOLEAN :
                    WriteFails(f, n, half) /\ phase' = "failed"
  BY DEF FinalFlush
<1>2. log' = log
  BY DEF FinalFlush
<1> QED BY <1>1, <1>2, WriteResult

LEMMA Inductive == IInv /\ [Next]_vars => IInv'
<1> SUFFICES ASSUME IInv, [Next]_vars
             PROVE  IInv'
  OBVIOUS
<1>1. CASE \E p \in Packet : PBuf(p)
  BY <1>1, PBufIInv
<1>2. CASE Flush
  BY <1>2, FlushIInv DEF FlushResult
<1>3. CASE FinalFlush
  BY <1>3, FinalFlushIInv DEF FlushResult
<1>4. CASE UNCHANGED vars
  BY <1>4 DEF vars, IInv, TypeOK
<1> QED BY <1>1, <1>2, <1>3, <1>4 DEF Next

LEMMA Invariant == Spec => []IInv
BY InitIInv, Inductive, PTL DEF Spec

(* A packet does not count as a flush.                                     *)
HasFlush(f, c) == "stat_flush" \in DOMAIN f /\ f.stat_flush = c

LEMMA GetHasFlush ==
  ASSUME NEW f, NEW c, HasFlush(f, c), NEW key, NEW cont_fid
  PROVE  HasFlush(yfFlowGetNode(f, key, cont_fid), c)
BY DEF HasFlush, yfFlowGetNode

LEMMA CloseHasFlush ==
  ASSUME NEW f, NEW c, HasFlush(f, c), NEW n, NEW reason
  PROVE  HasFlush(yfFlowClose(f, n, reason), c)
BY DEF HasFlush, yfFlowClose

LEMMA PBufHasFlush ==
  ASSUME NEW f, NEW c, HasFlush(f, c), NEW p
  PROVE  HasFlush(yfFlowPBuf(f, p), c)
<1> DEFINE timed   == [f EXCEPT !.ctime = p.ptime, !.stat_packets = @ + 1]
           found   == yfFlowGetNode(timed, p.key, 0)
           active  == SplitActive(found, p)
           split   == SplitIdle(active, p)
           n       == Lookup(split, p.key)
           counted == [split EXCEPT !.node[n] =
                         CountPacket(@, Dir(split, p.key), p, split.stat_packets)]
           closed  == yfFlowClose(counted, n, "CLOSED")
           ticked  == yfFlowTick(counted, n)
<1>1. HasFlush([f EXCEPT !.stat_seqrej = @ + 1], c) /\ HasFlush(timed, c)
  BY DEF HasFlush
<1>2. HasFlush(found, c)
  BY <1>1, GetHasFlush
<1> HIDE DEF found
<1>3. HasFlush(active, c)
  <2> DEFINE m == Lookup(found, p.key)
             g == yfFlowGetNode(yfFlowClose(found, m, "ACTIVE"), p.key, found.node[m].fid)
  <2>1. HasFlush(g, c)
    BY <1>2, CloseHasFlush, GetHasFlush
  <2>2. active = IF ~ActiveExpired(found, p) THEN found
                 ELSE [g EXCEPT !.node[Lookup(g, p.key)].iscont = silkmode]
    BY DEF SplitActive
  <2> HIDE DEF g
  <2> QED BY <1>2, <2>1, <2>2 DEF HasFlush
<1> HIDE DEF active
<1>4. HasFlush(split, c)
  BY <1>3, CloseHasFlush, GetHasFlush DEF SplitIdle
<1> HIDE DEF split
<1>5. HasFlush(counted, c)
  BY <1>4 DEF HasFlush
<1> HIDE DEF n, counted
<1>6. HasFlush(closed, c) /\ HasFlush(ticked, c)
  BY <1>5, CloseHasFlush DEF yfFlowTick, HasFlush
<1>7. yfFlowPBuf(f, p) = IF p.ptime < f.ctime THEN [f EXCEPT !.stat_seqrej = @ + 1]
                         ELSE IF Finished(counted.node[n]) THEN closed ELSE ticked
  BY DEF yfFlowPBuf, split, found, active, counted, n
<1> QED BY <1>1, <1>6, <1>7

----------------------------------------------------------------------------
(* For every set of keys and every configuration the fields of the flow    *)
(* table keep their types (yfFlowTabAlloc, yfFlowPBuf, yfFlowTabFlush).    *)
THEOREM TypeCorrect == Spec => []TypeOK
<1>1. IInv => TypeOK
  BY DEF IInv
<1> QED BY <1>1, Invariant, PTL

(* The hash table, the active queue and the counters always describe the   *)
(* same flows (yfFlowGetNode, yfFlowTick, yfFlowClose).                    *)
THEOREM TableAlwaysMatches == Spec => []TableMatchesQueues
<1>1. IInv => TableMatchesQueues
  <2> SUFFICES ASSUME IInv
               PROVE  TableMatchesQueues
    OBVIOUS
  <2>1. WFQueue(ft, 0) /\ WFTable(ft, 0) /\ ft \in FlowTab
    BY DEF IInv, WellFormed
  <2>2. ft.count = Len(ft.aq) /\ ft.cq_count = Len(ft.cq)
    <3>1. Len(ft.aq) \in Nat
      BY <2>1 DEF FlowTab
    <3> QED BY <2>1, <3>1 DEF WFQueue
  <2>3. \A i, j \in 1..Len(ft.aq) : ft.aq[i] = ft.aq[j] => i = j
    BY <2>1 DEF WFQueue, Distinct
  <2>4. \A i \in 1..Len(ft.aq) :
          ft.aq[i] \in Nodes /\ ft.table[ft.node[ft.aq[i]].key] = ft.aq[i]
    BY <2>1 DEF WFQueue, WFTable, Nodes
  <2>5. ASSUME NEW k \in Keys, ft.table[k] # 0
        PROVE  InAq(ft.table[k]) /\ ft.node[ft.table[k]].key = k
    BY <2>1, <2>5 DEF WFTable, Queued, InAq
  <2> QED BY <2>2, <2>3, <2>4, <2>5 DEF TableMatchesQueues
<1> QED BY <1>1, Invariant, PTL

(* The active queue is always in the order of the flows' last packets      *)
(* (yfFlowTick; yfFlowTabVerifyIdleOrder is the code's own test of it).    *)
THEOREM IdleOrderHolds == Spec => []IdleOrder
<1>1. IInv => IdleOrder
  <2> SUFFICES ASSUME IInv
               PROVE  IdleOrder
    OBVIOUS
  <2>1. WFQueue(ft, 0) /\ WFOrder(ft, 0)
    BY DEF IInv, WellFormed
  <2>2. \A i \in 1..Len(ft.aq) : ft.aq[i] # 0 /\ ft.aq[i] \in 1..Len(ft.node)
    BY <2>1 DEF WFQueue
  <2> QED BY <2>1, <2>2 DEF WFOrder, IdleOrder
<1> QED BY <1>1, Invariant, PTL

(* A conversation is never two open flows (yfFlowGetNode's two lookups).   *)
THEOREM OneFlowHolds == Spec => []OneFlowPerConversation
<1>1. IInv => OneFlowPerConversation
  BY DEF IInv, WellFormed, WFBiflow, OneFlowPerConversation
<1> QED BY <1>1, Invariant, PTL

(* A flush closes every idle flow although it only looks at the tail of    *)
(* the queue, brings the table below max_flows and leaves nothing closed   *)
(* unwritten (yfFlowTabFlush).                                             *)
THEOREM FlushClosesAllIdle == Spec => FlushLeavesNoIdle
<1> DEFINE Step == ft'.stat_flush # ft.stat_flush =>
       /\ \A n \in Nodes :
            InQueue(ft'.aq, n) => ft'.ctime - ft'.node[n].etime <= idle_ms
       /\ max_flows # 0 => Len(ft'.aq) < max_flows
       /\ phase' # "failed" => ft'.cq = <<>>
<1>1. IInv /\ [Next]_vars => [Step]_vars
  <2> SUFFICES ASSUME IInv, [Next]_vars
               PROVE  Step
    OBVIOUS
  <2>1. CASE \E p \in Packet : PBuf(p)
    <3>1. PICK p \in Packet : ft' = yfFlowPBuf(ft, p)
      BY <2>1 DEF PBuf
    <3>2. HasFlush(ft, ft.stat_flush)
      BY DEF IInv, TypeOK, FlowTab, HasFlush
    <3>3. ft'.stat_flush = ft.stat_flush
      BY <3>1, <3>2, PBufHasFlush DEF HasFlush
    <3> QED BY <3>3
  <2>2. CASE FlushResult(FALSE) \/ FlushResult(TRUE)
    <3>1. NoneIdle(ft')
      BY <2>2 DEF FlushResult
    <3>2. \A n : InQueue(ft'.aq, n) => ft'.ctime - ft'.node[n].etime <= idle_ms
      BY <3>1 DEF NoneIdle, InQueue
    <3> QED BY <2>2, <3>2 DEF FlushResult
  <2>3. CASE UNCHANGED vars
    BY <2>3 DEF vars
  <2> QED BY <2>1, <2>2, <2>3, FlushIInv, FinalFlushIInv DEF Next
<1> QED BY <1>1, Invariant, PTL DEF Spec, FlushLeavesNoIdle

=============================================================================
