------------------------- MODULE FlowHistoryProofs -------------------------
(***************************************************************************)
(* What the flow table makes of the packets it is given, from the first    *)
(* one to the output: proofs that relate the table to the history of the   *)
(* accepted packets, for every set of keys and every configuration.        *)
(***************************************************************************)
EXTENDS FlowTableProofs

(***************************************************************************)
(* What one packet does to the nodes                                       *)
(***************************************************************************)
(* The counters of the table that closing and making nodes leave alone.    *)
SameCounters(f, g) ==
  /\ g.stat_packets = f.stat_packets
  /\ g.stat_flows = f.stat_flows
  /\ g.ctime = f.ctime

(* g is f with node n changed to nd, and all others as they were.          *)
NodeIs(f, g, n, nd) ==
  /\ Len(g.node) = Len(f.node)
  /\ g.node[n] = nd
  /\ \A k \in 1..Len(f.node) : k # n => g.node[k] = f.node[k]

(* A node that is closed for a reason.                                     *)
WithReason(nd, reason) == [nd EXCEPT !.reason = reason]

LEMMA CloseEffect ==
  ASSUME NEW f \in FlowTab, Distinct(f.aq), NEW n \in 1..Len(f.node),
         NEW reason \in Reasons, NEW g, g = yfFlowClose(f, n, reason)
  PROVE  /\ SameCounters(f, g) /\ g.next_fid = f.next_fid
         /\ NodeIs(f, g, n, WithReason(f.node[n], reason))
         /\ \A k \in Nat : InQueue(g.aq, k) <=> InQueue(f.aq, k) /\ k # n
         /\ g.cq = Append(f.cq, n)
<1>1. /\ g.node = [f.node EXCEPT ![n].reason = reason]
      /\ g.aq = piqPick(f.aq, n) /\ g.cq = Append(f.cq, n)
      /\ SameCounters(f, g) /\ g.next_fid = f.next_fid
  BY DEF yfFlowClose, FlowTab, piqEnQ, SameCounters
<1>2. f.node \in Seq(Node) /\ f.aq \in Seq(Nat) /\ n \in Nat
  BY TabFields
<1>3. NodeIs(f, g, n, WithReason(f.node[n], reason))
  BY <1>1, <1>2 DEF NodeIs, WithReason
<1>4. PickedFrom(f.aq, n, g.aq)
  BY <1>1, <1>2, PickFacts
<1>5. \A k \in Nat : InQueue(g.aq, k) <=> InQueue(f.aq, k) /\ k # n
  BY <1>4 DEF PickedFrom
<1> QED BY <1>1, <1>3, <1>5

LEMMA GetEffect ==
  ASSUME NEW f \in FlowTab, NEW key \in Keys, NEW cont_fid \in Nat,
         Lookup(f, key) = 0, NEW g, g = yfFlowGetNode(f, key, cont_fid)
  PROVE  /\ g \in FlowTab
         /\ SameCounters(f, g) /\ g.aq = f.aq /\ g.cq = f.cq
         /\ g.next_fid = IF cont_fid # 0 THEN f.next_fid ELSE f.next_fid + 1
         /\ Len(g.node) = Len(f.node) + 1
         /\ g.node[Len(f.node) + 1] = NewNode(f, key, cont_fid)
         /\ \A k \in 1..Len(f.node) : g.node[k] = f.node[k]
         /\ g.table[key] = Len(f.node) + 1
         /\ Lookup(g, key) = Len(f.node) + 1 /\ Dir(g, key) = "val"
<1> DEFINE nd == NewNode(f, key, cont_fid)
<1>1. MadeFrom(f, key, nd, g)
  BY GetFields
<1> HIDE DEF nd
<1>2. /\ g \in FlowTab /\ g.aq = f.aq /\ g.cq = f.cq /\ g.node = Append(f.node, nd)
      /\ nd \in Node /\ g.table = [f.table EXCEPT ![key] = Len(f.node) + 1]
  BY <1>1 DEF MadeFrom
<1>3. f.node \in Seq(Node) /\ f.table \in [Keys -> Nat]
  BY TabFields
<1>4. /\ Len(g.node) = Len(f.node) + 1 /\ g.node[Len(f.node) + 1] = nd
      /\ \A k \in 1..Len(f.node) : g.node[k] = f.node[k]
  BY <1>2, <1>3, SMTT(40)
<1>5. g.table[key] = Len(f.node) + 1 /\ Len(f.node) + 1 # 0
  BY <1>2, <1>3
<1>6. SameCounters(f, g) /\ g.next_fid = IF cont_fid # 0 THEN f.next_fid ELSE f.next_fid + 1
  BY DEF yfFlowGetNode, FlowTab, SameCounters
<1> QED BY <1>2, <1>4, <1>5, <1>6 DEF Lookup, Dir, nd

LEMMA TickEffect ==
  ASSUME NEW f \in FlowTab, Distinct(f.aq), NEW n \in 1..Len(f.node),
         NEW g, g = yfFlowTick(f, n)
  PROVE  /\ SameCounters(f, g) /\ g.next_fid = f.next_fid
         /\ g.node = f.node /\ g.cq = f.cq
         /\ \A k \in Nat : InQueue(g.aq, k) <=> InQueue(f.aq, k) \/ k = n
<1>1. f.aq \in Seq(Nat) /\ n \in Nat
  BY TabFields
<1>2. CASE f.aq # <<>> /\ f.aq[Len(f.aq)] = n
  <2>1. g = f /\ InQueue(f.aq, n)
    BY <1>1, <1>2 DEF yfFlowTick, InQueue
  <2> QED BY <2>1 DEF SameCounters
<1>3. CASE ~(f.aq # <<>> /\ f.aq[Len(f.aq)] = n)
  <2> DEFINE r == piqPick(f.aq, n)
  <2>1. g = [f EXCEPT !.aq = Append(r, n)]
    BY <1>3 DEF yfFlowTick, piqEnQ
  <2>2. PickedFrom(f.aq, n, r)
    BY <1>1, PickFacts
  <2> HIDE DEF r
  <2>3. r \in Seq(Nat) /\ \A k \in Nat : k # n => (InQueue(f.aq, k) <=> InQueue(r, k))
    BY <2>2 DEF PickedFrom
  <2>4. g.aq = Append(r, n) /\ g.node = f.node /\ g.cq = f.cq /\ g.next_fid = f.next_fid
        /\ SameCounters(f, g)
    BY <2>1 DEF FlowTab, SameCounters
  <2>5. /\ Len(g.aq) = Len(r) + 1 /\ Len(r) \in Nat /\ g.aq[Len(r) + 1] = n
        /\ \A i \in 1..Len(r) : g.aq[i] = r[i]
    BY <1>1, <2>3, <2>4
  <2>6. \A k \in Nat : InQueue(g.aq, k) <=> InQueue(r, k) \/ k = n
    <3> SUFFICES ASSUME NEW k \in Nat
                 PROVE  InQueue(g.aq, k) <=> InQueue(r, k) \/ k = n
      OBVIOUS
    <3>1. ASSUME NEW i \in 1..Len(g.aq), g.aq[i] = k
          PROVE  InQueue(r, k) \/ k = n
      <4>1. i \in 1..Len(r) \/ i = Len(r) + 1
        BY <2>5
      <4> QED BY <2>5, <3>1, <4>1 DEF InQueue
    <3>2. ASSUME NEW i \in 1..Len(r), r[i] = k
          PROVE  InQueue(g.aq, k)
      BY <2>5, <3>2 DEF InQueue
    <3>3. InQueue(g.aq, n)
      BY <2>5 DEF InQueue
    <3> QED BY <3>1, <3>2, <3>3 DEF InQueue
  <2> QED BY <2>3, <2>4, <2>6
<1> QED BY <1>2, <1>3

(* A node that a packet finished is closed.                                *)
Settled(nd) == IF Finished(nd) THEN WithReason(nd, "CLOSED") ELSE nd

(* The end of yfFlowPBuf: node n, as it was counted, is closed or ticked.  *)
Landed(f, g, n, nd) ==
  /\ SameCounters(f, g) /\ g.next_fid = f.next_fid
  /\ NodeIs(f, g, n, Settled(nd))
  /\ \A k \in Nat : InQueue(g.aq, k) <=>
       IF k = n THEN ~Finished(nd) ELSE InQueue(f.aq, k)
  /\ g.cq = IF Finished(nd) THEN Append(f.cq, n) ELSE f.cq

LEMMA LandedEffect ==
  ASSUME NEW f, NEW c \in FlowTab, Distinct(c.aq), NEW n \in 1..Len(c.node), NEW nd,
         NodeIs(f, c, n, nd), c.aq = f.aq, c.cq = f.cq,
         SameCounters(f, c), c.next_fid = f.next_fid,
         NEW g, g = IF Finished(nd) THEN yfFlowClose(c, n, "CLOSED") ELSE yfFlowTick(c, n)
  PROVE  Landed(f, g, n, nd)
<1>1. c.node[n] = nd /\ Len(c.node) = Len(f.node) /\ n \in Nat
  BY TabFields DEF NodeIs
<1>2. CASE Finished(nd)
  <2>1. PICK r \in Reasons : r = "CLOSED" /\ g = yfFlowClose(c, n, r)
    BY <1>2 DEF Reasons
  <2>2. /\ SameCounters(c, g) /\ g.next_fid = c.next_fid
        /\ NodeIs(c, g, n, WithReason(c.node[n], r))
        /\ \A k \in Nat : InQueue(g.aq, k) <=> InQueue(c.aq, k) /\ k # n
        /\ g.cq = Append(c.cq, n)
    BY <2>1, CloseEffect
  <2>3. NodeIs(f, g, n, Settled(nd))
    BY <1>1, <1>2, <2>1, <2>2 DEF NodeIs, Settled
  <2>4. SameCounters(f, g) /\ g.next_fid = f.next_fid
    BY <2>2 DEF SameCounters
  <2> QED BY <1>2, <2>2, <2>3, <2>4 DEF Landed
<1>3. CASE ~Finished(nd)
  <2>1. g = yfFlowTick(c, n)
    BY <1>3
  <2>2. /\ SameCounters(c, g) /\ g.next_fid = c.next_fid
        /\ g.node = c.node /\ g.cq = c.cq
        /\ \A k \in Nat : InQueue(g.aq, k) <=> InQueue(c.aq, k) \/ k = n
    BY <2>1, TickEffect
  <2>3. NodeIs(f, g, n, Settled(nd))
    BY <1>3, <2>2 DEF NodeIs, Settled
  <2>4. SameCounters(f, g) /\ g.next_fid = f.next_fid
    BY <2>2 DEF SameCounters
  <2> QED BY <1>3, <2>2, <2>3, <2>4 DEF Landed
<1> QED BY <1>2, <1>3

(* A node before its first packet is counted.                              *)
FirstNode(p, fid, cont) ==
  [key |-> p.key, fid |-> fid, stime |-> p.ptime, etime |-> p.ptime, rdtime |-> 0,
   reason |-> "none", iscont |-> cont, state |-> {},
   pkt |-> [d \in Direction |-> {}], oct |-> [d \in Direction |-> 0]]

Made(p, fid) == FirstNode(p, fid, FALSE)
Continued(p, fid, r) == FirstNode(p, fid, silkmode /\ r = "ACTIVE")

(* e is the table t with a new node nd for the packet p, after node m, if  *)
(* it is not 0, was closed for reason r.                                   *)
Grown(t, e, p, m, r, nd) ==
  /\ SameCounters(t, e)
  /\ Len(e.node) = Len(t.node) + 1 /\ e.node[Len(t.node) + 1] = nd
  /\ \A k \in 1..Len(t.node) :
       e.node[k] = IF k = m THEN WithReason(t.node[k], r) ELSE t.node[k]
  /\ \A k \in Nat : InQueue(e.aq, k) <=> InQueue(t.aq, k) /\ k # m
  /\ e.cq = IF m = 0 THEN t.cq ELSE Append(t.cq, m)
  /\ Lookup(e, p.key) = Len(t.node) + 1 /\ Dir(e, p.key) = "val"

LEMMA NewGrown ==
  ASSUME NEW t, WellFormed(t, 0, 0), NEW p \in Packet, t.ctime = p.ptime,
         Lookup(t, p.key) = 0, NEW e, e = yfFlowGetNode(t, p.key, 0), NEW r
  PROVE  /\ Grown(t, e, p, 0, r, Made(p, t.next_fid))
         /\ e.next_fid = t.next_fid + 1
<1>1. t \in FlowTab /\ p.key \in Keys /\ 0 \in Nat
  BY DEF WellFormed, Packet
<1>2. /\ SameCounters(t, e) /\ e.aq = t.aq /\ e.cq = t.cq
      /\ e.next_fid = t.next_fid + 1
      /\ Len(e.node) = Len(t.node) + 1
      /\ e.node[Len(t.node) + 1] = NewNode(t, p.key, 0)
      /\ \A k \in 1..Len(t.node) : e.node[k] = t.node[k]
      /\ Lookup(e, p.key) = Len(t.node) + 1 /\ Dir(e, p.key) = "val"
  BY <1>1, GetEffect
<1>3. NewNode(t, p.key, 0) = Made(p, t.next_fid)
  BY DEF NewNode, Made, FirstNode, FlowId
<1>4. \A k \in Nat : InQueue(t.aq, k) => k # 0
  BY DEF WellFormed, WFQueue, InQueue
<1>5. \A k \in 1..Len(t.node) : k # 0
  OBVIOUS
<1> QED BY <1>2, <1>3, <1>4, <1>5 DEF Grown

LEMMA CutGrown ==
  ASSUME NEW t, WellFormed(t, 0, 0), NEW p \in Packet, t.ctime = p.ptime,
         NEW m, m = Lookup(t, p.key), m # 0, t.node[m].fid # 0,
         NEW r \in Reasons, NEW nd, nd = Made(p, t.node[m].fid),
         NEW e, e = yfFlowGetNode(yfFlowClose(t, m, r), p.key, t.node[m].fid)
  PROVE  /\ Grown(t, e, p, m, r, nd)
         /\ e.next_fid = t.next_fid
<1>1. /\ t \in FlowTab /\ p.key \in Keys /\ Distinct(t.aq) /\ WFTable(t, 0)
      /\ yfFlowKeyReverse(p.key) \in Keys
      /\ yfFlowKeyReverse(yfFlowKeyReverse(p.key)) = p.key
  BY ReverseReverse DEF WellFormed, WFQueue, Packet
<1>2. PICK k \in {p.key, yfFlowKeyReverse(p.key)} : m = t.table[k]
  BY DEF Lookup
<1>3. /\ m \in 1..Len(t.node) /\ Queued(t, 0, m) /\ t.node[m].key = k
  BY <1>1, <1>2 DEF WFTable
<1>4. t.node[m].fid \in Nat
  <2>1. t.node[m] \in Node
    BY <1>1, <1>3, TabFields
  <2> QED BY <2>1, NodeFields
<1> DEFINE c == yfFlowClose(t, m, r)
<1>5. /\ WellFormed(c, 0, 0) /\ c.table[t.node[m].key] = 0
      /\ c.table[yfFlowKeyReverse(t.node[m].key)] = 0
  BY <1>3, CloseWF
<1>6. /\ SameCounters(t, c) /\ c.next_fid = t.next_fid
      /\ NodeIs(t, c, m, WithReason(t.node[m], r))
      /\ \A j \in Nat : InQueue(c.aq, j) <=> InQueue(t.aq, j) /\ j # m
      /\ c.cq = Append(t.cq, m)
  <2> HIDE DEF c
  <2>1. c = yfFlowClose(t, m, r)
    BY DEF c
  <2> QED BY <1>1, <1>3, <2>1, CloseEffect
<1>7. e = yfFlowGetNode(c, p.key, t.node[m].fid)
  OBVIOUS
<1> HIDE DEF c
<1>8. Lookup(c, p.key) = 0
  BY <1>1, <1>2, <1>3, <1>5 DEF Lookup
<1>9. c \in FlowTab
  BY <1>5 DEF WellFormed
<1>10. /\ SameCounters(c, e) /\ e.aq = c.aq /\ e.cq = c.cq
       /\ e.next_fid = c.next_fid
       /\ Len(e.node) = Len(c.node) + 1
       /\ e.node[Len(c.node) + 1] = NewNode(c, p.key, t.node[m].fid)
       /\ \A j \in 1..Len(c.node) : e.node[j] = c.node[j]
       /\ Lookup(e, p.key) = Len(c.node) + 1 /\ Dir(e, p.key) = "val"
  <2>1. PICK w \in Nat : w = t.node[m].fid
    BY <1>4
  <2>2. e = yfFlowGetNode(c, p.key, w)
    BY <1>7, <2>1
  <2>3. /\ SameCounters(c, e) /\ e.aq = c.aq /\ e.cq = c.cq
        /\ e.next_fid = IF w # 0 THEN c.next_fid ELSE c.next_fid + 1
        /\ Len(e.node) = Len(c.node) + 1
        /\ e.node[Len(c.node) + 1] = NewNode(c, p.key, w)
        /\ \A j \in 1..Len(c.node) : e.node[j] = c.node[j]
        /\ Lookup(e, p.key) = Len(c.node) + 1 /\ Dir(e, p.key) = "val"
    BY <1>1, <1>8, <1>9, <2>2, GetEffect
  <2>4. e.next_fid = c.next_fid
    BY <2>1, <2>3
  <2> QED BY <2>1, <2>3, <2>4, Zenon
<1>11. NewNode(c, p.key, t.node[m].fid) = Made(p, t.node[m].fid)
  BY <1>6 DEF NewNode, Made, FirstNode, FlowId, SameCounters
<1>12. SameCounters(t, e)
  BY <1>6, <1>10 DEF SameCounters
<1> QED BY <1>6, <1>10, <1>11, <1>12, ZenonT(30) DEF Grown, NodeIs

LEMMA PacketFields ==
  ASSUME NEW p \in Packet
  PROVE  /\ p.key \in Keys /\ p.ptime \in Nat /\ p.iplen \in Nat /\ p.iplen <= OctMax
         /\ p.flags \subseteq {"FIN", "ACK", "RST"}
         /\ p.key.proto # "TCP" => p.flags = {}
<1>1. /\ p.key \in Keys /\ p.ptime \in 1..MaxTime /\ p.iplen \in Iplens
      /\ p.flags \in FlagSets /\ (p.key.proto # "TCP" => p.flags = {})
  BY DEF Packet
<1>2. p.ptime \in Nat /\ p.iplen \in Nat /\ p.iplen <= OctMax
  <2>1. p.ptime \in Nat
    BY <1>1, InputAssumption
  <2>2. p.iplen \in Nat
    BY <1>1, InputAssumption
  <2>3. p.iplen <= OctMax
    BY <1>1, InputAssumption
  <2> QED BY <2>1, <2>2, <2>3
<1>3. p.flags \in SUBSET {"FIN", "ACK", "RST"}
  BY <1>1, InputAssumption
<1> QED BY <1>1, <1>2, <1>3

(* A node that was just made is past no timeout and no limit.              *)
LEMMA NewNotExpired ==
  ASSUME NEW e, NEW p \in Packet, NEW fid, NEW cont,
         e.node[Lookup(e, p.key)] = FirstNode(p, fid, cont), Dir(e, p.key) = "val"
  PROVE  ~ActiveExpired(e, p) /\ SplitIdle(e, p) = e
<1> DEFINE nd == FirstNode(p, fid, cont)
<1>1. nd.stime = p.ptime /\ nd.etime = p.ptime /\ nd.oct["val"] = 0
  BY DEF FirstNode, Direction
<1> HIDE DEF nd
<1>2. p.ptime \in Nat /\ p.iplen \in Nat /\ p.iplen <= OctMax
  BY PacketFields
<1>3. active_ms \in Nat /\ idle_ms \in Nat /\ OctMax \in Nat
  BY ConfigAssumption
<1>4. e.node[Lookup(e, p.key)] = nd
  BY DEF nd
<1>5. ~(p.ptime - p.ptime > active_ms) /\ ~(p.ptime - p.ptime > idle_ms)
      /\ ~(0 + p.iplen > OctMax)
  BY <1>2, <1>3
<1>6. ~ActiveExpired(e, p)
  BY <1>1, <1>4, <1>5 DEF ActiveExpired
<1>7. SplitIdle(e, p) = e
  BY <1>1, <1>4, <1>5 DEF SplitIdle
<1> QED BY <1>6, <1>7

(* The key of the packets counted in direction d of a node.                *)
KeyIn(nd, d) == IF d = "val" THEN nd.key ELSE yfFlowKeyReverse(nd.key)

(* The packet p belongs to the open flow n of f, in direction d, and is    *)
(* past neither timeout nor, in SiLK mode, the limit of the counter.       *)
Belongs(f, p, n, d) ==
  /\ n \in 1..Len(f.node) /\ d \in Direction
  /\ InQueue(f.aq, n)
  /\ p.key = KeyIn(f.node[n], d)
  /\ p.ptime - f.node[n].stime <= active_ms
  /\ p.ptime - f.node[n].etime <= idle_ms
  /\ silkmode => f.node[n].oct[d] + p.iplen <= OctMax

(* The packet p cuts the open flow m of f, for reason r.                   *)
Cuts(f, p, m, r) ==
  /\ m \in 1..Len(f.node) /\ r \in {"ACTIVE", "IDLE"}
  /\ InQueue(f.aq, m)
  /\ SameConversation(p.key, f.node[m].key)
  /\ r = "ACTIVE" => p.ptime - f.node[m].stime > active_ms \/ silkmode
  /\ r = "IDLE" => p.ptime - f.node[m].etime > idle_ms

(* A node for the packet is found, made, or made to continue another.      *)
Prepared(t, e, p) ==
  \/ e = t /\ \E d \in Direction : Belongs(t, p, Lookup(t, p.key), d) /\ d = Dir(t, p.key)
  \/ /\ Grown(t, e, p, 0, "none", Made(p, t.next_fid))
     /\ e.next_fid = t.next_fid + 1
  \/ \E m \in 1..Len(t.node), r \in {"ACTIVE", "IDLE"} :
       /\ Cuts(t, p, m, r)
       /\ Grown(t, e, p, m, r, Continued(p, t.node[m].fid, r))
       /\ e.next_fid = t.next_fid

LEMMA PreparedEffect ==
  ASSUME NEW t, WellFormed(t, 0, 0), NEW p \in Packet, t.ctime = p.ptime,
         \A n \in 1..Len(t.node) : t.node[n].fid # 0,
         NEW e, e = SplitIdle(SplitActive(yfFlowGetNode(t, p.key, 0), p), p)
  PROVE  Prepared(t, e, p)
<1> DEFINE n == Lookup(t, p.key)
           found == yfFlowGetNode(t, p.key, 0)
           act == SplitActive(found, p)
<1>0. e = SplitIdle(act, p)
  OBVIOUS
<1>1. CASE n = 0
  <2>1. Grown(t, found, p, 0, "none", Made(p, t.next_fid))
        /\ found.next_fid = t.next_fid + 1
    <3> HIDE DEF found
    <3>1. found = yfFlowGetNode(t, p.key, 0)
      BY DEF found
    <3> QED BY <1>1, <3>1, NewGrown
  <2> HIDE DEF found
  <2>2. found.node[Lookup(found, p.key)] = Made(p, t.next_fid)
        /\ Dir(found, p.key) = "val"
    BY <2>1 DEF Grown
  <2>3. ~ActiveExpired(found, p) /\ SplitIdle(found, p) = found
    BY <2>2, NewNotExpired DEF Made
  <2>4. e = found
    BY <1>0, <2>3 DEF SplitActive
  <2> QED BY <2>1, <2>4 DEF Prepared
<1>2. CASE n # 0
  <2>1. found = t
    BY <1>2 DEF yfFlowGetNode
  <2>2. /\ t \in FlowTab /\ p.key \in Keys /\ WFTable(t, 0)
        /\ yfFlowKeyReverse(p.key) \in Keys
        /\ yfFlowKeyReverse(yfFlowKeyReverse(p.key)) = p.key
    BY ReverseReverse DEF WellFormed, Packet
  <2>3. /\ n \in 1..Len(t.node) /\ InQueue(t.aq, n) /\ p.key = KeyIn(t.node[n], Dir(t, p.key))
        /\ SameConversation(p.key, t.node[n].key)
    <3>1. CASE t.table[p.key] # 0
      BY <2>2, <3>1 DEF WFTable, Queued, Lookup, Dir, KeyIn, SameConversation
    <3>2. CASE t.table[p.key] = 0
      BY <1>2, <2>2, <3>2 DEF WFTable, Queued, Lookup, Dir, KeyIn, SameConversation
    <3> QED BY <3>1, <3>2
  <2>4. Dir(t, p.key) \in Direction
    BY DEF Dir, Direction
  <2>5. t.node[n].fid # 0 /\ {"ACTIVE", "IDLE"} \subseteq Reasons
    BY <2>3 DEF Reasons
  <2>6. /\ p.ptime \in Nat /\ p.iplen \in Nat /\ t.node[n].stime \in Nat
        /\ t.node[n].etime \in Nat /\ t.node[n].oct[Dir(t, p.key)] \in Nat
        /\ active_ms \in Nat /\ idle_ms \in Nat /\ OctMax \in Nat
    <3>1. t.node[n] \in Node
      BY <2>2, <2>3, TabFields
    <3>2. t.node[n].stime \in Nat /\ t.node[n].etime \in Nat /\ t.node[n].oct \in [Direction -> Nat]
      BY <3>1 DEF Node
    <3> QED BY <2>4, <3>2, PacketFields, ConfigAssumption
  <2> HIDE DEF n
  <2>7. CASE ActiveExpired(t, p)
    <3> DEFINE x == yfFlowGetNode(yfFlowClose(t, n, "ACTIVE"), p.key, t.node[n].fid)
               y == [x EXCEPT !.node[Lookup(x, p.key)].iscont = silkmode]
    <3>1. act = y
      BY <2>1, <2>7 DEF SplitActive, n
    <3>2. x.next_fid = t.next_fid /\ Grown(t, x, p, n, "ACTIVE", Made(p, t.node[n].fid))
      <4> HIDE DEF x
      <4>1. PICK r \in Reasons : r = "ACTIVE"
        BY <2>5
      <4>2. x = yfFlowGetNode(yfFlowClose(t, n, r), p.key, t.node[n].fid)
        BY <4>1 DEF x
      <4>3. n = Lookup(t, p.key)
        BY DEF n
      <4>4. PICK nd : nd = Made(p, t.node[n].fid)
        OBVIOUS
      <4>5. n # 0 /\ t.node[n].fid # 0 /\ r \in Reasons
        BY <1>2, <2>5, <4>1
      <4>6. Grown(t, x, p, n, r, nd) /\ x.next_fid = t.next_fid
        BY <4>2, <4>3, <4>4, <4>5, CutGrown
      <4> QED BY <4>1, <4>4, <4>6
    <3>3. x \in FlowTab
      <4>1. \E q \in Nat, m \in Nat : Current(x, q, 0, p.key, m)
        <5> HIDE DEF x
        <5>1. PICK r \in Reasons : r = "ACTIVE"
          BY <2>5
        <5>2. x = yfFlowGetNode(yfFlowClose(t, n, r), p.key, t.node[n].fid)
          BY <5>1 DEF x
        <5>3. Current(t, 0, 0, p.key, n)
          <6>1. t.node[n] \in Node
            BY <2>2, <2>3, TabFields
          <6>2. yfFlowKeyReverse(yfFlowKeyReverse(t.node[n].key)) = t.node[n].key
            BY <6>1, NodeFields, ReverseReverse
          <6>3. t.node[n].key \in {p.key, yfFlowKeyReverse(p.key)}
            BY <2>3, <6>2 DEF SameConversation
          <6> QED BY <2>3, <6>3 DEF Current, Queued, n
        <5> QED BY <2>2, <5>1, <5>2, <5>3, SplitCurrent
      <4> QED BY <4>1 DEF Current, WellFormed
    <3> HIDE DEF x
    <3> DEFINE k == Len(t.node) + 1
    <3>4. /\ Len(x.node) = k /\ x.node[k] = Made(p, t.node[n].fid)
          /\ Lookup(x, p.key) = k /\ Dir(x, p.key) = "val" /\ k \in 1..k
          /\ x.node \in Seq(Node) /\ \A j \in 1..Len(t.node) : j # k /\ j \in 1..k
      <4>1. Len(t.node) \in Nat
        BY <2>2, TabFields
      <4> QED BY <3>2, <3>3, <4>1, TabFields DEF Grown
    <3> HIDE DEF k
    <3>5. /\ y.node = [x.node EXCEPT ![k].iscont = silkmode] /\ y.table = x.table
          /\ y.aq = x.aq /\ y.cq = x.cq /\ SameCounters(x, y) /\ y.next_fid = x.next_fid
      BY <3>3, <3>4 DEF FlowTab, SameCounters
    <3> HIDE DEF y
    <3>6. y.node[k] = FirstNode(p, t.node[n].fid, silkmode)
      <4>1. y.node[k] = [Made(p, t.node[n].fid) EXCEPT !.iscont = silkmode]
        BY <3>4, <3>5
      <4> QED BY <4>1 DEF Made, FirstNode
    <3>7. /\ Len(y.node) = k /\ \A j \in 1..Len(t.node) : y.node[j] = x.node[j]
          /\ Lookup(y, p.key) = k /\ Dir(y, p.key) = "val"
      BY <3>4, <3>5 DEF Lookup, Dir
    <3>8. SameCounters(t, y) /\ y.next_fid = t.next_fid
      BY <3>2, <3>5 DEF Grown, SameCounters
    <3>9. Grown(t, y, p, n, "ACTIVE", FirstNode(p, t.node[n].fid, silkmode))
      BY <3>2, <3>5, <3>6, <3>7, <3>8 DEF Grown, k
    <3>10. e = y
      BY <1>0, <3>1, <3>6, <3>7, NewNotExpired
    <3>11. FirstNode(p, t.node[n].fid, silkmode) = Continued(p, t.node[n].fid, "ACTIVE")
      BY ConfigAssumption DEF Continued
    <3>12. Cuts(t, p, n, "ACTIVE")
      BY <2>3, <2>7 DEF Cuts, ActiveExpired, n
    <3> QED BY <2>3, <3>8, <3>9, <3>10, <3>11, <3>12 DEF Prepared
  <2>8. CASE ~ActiveExpired(t, p) /\ p.ptime - t.node[n].etime > idle_ms
    <3>1. e = yfFlowGetNode(yfFlowClose(t, n, "IDLE"), p.key, t.node[n].fid)
      BY <1>0, <2>1, <2>8 DEF SplitActive, SplitIdle, n
    <3>2. Grown(t, e, p, n, "IDLE", Made(p, t.node[n].fid)) /\ e.next_fid = t.next_fid
      <4>1. PICK r \in Reasons : r = "IDLE"
        BY <2>5
      <4>2. e = yfFlowGetNode(yfFlowClose(t, n, r), p.key, t.node[n].fid)
        BY <3>1, <4>1
      <4>3. n = Lookup(t, p.key)
        BY DEF n
      <4>4. PICK nd : nd = Made(p, t.node[n].fid)
        OBVIOUS
      <4>5. n # 0 /\ t.node[n].fid # 0 /\ r \in Reasons
        BY <1>2, <2>5, <4>1
      <4>6. Grown(t, e, p, n, r, nd) /\ e.next_fid = t.next_fid
        BY <4>2, <4>3, <4>4, <4>5, CutGrown
      <4> QED BY <4>1, <4>4, <4>6
    <3>3. Made(p, t.node[n].fid) = Continued(p, t.node[n].fid, "IDLE")
      BY DEF Made, Continued
    <3>4. Cuts(t, p, n, "IDLE")
      BY <2>3, <2>8 DEF Cuts
    <3> QED BY <2>3, <3>2, <3>3, <3>4 DEF Prepared
  <2>9. CASE ~ActiveExpired(t, p) /\ ~(p.ptime - t.node[n].etime > idle_ms)
    <3>1. e = t
      BY <1>0, <2>1, <2>9 DEF SplitActive, SplitIdle, n
    <3>2. /\ ~(p.ptime - t.node[n].stime > active_ms)
          /\ silkmode => ~(t.node[n].oct[Dir(t, p.key)] + p.iplen > OctMax)
      BY <2>9 DEF ActiveExpired, n
    <3>3. Belongs(t, p, n, Dir(t, p.key))
      BY <2>3, <2>4, <2>6, <2>9, <3>2, SMTT(30) DEF Belongs
    <3> QED BY <2>4, <3>1, <3>3 DEF Prepared, n
  <2> QED BY <2>7, <2>8, <2>9
<1> QED BY <1>1, <1>2

(* What an accepted packet changes in any case.                            *)
Advanced(f, g, p) ==
  /\ g.stat_packets = f.stat_packets + 1
  /\ g.stat_flows = f.stat_flows
  /\ g.ctime = p.ptime

(* The packet is counted, as nd, in direction d of an open flow n.         *)
Joined(f, g, p, n, d, nd) ==
  /\ Belongs(f, p, n, d)
  /\ nd \in Node /\ nd = CountPacket(f.node[n], d, p, f.stat_packets + 1)
  /\ Advanced(f, g, p) /\ g.next_fid = f.next_fid
  /\ NodeIs(f, g, n, Settled(nd))
  /\ \A k \in Nat : InQueue(g.aq, k) <=>
       IF k = n THEN ~Finished(nd) ELSE InQueue(f.aq, k)
  /\ g.cq = IF Finished(nd) THEN Append(f.cq, n) ELSE f.cq

(* The packet is the first of a flow n, counted as nd: a new one, if m is  *)
(* 0, or the continuation of node m, which is closed for reason r.         *)
Opened(f, g, p, m, r, n, nd) ==
  /\ n = Len(f.node) + 1 /\ nd \in Node
  /\ \/ /\ m = 0
        /\ nd = CountPacket(Made(p, f.next_fid), "val", p, f.stat_packets + 1)
        /\ g.next_fid = f.next_fid + 1
     \/ /\ m \in 1..Len(f.node) /\ Cuts(f, p, m, r)
        /\ nd = CountPacket(Continued(p, f.node[m].fid, r), "val", p, f.stat_packets + 1)
        /\ g.next_fid = f.next_fid
  /\ Advanced(f, g, p)
  /\ Len(g.node) = n /\ g.node[n] = Settled(nd)
  /\ \A k \in 1..Len(f.node) :
       g.node[k] = IF k = m THEN WithReason(f.node[k], r) ELSE f.node[k]
  /\ \A k \in Nat : InQueue(g.aq, k) <=>
       IF k = n THEN ~Finished(nd) ELSE InQueue(f.aq, k) /\ k # m
  /\ \E q : /\ q = IF m = 0 THEN f.cq ELSE Append(f.cq, m)
            /\ g.cq = IF Finished(nd) THEN Append(q, n) ELSE q

LEMMA PacketEffect ==
  ASSUME NEW f, WellFormed(f, 0, 0), NEW p \in Packet, ~(p.ptime < f.ctime),
         \A n \in 1..Len(f.node) : f.node[n].fid # 0,
         NEW g, g = yfFlowPBuf(f, p)
  PROVE  \/ \E n \in Nat, d \in Direction, nd \in Node : Joined(f, g, p, n, d, nd)
         \/ \E m \in Nat, r \in Reasons, n \in Nat, nd \in Node : Opened(f, g, p, m, r, n, nd)
<1>1. f \in FlowTab /\ p.key \in Keys /\ p.ptime \in Nat /\ f.ctime \in Nat
      /\ f.stat_packets \in Nat /\ Len(f.node) \in Nat
  BY PacketFields, TabFields DEF WellFormed
<1> DEFINE t == [f EXCEPT !.ctime = p.ptime, !.stat_packets = @ + 1]
           found == yfFlowGetNode(t, p.key, 0)
           act == SplitActive(found, p)
           e == SplitIdle(act, p)
           n == Lookup(e, p.key)
           d == Dir(e, p.key)
           nd == CountPacket(e.node[n], d, p, e.stat_packets)
           c == [e EXCEPT !.node[n] = nd]
<1>2. g = IF Finished(c.node[n]) THEN yfFlowClose(c, n, "CLOSED") ELSE yfFlowTick(c, n)
  BY DEF yfFlowPBuf
<1>3. WellFormed(t, 0, 0) /\ t.ctime = p.ptime
  <2>1. f.ctime <= p.ptime
    BY <1>1
  <2>2. \E x \in Nat : /\ f.ctime <= x /\ x = p.ptime
                       /\ t = [f EXCEPT !.ctime = x, !.stat_packets = @ + 1]
    BY <1>1, <2>1
  <2> HIDE DEF t
  <2> QED BY <2>2, TimedWF
<1>4. /\ t.node = f.node /\ t.aq = f.aq /\ t.cq = f.cq /\ t.next_fid = f.next_fid
      /\ t.stat_packets = f.stat_packets + 1 /\ t.stat_flows = f.stat_flows
  BY <1>1 DEF FlowTab
<1> HIDE DEF t
<1>5. Prepared(t, e, p)
  <2>1. \A k \in 1..Len(t.node) : t.node[k].fid # 0
    BY <1>4
  <2> QED BY <1>3, <2>1, PreparedEffect
<1>6. found.ctime = p.ptime /\ \E q \in Nat, m \in Nat : Current(found, q, 0, p.key, m)
  <2>1. \E k \in Nat : found = yfFlowGetNode(t, p.key, k)
    OBVIOUS
  <2> HIDE DEF found
  <2>2. found.ctime = t.ctime /\ \E q \in Nat, m \in Nat : Current(found, q, 0, p.key, m)
    BY <1>1, <1>3, <2>1, GetCurrent, ZenonT(30)
  <2> QED BY <1>3, <2>2
<1> HIDE DEF found
<1>7. act.ctime = p.ptime /\ \E q \in Nat, m \in Nat : Current(act, q, 0, p.key, m)
  <2>1. PICK q \in Nat, m \in Nat : Current(found, q, 0, p.key, m)
    BY <1>6
  <2>2. act = SplitActive(found, p)
    OBVIOUS
  <2> HIDE DEF act
  <2>3. act.ctime = found.ctime /\ \E x \in Nat, y \in Nat : Current(act, x, 0, p.key, y)
    BY <2>1, <2>2, SplitActiveCurrent, ZenonT(90)
  <2> QED BY <1>6, <2>3
<1> HIDE DEF act
<1>8. e.ctime = p.ptime /\ \E q \in Nat, m \in Nat : Current(e, q, 0, p.key, m)
  <2>1. PICK q \in Nat, m \in Nat : Current(act, q, 0, p.key, m)
    BY <1>7
  <2>2. e = SplitIdle(act, p)
    OBVIOUS
  <2> HIDE DEF e
  <2>3. e.ctime = act.ctime /\ \E x \in Nat, y \in Nat : Current(e, x, 0, p.key, y)
    BY <2>1, <2>2, SplitIdleCurrent, SMTT(30)
  <2> QED BY <1>7, <2>3
<1> HIDE DEF e
<1>9. PICK q \in Nat, m \in Nat : Current(e, q, 0, p.key, m)
  BY <1>8
<1>10. n = m /\ e \in FlowTab /\ n \in 1..Len(e.node) /\ WFOrder(e, 0)
  BY <1>9 DEF Current, WellFormed
<1>11. e.node[n] \in Node /\ e.stat_packets \in Nat /\ e.node \in Seq(Node)
  BY <1>10, TabFields
<1>12. e.node[n].stime <= p.ptime
  <2>1. e.node[n].stime \in Nat /\ e.node[n].etime \in Nat
    BY <1>11, NodeFields
  <2>2. e.node[n].stime <= e.node[n].etime /\ e.node[n].etime <= e.ctime
    BY <1>10 DEF WFOrder
  <2> QED BY <1>1, <1>8, <2>1, <2>2
<1>13. d \in Direction
  BY DEF Dir, Direction
<1>14. /\ nd \in Node /\ nd.key = e.node[n].key /\ nd.stime = e.node[n].stime
       /\ nd.etime = p.ptime
  BY <1>11, <1>12, <1>13, CountPacketFacts
<1>15. nd = CountPacket(e.node[n], d, p, e.stat_packets)
  OBVIOUS
<1>20. n = Lookup(e, p.key) /\ d = Dir(e, p.key)
  OBVIOUS
<1> HIDE DEF nd, n, d
<1>16. Current(c, q, n, p.key, n)
  BY <1>1, <1>8, <1>9, <1>10, <1>14, UpdateCurrent
<1>17. /\ c.node = [e.node EXCEPT ![n] = nd] /\ c.aq = e.aq /\ c.cq = e.cq
       /\ SameCounters(e, c) /\ c.next_fid = e.next_fid
  BY <1>10 DEF FlowTab, SameCounters
<1> HIDE DEF c
<1>18. NodeIs(e, c, n, nd) /\ c.node[n] = nd
  BY <1>10, <1>11, <1>17 DEF NodeIs
<1>19. Landed(e, g, n, nd)
  <2>1. c \in FlowTab /\ Distinct(c.aq) /\ n \in 1..Len(c.node)
    BY <1>16 DEF Current, WellFormed, WFQueue
  <2> QED BY <1>2, <1>17, <1>18, <2>1, LandedEffect
<1>21. ASSUME SameCounters(t, e)
       PROVE  Advanced(f, g, p) /\ e.stat_packets = f.stat_packets + 1
  BY <1>3, <1>4, <1>19, <1>21 DEF Landed, SameCounters, Advanced
<1>22. CASE e = t /\ \E b \in Direction : Belongs(t, p, Lookup(t, p.key), b) /\ b = Dir(t, p.key)
  <2>1. Belongs(f, p, n, d)
    BY <1>4, <1>20, <1>22 DEF Belongs
  <2>2. SameCounters(t, e)
    BY <1>22 DEF SameCounters
  <2>3. nd = CountPacket(f.node[n], d, p, f.stat_packets + 1)
    BY <1>4, <1>15, <1>22
  <2>4. n \in Nat
    BY <1>1, <2>1 DEF Belongs
  <2>5. Joined(f, g, p, n, d, nd)
    BY <1>4, <1>14, <1>19, <1>21, <1>22, <2>1, <2>2, <2>3 DEF Joined, Landed, NodeIs
  <2> QED BY <1>13, <1>14, <2>4, <2>5
<1>23. ASSUME NEW x \in Nat, NEW r, NEW z, Grown(t, e, p, x, r, z)
       PROVE  /\ n = Len(f.node) + 1 /\ n \in Nat
              /\ nd = CountPacket(z, "val", p, f.stat_packets + 1)
              /\ Advanced(f, g, p)
              /\ Len(g.node) = n /\ g.node[n] = Settled(nd)
              /\ \A k \in 1..Len(f.node) :
                   g.node[k] = IF k = x THEN WithReason(f.node[k], r) ELSE f.node[k]
              /\ \A k \in Nat : InQueue(g.aq, k) <=>
                   IF k = n THEN ~Finished(nd) ELSE InQueue(f.aq, k) /\ k # x
              /\ \E b : /\ b = IF x = 0 THEN f.cq ELSE Append(f.cq, x)
                        /\ g.cq = IF Finished(nd) THEN Append(b, n) ELSE b
              /\ g.next_fid = e.next_fid
  <2>1. /\ SameCounters(t, e)
        /\ Len(e.node) = Len(f.node) + 1 /\ e.node[Len(f.node) + 1] = z
        /\ \A k \in 1..Len(f.node) :
             e.node[k] = IF k = x THEN WithReason(f.node[k], r) ELSE f.node[k]
        /\ \A k \in Nat : InQueue(e.aq, k) <=> InQueue(f.aq, k) /\ k # x
        /\ e.cq = IF x = 0 THEN f.cq ELSE Append(f.cq, x)
        /\ Lookup(e, p.key) = Len(f.node) + 1 /\ Dir(e, p.key) = "val"
    BY <1>4, <1>23 DEF Grown
  <2>2. n = Len(f.node) + 1 /\ d = "val" /\ n \in Nat
    BY <1>1, <1>20, <2>1
  <2>3. Advanced(f, g, p) /\ e.stat_packets = f.stat_packets + 1
    BY <1>21, <2>1
  <2>4. nd = CountPacket(z, "val", p, f.stat_packets + 1)
    BY <1>15, <2>1, <2>2, <2>3
  <2>5. \A k \in 1..Len(f.node) : k # n /\ k \in 1..Len(e.node)
    BY <1>1, <2>1, <2>2
  <2>6. /\ Len(g.node) = Len(e.node) /\ g.node[n] = Settled(nd)
        /\ \A k \in 1..Len(e.node) : k # n => g.node[k] = e.node[k]
        /\ \A k \in Nat : InQueue(g.aq, k) <=>
             IF k = n THEN ~Finished(nd) ELSE InQueue(e.aq, k)
        /\ g.cq = IF Finished(nd) THEN Append(e.cq, n) ELSE e.cq
        /\ g.next_fid = e.next_fid
    BY <1>19 DEF Landed, NodeIs
  <2>7. \A k \in 1..Len(f.node) :
          g.node[k] = IF k = x THEN WithReason(f.node[k], r) ELSE f.node[k]
    BY <2>1, <2>5, <2>6
  <2>8. \A k \in Nat : InQueue(g.aq, k) <=>
          IF k = n THEN ~Finished(nd) ELSE InQueue(f.aq, k) /\ k # x
    BY <2>1, <2>6
  <2> QED BY <2>1, <2>2, <2>3, <2>4, <2>6, <2>7, <2>8
<1>24. CASE /\ Grown(t, e, p, 0, "none", Made(p, t.next_fid))
            /\ e.next_fid = t.next_fid + 1
  <2>1. "none" \in Reasons /\ 0 \in Nat
    BY DEF Reasons
  <2>2. Opened(f, g, p, 0, "none", n, nd)
    BY <1>4, <1>14, <1>23, <1>24, <2>1 DEF Opened
  <2>3. n \in Nat
    BY <1>23, <1>24, <2>1
  <2> QED BY <1>14, <2>1, <2>2, <2>3
<1>25. CASE \E x \in 1..Len(t.node), r \in {"ACTIVE", "IDLE"} :
              /\ Cuts(t, p, x, r)
              /\ Grown(t, e, p, x, r, Continued(p, t.node[x].fid, r))
              /\ e.next_fid = t.next_fid
  <2>1. PICK x \in 1..Len(t.node), r \in {"ACTIVE", "IDLE"} :
              /\ Cuts(t, p, x, r)
              /\ Grown(t, e, p, x, r, Continued(p, t.node[x].fid, r))
              /\ e.next_fid = t.next_fid
    BY <1>25
  <2>2. r \in Reasons /\ x \in Nat /\ x \in 1..Len(f.node) /\ Cuts(f, p, x, r)
    BY <1>1, <1>4, <2>1 DEF Reasons, Cuts
  <2>3. Opened(f, g, p, x, r, n, nd)
    BY <1>4, <1>14, <1>23, <2>1, <2>2 DEF Opened
  <2>4. n \in Nat
    BY <1>23, <2>1, <2>2
  <2> QED BY <1>14, <2>2, <2>3, <2>4
<1> QED BY <1>5, <1>22, <1>24, <1>25 DEF Prepared

----------------------------------------------------------------------------
(***************************************************************************)
(* What is true of the table and the history                               *)
(***************************************************************************)
(* The records that a node must have in the output are there.              *)
Complete(f, n, o) ==
  \A d \in Direction :
    f.node[n].pkt[d] # {} => <<n, IF uniflow THEN d ELSE "both">> \in o

(* Each packet of the log l is counted once.                               *)
Counts(f, l) ==
  /\ f.stat_packets = Len(l)
  /\ \A n \in 1..Len(f.node), d \in Direction : f.node[n].pkt[d] \subseteq 1..Len(l)
  /\ \A s \in 1..Len(l) : \E n \in 1..Len(f.node), d \in Direction : s \in f.node[n].pkt[d]
  /\ \A n, m \in 1..Len(f.node), d, e \in Direction, s \in 1..Len(l) :
       s \in f.node[n].pkt[d] /\ s \in f.node[m].pkt[e] => n = m /\ d = e

(* Key and times of a node are those of its packets.                       *)
Matches(nd, l) ==
  /\ nd.pkt["val"] # {}
  /\ \A s \in nd.pkt["val"] : l[s].key = nd.key
  /\ \A s \in nd.pkt["rval"] : l[s].key = yfFlowKeyReverse(nd.key)
  /\ \A s \in Pkts(nd) : nd.stime <= l[s].ptime /\ l[s].ptime <= nd.etime
  /\ \E s \in Pkts(nd) : l[s].ptime = nd.stime
  /\ \E s \in Pkts(nd) : l[s].ptime = nd.etime
  /\ nd.etime - nd.stime <= active_ms
  /\ \A s \in Pkts(nd) :
       \/ l[s].ptime = nd.etime
       \/ \E t \in Pkts(nd) : t > s /\ l[t].ptime - l[s].ptime <= idle_ms

(* In direction d a FIN, and after it an ACK of the other side.            *)
FinAcked(nd, l, d, e) ==
  \E s \in nd.pkt[d], t \in nd.pkt[e] :
    s < t /\ "FIN" \in l[s].flags /\ "ACK" \in l[t].flags

(* The teardown state of a node is what its packets say.                   *)
Teardown(nd, l) ==
  /\ "RST" \in nd.state <=> \E s \in Pkts(nd) : "RST" \in l[s].flags
  /\ "FFIN" \in nd.state <=> \E s \in nd.pkt["val"] : "FIN" \in l[s].flags
  /\ "RFIN" \in nd.state <=> \E s \in nd.pkt["rval"] : "FIN" \in l[s].flags
  /\ "RFINACK" \in nd.state <=> FinAcked(nd, l, "val", "rval")
  /\ "FFINACK" \in nd.state <=> FinAcked(nd, l, "rval", "val")

(* The reverse delay leads to the first reverse packet.                    *)
StartsReverse(nd, l) ==
  nd.pkt["rval"] # {} =>
    \E s \in nd.pkt["rval"] :
      /\ \A t \in nd.pkt["rval"] : s <= t
      /\ nd.stime + nd.rdtime = l[s].ptime

Fits(nd) ==
  silkmode => \A d \in Direction : Cardinality(nd.pkt[d]) > 1 => nd.oct[d] <= OctMax

NodeHistory(nd, l) == Matches(nd, l) /\ Teardown(nd, l) /\ StartsReverse(nd, l) /\ Fits(nd)

(* Node m is the piece before n of a flow that was cut.                    *)
Before(f, m, n) ==
  /\ m < n /\ f.node[m].fid = f.node[n].fid
  /\ \A k \in 1..Len(f.node) : m < k /\ k < n => f.node[k].fid # f.node[n].fid

(* The pieces of a flow are linked by their IDs.                           *)
Links(f) ==
  /\ f.next_fid > 0
  /\ \A n \in 1..Len(f.node) : f.node[n].fid \in 1..(f.next_fid - 1)
  /\ \A n, m \in 1..Len(f.node) :
       n < m /\ f.node[n].fid = f.node[m].fid =>
         /\ SameConversation(f.node[n].key, f.node[m].key)
         /\ f.node[n].reason \in {"ACTIVE", "IDLE"}
         /\ f.node[n].etime <= f.node[m].stime
  /\ \A n \in 1..Len(f.node) :
       f.node[n].reason = "ACTIVE" =>
         \E m \in 1..Len(f.node) : m > n /\ f.node[m].fid = f.node[n].fid
  /\ silkmode => \A n \in 1..Len(f.node) :
       f.node[n].iscont <=>
         \E m \in 1..Len(f.node) : Before(f, m, n) /\ f.node[m].reason = "ACTIVE"

(* A packet l[s] that is not of the node cut it at the active timeout.     *)
CutBy(nd, l, s) ==
  /\ s \notin Pkts(nd)
  /\ SameConversation(l[s].key, nd.key)
  /\ l[s].ptime - nd.stime > active_ms \/ silkmode

(* Every node is closed for the reason it has, in phase ph.                *)
Ended(f, l, ph) ==
  \A n \in 1..Len(f.node) :
    LET nd == f.node[n] IN
    /\ InQueue(f.aq, n) <=> nd.reason = "none"
    /\ nd.reason = "IDLE" => f.ctime - nd.etime > idle_ms
    /\ nd.reason = "ACTIVE" => \E s \in 1..Len(l) : CutBy(nd, l, s)
    /\ nd.reason = "CLOSED" <=> Finished(nd)
    /\ nd.reason = "RESOURCE" => max_flows # 0
    /\ nd.reason = "FORCED" => ph # "open"

(* A node is open, waiting to be written, in the output or lost.           *)
Places(f, o, x) ==
  /\ Distinct(f.cq)
  /\ \A n \in 1..Len(f.node) : InQueue(f.cq, n) => f.node[n].reason # "none"
  /\ o \subseteq (1..Len(f.node)) \X RecordKinds
  /\ f.stat_flows = Cardinality(o)
  /\ \A n \in 1..Len(f.node), k \in RecordKinds :
       <<n, k>> \in o => f.node[n].reason # "none" /\ ~InQueue(f.cq, n)
  /\ x \subseteq 1..Len(f.node)
  /\ \A n \in 1..Len(f.node) :
       n \in x <=> /\ f.node[n].reason # "none" /\ ~InQueue(f.cq, n)
                   /\ ~Complete(f, n, o)

(* What is true of a table f, the log l, the output o and the lost nodes x *)
(* in phase ph.                                                            *)
History(f, l, o, x, ph) ==
  /\ Counts(f, l)
  /\ \A n \in 1..Len(f.node) : NodeHistory(f.node[n], l)
  /\ Links(f)
  /\ Ended(f, l, ph)
  /\ Places(f, o, x)

----------------------------------------------------------------------------
(***************************************************************************)
(* One node and its packets                                                *)
(***************************************************************************)
(* What counting a packet does to each field.                              *)
CountedAs(nd, d, p, s, c) ==
  /\ c.key = nd.key /\ c.fid = nd.fid /\ c.stime = nd.stime /\ c.etime = p.ptime
  /\ c.reason = nd.reason /\ c.iscont = nd.iscont
  /\ c.pkt = [nd.pkt EXCEPT ![d] = @ \cup {s}]
  /\ c.oct = [nd.oct EXCEPT ![d] = @ + p.iplen]
  /\ c.rdtime = IF nd.pkt[d] = {} /\ d = "rval" THEN p.ptime - nd.stime ELSE nd.rdtime
  /\ c.state = IF nd.key.proto = "TCP" THEN yfFlowPktTCP(nd, d, p.flags).state
               ELSE nd.state

LEMMA CountFields ==
  ASSUME NEW nd \in Node, NEW d \in Direction, NEW p \in Packet, NEW s \in Nat,
         NEW c, c = CountPacket(nd, d, p, s)
  PROVE  CountedAs(nd, d, p, s, c)
<1> DEFINE st == yfFlowPktTCP(nd, d, p.flags).state
           tcp == IF nd.key.proto = "TCP" THEN yfFlowPktTCP(nd, d, p.flags) ELSE nd
           rd == IF nd.pkt[d] = {} /\ d = "rval" THEN p.ptime - nd.stime ELSE tcp.rdtime
<1>1. /\ tcp.key = nd.key /\ tcp.fid = nd.fid /\ tcp.stime = nd.stime
      /\ tcp.reason = nd.reason /\ tcp.iscont = nd.iscont /\ tcp.pkt = nd.pkt
      /\ tcp.oct = nd.oct /\ tcp.rdtime = nd.rdtime
      /\ tcp.state = IF nd.key.proto = "TCP" THEN st ELSE nd.state
      /\ DOMAIN tcp = DOMAIN nd
  BY DEF yfFlowPktTCP, Node
<1>2. c = [tcp EXCEPT !.rdtime = rd, !.oct[d] = @ + p.iplen,
                      !.pkt[d] = @ \cup {s}, !.etime = p.ptime]
  BY DEF CountPacket
<1>3. DOMAIN nd = {"key", "fid", "stime", "etime", "rdtime", "reason", "iscont", "state", "pkt", "oct"}
  BY DEF Node
<1> HIDE DEF tcp, st
<1>4. /\ c.key = tcp.key /\ c.fid = tcp.fid /\ c.stime = tcp.stime /\ c.etime = p.ptime
      /\ c.reason = tcp.reason /\ c.iscont = tcp.iscont /\ c.rdtime = rd /\ c.state = tcp.state
      /\ c.pkt = [tcp.pkt EXCEPT ![d] = @ \cup {s}]
      /\ c.oct = [tcp.oct EXCEPT ![d] = @ + p.iplen]
  BY <1>1, <1>2, <1>3, ZenonT(30)
<1> QED BY <1>1, <1>4 DEF st, CountedAs

(* What counting a packet does to the teardown state.                      *)
LEMMA CountState ==
  ASSUME NEW nd \in Node, NEW d \in Direction, NEW p \in Packet, NEW s \in Nat,
         p.key = KeyIn(nd, d), NEW c, c = CountPacket(nd, d, p, s)
  PROVE  /\ "RST" \in c.state <=> "RST" \in nd.state \/ "RST" \in p.flags
         /\ "FFIN" \in c.state <=> "FFIN" \in nd.state \/ (d = "val" /\ "FIN" \in p.flags)
         /\ "RFIN" \in c.state <=> "RFIN" \in nd.state \/ (d = "rval" /\ "FIN" \in p.flags)
         /\ "FFINACK" \in c.state <=> \/ "FFINACK" \in nd.state
                                      \/ d = "val" /\ "RFIN" \in nd.state /\ "ACK" \in p.flags
         /\ "RFINACK" \in c.state <=> \/ "RFINACK" \in nd.state
                                      \/ d = "rval" /\ "FFIN" \in nd.state /\ "ACK" \in p.flags
<1>0. CountedAs(nd, d, p, s, c)
  BY CountFields
<1>1. c.state = IF nd.key.proto = "TCP" THEN yfFlowPktTCP(nd, d, p.flags).state ELSE nd.state
  BY <1>0, Zenon DEF CountedAs
<1>2. nd.key.proto # "TCP" => p.flags = {}
  <2>1. p.key.proto = nd.key.proto
    BY DEF KeyIn, yfFlowKeyReverse
  <2> QED BY <2>1, PacketFields
<1>3. CASE nd.key.proto = "TCP"
  <2>1. yfFlowPktTCP(nd, d, p.flags).state = nd.state
          \cup (IF "FIN" \in p.flags THEN {IF d = "val" THEN "FFIN" ELSE "RFIN"} ELSE {})
          \cup (IF (IF d = "val" THEN "RFIN" ELSE "FFIN") \in nd.state /\ "ACK" \in p.flags
                THEN {IF d = "val" THEN "FFINACK" ELSE "RFINACK"} ELSE {})
          \cup (p.flags \cap {"RST"})
    BY DEF yfFlowPktTCP, Node
  <2>2. d = "val" \/ d = "rval"
    BY DEF Direction
  <2>3. CASE d = "val"
    BY <1>1, <1>3, <2>1, <2>3
  <2>4. CASE d = "rval"
    BY <1>1, <1>3, <2>1, <2>4
  <2> QED BY <2>2, <2>3, <2>4
<1>4. CASE nd.key.proto # "TCP"
  BY <1>1, <1>2, <1>4
<1> QED BY <1>3, <1>4

(* The packets and octets of a node after one packet was counted.          *)
LEMMA CountPkts ==
  ASSUME NEW nd \in Node, NEW d \in Direction, NEW p \in Packet, NEW s \in Nat,
         NEW c, c = CountPacket(nd, d, p, s)
  PROVE  /\ c.pkt[d] = nd.pkt[d] \cup {s}
         /\ \A e \in Direction : e # d => c.pkt[e] = nd.pkt[e]
         /\ Pkts(c) = Pkts(nd) \cup {s}
         /\ c.oct[d] = nd.oct[d] + p.iplen
         /\ \A e \in Direction : e # d => c.oct[e] = nd.oct[e]
         /\ c.key = nd.key /\ c.fid = nd.fid /\ c.stime = nd.stime /\ c.etime = p.ptime
         /\ c.reason = nd.reason /\ c.iscont = nd.iscont
         /\ c.rdtime = IF nd.pkt[d] = {} /\ d = "rval" THEN p.ptime - nd.stime ELSE nd.rdtime
<1>1. CountedAs(nd, d, p, s, c)
  BY CountFields
<1>2. /\ c.pkt = [nd.pkt EXCEPT ![d] = @ \cup {s}]
      /\ c.oct = [nd.oct EXCEPT ![d] = @ + p.iplen]
      /\ c.key = nd.key /\ c.fid = nd.fid /\ c.stime = nd.stime /\ c.etime = p.ptime
      /\ c.reason = nd.reason /\ c.iscont = nd.iscont
      /\ c.rdtime = IF nd.pkt[d] = {} /\ d = "rval" THEN p.ptime - nd.stime ELSE nd.rdtime
  BY <1>1, Zenon DEF CountedAs
<1>3. nd.pkt \in [Direction -> SUBSET Nat] /\ nd.oct \in [Direction -> Nat]
  BY DEF Node
<1>4. /\ c.pkt[d] = nd.pkt[d] \cup {s}
      /\ \A e \in Direction : e # d => c.pkt[e] = nd.pkt[e]
      /\ c.oct[d] = nd.oct[d] + p.iplen
      /\ \A e \in Direction : e # d => c.oct[e] = nd.oct[e]
  BY <1>2, <1>3
<1>5. Pkts(c) = Pkts(nd) \cup {s}
  BY <1>4 DEF Pkts, Direction
<1> QED BY <1>2, <1>4, <1>5

(* The node's packets are in the log.                                      *)
Within(nd, l) == \A d \in Direction : nd.pkt[d] \subseteq 1..Len(l)

LEMMA LogGrows ==
  ASSUME NEW l \in Seq(Packet), NEW p \in Packet, NEW L, L = Append(l, p)
  PROVE  /\ Len(L) = Len(l) + 1 /\ L[Len(l) + 1] = p /\ L \in Seq(Packet)
         /\ Len(l) \in Nat
         /\ \A s \in 1..Len(l) : L[s] = l[s] /\ s \in 1..Len(L) /\ s < Len(l) + 1
         /\ \A nd : Within(nd, l) =>
              /\ \A s \in Pkts(nd) : L[s] = l[s] /\ s < Len(l) + 1 /\ s \in Nat
              /\ \A d \in Direction : \A s \in nd.pkt[d] :
                   L[s] = l[s] /\ s < Len(l) + 1 /\ s \in Nat
<1>1. /\ Len(L) = Len(l) + 1 /\ L[Len(l) + 1] = p /\ L \in Seq(Packet) /\ Len(l) \in Nat
      /\ \A s \in 1..Len(l) : L[s] = l[s]
  OBVIOUS
<1>2. \A s \in 1..Len(l) : s \in 1..Len(L) /\ s < Len(l) + 1 /\ s \in Nat
  BY <1>1
<1> QED BY <1>1, <1>2 DEF Within, Pkts, Direction

(* A longer log does not change what is true of a node.                    *)
LEMMA NodeKeeps ==
  ASSUME NEW l \in Seq(Packet), NEW p \in Packet, NEW L, L = Append(l, p),
         NEW nd, Within(nd, l), NodeHistory(nd, l)
  PROVE  NodeHistory(nd, L)
<1>1. /\ \A s \in Pkts(nd) : L[s] = l[s]
      /\ \A s \in nd.pkt["val"] : L[s] = l[s]
      /\ \A s \in nd.pkt["rval"] : L[s] = l[s]
  <2>1. \A s \in 1..Len(l) : L[s] = l[s]
    BY LogGrows
  <2> QED BY <2>1 DEF Within, Pkts, Direction
<1>2. Matches(nd, L)
  BY <1>1 DEF NodeHistory, Matches
<1>3. Teardown(nd, L)
  <2>1. /\ FinAcked(nd, L, "val", "rval") <=> FinAcked(nd, l, "val", "rval")
        /\ FinAcked(nd, L, "rval", "val") <=> FinAcked(nd, l, "rval", "val")
    BY <1>1 DEF FinAcked
  <2> QED BY <1>1, <2>1 DEF NodeHistory, Teardown
<1>4. StartsReverse(nd, L)
  BY <1>1 DEF NodeHistory, StartsReverse
<1> QED BY <1>2, <1>3, <1>4 DEF NodeHistory

(* c is nd with a packet p, number s and later than all others, added in   *)
(* direction a; b is the other direction.                                  *)
Adds(nd, c, l, L, a, b, s, p) ==
  /\ L[s] = p
  /\ c.pkt[a] = nd.pkt[a] \cup {s} /\ c.pkt[b] = nd.pkt[b]
  /\ \A i \in nd.pkt[a] : L[i] = l[i]
  /\ \A i \in nd.pkt[b] : L[i] = l[i] /\ i < s /\ ~(s < i)

(* Such a packet acknowledges none of its own side's FINs, ...             *)
LEMMA NotYetAcked ==
  ASSUME NEW nd, NEW c, NEW l, NEW L, NEW a, NEW b, NEW s, NEW p,
         Adds(nd, c, l, L, a, b, s, p)
  PROVE  FinAcked(c, L, a, b) <=> FinAcked(nd, l, a, b)
<1> USE DEF Adds
<1>1. ASSUME FinAcked(c, L, a, b) PROVE FinAcked(nd, l, a, b)
  <2>1. PICK i \in c.pkt[a], j \in c.pkt[b] :
          i < j /\ "FIN" \in L[i].flags /\ "ACK" \in L[j].flags
    BY <1>1 DEF FinAcked
  <2>2. i \in nd.pkt[a] /\ j \in nd.pkt[b]
    BY <2>1
  <2> QED BY <2>1, <2>2 DEF FinAcked
<1>2. ASSUME FinAcked(nd, l, a, b) PROVE FinAcked(c, L, a, b)
  <2>1. PICK i \in nd.pkt[a], j \in nd.pkt[b] :
          i < j /\ "FIN" \in l[i].flags /\ "ACK" \in l[j].flags
    BY <1>2 DEF FinAcked
  <2>2. i \in c.pkt[a] /\ j \in c.pkt[b] /\ L[i] = l[i] /\ L[j] = l[j]
    OBVIOUS
  <2> QED BY <2>1, <2>2 DEF FinAcked
<1> QED BY <1>1, <1>2

HasFin(nd, l, a) == \E i \in nd.pkt[a] : "FIN" \in l[i].flags
HasAck(p) == "ACK" \in p.flags

(* ... and with an ACK it acknowledges a FIN of the other side.            *)
LEMMA NowAcked ==
  ASSUME NEW nd, NEW c, NEW l, NEW L, NEW a, NEW b, NEW s, NEW p,
         Adds(nd, c, l, L, b, a, s, p)
  PROVE  FinAcked(c, L, a, b) <=>
           \/ FinAcked(nd, l, a, b)
           \/ HasFin(nd, l, a) /\ HasAck(p)
<1> USE DEF Adds, HasFin, HasAck
<1>1. ASSUME FinAcked(c, L, a, b)
      PROVE  \/ FinAcked(nd, l, a, b)
             \/ HasFin(nd, l, a) /\ HasAck(p)
  <2>1. PICK i \in c.pkt[a], j \in c.pkt[b] :
          i < j /\ "FIN" \in L[i].flags /\ "ACK" \in L[j].flags
    BY <1>1 DEF FinAcked
  <2>2. i \in nd.pkt[a] /\ L[i] = l[i]
    BY <2>1
  <2>3. CASE j = s
    BY <2>1, <2>2, <2>3
  <2>4. CASE j \in nd.pkt[b]
    BY <2>1, <2>2, <2>4 DEF FinAcked
  <2> QED BY <2>3, <2>4
<1>2. ASSUME FinAcked(nd, l, a, b) PROVE FinAcked(c, L, a, b)
  <2>1. PICK i \in nd.pkt[a], j \in nd.pkt[b] :
          i < j /\ "FIN" \in l[i].flags /\ "ACK" \in l[j].flags
    BY <1>2 DEF FinAcked
  <2>2. i \in c.pkt[a] /\ j \in c.pkt[b] /\ L[i] = l[i] /\ L[j] = l[j]
    OBVIOUS
  <2> QED BY <2>1, <2>2 DEF FinAcked
<1>3. ASSUME NEW i \in nd.pkt[a], "FIN" \in l[i].flags, "ACK" \in p.flags
      PROVE  FinAcked(c, L, a, b)
  <2>1. i \in c.pkt[a] /\ s \in c.pkt[b] /\ i < s /\ L[i] = l[i]
    OBVIOUS
  <2> QED BY <1>3, <2>1 DEF FinAcked
<1> QED BY <1>1, <1>2, <1>3

(* The teardown state stays what the packets say.                          *)
LEMMA CountTeardown ==
  ASSUME NEW l \in Seq(Packet), NEW p \in Packet, NEW L, L = Append(l, p),
         NEW nd \in Node, Within(nd, l), Teardown(nd, l),
         NEW d \in Direction, p.key = KeyIn(nd, d), NEW s, s = Len(l) + 1,
         NEW c, c = CountPacket(nd, d, p, s)
  PROVE  Teardown(c, L)
<1>1. /\ s \in Nat /\ L[s] = p
      /\ \A i \in nd.pkt["val"] : L[i] = l[i] /\ i < s /\ i \in Nat
      /\ \A i \in nd.pkt["rval"] : L[i] = l[i] /\ i < s /\ i \in Nat
  <2>1. /\ \A i \in 1..Len(l) : L[i] = l[i] /\ i < s /\ i \in Nat
        /\ s \in Nat /\ L[s] = p
    BY LogGrows
  <2> QED BY <2>1 DEF Within, Direction
<1>2. /\ "RST" \in c.state <=> "RST" \in nd.state \/ "RST" \in p.flags
      /\ "FFIN" \in c.state <=> "FFIN" \in nd.state \/ (d = "val" /\ "FIN" \in p.flags)
      /\ "RFIN" \in c.state <=> "RFIN" \in nd.state \/ (d = "rval" /\ "FIN" \in p.flags)
      /\ "FFINACK" \in c.state <=> \/ "FFINACK" \in nd.state
                                   \/ d = "val" /\ "RFIN" \in nd.state /\ "ACK" \in p.flags
      /\ "RFINACK" \in c.state <=> \/ "RFINACK" \in nd.state
                                   \/ d = "rval" /\ "FFIN" \in nd.state /\ "ACK" \in p.flags
  BY <1>1, CountState
<1>3. CASE d = "val"
  <2>1. /\ c.pkt["val"] = nd.pkt["val"] \cup {s} /\ c.pkt["rval"] = nd.pkt["rval"]
        /\ Pkts(c) = Pkts(nd) \cup {s} /\ d # "rval"
    BY <1>1, <1>3, CountPkts DEF Direction
  <2>2. ("RST" \in c.state) <=> \E i \in Pkts(c) : "RST" \in L[i].flags
    BY <1>1, <1>2, <2>1 DEF Teardown, Pkts
  <2>3. ("FFIN" \in c.state) <=> \E i \in c.pkt["val"] : "FIN" \in L[i].flags
    BY <1>1, <1>2, <1>3, <2>1, ZenonT(30) DEF Teardown
  <2>4. ("RFIN" \in c.state) <=> \E i \in c.pkt["rval"] : "FIN" \in L[i].flags
    BY <1>1, <1>2, <2>1 DEF Teardown
  <2>5. FinAcked(c, L, "val", "rval") <=> FinAcked(nd, l, "val", "rval")
    <3>1. \A j \in nd.pkt["rval"] : ~(s < j)
      BY <1>1
    <3>2. PICK a \in Direction, b \in Direction : a = "val" /\ b = "rval"
      BY DEF Direction
    <3>3. Adds(nd, c, l, L, a, b, s, p)
      BY <1>1, <2>1, <3>1, <3>2 DEF Adds
    <3>4. FinAcked(c, L, a, b) <=> FinAcked(nd, l, a, b)
      BY <3>3, NotYetAcked
    <3> QED BY <3>2, <3>4
  <2>6. FinAcked(c, L, "rval", "val") <=>
          \/ FinAcked(nd, l, "rval", "val")
          \/ (\E i \in nd.pkt["rval"] : "FIN" \in l[i].flags) /\ "ACK" \in p.flags
    <3>1. PICK a \in Direction, b \in Direction : a = "rval" /\ b = "val"
      BY DEF Direction
    <3>2. Adds(nd, c, l, L, b, a, s, p)
      <4>1. \A i \in nd.pkt[a] : ~(s < i)
        BY <1>1, <3>1
      <4> QED BY <1>1, <2>1, <3>1, <4>1 DEF Adds
    <3>3. FinAcked(c, L, a, b) <=>
            \/ FinAcked(nd, l, a, b)
            \/ HasFin(nd, l, a) /\ HasAck(p)
      BY <3>2, NowAcked
    <3> QED BY <1>1, <3>1, <3>3 DEF HasFin, HasAck
  <2> QED BY <1>2, <1>3, <2>1, <2>2, <2>3, <2>4, <2>5, <2>6 DEF Teardown
<1>4. CASE d = "rval"
  <2>1. /\ c.pkt["rval"] = nd.pkt["rval"] \cup {s} /\ c.pkt["val"] = nd.pkt["val"]
        /\ Pkts(c) = Pkts(nd) \cup {s} /\ d # "val"
    BY <1>1, <1>4, CountPkts DEF Direction
  <2>2. ("RST" \in c.state) <=> \E i \in Pkts(c) : "RST" \in L[i].flags
    BY <1>1, <1>2, <2>1, ZenonT(30) DEF Teardown, Pkts
  <2>3. ("FFIN" \in c.state) <=> \E i \in c.pkt["val"] : "FIN" \in L[i].flags
    BY <1>1, <1>2, <2>1 DEF Teardown
  <2>4. ("RFIN" \in c.state) <=> \E i \in c.pkt["rval"] : "FIN" \in L[i].flags
    BY <1>1, <1>2, <1>4, <2>1 DEF Teardown
  <2>5. FinAcked(c, L, "rval", "val") <=> FinAcked(nd, l, "rval", "val")
    <3>1. \A j \in nd.pkt["val"] : ~(s < j)
      BY <1>1
    <3>2. PICK a \in Direction, b \in Direction : a = "rval" /\ b = "val"
      BY DEF Direction
    <3>3. Adds(nd, c, l, L, a, b, s, p)
      BY <1>1, <2>1, <3>1, <3>2 DEF Adds
    <3>4. FinAcked(c, L, a, b) <=> FinAcked(nd, l, a, b)
      BY <3>3, NotYetAcked
    <3> QED BY <3>2, <3>4
  <2>6. FinAcked(c, L, "val", "rval") <=>
          \/ FinAcked(nd, l, "val", "rval")
          \/ (\E i \in nd.pkt["val"] : "FIN" \in l[i].flags) /\ "ACK" \in p.flags
    <3>1. PICK a \in Direction, b \in Direction : a = "val" /\ b = "rval"
      BY DEF Direction
    <3>2. Adds(nd, c, l, L, b, a, s, p)
      <4>1. \A i \in nd.pkt[a] : ~(s < i)
        BY <1>1, <3>1
      <4> QED BY <1>1, <2>1, <3>1, <4>1 DEF Adds
    <3>3. FinAcked(c, L, a, b) <=>
            \/ FinAcked(nd, l, a, b)
            \/ HasFin(nd, l, a) /\ HasAck(p)
      BY <3>2, NowAcked
    <3> QED BY <1>1, <3>1, <3>3 DEF HasFin, HasAck
  <2> QED BY <1>2, <1>4, <2>1, <2>2, <2>3, <2>4, <2>5, <2>6 DEF Teardown
<1> QED BY <1>3, <1>4 DEF Direction

(* The reverse start is that of the first reverse packet.                  *)
LEMMA CountReverse ==
  ASSUME NEW l \in Seq(Packet), NEW p \in Packet, NEW L, L = Append(l, p),
         NEW nd \in Node, Within(nd, l), StartsReverse(nd, l), nd.stime <= p.ptime,
         NEW d \in Direction, NEW s, s = Len(l) + 1,
         NEW c, c = CountPacket(nd, d, p, s)
  PROVE  StartsReverse(c, L)
<1>1. /\ s \in Nat /\ L[s] = p
      /\ \A i \in nd.pkt["rval"] : L[i] = l[i] /\ i < s /\ i \in Nat
  <2>1. /\ \A i \in 1..Len(l) : L[i] = l[i] /\ i < s /\ i \in Nat
        /\ s \in Nat /\ L[s] = p
    BY LogGrows
  <2> QED BY <2>1 DEF Within, Direction
<1>2. /\ c.stime = nd.stime
      /\ c.rdtime = IF nd.pkt[d] = {} /\ d = "rval" THEN p.ptime - nd.stime ELSE nd.rdtime
      /\ c.pkt[d] = nd.pkt[d] \cup {s}
      /\ \A e \in Direction : e # d => c.pkt[e] = nd.pkt[e]
  BY <1>1, CountPkts
<1>3. nd.stime \in Nat /\ p.ptime \in Nat
  BY PacketFields, NodeFields
<1>4. CASE d = "val"
  <2>1. c.pkt["rval"] = nd.pkt["rval"] /\ c.rdtime = nd.rdtime
    BY <1>2, <1>4 DEF Direction
  <2> QED BY <1>1, <1>2, <2>1 DEF StartsReverse
<1>5. CASE d = "rval" /\ nd.pkt["rval"] = {}
  <2>1. c.pkt["rval"] = {s} /\ c.rdtime = p.ptime - nd.stime
    BY <1>2, <1>5
  <2>2. c.stime + c.rdtime = p.ptime
    BY <1>2, <1>3, <2>1
  <2> QED BY <1>1, <2>1, <2>2 DEF StartsReverse
<1>6. CASE d = "rval" /\ nd.pkt["rval"] # {}
  <2>1. c.pkt["rval"] = nd.pkt["rval"] \cup {s} /\ c.rdtime = nd.rdtime
    BY <1>2, <1>6
  <2>2. PICK i \in nd.pkt["rval"] : /\ \A t \in nd.pkt["rval"] : i <= t
                                   /\ nd.stime + nd.rdtime = l[i].ptime
    BY <1>6 DEF StartsReverse
  <2>3. i \in Nat /\ i < s /\ L[i] = l[i]
    BY <1>1
  <2>4. i <= s
    BY <1>1, <2>3
  <2> QED BY <1>2, <2>1, <2>2, <2>3, <2>4 DEF StartsReverse
<1> QED BY <1>4, <1>5, <1>6 DEF Direction

(* Key and times of a node that a packet joins stay those of its packets.  *)
LEMMA CountMatches ==
  ASSUME NEW l \in Seq(Packet), NEW p \in Packet, NEW L, L = Append(l, p),
         NEW nd \in Node, Within(nd, l), Matches(nd, l),
         NEW d \in Direction, p.key = KeyIn(nd, d), NEW s, s = Len(l) + 1,
         nd.etime <= p.ptime,
         p.ptime - nd.stime <= active_ms, p.ptime - nd.etime <= idle_ms,
         NEW c, c = CountPacket(nd, d, p, s)
  PROVE  Matches(c, L)
<1>1. /\ s \in Nat /\ L[s] = p
      /\ \A i \in nd.pkt["val"] : L[i] = l[i] /\ i < s /\ i \in Nat
      /\ \A i \in nd.pkt["rval"] : L[i] = l[i] /\ i < s /\ i \in Nat
      /\ \A i \in Pkts(nd) : L[i] = l[i] /\ i < s /\ i \in Nat /\ l[i].ptime \in Nat
  <2>1. /\ \A i \in 1..Len(l) : L[i] = l[i] /\ i < s /\ i \in Nat
        /\ s \in Nat /\ L[s] = p
    BY LogGrows
  <2>2. \A i \in 1..Len(l) : l[i].ptime \in Nat
    BY PacketFields
  <2> QED BY <2>1, <2>2 DEF Within, Direction, Pkts
<1>2. /\ c.key = nd.key /\ c.stime = nd.stime /\ c.etime = p.ptime
      /\ c.pkt[d] = nd.pkt[d] \cup {s}
      /\ \A e \in Direction : e # d => c.pkt[e] = nd.pkt[e]
      /\ Pkts(c) = Pkts(nd) \cup {s}
  BY <1>1, CountPkts
<1>3. nd.stime \in Nat /\ nd.etime \in Nat /\ p.ptime \in Nat
  BY PacketFields, NodeFields
<1>4. nd.stime <= nd.etime
  <2>1. PICK i \in Pkts(nd) : l[i].ptime = nd.stime
    BY DEF Matches
  <2> QED BY <2>1 DEF Matches
<1>5. /\ c.pkt["val"] # {}
      /\ \A i \in c.pkt["val"] : L[i].key = c.key
      /\ \A i \in c.pkt["rval"] : L[i].key = yfFlowKeyReverse(c.key)
  <2>1. CASE d = "val"
    <3>1. c.pkt["val"] = nd.pkt["val"] \cup {s} /\ c.pkt["rval"] = nd.pkt["rval"]
          /\ p.key = nd.key
      BY <1>2, <2>1 DEF Direction, KeyIn
    <3>2. \A i \in c.pkt["val"] : L[i].key = nd.key
      BY <1>1, <3>1 DEF Matches
    <3>3. \A i \in c.pkt["rval"] : L[i].key = yfFlowKeyReverse(nd.key)
      BY <1>1, <3>1 DEF Matches
    <3> QED BY <1>2, <3>1, <3>2, <3>3
  <2>2. CASE d = "rval"
    <3>1. c.pkt["rval"] = nd.pkt["rval"] \cup {s} /\ c.pkt["val"] = nd.pkt["val"]
          /\ p.key = yfFlowKeyReverse(nd.key)
      BY <1>2, <2>2 DEF Direction, KeyIn
    <3>2. \A i \in c.pkt["rval"] : L[i].key = yfFlowKeyReverse(nd.key)
      BY <1>1, <3>1 DEF Matches
    <3>3. c.pkt["val"] # {} /\ \A i \in c.pkt["val"] : L[i].key = nd.key
      BY <1>1, <3>1 DEF Matches
    <3> QED BY <1>2, <3>2, <3>3
  <2> QED BY <2>1, <2>2 DEF Direction
<1>6. \A i \in Pkts(c) : c.stime <= L[i].ptime /\ L[i].ptime <= c.etime
  <2>1. ASSUME NEW i \in Pkts(nd)
        PROVE  nd.stime <= L[i].ptime /\ L[i].ptime <= p.ptime
    <3>1. nd.stime <= l[i].ptime /\ l[i].ptime <= nd.etime /\ l[i].ptime \in Nat /\ L[i] = l[i]
      BY <1>1 DEF Matches
    <3> QED BY <1>3, <3>1
  <2>2. nd.stime <= p.ptime
    BY <1>3, <1>4
  <2>3. p.ptime <= p.ptime
    BY <1>3
  <2> SUFFICES ASSUME NEW i \in Pkts(c)
               PROVE  nd.stime <= L[i].ptime /\ L[i].ptime <= p.ptime
    BY <1>2
  <2>4. i \in Pkts(nd) \/ i = s
    BY <1>2
  <2> QED BY <1>1, <2>1, <2>2, <2>3, <2>4
<1>7. (\E i \in Pkts(c) : L[i].ptime = c.stime) /\ (\E i \in Pkts(c) : L[i].ptime = c.etime)
  <2>1. PICK i \in Pkts(nd) : l[i].ptime = nd.stime
    BY DEF Matches
  <2>2. i \in Pkts(c) /\ L[i].ptime = c.stime
    BY <1>1, <1>2, <2>1
  <2>3. s \in Pkts(c) /\ L[s].ptime = c.etime
    BY <1>1, <1>2
  <2> QED BY <2>2, <2>3
<1>8. c.etime - c.stime <= active_ms
  BY <1>2
<1>9. \A i \in Pkts(c) :
        \/ L[i].ptime = c.etime
        \/ \E t \in Pkts(c) : t > i /\ L[t].ptime - L[i].ptime <= idle_ms
  <2>s. /\ \A i \in Pkts(c) : i = s \/ i \in Pkts(nd)
        /\ L[s].ptime = c.etime
    BY <1>1, <1>2
  <2> SUFFICES ASSUME NEW i \in Pkts(nd), i # s
               PROVE  \E t \in Pkts(c) : t > i /\ L[t].ptime - L[i].ptime <= idle_ms
    BY <2>s, Zenon
  <2>1. CASE l[i].ptime = nd.etime
    <3>1. s \in Pkts(c) /\ s > i /\ L[s].ptime - L[i].ptime <= idle_ms
      BY <1>1, <1>2, <2>1
    <3> QED BY <3>1
  <2>2. CASE l[i].ptime # nd.etime
    <3>1. PICK t \in Pkts(nd) : t > i /\ l[t].ptime - l[i].ptime <= idle_ms
      BY <2>2 DEF Matches
    <3>2. t \in Pkts(c) /\ L[t] = l[t] /\ L[i] = l[i]
      BY <1>1, <1>2
    <3> QED BY <3>1, <3>2
  <2> QED BY <2>1, <2>2
<1> QED BY <1>5, <1>6, <1>7, <1>8, <1>9 DEF Matches

(* A packet that belongs to a node keeps what is true of the node.         *)
LEMMA CountKeeps ==
  ASSUME NEW l \in Seq(Packet), NEW p \in Packet, NEW L, L = Append(l, p),
         NEW nd \in Node, Within(nd, l), NodeHistory(nd, l),
         NEW d \in Direction, p.key = KeyIn(nd, d), NEW s, s = Len(l) + 1,
         nd.etime <= p.ptime,
         p.ptime - nd.stime <= active_ms, p.ptime - nd.etime <= idle_ms,
         silkmode => nd.oct[d] + p.iplen <= OctMax,
         NEW c, c = CountPacket(nd, d, p, s)
  PROVE  NodeHistory(c, L)
<1>1. Matches(nd, l) /\ Teardown(nd, l) /\ StartsReverse(nd, l) /\ Fits(nd)
  BY DEF NodeHistory
<1>2. nd.stime <= p.ptime
  <2>1. nd.stime \in Nat /\ nd.etime \in Nat /\ p.ptime \in Nat
    BY PacketFields, NodeFields
  <2>2. PICK i \in Pkts(nd) : l[i].ptime = nd.stime
    BY <1>1 DEF Matches
  <2>3. nd.stime <= nd.etime
    BY <1>1, <2>2 DEF Matches
  <2> QED BY <2>1, <2>3
<1>3. Matches(c, L)
  BY <1>1, CountMatches
<1>4. Teardown(c, L)
  BY <1>1, CountTeardown
<1>5. StartsReverse(c, L)
  BY <1>1, <1>2, CountReverse
<1>6. Fits(c)
  <2>1. s \in Nat
    OBVIOUS
  <2>2. /\ c.oct[d] = nd.oct[d] + p.iplen
        /\ \A e \in Direction : e # d => c.oct[e] = nd.oct[e] /\ c.pkt[e] = nd.pkt[e]
    BY <2>1, CountPkts
  <2> QED BY <1>1, <2>2 DEF Fits
<1> QED BY <1>3, <1>4, <1>5, <1>6 DEF NodeHistory

(* The node c of flow ID fid has counted the packet p, number s, only.     *)
FirstOf(c, p, s, fid, cont) ==
  /\ fid \in Nat /\ cont \in BOOLEAN
  /\ c = CountPacket(FirstNode(p, fid, cont), "val", p, s)

FirstFields(c, p, s, fid, cont) ==
  /\ c.pkt["val"] = {s} /\ c.pkt["rval"] = {}
  /\ c.key = p.key /\ c.fid = fid /\ c.stime = p.ptime /\ c.etime = p.ptime
  /\ c.reason = "none" /\ c.iscont = cont

(* The first packet makes a node to which all of this applies.             *)
LEMMA FirstKeeps ==
  ASSUME NEW l \in Seq(Packet), NEW p \in Packet, NEW L, L = Append(l, p),
         NEW s, s = Len(l) + 1, NEW c, NEW fid, NEW cont, FirstOf(c, p, s, fid, cont)
  PROVE  NodeHistory(c, L) /\ FirstFields(c, p, s, fid, cont)
<1> DEFINE z == FirstNode(p, fid, cont)
<1>0. fid \in Nat /\ cont \in BOOLEAN /\ c = CountPacket(z, "val", p, s)
  BY DEF FirstOf
<1>1. /\ p.key \in Keys /\ p.ptime \in Nat /\ p.iplen \in Nat /\ p.iplen <= OctMax
      /\ active_ms \in Nat /\ OctMax \in Nat
  BY PacketFields, ConfigAssumption
<1>2. /\ z.key = p.key /\ z.fid = fid /\ z.stime = p.ptime /\ z.etime = p.ptime
      /\ z.reason = "none" /\ z.iscont = cont /\ z.state = {}
      /\ z.pkt = [d \in Direction |-> {}] /\ z.oct = [d \in Direction |-> 0]
      /\ z.rdtime = 0
  BY DEF FirstNode
<1>3. z \in Node
  <2>1. [d \in Direction |-> {}] \in [Direction -> SUBSET Nat]
    OBVIOUS
  <2>2. [d \in Direction |-> 0] \in [Direction -> Nat]
    OBVIOUS
  <2>3. "none" \in Reasons /\ {} \in SUBSET (FinBits \cup {"RST"}) /\ 0 \in Nat
    BY DEF Reasons
  <2> QED BY <1>0, <1>1, <2>1, <2>2, <2>3 DEF FirstNode, Node
<1> HIDE DEF z
<1>4. PICK d \in Direction : d = "val"
  BY DEF Direction
<1>5. s \in Nat /\ L[s] = p
  BY LogGrows
<1>6. c = CountPacket(z, d, p, s)
  BY <1>0, <1>4
<1>7. /\ c.pkt[d] = z.pkt[d] \cup {s}
      /\ \A e \in Direction : e # d => c.pkt[e] = z.pkt[e]
      /\ Pkts(c) = Pkts(z) \cup {s}
      /\ c.oct[d] = z.oct[d] + p.iplen
      /\ \A e \in Direction : e # d => c.oct[e] = z.oct[e]
      /\ c.key = z.key /\ c.fid = z.fid /\ c.stime = z.stime /\ c.etime = p.ptime
      /\ c.reason = z.reason /\ c.iscont = z.iscont
  BY <1>3, <1>5, <1>6, CountPkts
<1>8. /\ c.pkt["val"] = {s} /\ c.pkt["rval"] = {} /\ Pkts(c) = {s}
      /\ c.oct["val"] = p.iplen /\ c.oct["rval"] = 0
  <2>1. c.pkt["val"] = {s} /\ c.pkt["rval"] = {}
    BY <1>2, <1>4, <1>7 DEF Direction
  <2>2. Pkts(c) = {s}
    BY <2>1 DEF Pkts
  <2>3. c.oct["val"] = p.iplen /\ c.oct["rval"] = 0
    BY <1>1, <1>2, <1>4, <1>7 DEF Direction
  <2> QED BY <2>1, <2>2, <2>3
<1>9. /\ c.key = p.key /\ c.fid = fid /\ c.stime = p.ptime /\ c.etime = p.ptime
      /\ c.reason = "none" /\ c.iscont = cont
  BY <1>2, <1>7
<1>10. Matches(c, L)
  <2>1. c.etime - c.stime <= active_ms /\ p.ptime <= p.ptime
    BY <1>1, <1>9
  <2> QED BY <1>5, <1>8, <1>9, <2>1 DEF Matches
<1>11. Within(z, l)
  BY <1>2 DEF Within, Direction
<1>12. Teardown(c, L)
  <2>1. z.pkt["val"] = {} /\ z.pkt["rval"] = {} /\ Pkts(z) = {}
    BY <1>2 DEF Direction, Pkts
  <2>2. Teardown(z, l)
    BY <1>2, <2>1 DEF Teardown, FinAcked
  <2>3. p.key = KeyIn(z, d)
    BY <1>2, <1>4 DEF KeyIn
  <2> QED BY <1>3, <1>6, <1>11, <2>2, <2>3, CountTeardown
<1>13. StartsReverse(c, L)
  BY <1>8 DEF StartsReverse
<1>14. Fits(c)
  BY <1>1, <1>8 DEF Fits, Direction
<1> QED BY <1>8, <1>9, <1>10, <1>12, <1>13, <1>14 DEF NodeHistory, FirstFields

(* The two nodes differ at most in the end reason.                         *)
Alike(a, b) ==
  /\ b.key = a.key /\ b.fid = a.fid /\ b.stime = a.stime /\ b.etime = a.etime
  /\ b.rdtime = a.rdtime /\ b.iscont = a.iscont /\ b.state = a.state
  /\ b.pkt = a.pkt /\ b.oct = a.oct

LEMMA ReasonAlike ==
  ASSUME NEW nd \in Node, NEW r
  PROVE  Alike(nd, WithReason(nd, r)) /\ WithReason(nd, r).reason = r
BY DEF Alike, WithReason, Node

LEMMA AlikeKeeps ==
  ASSUME NEW a, NEW b, Alike(a, b), NEW l
  PROVE  /\ NodeHistory(a, l) => NodeHistory(b, l)
         /\ Within(a, l) => Within(b, l)
         /\ Finished(b) <=> Finished(a)
         /\ Pkts(b) = Pkts(a)
<1>1. Pkts(b) = Pkts(a)
  BY DEF Alike, Pkts
<1>2. Matches(a, l) => Matches(b, l)
  BY <1>1 DEF Alike, Matches
<1>3. Teardown(a, l) => Teardown(b, l)
  BY <1>1 DEF Alike, Teardown, FinAcked
<1>4. StartsReverse(a, l) => StartsReverse(b, l)
  BY DEF Alike, StartsReverse
<1>5. Fits(a) => Fits(b)
  BY DEF Alike, Fits
<1>6. Within(a, l) => Within(b, l)
  BY DEF Alike, Within
<1>7. Finished(b) <=> Finished(a)
  BY DEF Alike, Finished
<1> QED BY <1>1, <1>2, <1>3, <1>4, <1>5, <1>6, <1>7 DEF NodeHistory

----------------------------------------------------------------------------
(***************************************************************************)
(* The parts of the history that a change of some nodes keeps              *)
(***************************************************************************)
(* The packet s is counted in direction d of node n and in no other, and   *)
(* all other packets are where they were.                                  *)
CountedIn(f, g, s, n, d) ==
  /\ Len(f.node) <= Len(g.node) /\ Len(g.node) \in Nat
  /\ n \in 1..Len(g.node) /\ d \in Direction
  /\ \A k \in 1..Len(g.node), e \in Direction : \A t :
       t \in g.node[k].pkt[e] <=>
         \/ k \in 1..Len(f.node) /\ t \in f.node[k].pkt[e]
         \/ t = s /\ k = n /\ e = d

LEMMA CountsKeeps ==
  ASSUME NEW f, NEW g, NEW l \in Seq(Packet), NEW p \in Packet, Counts(f, l),
         NEW L, L = Append(l, p), NEW s, s = Len(l) + 1, NEW n, NEW d,
         g.stat_packets = f.stat_packets + 1, Len(f.node) \in Nat,
         CountedIn(f, g, s, n, d)
  PROVE  Counts(g, L)
<1>1. /\ Len(L) = s /\ s \in Nat /\ s \notin 1..Len(l)
      /\ \A t \in 1..Len(L) : t \in 1..Len(l) \/ t = s
      /\ \A t \in 1..Len(l) : t \in 1..Len(L) /\ t # s
      /\ s \in 1..Len(L)
  <2>1. Len(L) = s /\ s \in Nat /\ Len(l) \in Nat
    BY LogGrows
  <2> QED BY <2>1
<1>2. \A k \in 1..Len(f.node) : k \in 1..Len(g.node)
  BY DEF CountedIn
<1>3. g.stat_packets = Len(L)
  BY <1>1 DEF Counts
<1>4. ASSUME NEW k \in 1..Len(g.node), NEW e \in Direction
      PROVE  g.node[k].pkt[e] \subseteq 1..Len(L)
  <2> SUFFICES ASSUME NEW t, t \in g.node[k].pkt[e]
               PROVE  t \in 1..Len(L)
    OBVIOUS
  <2>1. t = s \/ (k \in 1..Len(f.node) /\ t \in f.node[k].pkt[e])
    BY DEF CountedIn
  <2> QED BY <1>1, <2>1 DEF Counts
<1>5. ASSUME NEW t \in 1..Len(L)
      PROVE  \E k \in 1..Len(g.node), e \in Direction : t \in g.node[k].pkt[e]
  <2>1. CASE t = s
    <3>1. n \in 1..Len(g.node) /\ d \in Direction /\ t \in g.node[n].pkt[d]
      BY <2>1 DEF CountedIn
    <3> QED BY <3>1
  <2>2. CASE t \in 1..Len(l)
    <3>1. PICK k \in 1..Len(f.node), e \in Direction : t \in f.node[k].pkt[e]
      BY <2>2 DEF Counts
    <3>2. k \in 1..Len(g.node) /\ t \in g.node[k].pkt[e]
      BY <1>2, <3>1 DEF CountedIn
    <3> QED BY <3>2
  <2> QED BY <1>1, <2>1, <2>2
<1>6. ASSUME NEW k \in 1..Len(g.node), NEW m \in 1..Len(g.node),
             NEW e \in Direction, NEW h \in Direction, NEW t \in 1..Len(L),
             t \in g.node[k].pkt[e], t \in g.node[m].pkt[h]
      PROVE  k = m /\ e = h
  <2>1. CASE t = s
    <3>1. \A j \in 1..Len(f.node), i \in Direction : t \notin f.node[j].pkt[i]
      BY <1>1, <2>1 DEF Counts
    <3> QED BY <1>6, <3>1 DEF CountedIn
  <2>2. CASE t \in 1..Len(l)
    <3>1. /\ k \in 1..Len(f.node) /\ t \in f.node[k].pkt[e]
          /\ m \in 1..Len(f.node) /\ t \in f.node[m].pkt[h]
      BY <1>1, <1>6, <2>2 DEF CountedIn
    <3> QED BY <2>2, <3>1 DEF Counts
  <2> QED BY <1>1, <2>1, <2>2
<1> QED BY <1>3, <1>4, <1>5, <1>6 DEF Counts

(* Only nodes of T differ in f and g: open nodes and new ones, which go to *)
(* the close queue when they are closed.                                   *)
ClosedInto(f, g, T) ==
  /\ Len(f.node) \in Nat /\ Len(g.node) \in Nat /\ Len(f.node) <= Len(g.node)
  /\ Distinct(g.cq) /\ g.stat_flows = f.stat_flows
  /\ \A k \in 1..Len(g.node) :
       /\ k \notin T => /\ k \in 1..Len(f.node) /\ g.node[k] = f.node[k]
                        /\ InQueue(g.cq, k) <=> InQueue(f.cq, k)
       /\ k \in T => /\ k \in 1..Len(f.node) => f.node[k].reason = "none"
                     /\ g.node[k].reason # "none" <=> InQueue(g.cq, k)

LEMMA PlacesKeeps ==
  ASSUME NEW f, NEW g, NEW T, NEW o, NEW x, Places(f, o, x), ClosedInto(f, g, T)
  PROVE  Places(g, o, x)
<1>0. \A k \in 1..Len(f.node) : k \in 1..Len(g.node)
  BY DEF ClosedInto
<1>1. \A k \in 1..Len(g.node) : InQueue(g.cq, k) => g.node[k].reason # "none"
  BY DEF Places, ClosedInto
<1>2. o \subseteq (1..Len(g.node)) \X RecordKinds
  BY <1>0 DEF Places
<1>3. g.stat_flows = Cardinality(o)
  BY DEF Places, ClosedInto
<1>4. \A k \in 1..Len(g.node), i \in RecordKinds :
        <<k, i>> \in o => g.node[k].reason # "none" /\ ~InQueue(g.cq, k)
  <2> SUFFICES ASSUME NEW k \in 1..Len(g.node), NEW i \in RecordKinds, <<k, i>> \in o
               PROVE  g.node[k].reason # "none" /\ ~InQueue(g.cq, k)
    OBVIOUS
  <2>1. k \in 1..Len(f.node)
    BY DEF Places
  <2>2. f.node[k].reason # "none" /\ ~InQueue(f.cq, k)
    BY <2>1 DEF Places
  <2> QED BY <2>1, <2>2 DEF ClosedInto
<1>5. x \subseteq 1..Len(g.node)
  BY <1>0 DEF Places
<1>6. \A k \in 1..Len(g.node) :
        k \in x <=> /\ g.node[k].reason # "none" /\ ~InQueue(g.cq, k)
                   /\ ~Complete(g, k, o)
  <2> SUFFICES ASSUME NEW k \in 1..Len(g.node)
               PROVE  k \in x <=> /\ g.node[k].reason # "none" /\ ~InQueue(g.cq, k)
                                 /\ ~Complete(g, k, o)
    OBVIOUS
  <2>1. CASE k \in T
    <3>1. k \notin x
      BY <2>1 DEF Places, ClosedInto
    <3>2. ~(g.node[k].reason # "none" /\ ~InQueue(g.cq, k))
      BY <2>1 DEF ClosedInto
    <3> QED BY <3>1, <3>2
  <2>2. CASE k \notin T
    <3>1. /\ k \in 1..Len(f.node) /\ g.node[k] = f.node[k]
          /\ InQueue(g.cq, k) <=> InQueue(f.cq, k)
      BY <2>2 DEF ClosedInto
    <3>2. Complete(g, k, o) <=> Complete(f, k, o)
      BY <3>1 DEF Complete
    <3>3. k \in x <=> /\ f.node[k].reason # "none" /\ ~InQueue(f.cq, k)
                     /\ ~Complete(f, k, o)
      BY <3>1 DEF Places
    <3> QED BY <3>1, <3>2, <3>3
  <2> QED BY <2>1, <2>2
<1> QED BY <1>1, <1>2, <1>3, <1>4, <1>5, <1>6 DEF Places, ClosedInto

(* Nodes keep their IDs, and only open ones are changed.                   *)
Relabelled(f, g) ==
  /\ Len(g.node) = Len(f.node) /\ g.next_fid = f.next_fid
  /\ \A k \in 1..Len(f.node) :
       /\ g.node[k].key = f.node[k].key /\ g.node[k].fid = f.node[k].fid
       /\ g.node[k].stime = f.node[k].stime /\ g.node[k].iscont = f.node[k].iscont
       /\ \/ g.node[k] = f.node[k]
          \/ f.node[k].reason = "none" /\ g.node[k].reason # "ACTIVE"

LEMMA LinksKeeps ==
  ASSUME NEW f, NEW g, Links(f), Relabelled(f, g)
  PROVE  Links(g)
<1>1. g.next_fid > 0 /\ \A n \in 1..Len(g.node) : g.node[n].fid \in 1..(g.next_fid - 1)
  BY DEF Links, Relabelled
<1>2. \A n \in 1..Len(f.node) : (g.node[n].reason = "ACTIVE") <=> (f.node[n].reason = "ACTIVE")
  BY DEF Relabelled
<1>3. ASSUME NEW n \in 1..Len(g.node), NEW m \in 1..Len(g.node),
             n < m, g.node[n].fid = g.node[m].fid
      PROVE  /\ SameConversation(g.node[n].key, g.node[m].key)
             /\ g.node[n].reason \in {"ACTIVE", "IDLE"}
             /\ g.node[n].etime <= g.node[m].stime
  <2>1. n \in 1..Len(f.node) /\ m \in 1..Len(f.node) /\ f.node[n].fid = f.node[m].fid
    BY <1>3 DEF Relabelled
  <2>2. /\ SameConversation(f.node[n].key, f.node[m].key)
        /\ f.node[n].reason \in {"ACTIVE", "IDLE"}
        /\ f.node[n].etime <= f.node[m].stime
    BY <1>3, <2>1 DEF Links
  <2>3. g.node[n] = f.node[n] /\ g.node[m].key = f.node[m].key
        /\ g.node[m].stime = f.node[m].stime
    BY <2>1, <2>2 DEF Relabelled
  <2> QED BY <2>2, <2>3
<1>4. ASSUME NEW n \in 1..Len(g.node), g.node[n].reason = "ACTIVE"
      PROVE  \E m \in 1..Len(g.node) : m > n /\ g.node[m].fid = g.node[n].fid
  <2>1. n \in 1..Len(f.node) /\ f.node[n].reason = "ACTIVE"
    BY <1>2, <1>4 DEF Relabelled
  <2>2. PICK m \in 1..Len(f.node) : m > n /\ f.node[m].fid = f.node[n].fid
    BY <2>1 DEF Links
  <2> QED BY <2>1, <2>2 DEF Relabelled
<1>5. \A m, n \in 1..Len(f.node) : Before(g, m, n) <=> Before(f, m, n)
  BY DEF Before, Relabelled
<1>6. ASSUME silkmode, NEW n \in 1..Len(g.node)
      PROVE  g.node[n].iscont <=>
               \E m \in 1..Len(g.node) : Before(g, m, n) /\ g.node[m].reason = "ACTIVE"
  <2>1. n \in 1..Len(f.node) /\ g.node[n].iscont = f.node[n].iscont /\ Len(g.node) = Len(f.node)
    BY DEF Relabelled
  <2>2. f.node[n].iscont <=>
          \E m \in 1..Len(f.node) : Before(f, m, n) /\ f.node[m].reason = "ACTIVE"
    BY <1>6, <2>1 DEF Links
  <2> QED BY <1>2, <1>5, <2>1, <2>2
<1> QED BY <1>1, <1>3, <1>4, <1>6 DEF Links

(* A closed flow of f is unchanged in g.                                   *)
Frozen(f, g) ==
  /\ Len(f.node) \in Nat /\ Len(g.node) \in Nat /\ Len(f.node) <= Len(g.node)
  /\ \A k \in 1..Len(f.node) : f.node[k].reason # "none" => g.node[k] = f.node[k]

LEMMA FrozenTransitive ==
  ASSUME NEW f, NEW g, NEW h, Frozen(f, g), Frozen(g, h)
  PROVE  Frozen(f, h)
<1>1. /\ Len(f.node) \in Nat /\ Len(g.node) \in Nat /\ Len(h.node) \in Nat
      /\ Len(f.node) <= Len(g.node) /\ Len(g.node) <= Len(h.node)
  BY DEF Frozen
<1>2. Len(f.node) <= Len(h.node) /\ \A k \in 1..Len(f.node) : k \in 1..Len(g.node)
  BY <1>1
<1> QED BY <1>1, <1>2 DEF Frozen

----------------------------------------------------------------------------
(***************************************************************************)
(* A packet keeps the history                                              *)
(***************************************************************************)
(* A node after the packet was counted, as nd.                             *)
LEMMA SettledFields ==
  ASSUME NEW nd \in Node, NEW h, h = Settled(nd), nd.reason = "none"
  PROVE  /\ Alike(nd, h)
         /\ h.reason = IF Finished(nd) THEN "CLOSED" ELSE "none"
<1>1. CASE Finished(nd)
  <2>1. PICK r : r = "CLOSED"
    OBVIOUS
  <2>2. h = WithReason(nd, r)
    BY <1>1, <2>1 DEF Settled
  <2> QED BY <1>1, <2>1, <2>2, ReasonAlike
<1>2. CASE ~Finished(nd)
  BY <1>2 DEF Settled, Alike
<1> QED BY <1>1, <1>2

LEMMA AppendQueue ==
  ASSUME NEW q \in Seq(Nat), NEW n \in Nat, NEW r, r = Append(q, n)
  PROVE  /\ r \in Seq(Nat)
         /\ \A k : InQueue(r, k) <=> InQueue(q, k) \/ k = n
         /\ Distinct(q) /\ ~InQueue(q, n) => Distinct(r)
<1>1. /\ r \in Seq(Nat) /\ Len(r) = Len(q) + 1 /\ Len(q) \in Nat /\ r[Len(q) + 1] = n
      /\ \A i \in 1..Len(q) : r[i] = q[i] /\ i \in 1..Len(r)
      /\ \A i \in 1..Len(r) : i \in 1..Len(q) \/ i = Len(q) + 1
      /\ Len(q) + 1 \in 1..Len(r)
  OBVIOUS
<1>2. \A k : InQueue(r, k) <=> InQueue(q, k) \/ k = n
  BY <1>1 DEF InQueue
<1>3. Distinct(q) /\ ~InQueue(q, n) => Distinct(r)
  BY <1>1 DEF InQueue, Distinct
<1> QED BY <1>1, <1>2, <1>3

LEMMA JoinedKeeps ==
  ASSUME NEW f, WellFormed(f, 0, 0), NEW l \in Seq(Packet), NEW o, NEW x, NEW ph,
         History(f, l, o, x, ph), NEW p \in Packet, ~(p.ptime < f.ctime),
         NEW g, NEW n \in Nat, NEW d \in Direction, NEW nd \in Node,
         Joined(f, g, p, n, d, nd), NEW L, L = Append(l, p)
  PROVE  History(g, L, o, x, ph) /\ Frozen(f, g)
<1> DEFINE a == f.node[n]
           h == g.node[n]
           s == Len(l) + 1
<1>1. /\ f \in FlowTab /\ f.node \in Seq(Node) /\ f.cq \in Seq(Nat) /\ f.aq \in Seq(Nat)
      /\ Len(f.node) \in Nat /\ f.ctime \in Nat /\ p.ptime \in Nat
  BY TabFields, PacketFields DEF WellFormed
<1>2. /\ n \in 1..Len(f.node) /\ InQueue(f.aq, n) /\ a \in Node
      /\ p.key = KeyIn(a, d)
      /\ p.ptime - a.stime <= active_ms
      /\ p.ptime - a.etime <= idle_ms
      /\ silkmode => a.oct[d] + p.iplen <= OctMax
  BY <1>1 DEF Joined, Belongs
<1>3. f.stat_packets = Len(l) /\ s \in Nat
  BY DEF History, Counts
<1>4. nd = CountPacket(a, d, p, s)
  BY <1>3 DEF Joined
<1>5. /\ Len(g.node) = Len(f.node) /\ h = Settled(nd)
      /\ \A k \in 1..Len(f.node) : k # n => g.node[k] = f.node[k]
  BY DEF Joined, NodeIs
<1> HIDE DEF a, h, s
<1>6. /\ nd.pkt[d] = a.pkt[d] \cup {s}
      /\ \A e \in Direction : e # d => nd.pkt[e] = a.pkt[e]
      /\ nd.key = a.key /\ nd.fid = a.fid /\ nd.stime = a.stime /\ nd.etime = p.ptime
      /\ nd.reason = a.reason /\ nd.iscont = a.iscont
  BY <1>2, <1>3, <1>4, CountPkts
<1>7. a.reason = "none"
  BY <1>2 DEF History, Ended, a
<1>8. Alike(nd, h) /\ h.reason = IF Finished(nd) THEN "CLOSED" ELSE "none"
  BY <1>5, <1>6, <1>7, SettledFields
<1>9. \A k \in 1..Len(f.node) : Within(f.node[k], l) /\ NodeHistory(f.node[k], l)
  BY DEF History, Counts, Within
<1>10. a.etime <= p.ptime
  <2>1. a.etime <= f.ctime /\ a.etime \in Nat
    BY <1>2, NodeFields DEF WellFormed, WFOrder, InQueue, a
  <2> QED BY <1>1, <2>1
<1>11. Counts(g, L)
  <2>1. CountedIn(f, g, s, n, d)
    BY <1>1, <1>2, <1>5, <1>6, <1>8, SMTT(30) DEF CountedIn, Alike, a, h
  <2> QED BY <1>1, <1>3, <2>1, CountsKeeps DEF Joined, Advanced, History, s
<1>12. ASSUME NEW k \in 1..Len(g.node)
       PROVE  NodeHistory(g.node[k], L)
  <2>1. CASE k = n
    <3>1. NodeHistory(nd, L)
      BY <1>2, <1>4, <1>9, <1>10, CountKeeps DEF a, s
    <3> QED BY <1>8, <2>1, <3>1, AlikeKeeps DEF h
  <2>2. CASE k # n
    BY <1>5, <1>9, <2>2, NodeKeeps
  <2> QED BY <2>1, <2>2
<1>13. Links(g)
  <2>1. Relabelled(f, g)
    BY <1>2, <1>5, <1>6, <1>7, <1>8, ZenonT(30) DEF Relabelled, Alike, Joined, a, h
  <2> QED BY <2>1, LinksKeeps DEF History
<1>14. Ended(g, L, ph)
  <2> SUFFICES ASSUME NEW k \in 1..Len(f.node)
               PROVE  /\ InQueue(g.aq, k) <=> g.node[k].reason = "none"
                      /\ g.node[k].reason = "IDLE" => g.ctime - g.node[k].etime > idle_ms
                      /\ g.node[k].reason = "ACTIVE" => \E i \in 1..Len(L) : CutBy(g.node[k], L, i)
                      /\ g.node[k].reason = "CLOSED" <=> Finished(g.node[k])
                      /\ g.node[k].reason = "RESOURCE" => max_flows # 0
                      /\ g.node[k].reason = "FORCED" => ph # "open"
    BY <1>5 DEF Ended
  <2>1. CASE k = n
    <3>1. Finished(h) <=> Finished(nd)
      BY <1>8, AlikeKeeps
    <3>2. InQueue(g.aq, n) <=> ~Finished(nd)
      BY DEF Joined
    <3> QED BY <1>8, <2>1, <3>1, <3>2 DEF h
  <2>2. CASE k # n
    <3>1. g.node[k] = f.node[k] /\ k \in Nat /\ f.node[k] \in Node
      BY <1>1, <1>5, <2>2
    <3>2. /\ InQueue(f.aq, k) <=> f.node[k].reason = "none"
          /\ f.node[k].reason = "IDLE" => f.ctime - f.node[k].etime > idle_ms
          /\ f.node[k].reason = "ACTIVE" => \E i \in 1..Len(l) : CutBy(f.node[k], l, i)
          /\ f.node[k].reason = "CLOSED" <=> Finished(f.node[k])
          /\ f.node[k].reason = "RESOURCE" => max_flows # 0
          /\ f.node[k].reason = "FORCED" => ph # "open"
      BY DEF History, Ended
    <3>3. InQueue(g.aq, k) <=> InQueue(f.aq, k)
      BY <2>2, <3>1 DEF Joined
    <3>4. f.ctime - f.node[k].etime > idle_ms => g.ctime - f.node[k].etime > idle_ms
      <4>1. g.ctime = p.ptime /\ f.node[k].etime \in Nat
        BY <3>1, NodeFields DEF Joined, Advanced
      <4>2. f.ctime <= p.ptime /\ idle_ms \in Nat
        BY <1>1, ConfigAssumption
      <4> QED BY <1>1, <4>1, <4>2, SMTT(30)
    <3>5. (\E i \in 1..Len(l) : CutBy(f.node[k], l, i)) => \E i \in 1..Len(L) : CutBy(f.node[k], L, i)
      BY LogGrows, SMTT(30) DEF CutBy
    <3> QED BY <3>1, <3>2, <3>3, <3>4, <3>5
  <2> QED BY <2>1, <2>2
<1>15. Places(g, o, x)
  <2>1. ~InQueue(f.cq, n) /\ Distinct(f.cq)
    BY <1>2, <1>7 DEF History, Places, a
  <2>2. g.cq = IF Finished(nd) THEN Append(f.cq, n) ELSE f.cq
    BY DEF Joined
  <2>3. Distinct(g.cq) /\ \A k : InQueue(g.cq, k) <=> InQueue(f.cq, k) \/ (Finished(nd) /\ k = n)
    BY <1>1, <2>1, <2>2, AppendQueue
  <2>4. ClosedInto(f, g, {n})
    BY <1>1, <1>2, <1>5, <1>7, <1>8, <2>1, <2>3 DEF ClosedInto, Joined, Advanced, a, h
  <2> QED BY <2>4, PlacesKeeps DEF History
<1>16. Frozen(f, g)
  BY <1>1, <1>5, <1>7, SMTT(30) DEF Frozen, a
<1> QED BY <1>11, <1>12, <1>13, <1>14, <1>15, <1>16 DEF History

LEMMA Chain ==
  ASSUME NEW a \in Nat, NEW b \in Nat, NEW c \in Nat, NEW d \in Nat, a <= b, b <= c, c <= d
  PROVE  a <= d
OBVIOUS

LEMMA Conversations ==
  ASSUME NEW i \in Keys, NEW j \in Keys, NEW k \in Keys
  PROVE  /\ SameConversation(i, j) => SameConversation(j, i)
         /\ SameConversation(i, j) /\ SameConversation(j, k) => SameConversation(i, k)
BY ReverseReverse DEF SameConversation

(* The node h is a flow of its own (m is 0), or continues node m, which    *)
(* was open till then.                                                     *)
Continues(f, g, m, r, h) ==
  \/ /\ m = 0 /\ h.fid = f.next_fid /\ ~h.iscont
     /\ g.next_fid = f.next_fid + 1
  \/ /\ m \in 1..Len(f.node) /\ f.node[m].reason = "none"
     /\ Alike(f.node[m], g.node[m]) /\ g.node[m].reason = r
     /\ r \in {"ACTIVE", "IDLE"}
     /\ SameConversation(f.node[m].key, h.key)
     /\ f.node[m].stime <= f.node[m].etime /\ f.node[m].etime <= h.stime
     /\ h.stime \in Nat
     /\ h.fid = f.node[m].fid /\ (silkmode => (h.iscont <=> r = "ACTIVE"))
     /\ g.next_fid = f.next_fid

(* A new last node n of the table is linked to the node that it continues. *)
LEMMA LinksGrow ==
  ASSUME NEW f \in FlowTab, Links(f), NEW g, NEW n, n = Len(f.node) + 1,
         Len(g.node) = n, NEW h, h = g.node[n], h.reason # "ACTIVE", h.key \in Keys,
         NEW m \in Nat, NEW r,
         \A k \in 1..Len(f.node) : k # m => g.node[k] = f.node[k],
         Continues(f, g, m, r, h)
  PROVE  Links(g)
<1>u. m = 0 => h.fid = f.next_fid /\ ~h.iscont /\ g.next_fid = f.next_fid + 1
  BY DEF Continues
<1>v. m # 0 =>
        /\ m \in 1..Len(f.node) /\ f.node[m].reason = "none"
        /\ Alike(f.node[m], g.node[m]) /\ g.node[m].reason = r
        /\ r \in {"ACTIVE", "IDLE"}
        /\ SameConversation(f.node[m].key, h.key)
        /\ f.node[m].stime <= f.node[m].etime /\ f.node[m].etime <= h.stime
        /\ h.stime \in Nat
        /\ h.fid = f.node[m].fid /\ (silkmode => (h.iscont <=> r = "ACTIVE"))
        /\ g.next_fid = f.next_fid
  BY DEF Continues
<1>w. m = 0 \/ m \in 1..Len(f.node)
  BY <1>v
<1> USE <1>u, <1>v, <1>w
<1>1. /\ f.node \in Seq(Node) /\ Len(f.node) \in Nat /\ f.next_fid \in Nat /\ n \in Nat
      /\ \A k \in 1..n : k \in 1..Len(f.node) \/ k = n
      /\ \A k \in 1..Len(f.node) : k \in 1..n /\ k < n /\ k # n /\ ~(n < k)
      /\ n \in 1..n
  <2>1. f.node \in Seq(Node) /\ f.next_fid \in Nat
    BY DEF FlowTab
  <2>2. Len(f.node) \in Nat
    BY <2>1
  <2> QED BY <2>1, <2>2
<1>2. \A k \in 1..Len(f.node) :
        /\ Alike(f.node[k], g.node[k])
        /\ g.node[k].reason = IF k = m THEN r ELSE f.node[k].reason
  BY SMTT(30) DEF Alike
<1>x. \A k \in 1..Len(f.node) :
        /\ g.node[k].key = f.node[k].key /\ g.node[k].fid = f.node[k].fid
        /\ g.node[k].stime = f.node[k].stime /\ g.node[k].etime = f.node[k].etime
        /\ g.node[k].reason = IF k = m THEN r ELSE f.node[k].reason
  BY <1>2 DEF Alike
<1>3. \A k \in 1..Len(f.node) :
        /\ f.node[k].key \in Keys /\ f.node[k].stime \in Nat /\ f.node[k].etime \in Nat
        /\ f.node[k].fid \in Nat /\ f.node[k].fid < f.next_fid /\ f.node[k].fid > 0
  <2>1. \A k \in 1..Len(f.node) : f.node[k].fid \in 1..(f.next_fid - 1)
    BY DEF Links
  <2>2. \A k \in 1..Len(f.node) : f.node[k] \in Node
    BY <1>1
  <2>3. \A k \in 1..Len(f.node) :
          f.node[k].key \in Keys /\ f.node[k].stime \in Nat /\ f.node[k].etime \in Nat
    BY <2>2, NodeFields, Zenon
  <2>4. \A x : x \in 1..(f.next_fid - 1) => x \in Nat /\ x < f.next_fid /\ x > 0
    BY <1>1
  <2> QED BY <2>1, <2>3, <2>4, Zenon
<1>4. \A k \in 1..Len(f.node) : m < k => f.node[k].fid # f.node[m].fid \/ m = 0
  BY DEF Links
<1>5. \A k \in 1..Len(g.node) : g.node[k].fid \in 1..(g.next_fid - 1)
  <2> SUFFICES ASSUME NEW k \in 1..n
               PROVE  g.node[k].fid \in Nat /\ g.node[k].fid > 0 /\ g.node[k].fid < g.next_fid
                      /\ g.next_fid \in Nat
    OBVIOUS
  <2>1. CASE k = n
    <3>1. CASE m = 0
      <4>1. h.fid = f.next_fid /\ g.next_fid = f.next_fid + 1 /\ f.next_fid > 0
        BY <3>1 DEF Links
      <4> QED BY <1>1, <2>1, <4>1
    <3>2. CASE m \in 1..Len(f.node)
      <4>1. m # 0
        BY <3>2
      <4>2. h.fid = f.node[m].fid /\ g.next_fid = f.next_fid
        BY <4>1, Zenon
      <4> QED BY <1>1, <1>3, <2>1, <3>2, <4>2, Zenon
    <3> QED BY <3>1, <3>2, <1>w, Zenon
  <2>2. CASE k \in 1..Len(f.node)
    <3>1. g.node[k].fid = f.node[k].fid /\ f.next_fid <= g.next_fid /\ g.next_fid \in Nat
      BY <1>1, <1>x, <2>2
    <3> QED BY <1>1, <1>3, <2>2, <3>1
  <2> QED BY <1>1, <2>1, <2>2
<1>6. ASSUME NEW j \in 1..n, NEW k \in 1..n, j < k, g.node[j].fid = g.node[k].fid
      PROVE  /\ SameConversation(g.node[j].key, g.node[k].key)
             /\ g.node[j].reason \in {"ACTIVE", "IDLE"}
             /\ g.node[j].etime <= g.node[k].stime
  <2>1. j \in 1..Len(f.node)
    BY <1>1, <1>6
  <2>2. CASE k \in 1..Len(f.node)
    <3>1. f.node[j].fid = f.node[k].fid
      BY <1>2, <1>6, <2>1, <2>2 DEF Alike
    <3>2. /\ SameConversation(f.node[j].key, f.node[k].key)
          /\ f.node[j].reason \in {"ACTIVE", "IDLE"}
          /\ f.node[j].etime <= f.node[k].stime
      BY <1>6, <2>1, <2>2, <3>1 DEF Links
    <3>3. j # m
      BY <3>2
    <3> QED BY <1>2, <2>1, <2>2, <3>2, <3>3 DEF Alike
  <2>3. CASE k = n
    <3>1. f.node[j].fid = h.fid
      BY <1>2, <1>6, <2>1, <2>3 DEF Alike
    <3>2. m \in 1..Len(f.node) /\ f.node[j].fid = f.node[m].fid
      BY <1>1, <1>3, <2>1, <3>1
    <3>3. CASE j = m
      BY <1>x, <2>1, <2>3, <3>2, <3>3
    <3>4. CASE j # m
      <4>1. j < m
        BY <1>4, <2>1, <3>2, <3>4
      <4>2. /\ SameConversation(f.node[j].key, f.node[m].key)
            /\ f.node[j].reason \in {"ACTIVE", "IDLE"}
            /\ f.node[j].etime <= f.node[m].stime
        BY <2>1, <3>2, <4>1 DEF Links
      <4>3. SameConversation(f.node[j].key, h.key)
        <5>1. SameConversation(f.node[m].key, h.key)
          BY <1>1, <3>2
        <5>2. f.node[j].key \in Keys /\ f.node[m].key \in Keys
          BY <1>3, <2>1, <3>2
        <5> QED BY <4>2, <5>1, <5>2, Conversations
      <4>4. f.node[j].etime <= h.stime
        <5>1. /\ f.node[j].etime \in Nat /\ f.node[m].stime \in Nat /\ f.node[m].etime \in Nat
              /\ f.node[m].stime <= f.node[m].etime /\ f.node[m].etime <= h.stime /\ h.stime \in Nat
          BY <1>3, <2>1, <3>2
        <5>2. f.node[j].etime <= f.node[m].stime
          BY <4>2
        <5> QED BY <5>1, <5>2, Chain, SMTT(30)
      <4> QED BY <1>2, <2>1, <2>3, <3>4, <4>2, <4>3, <4>4 DEF Alike
    <3> QED BY <3>3, <3>4
  <2> QED BY <1>1, <2>2, <2>3
<1>7. ASSUME NEW k \in 1..n, g.node[k].reason = "ACTIVE"
      PROVE  \E j \in 1..n : j > k /\ g.node[j].fid = g.node[k].fid
  <2>1. k \in 1..Len(f.node)
    BY <1>1, <1>7
  <2>2. CASE k = m
    <3>1. n > k /\ g.node[n].fid = g.node[k].fid
      BY <1>1, <1>x, <2>1, <2>2
    <3> QED BY <1>1, <3>1
  <2>3. CASE k # m
    <3>1. PICK j \in 1..Len(f.node) : j > k /\ f.node[j].fid = f.node[k].fid
      BY <1>2, <1>7, <2>1, <2>3 DEF Links
    <3>2. j \in 1..n /\ g.node[j].fid = g.node[k].fid
      BY <1>1, <1>2, <2>1, <3>1 DEF Alike
    <3> QED BY <3>1, <3>2
  <2> QED BY <2>2, <2>3
<1>8. \A k \in 1..Len(f.node) : g.node[k].fid = f.node[k].fid
  BY <1>2 DEF Alike
<1>9. ASSUME silkmode, NEW k \in 1..Len(f.node)
      PROVE  g.node[k].iscont <=>
               \E j \in 1..n : Before(g, j, k) /\ g.node[j].reason = "ACTIVE"
  <2>1. f.node[k].iscont <=>
          \E j \in 1..Len(f.node) : Before(f, j, k) /\ f.node[j].reason = "ACTIVE"
    BY <1>9 DEF Links
  <2>2. g.node[k].iscont = f.node[k].iscont
    BY <1>2 DEF Alike
  <2>3. \A j \in 1..Len(f.node) : Before(g, j, k) <=> Before(f, j, k)
    <3>1. \A i \in 1..Len(g.node) : i < k => i \in 1..Len(f.node)
      BY <1>1
    <3> QED BY <1>1, <1>8, <3>1 DEF Before
  <2>4. \A j \in 1..Len(f.node) :
          Before(f, j, k) => (g.node[j].reason = "ACTIVE" <=> f.node[j].reason = "ACTIVE")
    BY <1>2, <1>4 DEF Before
  <2>5. ~Before(g, n, k)
    BY <1>1 DEF Before
  <2> QED BY <1>1, <2>1, <2>2, <2>3, <2>4, <2>5
<1>10. ASSUME silkmode
       PROVE  h.iscont <=>
                \E j \in 1..n : Before(g, j, n) /\ g.node[j].reason = "ACTIVE"
  <2>1. CASE m = 0
    <3>1. ~h.iscont /\ h.fid = f.next_fid
      BY <2>1
    <3>2. \A j \in 1..Len(f.node) : g.node[j].fid # h.fid
      BY <1>1, <1>3, <1>8, <3>1
    <3>3. \A j \in 1..n : ~Before(g, j, n)
      BY <1>1, <3>2 DEF Before
    <3> QED BY <3>1, <3>3
  <2>2. CASE m \in 1..Len(f.node)
    <3>1. h.fid = f.node[m].fid /\ (h.iscont <=> r = "ACTIVE")
      BY <1>1, <1>10, <2>2
    <3>2. Before(g, m, n)
      BY <1>1, <1>4, <1>8, <2>2, <3>1, SMTT(30) DEF Before
    <3>3. \A j \in 1..n : Before(g, j, n) => j = m
      <4> SUFFICES ASSUME NEW j \in 1..n, Before(g, j, n), j # m
                   PROVE  FALSE
        OBVIOUS
      <4>1. j \in 1..Len(f.node) /\ f.node[j].fid = f.node[m].fid
        BY <1>1, <1>8, <3>1 DEF Before
      <4>2. j < m
        BY <1>4, <2>2, <4>1
      <4>3. m < n /\ m \in 1..Len(g.node) /\ g.node[m].fid = g.node[n].fid
        BY <1>1, <1>8, <2>2, <3>1
      <4> QED BY <4>2, <4>3 DEF Before
    <3>4. g.node[m].reason = r /\ m \in 1..n
      BY <1>1, <1>2, <2>2
    <3> QED BY <3>1, <3>2, <3>3, <3>4
  <2> QED BY <2>1, <2>2
<1>11. g.next_fid > 0
  BY <1>1 DEF Links
<1>12. silkmode => \A k \in 1..n :
         g.node[k].iscont <=> \E j \in 1..n : Before(g, j, k) /\ g.node[j].reason = "ACTIVE"
  <2> SUFFICES ASSUME silkmode, NEW k \in 1..n
               PROVE  g.node[k].iscont <=>
                        \E j \in 1..n : Before(g, j, k) /\ g.node[j].reason = "ACTIVE"
    OBVIOUS
  <2>1. CASE k = n
    BY <1>10, <2>1
  <2>2. CASE k \in 1..Len(f.node)
    BY <1>9, <2>2
  <2> QED BY <1>1, <2>1, <2>2
<1> HIDE <1>u, <1>v, <1>w
<1> QED BY <1>5, <1>6, <1>7, <1>11, <1>12 DEF Links

(* The flow ID and the flag of the node that is made, and the node that it *)
(* continues.                                                              *)
Follows(f, g, p, m, r, fid, cont) ==
  \/ /\ m = 0 /\ fid = f.next_fid /\ ~cont
     /\ g.next_fid = f.next_fid + 1
  \/ /\ m \in 1..Len(f.node) /\ Cuts(f, p, m, r) /\ fid = f.node[m].fid
     /\ cont <=> (silkmode /\ r = "ACTIVE")
     /\ g.next_fid = f.next_fid

LEMMA OpenedNode ==
  ASSUME NEW f \in FlowTab, NEW g, NEW p \in Packet, NEW m \in Nat, NEW r, NEW n, NEW nd,
         Opened(f, g, p, m, r, n, nd), NEW s, s = f.stat_packets + 1
  PROVE  \E fid, cont : Follows(f, g, p, m, r, fid, cont) /\ FirstOf(nd, p, s, fid, cont)
<1>1. CASE /\ m = 0
           /\ nd = CountPacket(Made(p, f.next_fid), "val", p, s)
           /\ g.next_fid = f.next_fid + 1
  <2>1. f.next_fid \in Nat
    BY DEF FlowTab
  <2>2. PICK c \in BOOLEAN : c = FALSE
    OBVIOUS
  <2>3. Made(p, f.next_fid) = FirstNode(p, f.next_fid, c)
    BY <2>2 DEF Made
  <2>4. Follows(f, g, p, m, r, f.next_fid, c)
    BY <1>1, <2>2 DEF Follows
  <2>5. FirstOf(nd, p, s, f.next_fid, c)
    BY <1>1, <2>1, <2>3 DEF FirstOf
  <2> QED BY <2>4, <2>5
<1>2. CASE /\ m \in 1..Len(f.node) /\ Cuts(f, p, m, r)
           /\ nd = CountPacket(Continued(p, f.node[m].fid, r), "val", p, s)
           /\ g.next_fid = f.next_fid
  <2>1. f.node[m].fid \in Nat
    <3>1. f.node[m] \in Node
      BY <1>2, TabFields
    <3> QED BY <3>1, NodeFields
  <2>2. PICK c \in BOOLEAN : c = (silkmode /\ r = "ACTIVE")
    OBVIOUS
  <2>3. Continued(p, f.node[m].fid, r) = FirstNode(p, f.node[m].fid, c)
    BY <2>2 DEF Continued
  <2>4. Follows(f, g, p, m, r, f.node[m].fid, c)
    BY <1>2, <2>2 DEF Follows
  <2>5. FirstOf(nd, p, s, f.node[m].fid, c)
    BY <1>2, <2>1, <2>3 DEF FirstOf
  <2> QED BY <2>4, <2>5
<1> QED BY <1>1, <1>2 DEF Opened

LEMMA OpenedKeeps ==
  ASSUME NEW f, WellFormed(f, 0, 0), NEW l \in Seq(Packet), NEW o, NEW x, NEW ph,
         History(f, l, o, x, ph), NEW p \in Packet, ~(p.ptime < f.ctime),
         NEW g, NEW m \in Nat, NEW r \in Reasons, NEW n \in Nat, NEW nd \in Node,
         Opened(f, g, p, m, r, n, nd), NEW L, L = Append(l, p)
  PROVE  History(g, L, o, x, ph) /\ Frozen(f, g)
<1> DEFINE h == g.node[n]
           s == Len(l) + 1
<1>1. /\ f \in FlowTab /\ f.node \in Seq(Node) /\ f.cq \in Seq(Nat)
      /\ Len(f.node) \in Nat /\ f.ctime \in Nat /\ p.ptime \in Nat /\ p.key \in Keys
  BY TabFields, PacketFields DEF WellFormed
<1>2. f.stat_packets = Len(l) /\ s \in Nat /\ s = f.stat_packets + 1 /\ Len(L) = s /\ L[s] = p
  BY LogGrows DEF History, Counts
<1> HIDE DEF s
<1>4. PICK fid, cont : Follows(f, g, p, m, r, fid, cont) /\ FirstOf(nd, p, s, fid, cont)
  BY <1>1, <1>2, OpenedNode
<1>5. /\ n = Len(f.node) + 1 /\ Len(g.node) = n /\ h = Settled(nd)
      /\ \A k \in 1..Len(f.node) :
           g.node[k] = IF k = m THEN WithReason(f.node[k], r) ELSE f.node[k]
  BY DEF Opened
<1> HIDE DEF h
<1>6. /\ NodeHistory(nd, L)
      /\ nd.pkt["val"] = {s} /\ nd.pkt["rval"] = {}
      /\ nd.key = p.key /\ nd.fid = fid /\ nd.stime = p.ptime /\ nd.etime = p.ptime
      /\ nd.reason = "none" /\ nd.iscont = cont
  <2>1. s = Len(l) + 1
    BY DEF s
  <2>2. NodeHistory(nd, L) /\ FirstFields(nd, p, s, fid, cont)
    BY <1>4, <2>1, FirstKeeps
  <2> QED BY <2>2 DEF FirstFields
<1>7. Alike(nd, h) /\ h.reason = IF Finished(nd) THEN "CLOSED" ELSE "none"
  BY <1>5, <1>6, SettledFields
<1>8. \A k \in 1..Len(f.node) :
        /\ f.node[k] \in Node /\ Within(f.node[k], l) /\ NodeHistory(f.node[k], l)
        /\ Alike(f.node[k], g.node[k])
        /\ k # m => g.node[k] = f.node[k]
        /\ k = m => g.node[k].reason = r
  <2>1. \A k \in 1..Len(f.node) :
          f.node[k] \in Node /\ Within(f.node[k], l) /\ NodeHistory(f.node[k], l)
    BY <1>1 DEF History, Counts, Within
  <2>2. \A k \in 1..Len(f.node) : k # m => g.node[k] = f.node[k] /\ Alike(f.node[k], g.node[k])
    BY <1>5 DEF Alike
  <2>3. \A k \in 1..Len(f.node) :
          k = m => g.node[k].reason = r /\ Alike(f.node[k], g.node[k])
    BY <1>5, <2>1, ReasonAlike
  <2> QED BY <2>1, <2>2, <2>3
<1>9. /\ \A k \in 1..Len(g.node) : k \in 1..Len(f.node) \/ k = n
      /\ \A k \in 1..Len(f.node) : k \in 1..Len(g.node) /\ k # n
      /\ n \in 1..Len(g.node) /\ n \notin 1..Len(f.node)
  BY <1>1, <1>5
<1>10. m # 0 => /\ m \in 1..Len(f.node) /\ InQueue(f.aq, m) /\ f.node[m].reason = "none"
                /\ ~Finished(f.node[m]) /\ r \in {"ACTIVE", "IDLE"} /\ Cuts(f, p, m, r)
  <2> SUFFICES ASSUME m # 0
               PROVE  /\ m \in 1..Len(f.node) /\ InQueue(f.aq, m) /\ f.node[m].reason = "none"
                      /\ ~Finished(f.node[m]) /\ r \in {"ACTIVE", "IDLE"} /\ Cuts(f, p, m, r)
    OBVIOUS
  <2>1. m \in 1..Len(f.node) /\ Cuts(f, p, m, r)
    BY <1>4 DEF Follows
  <2>2. InQueue(f.aq, m) /\ r \in {"ACTIVE", "IDLE"}
    BY <2>1 DEF Cuts
  <2>3. f.node[m].reason = "none" /\ ~Finished(f.node[m])
    BY <2>1, <2>2 DEF History, Ended
  <2> QED BY <2>1, <2>2, <2>3
<1>11. Counts(g, L)
  <2>1. PICK d \in Direction : d = "val"
    BY DEF Direction
  <2>2. \A e \in Direction : \A t : t \in g.node[n].pkt[e] <=> (t = s /\ e = d)
    BY <1>6, <1>7, <2>1 DEF Direction, Alike, h
  <2>3. \A k \in 1..Len(f.node) : g.node[k].pkt = f.node[k].pkt
    BY <1>8 DEF Alike
  <2>4. CountedIn(f, g, s, n, d)
    BY <1>1, <1>5, <1>9, <2>2, <2>3, SMTT(30) DEF CountedIn
  <2> QED BY <1>1, <1>2, <2>4, CountsKeeps DEF Opened, Advanced, History, s
<1>12. ASSUME NEW k \in 1..Len(g.node)
       PROVE  NodeHistory(g.node[k], L)
  <2>1. CASE k = n
    BY <1>6, <1>7, <2>1, AlikeKeeps DEF h
  <2>2. CASE k \in 1..Len(f.node)
    <3>1. NodeHistory(f.node[k], L)
      BY <1>8, <2>2, NodeKeeps
    <3> QED BY <1>8, <2>2, <3>1, AlikeKeeps
  <2> QED BY <1>9, <2>1, <2>2
<1>13. Links(g)
  <2>1. h.reason # "ACTIVE" /\ h.key \in Keys /\ h.fid = fid /\ h.iscont = cont
        /\ h.stime = p.ptime
    BY <1>1, <1>6, <1>7 DEF Alike
  <2>2. CASE m = 0
    <3>1. h.fid = f.next_fid /\ ~h.iscont /\ g.next_fid = f.next_fid + 1
      BY <1>4, <2>1, <2>2 DEF Follows
    <3>2. Links(f) /\ h = g.node[n]
      BY DEF History, h
    <3>3. Continues(f, g, m, r, h)
      BY <2>2, <3>1 DEF Continues
    <3> QED BY <1>1, <1>5, <1>8, <2>1, <3>2, <3>3, LinksGrow
  <2>3. CASE m # 0
    <3>1. /\ fid = f.node[m].fid /\ (cont <=> (silkmode /\ r = "ACTIVE"))
          /\ g.next_fid = f.next_fid
      BY <1>4, <2>3 DEF Follows
    <3>2. SameConversation(f.node[m].key, p.key)
      <4>1. SameConversation(p.key, f.node[m].key) /\ f.node[m] \in Node
        BY <1>8, <1>10, <2>3 DEF Cuts
      <4> QED BY <1>1, <4>1, NodeFields, Conversations
    <3>3. f.node[m].stime <= f.node[m].etime /\ f.node[m].etime <= p.ptime
      <4>1. /\ f.node[m].stime <= f.node[m].etime /\ f.node[m].etime <= f.ctime
            /\ f.node[m].etime \in Nat
        BY <1>8, <1>10, <2>3, NodeFields DEF WellFormed, WFOrder
      <4> QED BY <1>1, <4>1
    <3>4. Links(f) /\ h = g.node[n] /\ h.key = p.key
      BY <1>6, <1>7 DEF History, h, Alike
    <3>5. silkmode => (h.iscont <=> r = "ACTIVE")
      BY <2>1, <3>1
    <3>6. m \in 1..Len(f.node) /\ Alike(f.node[m], g.node[m]) /\ g.node[m].reason = r
          /\ f.node[m].reason = "none" /\ r \in {"ACTIVE", "IDLE"}
      BY <1>8, <1>10, <2>3
    <3>7. Continues(f, g, m, r, h)
      BY <1>1, <2>1, <3>1, <3>2, <3>3, <3>4, <3>5, <3>6 DEF Continues
    <3> QED BY <1>1, <1>5, <1>8, <2>1, <3>4, <3>7, LinksGrow
  <2> QED BY <2>2, <2>3
<1>14. Ended(g, L, ph)
  <2> SUFFICES ASSUME NEW k \in 1..Len(g.node)
               PROVE  /\ InQueue(g.aq, k) <=> g.node[k].reason = "none"
                      /\ g.node[k].reason = "IDLE" => g.ctime - g.node[k].etime > idle_ms
                      /\ g.node[k].reason = "ACTIVE" => \E i \in 1..Len(L) : CutBy(g.node[k], L, i)
                      /\ g.node[k].reason = "CLOSED" <=> Finished(g.node[k])
                      /\ g.node[k].reason = "RESOURCE" => max_flows # 0
                      /\ g.node[k].reason = "FORCED" => ph # "open"
    BY DEF Ended
  <2>0. \A i \in Nat : InQueue(g.aq, i) <=>
          IF i = n THEN ~Finished(nd) ELSE InQueue(f.aq, i) /\ i # m
    BY DEF Opened
  <2>1. CASE k = n
    <3>1. Finished(h) <=> Finished(nd)
      BY <1>7, AlikeKeeps
    <3>2. InQueue(g.aq, n) <=> ~Finished(nd)
      BY <2>0
    <3> QED BY <1>7, <2>1, <3>1, <3>2 DEF h
  <2>2. CASE k \in 1..Len(f.node) /\ k # m
    <3>1. g.node[k] = f.node[k] /\ k \in Nat /\ k # n /\ f.node[k] \in Node
      BY <1>8, <1>9, <2>2
    <3>2. /\ InQueue(f.aq, k) <=> f.node[k].reason = "none"
          /\ f.node[k].reason = "IDLE" => f.ctime - f.node[k].etime > idle_ms
          /\ f.node[k].reason = "ACTIVE" => \E i \in 1..Len(l) : CutBy(f.node[k], l, i)
          /\ f.node[k].reason = "CLOSED" <=> Finished(f.node[k])
          /\ f.node[k].reason = "RESOURCE" => max_flows # 0
          /\ f.node[k].reason = "FORCED" => ph # "open"
      BY <2>2 DEF History, Ended
    <3>3. InQueue(g.aq, k) <=> InQueue(f.aq, k)
      BY <2>0, <2>2, <3>1
    <3>4. f.ctime - f.node[k].etime > idle_ms => g.ctime - f.node[k].etime > idle_ms
      <4>1. g.ctime = p.ptime /\ f.node[k].etime \in Nat
        BY <3>1, NodeFields DEF Opened, Advanced
      <4>2. f.ctime <= p.ptime /\ idle_ms \in Nat
        BY <1>1, ConfigAssumption
      <4> QED BY <1>1, <4>1, <4>2, SMTT(30)
    <3>5. (\E i \in 1..Len(l) : CutBy(f.node[k], l, i)) => \E i \in 1..Len(L) : CutBy(f.node[k], L, i)
      BY LogGrows DEF CutBy
    <3> QED BY <3>1, <3>2, <3>3, <3>4, <3>5
  <2>3. CASE k \in 1..Len(f.node) /\ k = m
    <3>1. /\ g.node[k].reason = r /\ r \in {"ACTIVE", "IDLE"} /\ Alike(f.node[k], g.node[k])
          /\ ~Finished(f.node[k]) /\ Cuts(f, p, k, r) /\ k \in Nat /\ k # n
      BY <1>8, <1>9, <1>10, <2>3
    <3>2. ~InQueue(g.aq, k)
      BY <2>0, <2>3, <3>1
    <3>3. ~Finished(g.node[k]) /\ Pkts(g.node[k]) = Pkts(f.node[k])
      BY <3>1, AlikeKeeps
    <3>4. r = "IDLE" => g.ctime - g.node[k].etime > idle_ms
      BY <3>1 DEF Cuts, Alike, Opened, Advanced
    <3>5. r = "ACTIVE" => CutBy(g.node[k], L, s)
      <4>1. s \notin Pkts(f.node[k])
        BY <1>2, <1>8, <2>3, LogGrows DEF s
      <4>2. g.node[k].key = f.node[k].key /\ g.node[k].stime = f.node[k].stime
        BY <3>1 DEF Alike
      <4> QED BY <1>2, <3>1, <3>3, <4>1, <4>2 DEF CutBy, Cuts
    <3>6. s \in 1..Len(L)
      BY <1>2 DEF s
    <3> QED BY <3>1, <3>2, <3>3, <3>4, <3>5, <3>6
  <2> QED BY <1>9, <2>1, <2>2, <2>3
<1>15. Places(g, o, x)
  <2>1. PICK q : /\ q = IF m = 0 THEN f.cq ELSE Append(f.cq, m)
                 /\ g.cq = IF Finished(nd) THEN Append(q, n) ELSE q
    BY DEF Opened
  <2>2. Distinct(f.cq) /\ (\A k : InQueue(f.cq, k) => k \in 1..Len(f.node))
        /\ (m # 0 => ~InQueue(f.cq, m))
    <3>1. Distinct(f.cq) /\ (m # 0 => ~InQueue(f.cq, m))
      BY <1>10 DEF History, Places
    <3>2. \A k : InQueue(f.cq, k) => k \in 1..Len(f.node)
      BY DEF WellFormed, WFQueue, InQueue
    <3> QED BY <3>1, <3>2
  <2>3. /\ q \in Seq(Nat) /\ Distinct(q)
        /\ \A k : InQueue(q, k) <=> InQueue(f.cq, k) \/ (m # 0 /\ k = m)
    <3>1. CASE m = 0
      BY <1>1, <2>1, <2>2, <3>1
    <3>2. CASE m # 0
      <4>1. q = Append(f.cq, m)
        BY <2>1, <3>2
      <4>2. ~InQueue(f.cq, m) /\ Distinct(f.cq)
        BY <2>2, <3>2
      <4>3. PICK c \in Seq(Nat) : c = f.cq
        BY <1>1
      <4>4. q \in Seq(Nat) /\ Distinct(q) /\ \A k : InQueue(q, k) <=> InQueue(c, k) \/ k = m
        <5>1. q = Append(c, m) /\ Distinct(c) /\ ~InQueue(c, m) /\ m \in Nat
          BY <1>1, <4>1, <4>2, <4>3
        <5> QED BY <5>1, AppendQueue
      <4> QED BY <3>2, <4>3, <4>4
    <3> QED BY <3>1, <3>2
  <2>4. ~InQueue(q, n)
    BY <1>9, <1>10, <2>2, <2>3
  <2>5. Distinct(g.cq) /\ \A k : InQueue(g.cq, k) <=> InQueue(q, k) \/ (Finished(nd) /\ k = n)
    BY <2>1, <2>3, <2>4, AppendQueue
  <2>6. ClosedInto(f, g, {n, m})
    <3>1. Len(f.node) \in Nat /\ Len(g.node) \in Nat /\ Len(f.node) <= Len(g.node)
          /\ g.stat_flows = f.stat_flows
      BY <1>1, <1>5 DEF Opened, Advanced
    <3>2. ASSUME NEW k \in 1..Len(g.node), k \notin {n, m}
          PROVE  /\ k \in 1..Len(f.node) /\ g.node[k] = f.node[k]
                 /\ InQueue(g.cq, k) <=> InQueue(f.cq, k)
      BY <1>8, <1>9, <2>3, <2>5, <3>2
    <3>3. ASSUME NEW k \in 1..Len(g.node), k \in {n, m}
          PROVE  /\ k \in 1..Len(f.node) => f.node[k].reason = "none"
                 /\ g.node[k].reason # "none" <=> InQueue(g.cq, k)
      <4>1. CASE k = n
        BY <1>7, <1>9, <2>4, <2>5, <4>1 DEF h
      <4>2. CASE k # n
        <5>1. k = m /\ m # 0 /\ m \in 1..Len(f.node)
          BY <1>9, <1>10, <3>3, <4>2
        <5>2. f.node[k].reason = "none" /\ g.node[k].reason # "none"
          BY <1>8, <1>10, <5>1
        <5>3. InQueue(g.cq, k)
          BY <2>3, <2>5, <5>1
        <5> QED BY <5>2, <5>3
      <4> QED BY <4>1, <4>2
    <3> QED BY <2>5, <3>1, <3>2, <3>3 DEF ClosedInto
  <2> QED BY <2>6, PlacesKeeps DEF History
<1>16. Frozen(f, g)
  BY <1>1, <1>5, <1>8, <1>10 DEF Frozen
<1> QED BY <1>11, <1>12, <1>13, <1>14, <1>15, <1>16 DEF History

----------------------------------------------------------------------------
(***************************************************************************)
(* A flush keeps the history                                               *)
(***************************************************************************)
(* g is f after the open flows of C were closed for reason r.              *)
Shut(f, g, C, r) ==
  /\ SameCounters(f, g) /\ g.next_fid = f.next_fid /\ Len(g.node) = Len(f.node)
  /\ \A k \in C : k \in 1..Len(f.node) /\ InQueue(f.aq, k)
  /\ \A k \in 1..Len(f.node) :
       g.node[k] = IF k \in C THEN WithReason(f.node[k], r) ELSE f.node[k]
  /\ \A k : InQueue(g.aq, k) <=> InQueue(f.aq, k) /\ k \notin C
  /\ \A k : InQueue(g.cq, k) <=> InQueue(f.cq, k) \/ k \in C
  /\ Distinct(f.cq) /\ (\A k \in C : ~InQueue(f.cq, k)) => Distinct(g.cq)

LEMMA ShutEffect ==
  ASSUME NEW f, WellFormed(f, 0, 0), NEW n \in 0..Len(f.aq), NEW r \in Reasons,
         NEW g, g = CloseOldest(f, n, r), NEW C, C = {f.aq[i] : i \in 1..n}
  PROVE  Shut(f, g, C, r) /\ WellFormed(g, 0, 0)
<1>1. /\ f \in FlowTab /\ f.aq \in Seq(Nat) /\ f.cq \in Seq(Nat) /\ f.node \in Seq(Node)
      /\ Len(f.aq) \in Nat /\ Len(f.cq) \in Nat /\ Len(f.node) \in Nat /\ n \in Nat
      /\ n <= Len(f.aq) /\ Distinct(f.aq)
      /\ \A i \in 1..Len(f.aq) : f.aq[i] \in 1..Len(f.node)
  BY TabFields DEF WellFormed, WFQueue
<1>2. WellFormed(g, 0, 0) /\ ClosedOldest(f, n, g)
  BY CloseOldestKeeps
<1>3. SameCounters(f, g) /\ g.next_fid = f.next_fid
  BY <1>1 DEF CloseOldest, FlowTab, SameCounters
<1>4. /\ Len(g.node) = Len(f.node)
      /\ Len(g.aq) = Len(f.aq) - n
      /\ \A i \in 1..(Len(f.aq) - n) : g.aq[i] = f.aq[i + n]
      /\ Len(g.cq) = Len(f.cq) + n
      /\ \A i \in 1..Len(g.cq) :
           g.cq[i] = IF i <= Len(f.cq) THEN f.cq[i] ELSE f.aq[i - Len(f.cq)]
  BY <1>2 DEF ClosedOldest
<1>5. \A i \in 1..n : i \in 1..Len(f.aq)
  BY <1>1
<1>6. \A k \in C : k \in 1..Len(f.node) /\ InQueue(f.aq, k)
  BY <1>1, <1>5 DEF InQueue
<1>7. \A k \in 1..Len(f.node) :
        g.node[k] = IF k \in C THEN WithReason(f.node[k], r) ELSE f.node[k]
  <2>1. g.node = [i \in 1..Len(f.node) |->
                    IF i \in C THEN [f.node[i] EXCEPT !.reason = r] ELSE f.node[i]]
    BY <1>1 DEF CloseOldest, FlowTab
  <2> QED BY <2>1 DEF WithReason
<1>8. ASSUME NEW k
      PROVE  InQueue(g.aq, k) <=> InQueue(f.aq, k) /\ k \notin C
  <2>1. ASSUME NEW i \in 1..Len(g.aq), g.aq[i] = k
        PROVE  InQueue(f.aq, k) /\ k \notin C
    <3>1. i + n \in 1..Len(f.aq) /\ f.aq[i + n] = k /\ i + n \notin 1..n
      BY <1>1, <1>4, <2>1, SMTT(30)
    <3>2. \A j \in 1..n : f.aq[j] # k
      BY <1>1, <1>5, <3>1 DEF Distinct
    <3> QED BY <3>1, <3>2 DEF InQueue
  <2>2. ASSUME NEW j \in 1..Len(f.aq), f.aq[j] = k, k \notin C
        PROVE  InQueue(g.aq, k)
    <3>1. j \notin 1..n
      BY <2>2
    <3>2. j - n \in 1..(Len(f.aq) - n) /\ (j - n) + n = j
      BY <1>1, <3>1
    <3>3. g.aq[j - n] = k
      BY <1>4, <2>2, <3>2
    <3> QED BY <1>4, <3>2, <3>3 DEF InQueue
  <2> QED BY <2>1, <2>2 DEF InQueue
<1>9. \A i \in 1..Len(g.cq) :
        \/ i \in 1..Len(f.cq) /\ g.cq[i] = f.cq[i]
        \/ i - Len(f.cq) \in 1..n /\ g.cq[i] = f.aq[i - Len(f.cq)]
  BY <1>1, <1>4, SMTT(30)
<1>10. ASSUME NEW k
       PROVE  InQueue(g.cq, k) <=> InQueue(f.cq, k) \/ k \in C
  <2>1. ASSUME NEW i \in 1..Len(g.cq), g.cq[i] = k
        PROVE  InQueue(f.cq, k) \/ k \in C
    BY <1>9, <2>1 DEF InQueue
  <2>2. ASSUME NEW i \in 1..Len(f.cq), f.cq[i] = k
        PROVE  InQueue(g.cq, k)
    <3>1. i \in 1..Len(g.cq) /\ g.cq[i] = k
      BY <1>1, <1>4, <2>2, SMTT(30)
    <3> QED BY <3>1 DEF InQueue
  <2>3. ASSUME NEW j \in 1..n, f.aq[j] = k
        PROVE  InQueue(g.cq, k)
    <3>1. /\ j + Len(f.cq) \in 1..Len(g.cq) /\ ~(j + Len(f.cq) <= Len(f.cq))
          /\ (j + Len(f.cq)) - Len(f.cq) = j
      BY <1>1, <1>4
    <3>2. g.cq[j + Len(f.cq)] = k
      BY <1>4, <2>3, <3>1
    <3> QED BY <3>1, <3>2 DEF InQueue
  <2> QED BY <2>1, <2>2, <2>3 DEF InQueue
<1>11. ASSUME Distinct(f.cq), \A k \in C : ~InQueue(f.cq, k)
       PROVE  Distinct(g.cq)
  <2> SUFFICES ASSUME NEW i \in 1..Len(g.cq), NEW j \in 1..Len(g.cq), g.cq[i] = g.cq[j]
               PROVE  i = j
    BY DEF Distinct
  <2>1. CASE i \in 1..Len(f.cq) /\ g.cq[i] = f.cq[i] /\ j \in 1..Len(f.cq) /\ g.cq[j] = f.cq[j]
    BY <1>11, <2>1 DEF Distinct
  <2>2. CASE /\ i - Len(f.cq) \in 1..n /\ g.cq[i] = f.aq[i - Len(f.cq)]
             /\ j - Len(f.cq) \in 1..n /\ g.cq[j] = f.aq[j - Len(f.cq)]
    <3>1. i - Len(f.cq) = j - Len(f.cq)
      BY <1>1, <1>5, <2>2 DEF Distinct
    <3> QED BY <1>1, <1>4, <3>1
  <2>3. CASE /\ i \in 1..Len(f.cq) /\ g.cq[i] = f.cq[i]
             /\ j - Len(f.cq) \in 1..n /\ g.cq[j] = f.aq[j - Len(f.cq)]
    BY <1>11, <2>3 DEF InQueue
  <2>4. CASE /\ j \in 1..Len(f.cq) /\ g.cq[j] = f.cq[j]
             /\ i - Len(f.cq) \in 1..n /\ g.cq[i] = f.aq[i - Len(f.cq)]
    BY <1>11, <2>4 DEF InQueue
  <2> QED BY <1>9, <2>1, <2>2, <2>3, <2>4
<1> QED BY <1>2, <1>3, <1>4, <1>6, <1>7, <1>8, <1>10, <1>11 DEF Shut

(* The open flows of C may be closed for reason r.                         *)
MayShut(f, C, r, ph) ==
  /\ r \in {"IDLE", "RESOURCE", "FORCED"}
  /\ r = "IDLE" => \A k \in C : f.ctime - f.node[k].etime > idle_ms
  /\ r = "RESOURCE" /\ C # {} => max_flows # 0
  /\ r = "FORCED" => ph # "open"

LEMMA ShutKeeps ==
  ASSUME NEW f \in FlowTab, NEW l, NEW o, NEW x, NEW ph, History(f, l, o, x, ph),
         NEW g, NEW C, NEW r, Shut(f, g, C, r), MayShut(f, C, r, ph)
  PROVE  History(g, l, o, x, ph) /\ Frozen(f, g)
<1>1. /\ Len(f.node) \in Nat /\ Len(g.node) = Len(f.node) /\ g.next_fid = f.next_fid
      /\ g.ctime = f.ctime /\ g.stat_packets = f.stat_packets /\ g.stat_flows = f.stat_flows
  BY TabFields DEF Shut, SameCounters
<1>2. \A k \in 1..Len(f.node) :
        /\ f.node[k] \in Node
        /\ Alike(f.node[k], g.node[k])
        /\ k \notin C => g.node[k] = f.node[k]
        /\ k \in C => g.node[k].reason = r
  <2> SUFFICES ASSUME NEW k \in 1..Len(f.node)
               PROVE  /\ f.node[k] \in Node
                      /\ Alike(f.node[k], g.node[k])
                      /\ k \notin C => g.node[k] = f.node[k]
                      /\ k \in C => g.node[k].reason = r
    OBVIOUS
  <2>1. f.node[k] \in Node
    BY TabFields
  <2>2. CASE k \in C
    <3>1. g.node[k] = WithReason(f.node[k], r)
      BY <2>2 DEF Shut
    <3> QED BY <2>1, <2>2, <3>1, ReasonAlike
  <2>3. CASE k \notin C
    <3>1. g.node[k] = f.node[k]
      BY <2>3 DEF Shut
    <3> QED BY <2>1, <2>3, <3>1 DEF Alike
  <2> QED BY <2>2, <2>3
<1>3. \A k \in C : /\ k \in 1..Len(f.node) /\ f.node[k].reason = "none"
                   /\ ~Finished(f.node[k]) /\ ~InQueue(f.cq, k)
  <2>1. \A k \in C : k \in 1..Len(f.node) /\ InQueue(f.aq, k)
    BY DEF Shut
  <2>2. \A k \in C : f.node[k].reason = "none" /\ ~Finished(f.node[k])
    BY <2>1 DEF History, Ended
  <2>3. \A k \in C : ~InQueue(f.cq, k)
    BY <2>1, <2>2 DEF History, Places
  <2> QED BY <2>1, <2>2, <2>3
<1>4. Counts(g, l)
  <2>1. \A k \in 1..Len(f.node) : g.node[k].pkt = f.node[k].pkt
    BY <1>2 DEF Alike
  <2>2. Counts(f, l)
    BY DEF History
  <2>3. \A k \in 1..Len(g.node), d \in Direction : g.node[k].pkt[d] = f.node[k].pkt[d]
    BY <1>1, <2>1
  <2>4. g.stat_packets = Len(l)
    BY <1>1, <2>2 DEF Counts
  <2>5. \A k \in 1..Len(g.node), d \in Direction : g.node[k].pkt[d] \subseteq 1..Len(l)
    BY <1>1, <2>2, <2>3 DEF Counts
  <2>6. \A s \in 1..Len(l) : \E k \in 1..Len(g.node), d \in Direction : s \in g.node[k].pkt[d]
    <3> SUFFICES ASSUME NEW s \in 1..Len(l)
                 PROVE  \E k \in 1..Len(g.node), d \in Direction : s \in g.node[k].pkt[d]
      OBVIOUS
    <3>1. PICK k \in 1..Len(f.node), d \in Direction : s \in f.node[k].pkt[d]
      BY <2>2 DEF Counts
    <3>2. k \in 1..Len(g.node) /\ s \in g.node[k].pkt[d]
      BY <1>1, <2>3, <3>1
    <3> QED BY <3>2
  <2>7. \A k, m \in 1..Len(g.node), d, e \in Direction, s \in 1..Len(l) :
          s \in g.node[k].pkt[d] /\ s \in g.node[m].pkt[e] => k = m /\ d = e
    <3> SUFFICES ASSUME NEW k \in 1..Len(g.node), NEW m \in 1..Len(g.node),
                        NEW d \in Direction, NEW e \in Direction, NEW s \in 1..Len(l),
                        s \in g.node[k].pkt[d], s \in g.node[m].pkt[e]
                 PROVE  k = m /\ d = e
      OBVIOUS
    <3>1. /\ k \in 1..Len(f.node) /\ s \in f.node[k].pkt[d]
          /\ m \in 1..Len(f.node) /\ s \in f.node[m].pkt[e]
      BY <1>1, <2>3
    <3> QED BY <2>2, <3>1 DEF Counts
  <2> QED BY <2>4, <2>5, <2>6, <2>7 DEF Counts
<1>5. \A k \in 1..Len(g.node) : NodeHistory(g.node[k], l)
  BY <1>1, <1>2, AlikeKeeps DEF History
<1>6. Links(g)
  <2>1. Relabelled(f, g)
    BY <1>1, <1>2, <1>3 DEF Relabelled, Alike, MayShut
  <2> QED BY <2>1, LinksKeeps DEF History
<1>7. Ended(g, l, ph)
  <2> SUFFICES ASSUME NEW k \in 1..Len(f.node)
               PROVE  /\ InQueue(g.aq, k) <=> g.node[k].reason = "none"
                      /\ g.node[k].reason = "IDLE" => g.ctime - g.node[k].etime > idle_ms
                      /\ g.node[k].reason = "ACTIVE" => \E i \in 1..Len(l) : CutBy(g.node[k], l, i)
                      /\ g.node[k].reason = "CLOSED" <=> Finished(g.node[k])
                      /\ g.node[k].reason = "RESOURCE" => max_flows # 0
                      /\ g.node[k].reason = "FORCED" => ph # "open"
    BY <1>1 DEF Ended
  <2>1. CASE k \notin C
    <3>1. InQueue(g.aq, k) <=> InQueue(f.aq, k)
      BY <2>1 DEF Shut
    <3> QED BY <1>1, <1>2, <2>1, <3>1 DEF History, Ended
  <2>2. CASE k \in C
    <3>1. ~InQueue(g.aq, k) /\ g.node[k].reason = r
      BY <1>2, <2>2 DEF Shut
    <3>2. ~Finished(g.node[k])
      BY <1>2, <1>3, <2>2, AlikeKeeps
    <3>3. g.node[k].etime = f.node[k].etime
      BY <1>2 DEF Alike
    <3> QED BY <1>1, <2>2, <3>1, <3>2, <3>3 DEF MayShut
  <2> QED BY <2>1, <2>2
<1>8. Places(g, o, x)
  <2>1. Distinct(g.cq)
    BY <1>3 DEF History, Places, Shut
  <2>2. \A k : InQueue(g.cq, k) <=> InQueue(f.cq, k) \/ k \in C
    BY DEF Shut
  <2>3. ClosedInto(f, g, C)
    BY <1>1, <1>2, <1>3, <2>1, <2>2 DEF ClosedInto, MayShut
  <2> QED BY <2>3, PlacesKeeps DEF History
<1>9. Frozen(f, g)
  BY <1>1, <1>2, <1>3 DEF Frozen
<1> QED BY <1>4, <1>5, <1>6, <1>7, <1>8, <1>9 DEF History

(* The loops of a flush.                                                   *)
LEMMA FlushedHistory ==
  ASSUME NEW f, WellFormed(f, 0, 0), NEW l, NEW o, NEW x, NEW ph, History(f, l, o, x, ph),
         NEW idle \in 0..Len(f.aq), IdleRun(f, idle), NEW close \in BOOLEAN,
         close => ph # "open", NEW b, b = Flushed(f, idle, close)
  PROVE  History(b, l, o, x, ph) /\ Frozen(f, b)
<1> DEFINE s == [f EXCEPT !.flushtime = f.ctime, !.stat_flush = @ + 1]
           g == CloseOldest(s, idle, "IDLE")
           h == CloseOldest(g, LimitRun(g), "RESOURCE")
           e == CloseOldest(h, Len(h.aq), "FORCED")
<1>1. b = IF close THEN e ELSE h
  BY DEF Flushed, CloseForFlush
<1>2. WellFormed(s, 0, 0) /\ s.node = f.node /\ s.aq = f.aq /\ s.ctime = f.ctime
      /\ f \in FlowTab
  BY FlushStartWF DEF WellFormed
<1>3. History(s, l, o, x, ph) /\ Frozen(f, s)
  <2>1. s.cq = f.cq /\ SameCounters(f, s) /\ s.next_fid = f.next_fid
    BY <1>2 DEF FlowTab, SameCounters
  <2> HIDE DEF s
  <2>2. PICK r \in Reasons : r = "IDLE"
    BY DEF Reasons
  <2>3. PICK C : C = {}
    OBVIOUS
  <2>4. Shut(f, s, C, r)
    BY <1>2, <2>1, <2>3 DEF Shut
  <2>5. MayShut(f, C, r, ph)
    BY <2>2, <2>3 DEF MayShut
  <2> QED BY <1>2, <2>4, <2>5, ShutKeeps
<1> HIDE DEF s
<1>4. WellFormed(g, 0, 0) /\ History(g, l, o, x, ph) /\ Frozen(s, g)
  <2>1. PICK r \in Reasons : r = "IDLE" /\ g = CloseOldest(s, idle, r)
    BY DEF Reasons
  <2>2. idle \in 0..Len(s.aq) /\ IdleRun(s, idle)
    BY <1>2 DEF IdleRun
  <2> HIDE DEF g
  <2>3. PICK C : C = {s.aq[i] : i \in 1..idle}
    OBVIOUS
  <2>4. Shut(s, g, C, r) /\ WellFormed(g, 0, 0)
    BY <1>2, <2>1, <2>2, <2>3, ShutEffect
  <2>5. MayShut(s, C, r, ph)
    BY <2>1, <2>2, <2>3 DEF MayShut, IdleRun
  <2>6. s \in FlowTab
    BY <1>2 DEF WellFormed
  <2> QED BY <1>3, <2>4, <2>5, <2>6, ShutKeeps
<1> HIDE DEF g
<1>5. WellFormed(h, 0, 0) /\ History(h, l, o, x, ph) /\ Frozen(g, h)
  <2>1. PICK r \in Reasons : r = "RESOURCE" /\ h = CloseOldest(g, LimitRun(g), r)
    BY DEF Reasons
  <2>2. LimitRun(g) \in 0..Len(g.aq)
    BY <1>4, LimitRunFacts
  <2> HIDE DEF h
  <2>3. PICK C : C = {g.aq[i] : i \in 1..LimitRun(g)}
    OBVIOUS
  <2>4. Shut(g, h, C, r) /\ WellFormed(h, 0, 0)
    BY <1>4, <2>1, <2>2, <2>3, ShutEffect
  <2>5. C # {} => max_flows # 0
    <3>1. max_flows = 0 => LimitRun(g) = 0
      BY DEF LimitRun
    <3> QED BY <2>3, <3>1
  <2>6. MayShut(g, C, r, ph)
    BY <2>1, <2>5 DEF MayShut
  <2>7. g \in FlowTab
    BY <1>4 DEF WellFormed
  <2> QED BY <1>4, <2>4, <2>6, <2>7, ShutKeeps
<1> HIDE DEF h
<1>6. Frozen(f, h)
  BY <1>3, <1>4, <1>5, FrozenTransitive
<1>7. CASE ~close
  BY <1>1, <1>5, <1>6, <1>7
<1>8. CASE close
  <2>1. PICK r \in Reasons : r = "FORCED" /\ e = CloseOldest(h, Len(h.aq), r)
    BY DEF Reasons
  <2>2. Len(h.aq) \in 0..Len(h.aq) /\ h \in FlowTab
    BY <1>5, TabFields DEF WellFormed
  <2> HIDE DEF e
  <2>3. PICK C : C = {h.aq[i] : i \in 1..Len(h.aq)}
    OBVIOUS
  <2>4. Shut(h, e, C, r)
    BY <1>5, <2>1, <2>2, <2>3, ShutEffect
  <2>5. MayShut(h, C, r, ph)
    BY <1>8, <2>1 DEF MayShut
  <2>6. History(e, l, o, x, ph) /\ Frozen(h, e)
    BY <1>5, <2>2, <2>4, <2>5, ShutKeeps
  <2> QED BY <1>1, <1>6, <1>8, <2>6, FrozenTransitive
<1> QED BY <1>7, <1>8

LEMMA FiniteRecords ==
  ASSUME NEW f \in FlowTab, NEW o \in SUBSET ((1..Len(f.node)) \X RecordKinds)
  PROVE  IsFiniteSet(o) /\ Cardinality(o) \in Nat
<1>1. IsFiniteSet(1..Len(f.node))
  <2>1. 1 \in Int /\ Len(f.node) \in Int
    BY TabFields
  <2> QED BY <2>1, FS_Interval
<1>2. IsFiniteSet(RecordKinds)
  <2>1. IsFiniteSet({} \cup {"val"})
    BY FS_EmptySet, FS_AddElement
  <2>2. IsFiniteSet(({} \cup {"val"}) \cup {"rval"})
    BY <2>1, FS_AddElement
  <2>3. IsFiniteSet((({} \cup {"val"}) \cup {"rval"}) \cup {"both"})
    BY <2>2, FS_AddElement
  <2>4. RecordKinds = (({} \cup {"val"}) \cup {"rval"}) \cup {"both"}
    BY DEF RecordKinds, Direction
  <2> QED BY <2>3, <2>4
<1>3. IsFiniteSet((1..Len(f.node)) \X RecordKinds)
  BY <1>1, <1>2, FS_Product
<1> QED BY <1>3, FS_Subset, FS_CardinalityType

(* The written nodes W leave the close queue; the records R of them get to *)
(* the output, all that there must be but for the nodes of V.              *)
WritesOut(f, o, W, R, V) ==
  /\ \A k \in W : k \in 1..Len(f.node) /\ InQueue(f.cq, k)
  /\ R \subseteq W \X RecordKinds
  /\ V \subseteq W
  /\ \A k \in W : Complete(f, k, o \cup R) <=> k \notin V

LEMMA WriteKeeps ==
  ASSUME NEW f, WellFormed(f, 0, 0), NEW l, NEW o, NEW x, NEW ph, History(f, l, o, x, ph),
         NEW n \in 0..Len(f.cq), NEW W, W = {f.cq[i] : i \in 1..n},
         NEW R, NEW V, WritesOut(f, o, W, R, V),
         NEW g, g = Dequeue(f, n, R), NEW O, O = o \cup R, NEW X, X = x \cup V
  PROVE  History(g, l, O, X, ph) /\ Frozen(f, g)
<1>1. /\ f \in FlowTab /\ f.cq \in Seq(Nat) /\ Len(f.cq) \in Nat /\ Len(f.node) \in Nat
      /\ n \in Nat /\ f.stat_flows \in Nat
  BY TabFields DEF WellFormed
<1>2. /\ g.node = f.node /\ g.aq = f.aq /\ g.ctime = f.ctime /\ g.next_fid = f.next_fid
      /\ g.stat_packets = f.stat_packets
      /\ g.stat_flows = f.stat_flows + Cardinality(R)
      /\ g.cq = SubSeq(f.cq, n + 1, Len(f.cq))
  BY <1>1 DEF Dequeue, FlowTab
<1>3. /\ Len(g.cq) = Len(f.cq) - n
      /\ \A i \in 1..Len(g.cq) : i + n \in 1..Len(f.cq) /\ g.cq[i] = f.cq[i + n]
  <2>1. /\ Len(g.cq) = Len(f.cq) - n
        /\ \A i \in 1..(Len(f.cq) - n) : g.cq[i] = f.cq[i + n]
    BY <1>1, <1>2, SMTT(40)
  <2> QED BY <1>1, <2>1, SMTT(30)
<1>4. Places(f, o, x) /\ Distinct(f.cq)
  BY DEF History, Places
<1>5. Distinct(g.cq)
  <2> SUFFICES ASSUME NEW i \in 1..Len(g.cq), NEW j \in 1..Len(g.cq), g.cq[i] = g.cq[j]
               PROVE  i = j
    BY DEF Distinct
  <2>1. i + n = j + n
    BY <1>3, <1>4 DEF Distinct
  <2> QED BY <1>1, <1>3, <2>1
<1>6. ASSUME NEW k
      PROVE  InQueue(g.cq, k) <=> InQueue(f.cq, k) /\ k \notin W
  <2>1. ASSUME NEW i \in 1..Len(g.cq), g.cq[i] = k
        PROVE  InQueue(f.cq, k) /\ k \notin W
    <3>1. i + n \in 1..Len(f.cq) /\ f.cq[i + n] = k /\ i + n \notin 1..n
      BY <1>1, <1>3, <2>1, SMTT(30)
    <3>2. \A j \in 1..n : j \in 1..Len(f.cq)
      BY <1>1
    <3>3. \A j \in 1..n : f.cq[j] # k
      BY <1>4, <3>1, <3>2 DEF Distinct
    <3> QED BY <3>1, <3>3 DEF InQueue
  <2>2. ASSUME NEW j \in 1..Len(f.cq), f.cq[j] = k, k \notin W
        PROVE  InQueue(g.cq, k)
    <3>1. j \notin 1..n
      BY <2>2
    <3>2. j - n \in 1..Len(g.cq) /\ (j - n) + n = j
      BY <1>1, <1>3, <3>1
    <3>3. g.cq[j - n] = k
      BY <1>3, <2>2, <3>2
    <3> QED BY <3>2, <3>3 DEF InQueue
  <2> QED BY <2>1, <2>2 DEF InQueue
<1>7. \A k \in W : k \in 1..Len(f.node) /\ InQueue(f.cq, k) /\ f.node[k].reason # "none"
  BY <1>4 DEF WritesOut, Places
<1>8. o \in SUBSET ((1..Len(f.node)) \X RecordKinds) /\ R \in SUBSET ((1..Len(f.node)) \X RecordKinds)
  BY <1>4, <1>7 DEF Places, WritesOut
<1>9. \A k \in W, i \in RecordKinds : <<k, i>> \notin o
  BY <1>4, <1>7 DEF Places
<1>10. o \cap R = {}
  <2> SUFFICES ASSUME NEW e \in o, e \in R
               PROVE  FALSE
    OBVIOUS
  <2>1. e = <<e[1], e[2]>> /\ e[1] \in W /\ e[2] \in RecordKinds
    BY DEF WritesOut
  <2> QED BY <1>9, <2>1
<1>11. Places(g, O, X)
  <2>1. \A k \in 1..Len(g.node) : InQueue(g.cq, k) => g.node[k].reason # "none"
    BY <1>2, <1>4, <1>6 DEF Places
  <2>2. O \subseteq (1..Len(g.node)) \X RecordKinds
    BY <1>2, <1>8
  <2>3. g.stat_flows = Cardinality(O)
    <3>1. /\ IsFiniteSet(o) /\ IsFiniteSet(R) /\ Cardinality(o) \in Nat
          /\ Cardinality(R) \in Nat
      BY <1>1, <1>8, FiniteRecords
    <3>2. Cardinality(o \cup R) = Cardinality(o) + Cardinality(R) - Cardinality(o \cap R)
      BY <3>1, FS_Union
    <3>3. Cardinality(o \cap R) = 0
      BY <1>10, FS_EmptySet
    <3>4. f.stat_flows = Cardinality(o)
      BY <1>4 DEF Places
    <3> QED BY <1>2, <3>1, <3>2, <3>3, <3>4
  <2>4. \A k \in 1..Len(g.node), i \in RecordKinds :
          <<k, i>> \in O => g.node[k].reason # "none" /\ ~InQueue(g.cq, k)
    <3> SUFFICES ASSUME NEW k \in 1..Len(f.node), NEW i \in RecordKinds, <<k, i>> \in O
                 PROVE  f.node[k].reason # "none" /\ ~InQueue(g.cq, k)
      BY <1>2
    <3>1. CASE <<k, i>> \in o
      BY <1>4, <1>6, <3>1 DEF Places
    <3>2. CASE <<k, i>> \in R
      <4>1. k \in W
        BY <3>2 DEF WritesOut
      <4> QED BY <1>6, <1>7, <4>1
    <3> QED BY <3>1, <3>2
  <2>5. X \subseteq 1..Len(g.node)
    BY <1>2, <1>4, <1>7 DEF Places, WritesOut
  <2>6. \A k \in 1..Len(g.node) :
          k \in X <=> /\ g.node[k].reason # "none" /\ ~InQueue(g.cq, k)
                     /\ ~Complete(g, k, O)
    <3> SUFFICES ASSUME NEW k \in 1..Len(f.node)
                 PROVE  k \in X <=> /\ f.node[k].reason # "none" /\ ~InQueue(g.cq, k)
                                   /\ ~Complete(f, k, O)
      BY <1>2 DEF Complete
    <3>1. k \in x <=> /\ f.node[k].reason # "none" /\ ~InQueue(f.cq, k)
                     /\ ~Complete(f, k, o)
      BY <1>4 DEF Places
    <3>2. CASE k \in W
      <4>1. k \notin x
        BY <1>7, <3>1, <3>2
      <4>2. Complete(f, k, O) <=> k \notin V
        BY <3>2 DEF WritesOut
      <4> QED BY <1>6, <1>7, <3>2, <4>1, <4>2
    <3>3. CASE k \notin W
      <4>1. k \in X <=> k \in x
        BY <3>3 DEF WritesOut
      <4>2. \A i : <<k, i>> \in O <=> <<k, i>> \in o
        BY <3>3 DEF WritesOut
      <4>3. Complete(f, k, O) <=> Complete(f, k, o)
        BY <4>2 DEF Complete
      <4> QED BY <1>6, <3>1, <3>3, <4>1, <4>3
    <3> QED BY <3>2, <3>3
  <2> QED BY <1>5, <2>1, <2>2, <2>3, <2>4, <2>5, <2>6 DEF Places
<1>12. Counts(g, l)
  BY <1>2, SMTT(30) DEF History, Counts
<1>13. \A k \in 1..Len(g.node) : NodeHistory(g.node[k], l)
  BY <1>2 DEF History
<1>14. Links(g)
  BY <1>2 DEF History, Links, Before
<1>15. Ended(g, l, ph)
  BY <1>2 DEF History, Ended
<1>16. Frozen(f, g)
  BY <1>1, <1>2 DEF Frozen
<1> QED BY <1>11, <1>12, <1>13, <1>14, <1>15, <1>16 DEF History

(* The records of a node are its own, and all that there must be.          *)
LEMMA RecordsComplete ==
  ASSUME NEW f, NEW k, NEW o, Records(f, k) \subseteq o
  PROVE  Complete(f, k, o)
BY DEF Records, Complete, Direction

LEMMA RecordsOwn ==
  ASSUME NEW f, NEW k
  PROVE  Records(f, k) \subseteq {k} \X RecordKinds
BY DEF Records, RecordKinds, Direction

LEMMA WriteAllKeeps ==
  ASSUME NEW f, WellFormed(f, 0, 0), NEW l, NEW ph, History(f, l, out, lost, ph), WriteAll(f)
  PROVE  History(ft', l, out', lost', ph) /\ Frozen(f, ft') /\ lost' = lost
<1> DEFINE W == {f.cq[i] : i \in 1..Len(f.cq)}
           R == UNION {Records(f, f.cq[i]) : i \in 1..Len(f.cq)}
<1>1. ft' = Dequeue(f, Len(f.cq), R) /\ out' = out \cup R /\ lost' = lost
  BY DEF WriteAll
<1>2. \A i \in 1..Len(f.cq) : f.cq[i] \in 1..Len(f.node)
  BY DEF WellFormed, WFQueue
<1>3. \A k \in W : k \in 1..Len(f.node) /\ InQueue(f.cq, k) /\ Records(f, k) \subseteq R
  BY <1>2 DEF InQueue
<1>4. R \subseteq W \X RecordKinds
  <2> SUFFICES ASSUME NEW i \in 1..Len(f.cq), NEW e \in Records(f, f.cq[i])
               PROVE  e \in W \X RecordKinds
    OBVIOUS
  <2>1. e \in {f.cq[i]} \X RecordKinds /\ f.cq[i] \in W
    BY RecordsOwn
  <2> HIDE DEF W
  <2> QED BY <2>1
<1>5. PICK V : V = {}
  OBVIOUS
<1> HIDE DEF R
<1>6. \A k \in W : Complete(f, k, out \cup R)
  <2> SUFFICES ASSUME NEW k \in W
               PROVE  Complete(f, k, out \cup R)
    OBVIOUS
  <2>1. Records(f, k) \subseteq out \cup R
    BY <1>3
  <2> QED BY <2>1, RecordsComplete
<1>7. WritesOut(f, out, W, R, V)
  <2> HIDE DEF W
  <2> QED BY <1>3, <1>4, <1>5, <1>6 DEF WritesOut
<1>8. PICK w : w = W
  OBVIOUS
<1>9. /\ w = {f.cq[i] : i \in 1..Len(f.cq)} /\ Len(f.cq) \in 0..Len(f.cq)
      /\ WritesOut(f, out, w, R, V) /\ lost' = lost \cup V
  BY <1>1, <1>5, <1>7, <1>8, TabFields DEF WellFormed
<1>10. History(ft', l, out', lost', ph) /\ Frozen(f, ft')
  BY <1>1, <1>9, WriteKeeps, SMTT(30)
<1> QED BY <1>1, <1>10

LEMMA WriteFailsKeeps ==
  ASSUME NEW f, WellFormed(f, 0, 0), NEW l, NEW ph, History(f, l, out, lost, ph),
         NEW n \in 0..(Len(f.cq) - 1), NEW half \in BOOLEAN, WriteFails(f, n, half)
  PROVE  /\ History(ft', l, out', lost', ph) /\ Frozen(f, ft')
         /\ \E v : lost' = lost \cup {v}
<1> DEFINE W == {f.cq[i] : i \in 1..(n + 1)}
           v == f.cq[n + 1]
           U == UNION {Records(f, f.cq[i]) : i \in 1..n}
           P == IF half THEN {<<v, "val">>} ELSE {}
           R == U \cup P
<1>1. /\ ft' = Dequeue(f, n + 1, R) /\ out' = out \cup R /\ lost' = lost \cup {v}
      /\ half => uniflow /\ f.node[v].pkt["rval"] # {}
  BY DEF WriteFails
<1>2. \A i \in 1..Len(f.cq) : f.cq[i] \in 1..Len(f.node)
  BY DEF WellFormed, WFQueue
<1>3. /\ Len(f.cq) \in Nat /\ n \in Nat /\ n + 1 \in 0..Len(f.cq)
      /\ \A i \in 1..(n + 1) : i \in 1..Len(f.cq)
      /\ \A i \in 1..n : i \in 1..(n + 1) /\ i # n + 1
      /\ \A i \in 1..(n + 1) : i \in 1..n \/ i = n + 1
      /\ n + 1 \in 1..(n + 1)
  <2>1. f \in FlowTab
    BY DEF WellFormed
  <2>2. Len(f.cq) \in Nat
    BY <2>1, TabFields
  <2> QED BY <2>2
<1>4. \A i \in 1..n : f.cq[i] # v
  BY <1>3 DEF History, Places, Distinct
<1>5. \A k \in W : k \in 1..Len(f.node) /\ InQueue(f.cq, k)
  BY <1>2, <1>3 DEF InQueue
<1>6. v \in W /\ (\A i \in 1..n : f.cq[i] \in W)
      /\ (\A k \in W : k = v \/ \E i \in 1..n : k = f.cq[i])
  BY <1>3
<1>7. \A i \in 1..n : Records(f, f.cq[i]) \subseteq U
  OBVIOUS
<1>8. \A e \in U : \E i \in 1..n : e \in {f.cq[i]} \X RecordKinds
  BY RecordsOwn
<1>9. P \subseteq {<<v, "val">>} /\ (~half => P = {})
  OBVIOUS
<1> HIDE DEF W, v, U, P
<1>10. R \subseteq W \X RecordKinds
  <2>1. "val" \in RecordKinds
    BY DEF RecordKinds, Direction
  <2>2. P \subseteq W \X RecordKinds
    BY <1>6, <1>9, <2>1
  <2>3. U \subseteq W \X RecordKinds
    BY <1>6, <1>8
  <2> QED BY <2>2, <2>3
<1>11. \A i : <<v, i>> \notin U
  BY <1>4, <1>8
<1>12. \A i \in RecordKinds : <<v, i>> \notin out
  BY <1>5, <1>6 DEF History, Places
<1>13. ~Complete(f, v, out \cup R)
  <2>1. /\ f.node[v].pkt["val"] # {} /\ {"val", "rval"} \subseteq Direction
        /\ {"val", "rval", "both"} \subseteq RecordKinds
    BY <1>5, <1>6 DEF History, NodeHistory, Matches, Direction, RecordKinds
  <2>2. CASE half
    <3>1. uniflow /\ f.node[v].pkt["rval"] # {}
      BY <1>1, <2>2
    <3>2. <<v, "rval">> \notin out \cup R
      BY <1>9, <1>11, <1>12, <2>1
    <3> QED BY <2>1, <3>1, <3>2 DEF Complete
  <2>3. CASE ~half
    <3>1. <<v, IF uniflow THEN "val" ELSE "both">> \notin out \cup R
      BY <1>9, <1>11, <1>12, <2>1, <2>3
    <3> QED BY <2>1, <3>1 DEF Complete
  <2> QED BY <2>2, <2>3
<1>14. \A i \in 1..n : Complete(f, f.cq[i], out \cup R)
  <2> SUFFICES ASSUME NEW i \in 1..n
               PROVE  Complete(f, f.cq[i], out \cup R)
    OBVIOUS
  <2>1. Records(f, f.cq[i]) \subseteq out \cup R
    BY <1>7
  <2> QED BY <2>1, RecordsComplete
<1> HIDE DEF R
<1>15. PICK V : V = {v}
  OBVIOUS
<1>16. WritesOut(f, out, W, R, V)
  <2>1. \A k \in W : Complete(f, k, out \cup R) <=> k \notin V
    BY <1>4, <1>6, <1>13, <1>14, <1>15
  <2> QED BY <1>5, <1>6, <1>10, <1>15, <2>1 DEF WritesOut
<1>17. PICK m : m = n + 1
  OBVIOUS
<1>18. /\ m \in 0..Len(f.cq) /\ W = {f.cq[i] : i \in 1..m} /\ ft' = Dequeue(f, m, R)
       /\ out' = out \cup R /\ lost' = lost \cup V
  BY <1>1, <1>3, <1>15, <1>17 DEF W
<1>19. History(ft', l, out', lost', ph) /\ Frozen(f, ft')
  <2>1. PICK w, r : w = W /\ r = R
    OBVIOUS
  <2>2. w = {f.cq[i] : i \in 1..m}
    BY <1>18, <2>1
  <2>3. WritesOut(f, out, w, r, V)
    BY <1>16, <2>1
  <2>4. ft' = Dequeue(f, m, r) /\ out' = out \cup r
    BY <1>18, <2>1
  <2>5. m \in 0..Len(f.cq) /\ lost' = lost \cup V
    BY <1>18
  <2> QED BY <2>2, <2>3, <2>4, <2>5, WriteKeeps
<1> QED BY <1>1, <1>19

----------------------------------------------------------------------------
(***************************************************************************)
(* The inductive invariant: the table is well-formed, the history is as    *)
(* above, nothing is lost but by a failed write, and one flow by it.       *)
(***************************************************************************)
LostOne == IF phase = "failed" THEN \E v : lost = {v} ELSE lost = {}

HInv ==
  /\ IInv
  /\ History(ft, log, out, lost, phase)
  /\ LostOne
  /\ phase = "closed" => ft.aq = <<>> /\ ft.cq = <<>>

LEMMA InitHInv == Init => HInv
<1> SUFFICES ASSUME Init
             PROVE  HInv
  OBVIOUS
<1>1. /\ ft = yfFlowTabAlloc /\ log = <<>> /\ out = {} /\ lost = {} /\ phase = "open"
  BY DEF Init
<1>2. IInv
  BY InitIInv
<1>3. /\ ft.node = <<>> /\ ft.aq = <<>> /\ ft.cq = <<>> /\ ft.next_fid = 1
      /\ ft.stat_packets = 0 /\ ft.stat_flows = 0
  BY <1>1 DEF yfFlowTabAlloc
<1>4. /\ Len(ft.node) = 0 /\ Len(log) = 0 /\ 1..Len(ft.node) = {} /\ 1..Len(log) = {}
      /\ Len(ft.cq) = 0 /\ 1..Len(ft.cq) = {}
  BY <1>1, <1>3
<1>5. Counts(ft, log)
  BY <1>3, <1>4 DEF Counts
<1>6. Links(ft)
  BY <1>3, <1>4 DEF Links
<1>7. Ended(ft, log, phase)
  BY <1>4 DEF Ended
<1>8. Places(ft, out, lost)
  <2>1. Distinct(ft.cq)
    BY <1>4 DEF Distinct
  <2>2. Cardinality(out) = 0
    BY <1>1, FS_EmptySet
  <2> QED BY <1>1, <1>3, <1>4, <2>1, <2>2 DEF Places
<1>9. History(ft, log, out, lost, phase)
  BY <1>4, <1>5, <1>6, <1>7, <1>8 DEF History
<1> QED BY <1>1, <1>2, <1>9 DEF HInv, LostOne

(* A packet older than the one before it is only counted as rejected.      *)
LEMMA RejectKeeps ==
  ASSUME NEW f \in FlowTab, NEW l, NEW o, NEW x, NEW ph, History(f, l, o, x, ph),
         NEW g, g = [f EXCEPT !.stat_seqrej = @ + 1]
  PROVE  History(g, l, o, x, ph) /\ Frozen(f, g)
<1>1. /\ g.node = f.node /\ g.aq = f.aq /\ g.cq = f.cq /\ SameCounters(f, g)
      /\ g.next_fid = f.next_fid
  BY DEF FlowTab, SameCounters
<1>2. PICK r \in Reasons : r = "IDLE"
  BY DEF Reasons
<1>3. PICK C : C = {}
  OBVIOUS
<1>4. Shut(f, g, C, r)
  BY <1>1, <1>3 DEF Shut
<1>5. MayShut(f, C, r, ph)
  BY <1>2, <1>3 DEF MayShut
<1> QED BY <1>4, <1>5, ShutKeeps

LEMMA PBufHInv ==
  ASSUME HInv, NEW p \in Packet, PBuf(p)
  PROVE  HInv' /\ Frozen(ft, ft')
<1>1. /\ ft' = yfFlowPBuf(ft, p) /\ phase = "open"
      /\ log' = IF p.ptime < ft.ctime THEN log ELSE Append(log, p)
      /\ out' = out /\ lost' = lost /\ phase' = phase
  BY DEF PBuf
<1>2. IInv' /\ WellFormed(ft, 0, 0) /\ ft \in FlowTab /\ log \in Seq(Packet)
  BY PBufIInv DEF HInv, IInv, TypeOK
<1>3. History(ft, log, out, lost, phase)
  BY DEF HInv
<1>4. History(ft', log', out, lost, phase) /\ Frozen(ft, ft')
  <2>1. CASE p.ptime < ft.ctime
    <3>1. ft' = [ft EXCEPT !.stat_seqrej = @ + 1] /\ log' = log
      BY <1>1, <2>1 DEF yfFlowPBuf
    <3> QED BY <1>2, <1>3, <3>1, RejectKeeps
  <2>2. CASE ~(p.ptime < ft.ctime)
    <3>1. \A n \in 1..Len(ft.node) : ft.node[n].fid # 0
      BY <1>3 DEF History, Links
    <3>2. \/ \E n \in Nat, d \in Direction, nd \in Node : Joined(ft, ft', p, n, d, nd)
          \/ \E m \in Nat, r \in Reasons, n \in Nat, nd \in Node :
               Opened(ft, ft', p, m, r, n, nd)
      BY <1>1, <1>2, <2>2, <3>1, PacketEffect
    <3>3. log' = Append(log, p)
      BY <1>1, <2>2
    <3>4. CASE \E n \in Nat, d \in Direction, nd \in Node : Joined(ft, ft', p, n, d, nd)
      <4>1. PICK n \in Nat, d \in Direction, nd \in Node : Joined(ft, ft', p, n, d, nd)
        BY <3>4
      <4> QED BY <1>2, <1>3, <2>2, <3>3, <4>1, JoinedKeeps
    <3>5. CASE \E m \in Nat, r \in Reasons, n \in Nat, nd \in Node :
                 Opened(ft, ft', p, m, r, n, nd)
      <4>1. PICK m \in Nat, r \in Reasons, n \in Nat, nd \in Node :
                 Opened(ft, ft', p, m, r, n, nd)
        BY <3>5
      <4> QED BY <1>2, <1>3, <2>2, <3>3, <4>1, OpenedKeeps
    <3> QED BY <3>2, <3>4, <3>5
  <2> QED BY <2>1, <2>2
<1> QED BY <1>1, <1>2, <1>4 DEF HInv, LostOne

LEMMA PhaseKeeps ==
  ASSUME NEW f, NEW l, NEW o, NEW x, NEW ph, NEW q, ph = "open", History(f, l, o, x, ph)
  PROVE  History(f, l, o, x, q)
<1>1. Ended(f, l, q)
  BY DEF History, Ended
<1> QED BY <1>1 DEF History

LEMMA WriteHInv ==
  ASSUME HInv, phase = "open", NEW close \in BOOLEAN,
         NEW idle \in 0..Len(ft.aq), IdleRun(ft, idle),
         NEW f, f = Flushed(ft, idle, close), NEW ph \in {"open", "closed"},
         close <=> ph = "closed",
         \/ WriteAll(f) /\ phase' = ph
         \/ \E n \in 0..(Len(f.cq) - 1), half \in BOOLEAN :
              WriteFails(f, n, half) /\ phase' = "failed",
         log' = log
  PROVE  HInv' /\ Frozen(ft, ft')
<1>1. FlushResult(close)
  BY WriteResult DEF HInv
<1>2. IInv' /\ (phase' = "closed" => ft'.aq = <<>> /\ ft'.cq = <<>>)
  <2>1. phase' = "closed" => close
    OBVIOUS
  <2> QED BY <1>1, <2>1 DEF FlushResult
<1>3. WellFormed(ft, 0, 0) /\ AfterFlush(ft, f, close) /\ WellFormed(f, 0, 0)
  <2>1. WellFormed(ft, 0, 0)
    BY DEF HInv, IInv
  <2>2. AfterFlush(ft, f, close)
    BY <2>1, FlushedFacts
  <2> QED BY <2>1, <2>2 DEF AfterFlush
<1>4. PICK q : q = phase'
  OBVIOUS
<1>5. close => q # "open"
  BY <1>4
<1>6. History(ft, log, out, lost, q)
  BY PhaseKeeps DEF HInv
<1>7. History(f, log, out, lost, q) /\ Frozen(ft, f)
  BY <1>3, <1>5, <1>6, FlushedHistory
<1>8. lost = {}
  BY DEF HInv, LostOne
<1>9. CASE WriteAll(f) /\ phase' = ph
  <2>1. History(ft', log, out', lost', q) /\ Frozen(f, ft') /\ lost' = lost
    BY <1>3, <1>7, <1>9, WriteAllKeeps
  <2>2. LostOne'
    BY <1>8, <1>9, <2>1 DEF LostOne
  <2>3. Frozen(ft, ft')
    BY <1>7, <2>1, FrozenTransitive
  <2> QED BY <1>2, <1>4, <2>1, <2>2, <2>3 DEF HInv
<1>10. CASE \E n \in 0..(Len(f.cq) - 1), half \in BOOLEAN :
              WriteFails(f, n, half) /\ phase' = "failed"
  <2>1. PICK n \in 0..(Len(f.cq) - 1), half \in BOOLEAN :
              WriteFails(f, n, half) /\ phase' = "failed"
    BY <1>10
  <2>2. /\ History(ft', log, out', lost', q) /\ Frozen(f, ft')
        /\ \E v : lost' = lost \cup {v}
    BY <1>3, <1>7, <2>1, WriteFailsKeeps
  <2>3. LostOne'
    BY <1>8, <2>1, <2>2 DEF LostOne
  <2>4. Frozen(ft, ft')
    BY <1>7, <2>2, FrozenTransitive
  <2> QED BY <1>2, <1>4, <2>2, <2>3, <2>4 DEF HInv
<1> QED BY <1>9, <1>10

LEMMA FlushHInv ==
  ASSUME HInv, Flush
  PROVE  HInv' /\ Frozen(ft, ft')
<1>1. PICK idle \in 0..Len(ft.aq) :
        /\ IdleRun(ft, idle)
        /\ LET f == Flushed(ft, idle, FALSE)
           IN  \/ WriteAll(f) /\ phase' = phase
               \/ \E n \in 0..(Len(f.cq) - 1), half \in BOOLEAN :
                    WriteFails(f, n, half) /\ phase' = "failed"
  BY DEF Flush
<1>2. phase = "open" /\ log' = log
  BY DEF Flush
<1> QED BY <1>1, <1>2, WriteHInv

LEMMA FinalFlushHInv ==
  ASSUME HInv, FinalFlush
  PROVE  HInv' /\ Frozen(ft, ft')
<1>1. PICK idle \in 0..Len(ft.aq) :
        /\ IdleRun(ft, idle)
        /\ LET f == Flushed(ft, idle, TRUE)
           IN  \/ WriteAll(f) /\ phase' = "closed"
               \/ \E n \in 0..(Len(f.cq) - 1), half \in BOOLEAN :
                    WriteFails(f, n, half) /\ phase' = "failed"
  BY DEF FinalFlush
<1>2. phase = "open" /\ log' = log
  BY DEF FinalFlush
<1> QED BY <1>1, <1>2, WriteHInv

LEMMA InductiveHInv == HInv /\ [Next]_vars => HInv' /\ Frozen(ft, ft')
<1> SUFFICES ASSUME HInv, [Next]_vars
             PROVE  HInv' /\ Frozen(ft, ft')
  OBVIOUS
<1>1. CASE \E p \in Packet : PBuf(p)
  BY <1>1, PBufHInv
<1>2. CASE Flush
  BY <1>2, FlushHInv
<1>3. CASE FinalFlush
  BY <1>3, FinalFlushHInv
<1>4. CASE UNCHANGED vars
  <2>1. ft' = ft /\ log' = log /\ out' = out /\ lost' = lost /\ phase' = phase
    BY <1>4 DEF vars
  <2>2. IInv'
    BY Inductive DEF HInv
  <2>3. Len(ft.node) \in Nat
    BY TabFields DEF HInv, IInv, TypeOK
  <2> QED BY <2>1, <2>2, <2>3 DEF HInv, LostOne, Frozen
<1> QED BY <1>1, <1>2, <1>3, <1>4 DEF Next

LEMMA HistoryInvariant == Spec => []HInv
<1>1. HInv /\ [Next]_vars => HInv'
  BY InductiveHInv
<1> QED BY <1>1, InitHInv, PTL DEF Spec

----------------------------------------------------------------------------
(***************************************************************************)
(* The theorems                                                            *)
(***************************************************************************)
(* Where node n is, among the places of a flow.                            *)
PlacesOf(n) ==
  {x \in {"aq", "cq", "out", "lost"} :
     \/ x = "aq" /\ InAq(n)
     \/ x = "cq" /\ InCq(n)
     \/ x = "out" /\ Written(n) /\ n \notin lost
     \/ x = "lost" /\ n \in lost}

LEMMA OnePlace ==
  ASSUME HInv, NEW n \in Nodes
  PROVE  \E x : PlacesOf(n) = {x}
<1>1. /\ InAq(n) <=> ft.node[n].reason = "none"
      /\ ft.node[n].pkt["val"] # {}
  <2>1. Ended(ft, log, phase) /\ NodeHistory(ft.node[n], log)
    BY DEF HInv, History, Nodes
  <2> QED BY <2>1 DEF Ended, NodeHistory, Matches, InAq, Nodes
<1>2. Places(ft, out, lost)
  BY DEF HInv, History
<1>3. InCq(n) => ft.node[n].reason # "none"
  BY <1>2 DEF Places, InCq, Nodes
<1>4. Written(n) => ft.node[n].reason # "none" /\ ~InCq(n)
  BY <1>2 DEF Places, InCq, Nodes, Written, RecordKinds
<1>5. n \in lost <=> /\ ft.node[n].reason # "none" /\ ~InCq(n)
                     /\ ~Complete(ft, n, out)
  BY <1>2 DEF Places, InCq, Nodes
<1>6. Complete(ft, n, out) => Written(n)
  <2> SUFFICES ASSUME Complete(ft, n, out)
               PROVE  Written(n)
    OBVIOUS
  <2>1. PICK d : d = "val"
    OBVIOUS
  <2>2. <<n, IF uniflow THEN d ELSE "both">> \in out
    BY <1>1, <2>1 DEF Complete, Direction
  <2> QED BY <2>1, <2>2 DEF Written, Direction
<1>7. CASE InAq(n)
  <2>1. PlacesOf(n) = {"aq"}
    BY <1>1, <1>3, <1>4, <1>5, <1>7 DEF PlacesOf
  <2> QED BY <2>1
<1>8. CASE InCq(n)
  <2>1. PlacesOf(n) = {"cq"}
    BY <1>1, <1>3, <1>4, <1>5, <1>8 DEF PlacesOf
  <2> QED BY <2>1
<1>9. CASE ~InAq(n) /\ ~InCq(n) /\ n \in lost
  <2>1. PlacesOf(n) = {"lost"}
    BY <1>9 DEF PlacesOf
  <2> QED BY <2>1
<1>10. CASE ~InAq(n) /\ ~InCq(n) /\ n \notin lost
  <2>1. Written(n)
    BY <1>1, <1>5, <1>6, <1>10
  <2>2. PlacesOf(n) = {"out"}
    BY <1>10, <2>1 DEF PlacesOf
  <2> QED BY <2>2
<1> QED BY <1>7, <1>8, <1>9, <1>10

LEMMA LinksPieces == HInv => FidLinksPieces
BY DEF HInv, History, Links, FidLinksPieces, Nodes

(* Every accepted packet is counted once, in one flow that is in exactly   *)
(* one place, every flow has the key and the times of its packets, and the *)
(* pieces of a flow that a timeout cut are linked by their ID: for any     *)
(* number of conversations and any order of timeouts (yfFlowPBuf,          *)
(* yfFlowGetNode, yfFlowClose).                                            *)
THEOREM PacketsAlwaysInFlows == Spec => []PacketsInFlows
<1>1. HInv => EveryPacketInOneFlow
  <2> SUFFICES ASSUME HInv
               PROVE  EveryPacketInOneFlow
    OBVIOUS
  <2>1. Counts(ft, log)
    BY DEF HInv, History
  <2>2. /\ ft.stat_packets = Len(log)
        /\ \A s \in 1..Len(log) : \E n \in Nodes, d \in Direction : s \in ft.node[n].pkt[d]
    BY <2>1 DEF Counts, Nodes
  <2>3. \A n, m \in Nodes, d, e \in Direction :
          ft.node[n].pkt[d] \cap ft.node[m].pkt[e] # {} => n = m /\ d = e
    BY <2>1 DEF Counts, Nodes
  <2>4. \A n \in Nodes : Cardinality(PlacesOf(n)) = 1
    <3> SUFFICES ASSUME NEW n \in Nodes
                 PROVE  Cardinality(PlacesOf(n)) = 1
      OBVIOUS
    <3>1. PICK x : PlacesOf(n) = {x}
      BY OnePlace
    <3> QED BY <3>1, FS_Singleton
  <2> QED BY <2>2, <2>3, <2>4 DEF EveryPacketInOneFlow, PlacesOf
<1>2. HInv => FlowMatchesPackets
  BY DEF HInv, History, NodeHistory, Matches, FlowMatchesPackets, Nodes
<1>3. HInv => PacketsInFlows
  BY <1>1, <1>2, LinksPieces DEF PacketsInFlows
<1> QED BY <1>3, HistoryInvariant, PTL

LEMMA FinishedIsTornDown ==
  ASSUME HInv, NEW n \in Nodes
  PROVE  Finished(ft.node[n]) <=> TornDown(ft.node[n])
<1>1. PICK nd : nd = ft.node[n]
  OBVIOUS
<1>2. Teardown(nd, log)
  BY <1>1 DEF HInv, History, NodeHistory, Nodes
<1>3. Counts(ft, log)
  BY DEF HInv, History
<1>4. nd.pkt["val"] \cap nd.pkt["rval"] = {}
  <2>1. "val" \in Direction /\ "rval" \in Direction /\ "val" # "rval"
    BY DEF Direction
  <2>2. nd.pkt["val"] \subseteq 1..Len(log)
    BY <1>1, <1>3, <2>1 DEF Counts, Nodes
  <2> QED BY <1>1, <1>3, <2>1, <2>2 DEF Counts, Nodes
<1>5. /\ Pkts(nd) \ nd.pkt["val"] = nd.pkt["rval"]
      /\ Pkts(nd) \ nd.pkt["rval"] = nd.pkt["val"]
  BY <1>4 DEF Pkts
<1>6. TornDown(nd) <=>
        \/ \E s \in Pkts(nd) : "RST" \in log[s].flags
        \/ FinAcked(nd, log, "val", "rval") /\ FinAcked(nd, log, "rval", "val")
  BY <1>5 DEF TornDown, Direction, FinAcked
<1>7. FinAcked(nd, log, "val", "rval") => "FFIN" \in nd.state
  BY <1>2 DEF Teardown, FinAcked
<1>8. FinAcked(nd, log, "rval", "val") => "RFIN" \in nd.state
  BY <1>2 DEF Teardown, FinAcked
<1>9. Finished(nd) <=> \/ "RST" \in nd.state
                       \/ /\ "FFIN" \in nd.state /\ "RFIN" \in nd.state
                          /\ "FFINACK" \in nd.state /\ "RFINACK" \in nd.state
  BY DEF Finished, FinBits
<1>10. /\ "RST" \in nd.state <=> \E s \in Pkts(nd) : "RST" \in log[s].flags
       /\ "RFINACK" \in nd.state <=> FinAcked(nd, log, "val", "rval")
       /\ "FFINACK" \in nd.state <=> FinAcked(nd, log, "rval", "val")
  BY <1>2 DEF Teardown
<1> QED BY <1>1, <1>6, <1>7, <1>8, <1>9, <1>10

(* A flow is closed for the reason it records and for no other: the idle   *)
(* timeout had passed, a packet was past the active timeout, its packets   *)
(* tore the connection down (exactly then), the table was at its limit, or *)
(* the input ended (yfFlowPBuf, yfFlowPktTCP, yfFlowTabFlush).             *)
THEOREM EndReasonsJustified == Spec => []EndReasonJustified
<1>1. HInv => EndReasonJustified
  <2> SUFFICES ASSUME HInv, NEW n \in Nodes
               PROVE  LET nd == ft.node[n] IN
                      /\ InAq(n) <=> nd.reason = "none"
                      /\ nd.reason = "IDLE" => ft.ctime - nd.etime > idle_ms
                      /\ nd.reason = "ACTIVE" =>
                           \E s \in 1..Len(log) :
                             /\ s \notin Pkts(nd)
                             /\ SameConversation(log[s].key, nd.key)
                             /\ \/ log[s].ptime - nd.stime > active_ms
                                \/ silkmode
                      /\ nd.reason = "CLOSED" <=> TornDown(nd)
                      /\ nd.reason = "RESOURCE" => max_flows # 0
                      /\ nd.reason = "FORCED" => phase # "open"
    BY DEF EndReasonJustified
  <2>1. PICK nd : nd = ft.node[n]
    OBVIOUS
  <2>2. /\ InAq(n) <=> nd.reason = "none"
        /\ nd.reason = "IDLE" => ft.ctime - nd.etime > idle_ms
        /\ nd.reason = "ACTIVE" => \E s \in 1..Len(log) : CutBy(nd, log, s)
        /\ nd.reason = "CLOSED" <=> Finished(nd)
        /\ nd.reason = "RESOURCE" => max_flows # 0
        /\ nd.reason = "FORCED" => phase # "open"
    BY <2>1 DEF HInv, History, Ended, Nodes, InAq
  <2>3. Finished(nd) <=> TornDown(nd)
    BY <2>1, FinishedIsTornDown
  <2> QED BY <2>1, <2>2, <2>3 DEF CutBy
<1> QED BY <1>1, HistoryInvariant, PTL

(* What was accounted reaches the output, once: whole after the final      *)
(* flush, all but the one flow being written when a write fails, and with  *)
(* reverse records that start at their first packet (yfFlowTabFlush,       *)
(* yfUniflow).                                                             *)
THEOREM ExportsComplete == Spec => []ExportComplete
<1>1. HInv => ExportedOnce
  <2> SUFFICES ASSUME HInv
               PROVE  ExportedOnce
    OBVIOUS
  <2>1. Places(ft, out, lost) /\ Ended(ft, log, phase)
    BY DEF HInv, History
  <2>2. \A n \in Nodes : Written(n) => ft.node[n].reason # "none" /\ ~InCq(n)
    BY <2>1 DEF Places, InCq, Nodes, Written, RecordKinds
  <2>3. \A n \in Nodes : InAq(n) => ft.node[n].reason = "none"
    BY <2>1 DEF Ended, Nodes, InAq
  <2>4. ft.stat_flows = Cardinality(out)
    BY <2>1 DEF Places
  <2> QED BY <2>2, <2>3, <2>4 DEF ExportedOnce
<1>2. HInv => FinalFlushComplete
  <2> SUFFICES ASSUME HInv, phase = "closed"
               PROVE  /\ ft.aq = <<>> /\ ft.cq = <<>>
                      /\ \A s \in 1..Len(log) : \E n \in Nodes, d \in Direction :
                           /\ s \in ft.node[n].pkt[d]
                           /\ <<n, IF uniflow THEN d ELSE "both">> \in out
    BY DEF FinalFlushComplete
  <2>1. ft.aq = <<>> /\ ft.cq = <<>> /\ lost = {}
    BY DEF HInv, LostOne
  <2>2. Places(ft, out, lost) /\ Ended(ft, log, phase) /\ Counts(ft, log)
    BY DEF HInv, History
  <2>3. \A n : ~InQueue(ft.aq, n) /\ ~InQueue(ft.cq, n)
    BY <2>1 DEF InQueue
  <2>4. \A n \in Nodes : Complete(ft, n, out)
    BY <2>1, <2>2, <2>3 DEF Places, Ended, Nodes
  <2>5. SUFFICES ASSUME NEW s \in 1..Len(log)
                 PROVE  \E n \in Nodes, d \in Direction :
                           /\ s \in ft.node[n].pkt[d]
                           /\ <<n, IF uniflow THEN d ELSE "both">> \in out
    BY <2>1
  <2>6. PICK n \in Nodes, d \in Direction : s \in ft.node[n].pkt[d]
    BY <2>2 DEF Counts, Nodes
  <2>7. <<n, IF uniflow THEN d ELSE "both">> \in out
    BY <2>4, <2>6 DEF Complete
  <2> QED BY <2>6, <2>7
<1>3. HInv => WriteErrorLosesOne
  <2> SUFFICES ASSUME HInv
               PROVE  WriteErrorLosesOne
    OBVIOUS
  <2> DEFINE Missing == {n \in Nodes : ~InAq(n) /\ ~InCq(n) /\ ~Complete(ft, n, out)}
  <2>1. Places(ft, out, lost) /\ Ended(ft, log, phase)
    BY DEF HInv, History
  <2>2. Missing = lost
    BY <2>1 DEF Places, Ended, Nodes, InAq, InCq
  <2>3. Cardinality(lost) = IF phase = "failed" THEN 1 ELSE 0
    <3>1. CASE phase = "failed"
      <4>1. PICK v : lost = {v}
        BY <3>1 DEF HInv, LostOne
      <4> QED BY <3>1, <4>1, FS_Singleton
    <3>2. CASE phase # "failed"
      <4>1. lost = {}
        BY <3>2 DEF HInv, LostOne
      <4> QED BY <3>2, <4>1, FS_EmptySet
    <3> QED BY <3>1, <3>2
  <2> QED BY <2>2, <2>3 DEF WriteErrorLosesOne, Complete
<1>4. HInv => ReverseStart
  BY DEF HInv, History, NodeHistory, StartsReverse, ReverseStart, Nodes
<1>5. HInv => ExportComplete
  BY <1>1, <1>2, <1>3, <1>4 DEF ExportComplete
<1> QED BY <1>5, HistoryInvariant, PTL

(* In SiLK mode a flow is split before its octet counter overflows, the    *)
(* continuation flag is on exactly the pieces after an active timeout or   *)
(* such a split, and the pieces are linked (yfFlowPBuf).                   *)
THEOREM SilkFlowsHold == Spec => []SilkFlows
<1>1. HInv => SilkCounterFits
  BY DEF HInv, History, NodeHistory, Fits, SilkCounterFits, Nodes
<1>2. HInv => SilkContinuation
  BY DEF HInv, History, Links, Before, SilkContinuation, Nodes
<1>3. HInv => SilkFlows
  BY <1>1, <1>2, LinksPieces DEF SilkFlows
<1> QED BY <1>3, HistoryInvariant, PTL

(* No step changes a closed flow or puts it back in the active queue       *)
(* (yfFlowClose takes it out of the hash table).                           *)
THEOREM ClosedFlowsFrozen == Spec => ClosedFlowFrozen
<1> DEFINE Step == \A n \in Nodes :
                     ft.node[n].reason # "none" =>
                       ft'.node[n] = ft.node[n] /\ ~InQueue(ft'.aq, n)
<1>1. HInv /\ [Next]_vars => [Step]_vars
  <2> SUFFICES ASSUME HInv, [Next]_vars, NEW n \in Nodes, ft.node[n].reason # "none"
               PROVE  ft'.node[n] = ft.node[n] /\ ~InQueue(ft'.aq, n)
    OBVIOUS
  <2>1. HInv' /\ Frozen(ft, ft')
    BY InductiveHInv
  <2>2. ft'.node[n] = ft.node[n] /\ n \in 1..Len(ft'.node)
    BY <2>1 DEF Frozen, Nodes
  <2>3. Ended(ft', log', phase')
    BY <2>1 DEF HInv, History
  <2>4. InQueue(ft'.aq, n) <=> ft'.node[n].reason = "none"
    BY <2>2, <2>3 DEF Ended
  <2> QED BY <2>2, <2>4
<1> QED BY <1>1, HistoryInvariant, PTL DEF Spec, ClosedFlowFrozen

=============================================================================
