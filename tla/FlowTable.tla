----------------------------- MODULE FlowTable -----------------------------
(***************************************************************************)
(* The flow table of QoF (src/src/yaftab.c).                               *)
(*                                                                         *)
(* Packets are accounted to bidirectional flows.  An open flow is in the   *)
(* hash table and in the active queue aq; a closed one is in the close     *)
(* queue cq until a flush writes it to the output and frees it.            *)
(*                                                                         *)
(* The table is one variable, ft, a record with the fields of              *)
(* struct yfFlowTab_st; each C function is an operator from a table to a   *)
(* table.  A flow node is a number, its position in ft.node, which holds   *)
(* every node ever allocated: a freed node keeps its last contents, so     *)
(* that the properties can speak of what was exported.                     *)
(*                                                                         *)
(* Operators whose comment starts with "Fault:" are wrong variants of the  *)
(* operator that follows them; the mutation runs put them in its place.    *)
(***************************************************************************)
EXTENDS Integers, Sequences, FiniteSets, Picq

CONSTANTS
  Keys,        \* the flow keys packets may have, closed under reversal
  idle_ms,     \* idle timeout
  active_ms,   \* active timeout
  max_flows,   \* limit on open flows, 0 for none
  uniflow,     \* export each direction as a record of its own
  silkmode,    \* SiLK-compatible counters and continuation flag
  OctMax,      \* UINT32_MAX
  FlushDelay,  \* YF_FLUSH_DELAY
  MaxCQ        \* YF_MAX_CQ

CONSTANTS      \* bounds on the input
  Iplens,      \* the packet lengths that occur
  FlagSets,    \* the sets of TCP flags that occur
  MaxTime,     \* the largest packet timestamp
  MaxPkts,     \* the number of packets offered
  MaxFlush     \* the number of flushes before the final one

(* ICMP keys keep type and code in the ports, in both directions.  IP      *)
(* version and VLAN are copied by the reversal and compared like proto,    *)
(* of which they are a part here.                                          *)
yfFlowKeyReverse(k) ==
  [sip |-> k.dip, dip |-> k.sip,
   sp |-> IF k.proto = "ICMP" THEN k.sp ELSE k.dp,
   dp |-> IF k.proto = "ICMP" THEN k.dp ELSE k.sp,
   proto |-> k.proto]

ASSUME KeysAssumption ==
  \A k \in Keys :
    /\ k \in [sip : Int, dip : Int, sp : Int, dp : Int,
              proto : {"TCP", "UDP", "ICMP"}]
    /\ yfFlowKeyReverse(k) \in Keys

ASSUME ConfigAssumption ==
  /\ idle_ms \in Nat /\ active_ms \in Nat /\ max_flows \in Nat
  /\ uniflow \in BOOLEAN /\ silkmode \in BOOLEAN
  /\ OctMax \in Nat /\ FlushDelay \in Nat /\ MaxCQ \in Nat

ASSUME InputAssumption ==
  /\ Iplens \subseteq Nat
  /\ \A l \in Iplens : l <= OctMax    \* iplen is of 16 bits
  /\ FlagSets \subseteq SUBSET {"FIN", "ACK", "RST"}
  /\ MaxTime \in Nat /\ MaxPkts \in Nat /\ MaxFlush \in Nat

VARIABLES
  ft,          \* the flow table
  log,         \* history: the accepted packets, in order
  out,         \* the records in the output, as <<node, direction>>
  lost,        \* history: nodes freed after a failed write
  phase        \* "open", then "closed" (final flush) or "failed"

vars == <<ft, log, out, lost, phase>>

----------------------------------------------------------------------------
(***************************************************************************)
(* Nodes, packets and the table                                            *)
(***************************************************************************)
Reasons == {"none", "IDLE", "ACTIVE", "CLOSED", "FORCED", "RESOURCE"}
FinBits == {"FFIN", "RFIN", "FFINACK", "RFINACK"}
Direction == {"val", "rval"}

(* A flow node.  pkt[d] is the set of packets (positions in log) counted   *)
(* in direction d, so the code's counter is its cardinality.               *)
Node ==
  [key : Keys, fid : Nat, stime : Nat, etime : Nat, rdtime : Nat,
   reason : Reasons, iscont : BOOLEAN, state : SUBSET (FinBits \cup {"RST"}),
   pkt : [Direction -> SUBSET Nat], oct : [Direction -> Nat]]

(* A decoded packet buffer; one with ptime 0 is invalid and never gets     *)
(* here.  Only TCP packets have flags.                                     *)
Packet ==
  {p \in [ptime : 1..MaxTime, key : Keys, iplen : Iplens, flags : FlagSets] :
     p.key.proto # "TCP" => p.flags = {}}

FlowTab ==
  [node : Seq(Node), table : [Keys -> Nat], aq : Seq(Nat), cq : Seq(Nat),
   count : Int, cq_count : Int, next_fid : Nat, ctime : Nat,
   flushtime : Nat, stat_packets : Nat, stat_seqrej : Nat,
   stat_flows : Nat, stat_uniflows : Nat, stat_peak : Int, stat_flush : Nat]

yfFlowTabAlloc ==
  [node |-> <<>>, table |-> [k \in Keys |-> 0], aq |-> <<>>, cq |-> <<>>,
   count |-> 0, cq_count |-> 0, next_fid |-> 1, ctime |-> 0,
   flushtime |-> 0, stat_packets |-> 0, stat_seqrej |-> 0,
   stat_flows |-> 0, stat_uniflows |-> 0, stat_peak |-> 0, stat_flush |-> 0]

----------------------------------------------------------------------------
(***************************************************************************)
(* Operations on the table                                                 *)
(***************************************************************************)
(* Fault: a flow already in the queue stays where it is.                   *)
TickInPlace(f, n) ==
  IF InQueue(f.aq, n) THEN f ELSE [f EXCEPT !.aq = piqEnQ(@, n)]

yfFlowTick(f, n) ==
  IF f.aq # <<>> /\ f.aq[Len(f.aq)] = n
  THEN f
  ELSE [f EXCEPT !.aq = piqEnQ(piqPick(@, n), n)]

(* Fault: the key stays in the hash table.                                 *)
CloseKeepKey(f, n, reason) ==
  [f EXCEPT !.node[n].reason = reason,
            !.aq = piqPick(@, n), !.cq = piqEnQ(@, n),
            !.cq_count = @ + 1, !.count = @ - 1]

yfFlowClose(f, n, reason) ==
  [f EXCEPT !.table[f.node[n].key] = 0,
            !.node[n].reason = reason,
            !.aq = piqPick(@, n), !.cq = piqEnQ(@, n),
            !.cq_count = @ + 1, !.count = @ - 1]

----------------------------------------------------------------------------
(***************************************************************************)
(* yfFlowGetNode: the node of a key, 0 for NULL, and the table after a     *)
(* node was made for a key that has none.                                  *)
(***************************************************************************)

(* Fault: only the forward key is looked up.                               *)
LookupForward(f, key) == f.table[key]

Lookup(f, key) ==
  IF f.table[key] # 0 THEN f.table[key] ELSE f.table[yfFlowKeyReverse(key)]

(* Which half of its node a packet with this key is counted in.            *)
Dir(f, key) == IF f.table[key] # 0 THEN "val" ELSE "rval"

(* Fault: a continued flow gets a flow ID of its own.                      *)
FreshFid(f, cont_fid) == f.next_fid

FlowId(f, cont_fid) == IF cont_fid # 0 THEN cont_fid ELSE f.next_fid

NewNode(f, key, cont_fid) ==
  [key |-> key, fid |-> FlowId(f, cont_fid), stime |-> f.ctime,
   etime |-> f.ctime, rdtime |-> 0, reason |-> "none", iscont |-> FALSE,
   state |-> {}, pkt |-> [d \in Direction |-> {}],
   oct |-> [d \in Direction |-> 0]]

yfFlowGetNode(f, key, cont_fid) ==
  IF Lookup(f, key) # 0
  THEN f
  ELSE [f EXCEPT !.node = Append(@, NewNode(f, key, cont_fid)),
                 !.next_fid = IF cont_fid # 0 THEN @ ELSE @ + 1,
                 !.table[key] = Len(f.node) + 1,
                 !.count = @ + 1,
                 !.stat_peak = IF f.count + 1 > @ THEN f.count + 1 ELSE @]

----------------------------------------------------------------------------
(***************************************************************************)
(* One packet (yfFlowPBuf).  TTLs, MAC addresses and the payload counters  *)
(* of a flow are left out; the TCP trackers are modules of their own.      *)
(***************************************************************************)

(* Fault: the ACK of the FIN is taken from either side's FIN.              *)
PktTCPAnyFin(nd, d, flags) ==
  LET fwd == d = "val"
  IN  [nd EXCEPT !.state = @
         \cup (IF "FIN" \in flags THEN {IF fwd THEN "FFIN" ELSE "RFIN"} ELSE {})
         \cup (IF @ \cap {"FFIN", "RFIN"} # {} /\ "ACK" \in flags
               THEN {"FFINACK", "RFINACK"} ELSE {})
         \cup (flags \cap {"RST"})]

(* The TCP teardown state: FINs seen in each direction, and an ACK from    *)
(* the other side after each of them; or a RST.                            *)
yfFlowPktTCP(nd, d, flags) ==
  LET fwd == d = "val"
  IN  [nd EXCEPT !.state = @
         \cup (IF "FIN" \in flags THEN {IF fwd THEN "FFIN" ELSE "RFIN"} ELSE {})
         \cup (IF (IF fwd THEN "RFIN" ELSE "FFIN") \in @ /\ "ACK" \in flags
               THEN {IF fwd THEN "FFINACK" ELSE "RFINACK"} ELSE {})
         \cup (flags \cap {"RST"})]

(* Fault: the reverse delay is taken the wrong way round.                  *)
CountPacketNegativeDelay(nd, d, p, serial) ==
  LET tcp == IF nd.key.proto = "TCP" THEN yfFlowPktTCP(nd, d, p.flags) ELSE nd
  IN  [tcp EXCEPT !.rdtime = IF nd.pkt[d] = {} /\ d = "rval"
                             THEN nd.stime - p.ptime ELSE @,
                  !.oct[d] = @ + p.iplen,
                  !.pkt[d] = @ \cup {serial},
                  !.etime = p.ptime]

(* The packet's effect on the half d of its node nd.                       *)
CountPacket(nd, d, p, serial) ==
  LET tcp == IF nd.key.proto = "TCP" THEN yfFlowPktTCP(nd, d, p.flags) ELSE nd
  IN  [tcp EXCEPT !.rdtime = IF nd.pkt[d] = {} /\ d = "rval"
                             THEN p.ptime - nd.stime ELSE @,
                  !.oct[d] = @ + p.iplen,
                  !.pkt[d] = @ \cup {serial},
                  !.etime = p.ptime]

(* Fault: no test for the overflow of the 32 bit counter.                  *)
ActiveExpiredTimeOnly(f, p) ==
  p.ptime - f.node[Lookup(f, p.key)].stime > active_ms

ActiveExpired(f, p) ==
  LET nd == f.node[Lookup(f, p.key)]
  IN  \/ p.ptime - nd.stime > active_ms
      \/ silkmode /\ nd.oct[Dir(f, p.key)] + p.iplen > OctMax

(* Active timeout: close the flow; a new one with the same ID takes the    *)
(* packet.  The packet's key, not the old flow's, is the new flow's key.   *)
SplitActive(f, p) ==
  IF ~ActiveExpired(f, p)
  THEN f
  ELSE LET n == Lookup(f, p.key)
           g == yfFlowGetNode(yfFlowClose(f, n, "ACTIVE"), p.key, f.node[n].fid)
       IN  [g EXCEPT !.node[Lookup(g, p.key)].iscont = silkmode]

(* Idle timeout met by a packet rather than by a flush.                    *)
SplitIdle(f, p) ==
  LET n == Lookup(f, p.key)
  IN  IF p.ptime - f.node[n].etime > idle_ms
      THEN yfFlowGetNode(yfFlowClose(f, n, "IDLE"), p.key, f.node[n].fid)
      ELSE f

Finished(nd) == FinBits \subseteq nd.state \/ "RST" \in nd.state

yfFlowPBuf(f, p) ==
  IF p.ptime < f.ctime
  THEN [f EXCEPT !.stat_seqrej = @ + 1]
  ELSE LET timed   == [f EXCEPT !.ctime = p.ptime, !.stat_packets = @ + 1]
           found   == yfFlowGetNode(timed, p.key, 0)
           split   == SplitIdle(SplitActive(found, p), p)
           n       == Lookup(split, p.key)
           counted == [split EXCEPT !.node[n] =
                         CountPacket(@, Dir(split, p.key), p, split.stat_packets)]
       IN  IF Finished(counted.node[n])
           THEN yfFlowClose(counted, n, "CLOSED")
           ELSE yfFlowTick(counted, n)

----------------------------------------------------------------------------
(***************************************************************************)
(* Flush (yfFlowTabFlush).  Each loop that closes flows from the tail is   *)
(* described by how many it closes.                                        *)
(***************************************************************************)
FlushDue(f) ==
  \/ f.flushtime = 0
  \/ f.ctime >= f.flushtime + FlushDelay
  \/ f.cq_count >= MaxCQ

(* The tables after yfFlowClose of the n oldest entries of aq.             *)
CloseOldest(f, n, reason) ==
  LET closed == {f.aq[i] : i \in 1..n}
  IN  [f EXCEPT !.table = [k \in Keys |-> IF \E c \in closed : f.node[c].key = k
                                          THEN 0 ELSE f.table[k]],
                !.node = [i \in 1..Len(f.node) |->
                            IF i \in closed THEN [f.node[i] EXCEPT !.reason = reason]
                            ELSE f.node[i]],
                !.aq = SubSeq(@, n + 1, Len(@)),
                !.cq = @ \o SubSeq(f.aq, 1, n),
                !.cq_count = @ + n, !.count = @ - n]

(* The loop over idle flows stops after n: the first n are idle, and       *)
(* either there is no other or the next is not idle.                       *)
IdleRun(f, n) ==
  /\ \A i \in 1..n : f.ctime - f.node[f.aq[i]].etime > idle_ms
  /\ n < Len(f.aq) => ~(f.ctime - f.node[f.aq[n + 1]].etime > idle_ms)

(* Fault: the table is left at the limit plus one.                         *)
LimitRunOffByOne(f) ==
  IF max_flows = 0 \/ f.count <= max_flows THEN 0
  ELSE IF f.count - max_flows < Len(f.aq) THEN f.count - max_flows
  ELSE Len(f.aq)

(* The number of flows the loop for max_flows closes.                      *)
LimitRun(f) ==
  IF max_flows = 0 \/ f.count < max_flows THEN 0
  ELSE IF f.count - max_flows + 1 < Len(f.aq) THEN f.count - max_flows + 1
  ELSE Len(f.aq)

(* The table after the loops that close flows, idle flows first.           *)
CloseForFlush(f, idle, close) ==
  LET g == CloseOldest(f, idle, "IDLE")
      h == CloseOldest(g, LimitRun(g), "RESOURCE")
  IN  IF close THEN CloseOldest(h, Len(h.aq), "FORCED") ELSE h

(* The records written for node n: the biflow, or (yfUniflow and           *)
(* yfUniflowReverse) one for each direction that has packets.              *)
Records(f, n) ==
  IF uniflow
  THEN {<<n, "val">>} \cup (IF f.node[n].pkt["rval"] # {} THEN {<<n, "rval">>} ELSE {})
  ELSE {<<n, "both">>}

(* The table after the n oldest closed flows were taken out of cq.         *)
Dequeue(f, n, records) ==
  [f EXCEPT !.cq = SubSeq(@, n + 1, Len(@)),
            !.cq_count = @ - n,
            !.stat_flows = @ + Cardinality(records),
            !.stat_uniflows = @ + Cardinality({i \in 1..n :
                                    f.node[f.cq[i]].pkt["rval"] = {}})]

(* Every closed flow is written.                                           *)
WriteAll(f) ==
  LET records == UNION {Records(f, f.cq[i]) : i \in 1..Len(f.cq)}
  IN  /\ ft' = Dequeue(f, Len(f.cq), records)
      /\ out' = out \cup records
      /\ UNCHANGED lost

(* Fault: after an error the rest of the close queue is freed unwritten.   *)
WriteFailsDrains(f, n, half) ==
  LET records == (UNION {Records(f, f.cq[i]) : i \in 1..n})
                 \cup (IF half THEN {<<f.cq[n + 1], "val">>} ELSE {})
  IN  /\ half => uniflow /\ f.node[f.cq[n + 1]].pkt["rval"] # {}
      /\ ft' = Dequeue(f, Len(f.cq), records)
      /\ out' = out \cup records
      /\ lost' = lost \cup {f.cq[n + 1]}

(* yfWriteFlow fails for the flow after the first n: the flow is freed,    *)
(* what is behind it stays in cq.  half: its forward record got out.       *)
WriteFails(f, n, half) ==
  LET victim == f.cq[n + 1]
      records == (UNION {Records(f, f.cq[i]) : i \in 1..n})
                 \cup (IF half THEN {<<victim, "val">>} ELSE {})
  IN  /\ half => uniflow /\ f.node[victim].pkt["rval"] # {}
      /\ ft' = Dequeue(f, n + 1, records)
      /\ out' = out \cup records
      /\ lost' = lost \cup {victim}

(* Fault: a flush closes no idle flows.                                    *)
FlushedNoIdle(f, idle, close) ==
  CloseForFlush([f EXCEPT !.flushtime = f.ctime, !.stat_flush = @ + 1], 0, close)

Flushed(f, idle, close) ==
  CloseForFlush([f EXCEPT !.flushtime = f.ctime, !.stat_flush = @ + 1], idle, close)

----------------------------------------------------------------------------
Init ==
  /\ ft = yfFlowTabAlloc
  /\ log = <<>>
  /\ out = {}
  /\ lost = {}
  /\ phase = "open"

(* A packet buffer from the ring.  Its timestamp may be before ctime.      *)
PBuf(p) ==
  /\ phase = "open"
  /\ Len(log) + ft.stat_seqrej < MaxPkts
  /\ ft' = yfFlowPBuf(ft, p)
  /\ log' = IF p.ptime < ft.ctime THEN log ELSE Append(log, p)
  /\ UNCHANGED <<out, lost, phase>>

(* yfFlowTabFlush(FALSE), after each group of packets.  When it is not due *)
(* it changes nothing.                                                     *)
Flush ==
  /\ phase = "open"
  /\ FlushDue(ft)
  /\ ft.stat_flush < MaxFlush
  /\ \E idle \in 0..Len(ft.aq) :
       /\ IdleRun(ft, idle)
       /\ LET f == Flushed(ft, idle, FALSE)
          IN  \/ WriteAll(f) /\ phase' = phase
              \/ \E n \in 0..(Len(f.cq) - 1), half \in BOOLEAN :
                   WriteFails(f, n, half) /\ phase' = "failed"
  /\ UNCHANGED log

(* yfFlowTabFlush(TRUE), once, at the end of the input.                    *)
FinalFlush ==
  /\ phase = "open"
  /\ \E idle \in 0..Len(ft.aq) :
       /\ IdleRun(ft, idle)
       /\ LET f == Flushed(ft, idle, TRUE)
          IN  \/ WriteAll(f) /\ phase' = "closed"
              \/ \E n \in 0..(Len(f.cq) - 1), half \in BOOLEAN :
                   WriteFails(f, n, half) /\ phase' = "failed"
  /\ UNCHANGED log

Next == (\E p \in Packet : PBuf(p)) \/ Flush \/ FinalFlush

Spec == Init /\ [][Next]_vars

----------------------------------------------------------------------------
(***************************************************************************)
(* Properties                                                              *)
(***************************************************************************)

(* The fields of the flow table and the history variables keep their types *)
(* (struct yfFlowTab_st); count and cq_count are typed as integers, that   *)
(* they never go below zero is part of TableMatchesQueues.                 *)
TypeOK ==
  /\ ft \in FlowTab
  /\ log \in Seq(Packet)
  /\ out \subseteq (Nat \X (Direction \cup {"both"}))
  /\ lost \subseteq Nat
  /\ phase \in {"open", "closed", "failed"}

Nodes == 1..Len(ft.node)
InAq(n) == InQueue(ft.aq, n)
InCq(n) == InQueue(ft.cq, n)
Written(n) == \E d \in Direction \cup {"both"} : <<n, d>> \in out
Pkts(nd) == nd.pkt["val"] \cup nd.pkt["rval"]
SameConversation(j, k) == j = k \/ j = yfFlowKeyReverse(k)

(* Hash table, active queue and counters describe the same flows: the      *)
(* table leads from a key to the one queued node that has it, and count    *)
(* and cq_count, on which the limit and the early flush depend, are the    *)
(* lengths of the queues (yfFlowGetNode, yfFlowTick, yfFlowClose).         *)
TableMatchesQueues ==
  /\ ft.count = Len(ft.aq)
  /\ ft.cq_count = Len(ft.cq)
  /\ \A i, j \in 1..Len(ft.aq) : ft.aq[i] = ft.aq[j] => i = j
  /\ \A i \in 1..Len(ft.aq) :
       /\ ft.aq[i] \in Nodes
       /\ ft.table[ft.node[ft.aq[i]].key] = ft.aq[i]
  /\ \A k \in Keys : ft.table[k] # 0 =>
       InAq(ft.table[k]) /\ ft.node[ft.table[k]].key = k

(* The active queue is in the order of the flows' last packets, so that a  *)
(* flush only has to look at the tail to find every idle flow              *)
(* (yfFlowTabVerifyIdleOrder, the comment on yfFlowTick).                  *)
IdleOrder ==
  /\ \A i, j \in 1..Len(ft.aq) :
       i < j => ft.node[ft.aq[i]].etime <= ft.node[ft.aq[j]].etime
  /\ \A i \in 1..Len(ft.aq) : ft.node[ft.aq[i]].etime <= ft.ctime

(* The two directions of a conversation are never two open flows: a key    *)
(* and its reversal are not both in the table (yfFlowGetNode).             *)
OneFlowPerConversation ==
  \A k \in Keys :
    k # yfFlowKeyReverse(k) =>
      ft.table[k] = 0 \/ ft.table[yfFlowKeyReverse(k)] = 0

(* Every accepted packet is counted once, in one direction of one flow,    *)
(* and that flow is in exactly one place: open, closed and waiting to be   *)
(* written, in the output, or lost to a failed write.                      *)
EveryPacketInOneFlow ==
  /\ ft.stat_packets = Len(log)
  /\ \A s \in 1..Len(log) : \E n \in Nodes, d \in Direction : s \in ft.node[n].pkt[d]
  /\ \A n, m \in Nodes, d, e \in Direction :
       ft.node[n].pkt[d] \cap ft.node[m].pkt[e] # {} => n = m /\ d = e
  /\ \A n \in Nodes :
       Cardinality({x \in {"aq", "cq", "out", "lost"} :
                      \/ x = "aq" /\ InAq(n)
                      \/ x = "cq" /\ InCq(n)
                      \/ x = "out" /\ Written(n) /\ n \notin lost
                      \/ x = "lost" /\ n \in lost}) = 1

(* A flow is what its packets say: packets of its key forward and of the   *)
(* reversed key backward, start and end at its first and last packet, no   *)
(* longer than the active timeout and without a pause longer than the idle *)
(* timeout.                                                                *)
FlowMatchesPackets ==
  \A n \in Nodes :
    LET nd == ft.node[n] IN
    /\ nd.pkt["val"] # {}
    /\ \A s \in nd.pkt["val"] : log[s].key = nd.key
    /\ \A s \in nd.pkt["rval"] : log[s].key = yfFlowKeyReverse(nd.key)
    /\ \A s \in Pkts(nd) : nd.stime <= log[s].ptime /\ log[s].ptime <= nd.etime
    /\ \E s \in Pkts(nd) : log[s].ptime = nd.stime
    /\ \E s \in Pkts(nd) : log[s].ptime = nd.etime
    /\ nd.etime - nd.stime <= active_ms
    /\ \A s \in Pkts(nd) :
         \/ log[s].ptime = nd.etime
         \/ \E t \in Pkts(nd) : t > s /\ log[t].ptime - log[s].ptime <= idle_ms

(* The packets of the flow end its connection: a RST, or in each direction *)
(* a FIN followed by an ACK from the other side.                           *)
TornDown(nd) ==
  \/ \E s \in Pkts(nd) : "RST" \in log[s].flags
  \/ \A d \in Direction :
       \E s \in nd.pkt[d], t \in Pkts(nd) \ nd.pkt[d] :
         s < t /\ "FIN" \in log[s].flags /\ "ACK" \in log[t].flags

(* A flow is closed only for the reason it records: idle for longer than   *)
(* the timeout, a packet of its conversation past the active timeout (or,  *)
(* in SiLK mode, over the counter), a finished TCP connection, the limit,  *)
(* or the end of the input.                                                *)
EndReasonJustified ==
  \A n \in Nodes :
    LET nd == ft.node[n] IN
    /\ InAq(n) <=> nd.reason = "none"
    /\ nd.reason = "IDLE" => ft.ctime - nd.etime > idle_ms
    /\ nd.reason = "ACTIVE" =>
         \E s \in 1..Len(log) :
           /\ s \notin Pkts(nd)
           /\ SameConversation(log[s].key, nd.key)
           /\ \/ log[s].ptime - nd.stime > active_ms
              \/ silkmode
    /\ nd.reason = "CLOSED" <=> TornDown(nd)
    /\ nd.reason = "RESOURCE" => max_flows # 0
    /\ nd.reason = "FORCED" => phase # "open"

(* Flow IDs link the pieces of a flow cut by a timeout: two nodes with one *)
(* ID belong to one conversation and follow each other in time, the first  *)
(* closed by a timeout; and a flow cut by the active timeout always has a  *)
(* next piece.                                                             *)
FidLinksPieces ==
  /\ \A n, m \in Nodes :
       n < m /\ ft.node[n].fid = ft.node[m].fid =>
         /\ SameConversation(ft.node[n].key, ft.node[m].key)
         /\ ft.node[n].reason \in {"ACTIVE", "IDLE"}
         /\ ft.node[n].etime <= ft.node[m].stime
  /\ \A n \in Nodes :
       ft.node[n].reason = "ACTIVE" =>
         \E m \in Nodes : m > n /\ ft.node[m].fid = ft.node[n].fid

(* The flows are what the packets say, through every sequence of timeouts, *)
(* continuations and changes of direction (yfFlowPBuf, yfFlowGetNode):     *)
(* each packet is in one flow, that flow has the key and the times of its  *)
(* packets, and the pieces of one that was cut are linked.                 *)
PacketsInFlows == EveryPacketInOneFlow /\ FlowMatchesPackets /\ FidLinksPieces

(* A closed flow never changes and never leaves the path to the output: it *)
(* is not reopened, relabelled or counted into again.                      *)
ClosedFlowFrozen ==
  [][\A n \in Nodes :
       ft.node[n].reason # "none" =>
         ft'.node[n] = ft.node[n] /\ ~InQueue(ft'.aq, n)]_vars

(* After a flush that was due no idle flow is open, the number of open     *)
(* flows is below the limit, and unless a write failed nothing closed is   *)
(* left unwritten.                                                         *)
FlushLeavesNoIdle ==
  [][ft'.stat_flush # ft.stat_flush =>
       /\ \A n \in Nodes :
            InQueue(ft'.aq, n) => ft'.ctime - ft'.node[n].etime <= idle_ms
       /\ max_flows # 0 => Len(ft'.aq) < max_flows
       /\ phase' # "failed" => ft'.cq = <<>>]_vars

(* No record is written twice and what is written is gone from the table:  *)
(* stat_flows counts the records in the output.                            *)
ExportedOnce ==
  /\ ft.stat_flows = Cardinality(out)
  /\ \A n \in Nodes : Written(n) => ~InAq(n) /\ ~InCq(n)

(* After a final flush without a write error every accepted packet is in   *)
(* the output, in uniflow mode in the record of its own direction.         *)
FinalFlushComplete ==
  phase = "closed" =>
    /\ ft.aq = <<>> /\ ft.cq = <<>>
    /\ \A s \in 1..Len(log) : \E n \in Nodes, d \in Direction :
         /\ s \in ft.node[n].pkt[d]
         /\ <<n, IF uniflow THEN d ELSE "both">> \in out

(* A write error loses one flow, never more than the one being written     *)
(* (yfFlowTabFlush frees it and returns): all others are still in a queue  *)
(* or in the output, each direction that has packets.                      *)
WriteErrorLosesOne ==
  LET complete(n) == \A d \in Direction :
        ft.node[n].pkt[d] # {} => <<n, IF uniflow THEN d ELSE "both">> \in out
  IN  Cardinality({n \in Nodes : ~InAq(n) /\ ~InCq(n) /\ ~complete(n)})
        = IF phase = "failed" THEN 1 ELSE 0

(* The reverse record made by yfUniflowReverse starts, at stime + rdtime,  *)
(* with the first reverse packet.                                          *)
ReverseStart ==
  \A n \in Nodes :
    LET nd == ft.node[n] IN
    nd.pkt["rval"] # {} =>
      \E s \in nd.pkt["rval"] :
        /\ \A t \in nd.pkt["rval"] : s <= t
        /\ nd.stime + nd.rdtime = log[s].ptime

(* What was accounted reaches the output, once: whole after the final      *)
(* flush, all but the one flow being written when a write fails, and with  *)
(* the right start for reverse records (yfFlowTabFlush, yfUniflow).        *)
ExportComplete ==
  ExportedOnce /\ FinalFlushComplete /\ WriteErrorLosesOne /\ ReverseStart

(* SiLK mode: no flow of more than one packet counts more octets than 32   *)
(* bits hold.                                                              *)
SilkCounterFits ==
  silkmode => \A n \in Nodes, d \in Direction :
    Cardinality(ft.node[n].pkt[d]) > 1 => ft.node[n].oct[d] <= OctMax

(* SiLK mode: the continuation flag is on exactly the flows created by an  *)
(* active timeout or counter overflow.                                     *)
SilkContinuation ==
  silkmode => \A n \in Nodes :
    ft.node[n].iscont <=>
      \E m \in Nodes :
        /\ m < n /\ ft.node[m].fid = ft.node[n].fid
        /\ \A k \in Nodes : m < k /\ k < n => ft.node[k].fid # ft.node[n].fid
        /\ ft.node[m].reason = "ACTIVE"

(* SiLK mode: flows are split before their counter overflows, and their    *)
(* continuations are marked and linked (yfFlowPBuf).                       *)
SilkFlows == SilkCounterFits /\ SilkContinuation /\ (silkmode => FidLinksPieces)

=============================================================================
