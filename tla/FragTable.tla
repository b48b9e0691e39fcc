----------------------------- MODULE FragTable ------------------------------
(***************************************************************************)
(* The fragment table of QoF (src/src/yafrag.c): fragments of a datagram   *)
(* are collected in a node until they fit together.  Nodes are pruned      *)
(* after a timeout and beyond a limit, oldest first, but at most once      *)
(* every YF_FRAGPRUNE_DELAY.                                               *)
(*                                                                         *)
(* Addresses, protocol and IP ID, which make the key of a node, are the    *)
(* identity of the datagram.  Fragments may arrive in any order, more than *)
(* once or not at all.  Lengths are in units of eight octets, without the  *)
(* IP header.                                                              *)
(***************************************************************************)
EXTENDS Integers, Sequences, FiniteSets, Picq

CONSTANTS
  Dgrams,              \* the datagrams, see below
  PortNums,            \* port numbers; 0 is none
  max_frags,           \* limit on nodes, 0 for none
  YF_FRAG_TIMEOUT,
  YF_FRAGPRUNE_DELAY,
  MaxTime,             \* bound: the largest timestamp
  MaxCalls             \* bound: the number of fragments offered

(* A fragment on the wire.  hdr: the capture holds its whole layer 4       *)
(* header, if it is the first fragment.                                    *)
Fragment == [off : Nat, len : Nat \ {0}, more : BOOLEAN, hdr : BOOLEAN]

ASSUME DgramsAssumption ==
  \A d \in Dgrams :
    /\ d.version \in {4, 6} /\ d.proto \in {"TCP", "UDP", "other"}
    /\ d.ports \in PortNums
    /\ d.proto = "other" => d.ports = 0
    /\ d.frags \subseteq Fragment /\ IsFiniteSet(d.frags)

ASSUME FragConfigAssumption ==
  /\ 0 \in PortNums
  /\ max_frags \in Nat /\ YF_FRAG_TIMEOUT \in Nat /\ YF_FRAGPRUNE_DELAY \in Nat \ {0}
  /\ MaxTime \in Nat /\ MaxCalls \in Nat

VARIABLES
  fg,      \* the fragment table
  result   \* what the last call gave, with history

vars == <<fg, result>>

----------------------------------------------------------------------------
(***************************************************************************)
(* Decoding: what the headers of fragment f of datagram d become.  The     *)
(* packet buffer is a reused slot, so ports that are not decoded are those *)
(* of an earlier packet.                                                   *)
(***************************************************************************)
yfDecodeIPv4(d, f) == [off |-> f.off, more |-> f.more]

(* The test is (offset | YF_IP6_MF), which is never zero.                  *)
yfDecodeIPv6(d, f) == [off |-> f.off, more |-> TRUE]

HasL4(d, f) == f.off = 0 /\ (d.proto = "UDP" \/ (d.proto = "TCP" /\ f.hdr))

DecodedPorts(d, f, stale) ==
  IF HasL4(d, f) THEN d.ports
  ELSE IF f.off = 0 /\ d.proto = "other" THEN 0
  ELSE stale

yfDecodeIP(d, f, stale) ==
  [info  |-> IF d.version = 4 THEN yfDecodeIPv4(d, f) ELSE yfDecodeIPv6(d, f),
   len   |-> f.len,
   l4    |-> HasL4(d, f),
   ports |-> DecodedPorts(d, f, stale)]

----------------------------------------------------------------------------
Record == [off : Nat, len : Nat]

(* Sorting and traversing the records sees a repeated record like one.     *)
(* from_first is history: the node was made for the first fragment.        *)
FragNode ==
  [last_ctime : Nat, have_first : BOOLEAN, have_last : BOOLEAN,
   have_l4hdr : BOOLEAN, ports : PortNums, records : SUBSET Record,
   from_first : BOOLEAN]

NoNode == [last_ctime |-> -1]

FragTab ==
  [ctime : Nat, prunetime : Nat, table : [Dgrams -> FragNode \cup {NoNode}],
   fraq : Seq(Dgrams), count : Int, frags : Nat, seqrej : Nat,
   packets : Nat, dropped : Nat, peak : Int]

yfFragTabAlloc ==
  [ctime |-> 0, prunetime |-> 0, table |-> [d \in Dgrams |-> NoNode],
   fraq |-> <<>>, count |-> 0, frags |-> 0, seqrej |-> 0,
   packets |-> 0, dropped |-> 0, peak |-> 0]

(* A node is made with the key of the packet buffer, ports included.       *)
yfFragGetNode(g, d, p) ==
  IF g.table[d] # NoNode
  THEN [g EXCEPT !.fraq = piqEnQ(piqPick(@, d), d),
                 !.table[d].last_ctime = g.ctime]
  ELSE [g EXCEPT
          !.table[d] = [last_ctime |-> g.ctime, have_first |-> FALSE, have_last |-> FALSE,
                        have_l4hdr |-> FALSE, ports |-> p.ports, records |-> {},
                        from_first |-> p.info.off = 0],
          !.fraq = piqEnQ(@, d),
          !.count = @ + 1,
          !.peak = IF g.count + 1 > @ THEN g.count + 1 ELSE @]

(* The layer 4 information of the first fragment goes to the node.         *)
StashFirst(n, p) ==
  IF p.info.off = 0 /\ p.l4
  THEN [n EXCEPT !.ports = p.ports, !.have_l4hdr = TRUE]
  ELSE n

yfFragAdd(n, p) ==
  [n EXCEPT !.records = @ \cup {[off |-> p.info.off, len |-> p.len]},
            !.have_first = @ \/ p.info.off = 0,
            !.have_last = @ \/ ~p.info.more]

yfFragRemoveNode(g, d, drop) ==
  [g EXCEPT !.table[d] = NoNode, !.fraq = piqPick(@, d), !.count = @ - 1,
            !.dropped = IF drop THEN @ + 1 ELSE @,
            !.packets = IF drop THEN @ ELSE @ + 1]

(* The records sorted by offset, in any order where offsets are equal.     *)
yfFragSortByOffset(records) ==
  {s \in [1..Cardinality(records) -> records] :
     /\ \A i, j \in DOMAIN s : i # j => s[i] # s[j]
     /\ \A i, j \in DOMAIN s : i < j => s[i].off <= s[j].off}

(* Fault: the first and the last fragment are enough.                      *)
FitAlways(s) == TRUE

(* Fault: a record must overlap the one before it.                         *)
FitOverlapping(s) ==
  \A i \in DOMAIN s : i > 1 => s[i].off < s[i - 1].off + s[i - 1].len

(* No gap: each record starts at or before the end of the one before it.   *)
Fit(s) ==
  \A i \in DOMAIN s :
    s[i].off <= IF i = 1 THEN 0 ELSE s[i - 1].off + s[i - 1].len

EndOf(s) == s[Len(s)].off + s[Len(s)].len

(* yfDefragTCP needs the header in the node's payload, of which it is told *)
(* by paylen; nothing ever writes either, so it always fails.              *)
yfDefragTCP == FALSE

(* The outcome of the completeness check, s being the sorted records.      *)
yfFragComplete(n, d, s) ==
  IF ~n.have_first \/ ~n.have_last \/ ~Fit(s) THEN "incomplete"
  ELSE IF ~n.have_l4hdr /\ d.proto = "TCP" /\ ~yfDefragTCP THEN "dropped"
  ELSE "assembled"

----------------------------------------------------------------------------
DropOldest(g, n) ==
  [g EXCEPT !.table = [d \in Dgrams |-> IF \E i \in 1..n : g.fraq[i] = d
                                        THEN NoNode ELSE @[d]],
            !.fraq = SubSeq(@, n + 1, Len(@)),
            !.count = @ - n,
            !.dropped = @ + n]

(* Fault: the table is left at its limit.                                  *)
OverLimitByOne(g) ==
  IF max_frags = 0 \/ g.count <= max_frags THEN 0 ELSE g.count - max_frags

(* How many nodes the limit removes.                                       *)
OverLimit(g) ==
  IF max_frags = 0 \/ g.count < max_frags THEN 0 ELSE g.count - max_frags + 1

(* The length of the run of expired nodes at the tail.                     *)
ExpiredRun(g) ==
  CHOOSE n \in 0..Len(g.fraq) :
    /\ \A i \in 1..n : g.ctime - g.table[g.fraq[i]].last_ctime > YF_FRAG_TIMEOUT
    /\ n < Len(g.fraq) =>
         ~(g.ctime - g.table[g.fraq[n + 1]].last_ctime > YF_FRAG_TIMEOUT)

(* Fault: a pass that finds nothing over the limit skips the timeouts.     *)
PruneLimitOnly(g) ==
  IF g.prunetime # 0 /\ g.ctime < g.prunetime + YF_FRAGPRUNE_DELAY THEN g
  ELSE DropOldest([g EXCEPT !.prunetime = g.ctime], OverLimit(g))

yfFragQueuePrune(g) ==
  IF g.prunetime # 0 /\ g.ctime < g.prunetime + YF_FRAGPRUNE_DELAY THEN g
  ELSE LET h == DropOldest([g EXCEPT !.prunetime = g.ctime], OverLimit(g))
       IN  DropOldest(h, ExpiredRun(h))

(* The table with fragment p of datagram d added to its node.              *)
Added(g, d, p, ptime) ==
  LET h == yfFragGetNode([g EXCEPT !.ctime = ptime], d, p)
  IN  [h EXCEPT !.table[d] = yfFragAdd(StashFirst(@, p), p), !.frags = @ + 1]

(* What the node of a call is turned into, with history: the node itself.  *)
Assembled(d, n, s) ==
  [valid |-> TRUE, dgram |-> d, node |-> n, len |-> EndOf(s), ports |-> n.ports]
Invalid(d, n) == [valid |-> FALSE, dgram |-> d, node |-> n, len |-> 0, ports |-> 0]

NoResult == [valid |-> FALSE]

----------------------------------------------------------------------------
(* yfDefragPBuf with a fragment that is older than one before it.          *)
DefragReject(d, f, ptime) ==
  /\ ptime < fg.ctime
  /\ fg' = [fg EXCEPT !.seqrej = @ + 1]
  /\ result' = NoResult

(* yfDefragPBuf with any other fragment.                                   *)
Defrag(d, f, stale, ptime) ==
  /\ ptime >= fg.ctime
  /\ LET p == yfDecodeIP(d, f, stale)
         g == Added(fg, d, p, ptime)
         n == g.table[d]
     IN  \E s \in yfFragSortByOffset(n.records) :
           LET c == yfFragComplete(n, d, s)
           IN  /\ fg' = yfFragQueuePrune(
                          IF c = "incomplete" THEN g
                          ELSE yfFragRemoveNode(g, d, c = "dropped"))
               /\ result' = IF c = "assembled" THEN Assembled(d, n, s)
                                              ELSE Invalid(d, n)

Init == fg = yfFragTabAlloc /\ result = NoResult

Next ==
  /\ fg.frags + fg.seqrej < MaxCalls
  /\ \E d \in Dgrams, ptime \in 1..MaxTime : \E f \in d.frags :
       \/ DefragReject(d, f, ptime)
       \/ \E stale \in PortNums : Defrag(d, f, stale, ptime)

Spec == Init /\ [][Next]_vars

----------------------------------------------------------------------------
(***************************************************************************)
(* Properties                                                              *)
(***************************************************************************)
Held == {d \in Dgrams : fg.table[d] # NoNode}

(* Table, queue and count hold the same nodes, each once (yfFragGetNode,   *)
(* yfFragRemoveNode), and the queue is in the order of the last fragments, *)
(* which the pruning loop relies on when it stops at the first node that   *)
(* has not expired (yfFragQueuePrune).  A node without new fragments is    *)
(* gone, at the latest, the timeout and one pruning delay after its last   *)
(* one, as long as fragments arrive that call for it.                      *)
FraqMatches ==
  /\ fg \in FragTab
  /\ {fg.fraq[i] : i \in 1..Len(fg.fraq)} = Held
  /\ Len(fg.fraq) = Cardinality(Held)
  /\ fg.count = Cardinality(Held)
  /\ \A i, j \in 1..Len(fg.fraq) :
       i < j => fg.table[fg.fraq[i]].last_ctime <= fg.table[fg.fraq[j]].last_ctime
  /\ \A d \in Held :
       fg.ctime - fg.table[d].last_ctime < YF_FRAG_TIMEOUT + YF_FRAGPRUNE_DELAY

(* A pruning pass brings the table below its limit (yfFragQueuePrune).     *)
PruneKeepsLimit ==
  [][fg'.prunetime # fg.prunetime /\ max_frags # 0 => fg'.count < max_frags]_vars

(* The records cover the datagram.                                         *)
TotalLen(d) == LET f == CHOOSE x \in d.frags : ~x.more IN f.off + f.len
Whole(d, records) ==
  \A u \in 0..(TotalLen(d) - 1) : \E r \in records : u >= r.off /\ u < r.off + r.len

(* The fragments are the pieces of one datagram: no two of them overlap,   *)
(* and behind all others is the last.                                      *)
Pieces(d) ==
  /\ \A e, f \in d.frags :
       \/ e.off = f.off /\ e.len = f.len /\ e.more = f.more
       \/ e.off + e.len <= f.off
       \/ f.off + f.len <= e.off
  /\ \E e \in d.frags : ~e.more
  /\ \A e, f \in d.frags : ~e.more => f.off <= e.off

(* The first fragment of a TCP datagram holds the whole header.            *)
HeaderCaptured(d) == d.proto = "TCP" => \A f \in d.frags : f.off = 0 => HasL4(d, f)

(* What is passed on as reassembled is the whole datagram: every part of  *)
(* it was seen, in whatever order, and the packet buffer has its length    *)
(* (yfFragComplete, yfDefragPBuf).  With a layer 4 header it has the ports *)
(* of its own first fragment, never those that an earlier packet left in   *)
(* the packet buffer (yfFragGetNode, StashFirst); a protocol without ports *)
(* has none if the first fragment came first.  If it did not the ports are *)
(* stale: OtherHasNoPorts.                                                 *)
AssembledWhole ==
  result.valid =>
    /\ Whole(result.dgram, result.node.records)
    /\ result.len = TotalLen(result.dgram)
    /\ \/ result.ports = result.dgram.ports
       \/ result.dgram.proto = "other" /\ ~result.node.from_first

(* "No layer 4 header we understand. Zero ports." (decode.c): a datagram   *)
(* of a protocol without ports is passed on without ports.  yfFragGetNode  *)
(* takes the ports of a later fragment, which are not decoded, and         *)
(* yfDefragPBuf hands them over.                                           *)
OtherHasNoPorts ==
  result.valid /\ result.dgram.proto = "other" => result.ports = 0

(* A datagram is reassembled with the fragment that completes it           *)
(* (yfFragComplete).                                                       *)
CompleteIsAssembled ==
  result # NoResult /\ Whole(result.dgram, result.node.records) => result.valid

=============================================================================
