------------------------------ MODULE SeqTrack ------------------------------
(***************************************************************************)
(* Sequence number tracking for one direction of a TCP flow                *)
(* (src/src/qofseq.c): the gaps in the sequence numbers seen are kept in a *)
(* small array, the highest gap first, to count lost, reordered and        *)
(* retransmitted octets.                                                   *)
(*                                                                         *)
(* Octets of the stream are numbered from 0, the first one of the first    *)
(* segment; sequence numbers are these, plus isn, modulo SeqSpace.         *)
(* Interarrival times and timestamp frequencies are left out.              *)
(***************************************************************************)
EXTENDS Integers, FiniteSets

CONSTANTS
  QF_SEQGAP_CT,
  SeqSpace,      \* 2^32
  Isns,          \* initial sequence numbers
  Segments,      \* the segments that may be seen: [off, oct] in the stream
  FirstOcts,     \* lengths of the first segment, a SYN included
  Mss,
  Rtts,          \* values of the RTT estimate
  MaxSegs,       \* bound: the number of segments
  MaxTime        \* bound: the largest timestamp

ASSUME SeqAssumption ==
  /\ QF_SEQGAP_CT \in Nat \ {0}
  /\ SeqSpace \in Nat \ {0} /\ SeqSpace % 2 = 0
  /\ Isns \subseteq 0..(SeqSpace - 1) /\ FirstOcts \subseteq Nat
  /\ Segments \subseteq [off : Int, oct : Nat]
  /\ Mss \in Nat /\ Rtts \subseteq Nat /\ MaxSegs \in Nat /\ MaxTime \in Nat

VARIABLES
  qs,      \* the tracker, a qfSeq_t
  seen,    \* history: the octets of the stream that were seen
  mixed,   \* history: a segment held octets seen before and others
  top,     \* history: nsn as a number of the stream
  now,     \* the timestamp of the last segment
  segs     \* the number of segments so far

vars == <<qs, seen, mixed, top, now, segs>>

----------------------------------------------------------------------------
Diff(a, b) == (a - b) % SeqSpace
Seqno(off) == (qs.isn + off) % SeqSpace

qfWrapCompare(a, b) ==
  IF a = b THEN 0 ELSE IF Diff(a, b) >= SeqSpace \div 2 THEN -1 ELSE 1

Empty == [a |-> 0, b |-> 0]
Size(gap) == Diff(gap.b, gap.a)

(* The gap array has the cells 0..QF_SEQGAP_CT - 1.  The cell after them   *)
(* is part of the next field of the structure, seg_iat, which the code     *)
(* reads and can write as if it were a gap.                                *)
Cells == 0..(QF_SEQGAP_CT - 1)
LastCell == QF_SEQGAP_CT - 1

qfSeqGapShift(g, i) ==
  [c \in 0..QF_SEQGAP_CT |->
     IF c = LastCell THEN Empty ELSE IF c >= i /\ c < LastCell THEN g[c + 1] ELSE g[c]]

qfSeqGapUnshift(g, i) ==
  [c \in 0..QF_SEQGAP_CT |-> IF c > i /\ c <= LastCell THEN g[c - 1] ELSE g[c]]

(* Fault: a gap that falls off the end is forgotten.                       *)
GapPushForgets(s, a, b) ==
  [s EXCEPT !.ooo = @ + (Diff(b, a) \div (Mss + 1)) + 1,
            !.gaps = [qfSeqGapUnshift(@, 0) EXCEPT ![0] = [a |-> a, b |-> b]]]

qfSeqGapPush(s, a, b) ==
  LET extends == s.gaps[0] # Empty /\ a = s.gaps[0].a
  IN  [s EXCEPT !.ooo = @ + (Diff(b, a) \div (Mss + 1)) + 1,
                !.gaps = IF extends THEN [@ EXCEPT ![0].b = b]
                         ELSE [qfSeqGapUnshift(@, 0) EXCEPT ![0] = [a |-> a, b |-> b]],
                !.seqlost = IF extends THEN @ ELSE @ + Size(s.gaps[LastCell])]

(* The gap a fill looks at: the first that starts at or below a.           *)
Seek(g, a) ==
  CHOOSE i \in 0..QF_SEQGAP_CT :
    /\ i = QF_SEQGAP_CT \/ g[i] = Empty \/ qfWrapCompare(a, g[i].a) >= 0
    /\ \A c \in 0..(i - 1) : g[c] # Empty /\ qfWrapCompare(a, g[c].a) < 0

(* Octets from a up to b, which are inside gap i, are no longer missing.   *)
Filled(s, i, a, b) ==
  LET gap == s.gaps[i] IN
  IF a = gap.a /\ b = gap.b THEN [s EXCEPT !.gaps = qfSeqGapShift(@, i)]
  ELSE IF b = gap.b THEN [s EXCEPT !.gaps[i].b = a]
  ELSE IF a = gap.a THEN [s EXCEPT !.gaps[i].a = b]
  ELSE [s EXCEPT !.seqlost = @ + Size(s.gaps[LastCell]),
                 !.gaps = [qfSeqGapUnshift(@, i) EXCEPT ![i].a = b, ![i + 1].b = a]]

(* The loop of the code always ends in its first round: the gap it stops   *)
(* at never starts above a, the only case in which it would go on.         *)
qfSeqGapFill(s, a, b) ==
  LET i == Seek(s.gaps, a)
      gap == s.gaps[i]
      pure == \/ i = QF_SEQGAP_CT
              \/ gap = Empty
              \/ qfWrapCompare(b, gap.b) > 0 /\ qfWrapCompare(a, gap.b) > 0
      beyond == qfWrapCompare(b, gap.b) > 0
  IN  IF pure THEN [s EXCEPT !.rtx = @ + 1]
      ELSE Filled([s EXCEPT !.rtx = IF beyond THEN @ + 1 ELSE @],
                  i, a, IF beyond THEN gap.b ELSE b)

(* One loss event per RTT.                                                 *)
qfCountLoss(s, rtt, ms) ==
  IF ms > s.losslms + rtt THEN [s EXCEPT !.losslms = ms, !.lossct = @ + 1] ELSE s

TrackJump(s, seq) ==
  IF Diff(seq, s.nsn) > s.maxooo THEN [s EXCEPT !.maxooo = Diff(seq, s.nsn)] ELSE s

Retreat(s, seq, oct, rtt, ms) ==
  LET f == qfSeqGapFill(TrackJump(s, seq), seq, (seq + oct) % SeqSpace)
  IN  IF f.rtx # s.rtx THEN qfCountLoss(f, rtt, ms) ELSE f

Advance(s, seq, oct, rtt, ms) ==
  LET f == IF seq = s.nsn THEN s
           ELSE TrackJump(qfCountLoss(qfSeqGapPush(s, s.nsn, seq), rtt, ms), seq)
      nsn == (seq + oct) % SeqSpace
  IN  [f EXCEPT !.wrapct = IF nsn < s.nsn THEN @ + 1 ELSE @,
                !.nsn = nsn, !.advlms = ms]

qfSeqSegment(s, seq, oct, rtt, ms) ==
  IF oct = 0 THEN s
  ELSE IF qfWrapCompare(seq, s.nsn) < 0 THEN Retreat(s, seq, oct, rtt, ms)
  ELSE Advance(s, seq, oct, rtt, ms)

(* Octets of sequence number space passed.  The corrections for SYN (flag  *)
(* 2) and FIN (flag 1) test that bit of the count itself.                  *)
qfSeqCount(s, flags) ==
  LET all == Diff(s.nsn, s.isn) + SeqSpace * s.wrapct
      one == IF all > 0 THEN all - 1 ELSE 0
      syn == IF "SYN" \in flags /\ (one \div 2) % 2 = 1 THEN one - 1 ELSE one
  IN  IF "FIN" \in flags /\ syn % 2 = 1 THEN syn - 1 ELSE syn

qfSeqCountLost(s) ==
  s.seqlost + LET full == {c \in Cells : \A e \in 0..c : s.gaps[e] # Empty}
                  sum[c \in -1..LastCell] ==
                    IF c = -1 THEN 0
                    ELSE sum[c - 1] + IF c \in full THEN Size(s.gaps[c]) ELSE 0
              IN  sum[LastCell]

----------------------------------------------------------------------------
qfSeqFirstSegment ==
  \E isn \in Isns, oct \in FirstOcts :
    /\ qs = [gaps |-> [c \in 0..QF_SEQGAP_CT |-> Empty], isn |-> isn,
             nsn |-> (isn + oct) % SeqSpace, wrapct |-> 0, rtx |-> 0, ooo |-> 0,
             maxooo |-> 0, seqlost |-> 0, lossct |-> 0, losslms |-> 0, advlms |-> 1]
    /\ seen = 0..(oct - 1) /\ mixed = FALSE /\ top = oct /\ now = 1 /\ segs = 0

Segment(x, rtt, ms) ==
  /\ segs < MaxSegs
  /\ ms >= now /\ now' = ms
  /\ segs' = segs + 1
  /\ qs' = qfSeqSegment(qs, Seqno(x.off), x.oct, rtt, ms)
  /\ LET octets == x.off..(x.off + x.oct - 1)
     IN  /\ seen' = seen \cup octets
         /\ mixed' = (mixed \/ (octets \cap seen # {} /\ ~(octets \subseteq seen)))
  /\ top' = IF x.oct > 0 /\ x.off >= top THEN x.off + x.oct ELSE top

Next ==
  \E x \in Segments, rtt \in Rtts, ms \in 1..MaxTime : Segment(x, rtt, ms)

Spec == qfSeqFirstSegment /\ [][Next]_vars

----------------------------------------------------------------------------
(***************************************************************************)
(* Properties                                                              *)
(***************************************************************************)
Unseen == 0..(top - 1) \ seen
Used == {c \in Cells : qs.gaps[c] # Empty}

(* The octets of the stream that are in a gap.                             *)
InGap(off) ==
  \E c \in Used : /\ qfWrapCompare(Seqno(off), qs.gaps[c].a) >= 0
                  /\ qfWrapCompare(Seqno(off), qs.gaps[c].b) < 0
GapOctets == {off \in 0..(top - 1) : InGap(off)}

(* The gaps are a stack: used cells come first, every gap has octets, and  *)
(* each is below the one before it and below nsn, also across the wrap of  *)
(* sequence numbers (what the disabled qfSeqGapValidate would check).      *)
GapsOrdered ==
  /\ \A c \in Used : \A e \in 0..c : e \in Used
  /\ \A c \in Used :
       /\ qfWrapCompare(qs.gaps[c].b, qs.gaps[c].a) > 0
       /\ qfWrapCompare(IF c = 0 THEN qs.nsn ELSE qs.gaps[c - 1].a, qs.gaps[c].b) > 0

(* The stream is shorter than half of the sequence number space, 2 GiB, so *)
(* that qfWrapCompare can tell which of two sequence numbers of it is      *)
(* later, and no segment reaches from before the first one into it.        *)
ShortStream ==
  LET ends == {0} \cup FirstOcts \cup {x.off + x.oct : x \in Segments}
  IN  /\ \A end \in ends : /\ end < SeqSpace \div 2
                           /\ \A x \in Segments : end - x.off < SeqSpace \div 2
      /\ \A x \in Segments : x.off < 0 => x.off + x.oct <= 0

(* The array of gaps stands for the octets that were not seen: the gaps    *)
(* stay ordered, every octet passed over is in a gap or already counted as *)
(* lost, so that the loss reported is never too low, and as long as no gap *)
(* had to be given up and every segment is new or was seen whole the gaps  *)
(* are exactly the octets not seen (qfSeqGapPush, qfSeqGapFill).  Until    *)
(* sequence numbers wrap the octets counted are those up to the last one   *)
(* seen.                                                                   *)
GapsMatchStream ==
  /\ GapsOrdered
  /\ qs.wrapct = 0 => qfSeqCount(qs, {}) = IF top > 0 THEN top - 1 ELSE 0
  /\ Cardinality(Unseen) <= qfSeqCountLost(qs)
  /\ qs.seqlost = 0 /\ ~mixed => GapOctets = Unseen

=============================================================================
