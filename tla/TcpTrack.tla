------------------------------ MODULE TcpTrack ------------------------------
(***************************************************************************)
(* What yfFlowPktTCP (src/src/yaftab.c) does for each TCP segment besides  *)
(* the sequence tracker (module SeqTrack) and the flow state (FlowTable):  *)
(* round trip times (qofrtt.c), acknowledgements (qofack.c), receiver      *)
(* window (qofrwin.c) and options (qofopt.c), with the running statistics  *)
(* of streamstat.c; mean and variance, which are floating point, are left  *)
(* out.  Sequence numbers and TCP timestamps are modulo Space.             *)
(***************************************************************************)
EXTENDS Integers, Sequences, FiniteSets

CONSTANTS
  Space,      \* sequence numbers and timestamps are 0..Space - 1; 2^32
  alpha,      \* weight of the smoothed estimate, kDefaultAlpha
  TcpInfos,   \* segments: seq, ack, tsval, tsecr, sack, rwin, ws, ack flag, oct
  MaxTcpMs,   \* bound: times
  MaxTcp      \* bound: segments

ASSUME TcpAssumption ==
  /\ Space \in Nat /\ Space > 1 /\ Space % 2 = 0 /\ alpha \in Nat \ {0}
  /\ MaxTcpMs \in Nat /\ MaxTcp \in Nat
  /\ \A s \in TcpInfos : {s.seq, s.ack, s.tsval, s.tsecr, s.sack} \subseteq 0..Space - 1

VARIABLES
  rtt,    \* qfRtt_t: val, and for each direction the wait and observation
  dirs,   \* for each direction qfAck_t, qfRwin_t and qfOpt_t
  hist    \* history: the segments, with direction and time
tcpVars == <<rtt, dirs, hist>>

Dirs == {"fwd", "rev"}
Other(dir) == IF dir = "fwd" THEN "rev" ELSE "fwd"

Compare(a, b) ==
  IF a = b THEN 0 ELSE IF (a - b) % Space >= Space \div 2 THEN -1 ELSE 1

(* sstMinMaxAdd on min and max.                                            *)
sstMinMaxAdd(mm, x) ==
  IF x > mm.max THEN [mm EXCEPT !.max = x]
  ELSE IF x < mm.min THEN [mm EXCEPT !.min = x] ELSE mm

(* sstMeanAdd: last, n, min and max.                                       *)
sstMeanAdd(v, x) ==
  [last |-> x, n |-> v.n + 1,
   mm |-> IF v.n = 0 THEN [min |-> x, max |-> x] ELSE sstMinMaxAdd(v.mm, x)]

sstLinSmoothAdd(v, x) ==
  IF v.val = 0 /\ v.mm = [min |-> 0, max |-> 0]
  THEN [n |-> v.n + 1, mm |-> [min |-> x, max |-> x], val |-> x]
  ELSE [n |-> v.n + 1, mm |-> sstMinMaxAdd(v.mm, x),
        val |-> (v.val * (alpha - 1) + x) \div alpha]

NoStat == [n |-> 0, mm |-> [min |-> 0, max |-> 0], val |-> 0]

TcpInit ==
  /\ rtt = [val |-> NoStat,
            dir |-> [d \in Dirs |-> [wait |-> "none", tsack |-> 0, lms |-> 0, obs |-> 0]]]
  /\ dirs = [d \in Dirs |->
               [fan |-> 0, dup |-> 0, sel |-> 0, stall |-> 0, scale |-> 0,
                rwin |-> [last |-> 0, n |-> 0, mm |-> [min |-> 0, max |-> 0]],
                opts |-> {}, mss |-> 0]]
  /\ hist = <<>>

----------------------------------------------------------------------------
(* A wait of one direction replaces the one it had.                        *)
qfRttSetAckWait(r, dir, seq, ms) ==
  [r EXCEPT !.dir[dir].wait = "ack", !.dir[dir].lms = ms, !.dir[dir].tsack = seq]
qfRttSetEcrWait(r, dir, tsval, ms) ==
  [r EXCEPT !.dir[dir].wait = "ecr", !.dir[dir].lms = ms, !.dir[dir].tsack = tsval]

(* A sample is the sum of the observations of both directions.             *)
qfRttSample(r) ==
  IF r.dir["fwd"].obs # 0 /\ r.dir["rev"].obs # 0
  THEN [r EXCEPT !.val = sstLinSmoothAdd(@, r.dir["fwd"].obs + r.dir["rev"].obs)]
  ELSE r

(* The observation of the wait of direction dir, at ms.                    *)
Observed(r, dir, ms) == qfRttSample([r EXCEPT !.dir[dir].obs = ms - r.dir[dir].lms])
Done(r, dir) == [r EXCEPT !.dir[dir].wait = "none"]

(* Fault: every acknowledgement ends the wait for one.                     *)
AckAwaitedAny(f, s) == f.wait = "ack" /\ s.ackflag

(* The acknowledgement that f waits for.                                   *)
AckAwaited(f, s) == f.wait = "ack" /\ s.ackflag /\ Compare(s.ack, f.tsack) >= 0

(* qfRttSegment: the answer this direction waits for starts the next wait  *)
(* of the other one; otherwise an idle other direction starts to wait.     *)
qfRttSegment(r, s, dir, ms) ==
  LET f == r.dir[dir]
      other == Other(dir)
  IN  IF AckAwaited(f, s)
      THEN LET q == Done(Observed(r, dir, ms), dir)
           IN  IF s.tsval # 0 THEN qfRttSetEcrWait(q, other, s.tsval, ms) ELSE q
      ELSE IF f.wait = "ecr" /\ Compare(s.tsecr, f.tsack) >= 0
      THEN LET q == IF ms - f.lms > f.obs THEN Observed(r, dir, ms) ELSE r
           IN  qfRttSetAckWait(Done(q, dir), other, s.seq, ms)
      ELSE IF r.dir[other].wait = "none" THEN qfRttSetAckWait(r, other, s.seq, ms)
      ELSE r

(* Fault: every acknowledgement moves the final one.                       *)
AckSegmentAny(d, s) ==
  [d EXCEPT !.fan = s.ack,
            !.sel = IF s.sack # 0 /\ Compare(s.sack, s.ack) > 0 THEN @ + 1 ELSE @]

qfAckSegment(d, s) ==
  LET new == d.fan = 0 \/ Compare(s.ack, d.fan) > 0
  IN  [d EXCEPT !.fan = IF new THEN s.ack ELSE @,
                !.dup = IF ~new /\ s.oct = 0 THEN @ + 1 ELSE @,
                !.sel = IF s.sack # 0 /\ Compare(s.sack, s.ack) > 0 THEN @ + 1 ELSE @]

(* qfRwinScale if the option is there, and qfRwinSegment.                  *)
qfRwinSegment(d, s) ==
  LET scale == IF s.ws # 0 THEN s.ws ELSE d.scale
  IN  [d EXCEPT !.scale = scale,
                !.stall = IF d.rwin.last > 0 /\ s.rwin = 0 THEN @ + 1 ELSE @,
                !.rwin = sstMeanAdd(@, s.rwin * 2^scale)]

(* The ECN marks and the declared segment size, kept the same way, are     *)
(* left out.                                                               *)
qfOptSegment(d, s) ==
  [d EXCEPT !.opts = @ \cup {o \in {"TS", "WS", "SACK"} :
                               CASE o = "TS" -> s.tsval # 0
                                 [] o = "WS" -> s.ws # 0
                                 [] o = "SACK" -> s.sack # 0},
            !.mss = IF s.oct > @ THEN s.oct ELSE @]

(* yfFlowPktTCP, for a segment s of direction dir, with all trackers on.   *)
TcpSegment(s, dir, ms) ==
  /\ Len(hist) < MaxTcp
  /\ hist # <<>> => ms >= hist[Len(hist)].ms
  /\ rtt' = qfRttSegment(rtt, s, dir, ms)
  /\ dirs' = [dirs EXCEPT ![dir] =
                qfOptSegment(qfRwinSegment(IF s.ackflag THEN qfAckSegment(@, s) ELSE @, s), s)]
  /\ hist' = Append(hist, [s |-> s, dir |-> dir, ms |-> ms])

TcpNext == \E s \in TcpInfos, dir \in Dirs, ms \in 1..MaxTcpMs : TcpSegment(s, dir, ms)

TcpSpec == TcpInit /\ [][TcpNext]_tcpVars

----------------------------------------------------------------------------
(* Segment k answers segment j: it goes the other way, later, and          *)
(* acknowledges its sequence number or echoes its timestamp.               *)
Answers(k, j) ==
  LET a == hist[k].s
      q == hist[j].s
  IN  /\ j < k /\ hist[k].dir # hist[j].dir
      /\ \/ a.ackflag /\ Compare(a.ack, q.seq) >= 0
         \/ q.tsval # 0 /\ Compare(a.tsecr, q.tsval) >= 0

(* Every observation is the time between a segment and an answer to it     *)
(* from the other side, although waits are replaced, alternate between     *)
(* acknowledgements and timestamps and run in both directions at once      *)
(* (qfRttSegment).  The smoothed round trip time lies between the smallest *)
(* and the largest sample, which are sums of two observations that are not *)
(* zero, and there is one as soon as both directions were observed         *)
(* (qfRttSample, sstLinSmoothAdd).                                         *)
ObservationIsRoundTrip ==
  /\ \A d \in Dirs : rtt.dir[d].obs # 0 =>
       \E k \in 1..Len(hist) : \E j \in 1..k :
         /\ hist[k].dir = d /\ Answers(k, j)
         /\ rtt.dir[d].obs = hist[k].ms - hist[j].ms
  /\ rtt.val.mm.min <= rtt.val.val /\ rtt.val.val <= rtt.val.mm.max
  /\ (\A d \in Dirs : rtt.dir[d].obs # 0) => rtt.val.n > 0
  /\ rtt.val.n > 0 => rtt.val.mm.min >= 2

(* The final acknowledgement is the latest of a direction, also when       *)
(* acknowledgements come out of order or wrap, as long as none is zero     *)
(* (qfAckSegment takes zero for none).                                     *)
FinalAckIsLatest ==
  \A k \in 1..Len(hist) :
    hist[k].s.ackflag /\ (\A j \in 1..Len(hist) : hist[j].s.ackflag => hist[j].s.ack # 0)
      => Compare(dirs[hist[k].dir].fan, hist[k].s.ack) >= 0

=============================================================================
