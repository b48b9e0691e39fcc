------------------------------- MODULE Detune -------------------------------
(***************************************************************************)
(* The detuner (src/src/qofdetune.c): a leaky bucket, random loss and      *)
(* delay that every decoded packet passes before it reaches the fragment   *)
(* and the flow table.  Random numbers are choices: whether the die says   *)
(* to drop, and the smoothed random delay.                                 *)
(***************************************************************************)
EXTENDS Integers, Sequences, SequencesExt, FiniteSetsExt

CONSTANTS
  bucket_max,    \* 0 for no bucket
  bucket_rate,   \* octets per second
  bucket_delay,  \* delay of a full bucket
  drop_p,        \* whether packets are dropped at random
  delay_max,     \* largest random delay
  IntValues,     \* how many values an int has, in which the level is kept; 2^32
  Octs,          \* packet sizes
  MaxMs,         \* bound: packet times are 1..MaxMs
  MaxOffered     \* bound: packets offered

ASSUME DetuneAssumption ==
  /\ {bucket_max, bucket_rate, bucket_delay, delay_max, MaxMs, MaxOffered} \subseteq Nat
  /\ IntValues \in Nat \ {0} /\ IntValues % 2 = 0 /\ bucket_max < IntValues \div 2
  /\ Octs \subseteq Nat \ {0} /\ drop_p \in BOOLEAN

VARIABLES
  dt,       \* qofDetune_t
  offered,  \* history: time and size of every packet offered
  passed    \* history: for those passed on, number, time before and after
detuneVars == <<dt, offered, passed>>

qfDetuneAlloc ==
  /\ dt = [bucket_cur |-> 0, last_real_ms |-> 0, last_delayed_ms |-> 0,
           bucket_drop |-> 0, random_drop |-> 0, highwater |-> 0]
  /\ offered = <<>> /\ passed = <<>>

(* The value of a number in an int.                                        *)
AsInt(x) == ((x + IntValues \div 2) % IntValues) - IntValues \div 2

(* Fault: the rate is taken per millisecond.                               *)
DrainFast(d, ms) ==
  IF d.last_real_ms # 0 /\ d.bucket_cur # 0 /\ ms > d.last_real_ms
  THEN Max({0, AsInt(d.bucket_cur - (ms - d.last_real_ms) * bucket_rate)})
  ELSE d.bucket_cur

(* The level after draining since the last packet passed on.               *)
Drain(d, ms) ==
  IF d.last_real_ms # 0 /\ d.bucket_cur # 0 /\ ms > d.last_real_ms
  THEN Max({0, AsInt(d.bucket_cur - ((ms - d.last_real_ms) * bucket_rate) \div 1000)})
  ELSE d.bucket_cur

(* The bucket after a packet of oct octets, over its limit or not.         *)
Fill(d, ms, oct) ==
  IF bucket_max = 0 THEN d
  ELSE LET level == Drain(d, ms) + oct
       IN  [d EXCEPT !.bucket_cur = level, !.highwater = Max({@, level})]

Overflows(d) == bucket_max # 0 /\ d.bucket_cur >= bucket_max

(* Fault: delayed times are not held back.                                 *)
DelayUnclamped(d, ms, rdelay) ==
  LET bdelay == IF bucket_max # 0 THEN (d.bucket_cur * bucket_delay) \div bucket_max ELSE 0
      late == ms + Max({bdelay, rdelay})
  IN  late

(* The time after the larger delay; only a delayed packet is held back to  *)
(* the time of the one before it.                                          *)
Delay(d, ms, rdelay) ==
  LET bdelay == IF bucket_max # 0 THEN (d.bucket_cur * bucket_delay) \div bucket_max ELSE 0
      late == ms + Max({bdelay, rdelay})
  IN  IF late = ms THEN ms ELSE Max({late, d.last_delayed_ms})

(* qfDetunePacket: tail drop, random drop, or the packet is passed on.     *)
TailDrop(ms, oct) ==
  LET d == Fill(dt, ms, oct)
  IN  /\ Overflows(d)
      /\ dt' = [d EXCEPT !.bucket_cur = bucket_max, !.bucket_drop = @ + 1]
      /\ UNCHANGED passed

RandomDrop(ms, oct) ==
  LET d == Fill(dt, ms, oct)
  IN  /\ ~Overflows(d) /\ drop_p
      /\ dt' = [d EXCEPT !.random_drop = @ + 1]
      /\ UNCHANGED passed

PassOn(ms, oct, rdelay) ==
  LET d == Fill(dt, ms, oct)
      late == Delay(d, ms, rdelay)
  IN  /\ ~Overflows(d)
      /\ dt' = [d EXCEPT !.last_real_ms = ms, !.last_delayed_ms = late]
      /\ passed' = Append(passed, [n |-> Len(offered) + 1, ms |-> ms, late |-> late])

(* Packets are offered in the order of their times.                        *)
qfDetunePacket(ms, oct) ==
  /\ Len(offered) < MaxOffered
  /\ offered # <<>> => ms >= Last(offered).ms
  /\ \/ TailDrop(ms, oct) \/ RandomDrop(ms, oct)
     \/ \E rdelay \in 0..delay_max : PassOn(ms, oct, rdelay)
  /\ offered' = Append(offered, [ms |-> ms, oct |-> oct])

DetuneNext == \E ms \in 1..MaxMs, oct \in Octs : qfDetunePacket(ms, oct)

DetuneSpec == qfDetuneAlloc /\ [][DetuneNext]_detuneVars

----------------------------------------------------------------------------
(* The bucket is as full as a leaky bucket fed with the packets, whose     *)
(* level is the largest backlog of any run of packets up to the last, as   *)
(* long as none was dropped; drops make it drain too often, so from then   *)
(* on it is never fuller, if the first packet was passed on                *)
(* (qfDetunePacket, draining and filling packet by packet).  What drains   *)
(* is truncated for each packet, so that the bucket may be fuller by an    *)
(* octet for each after the first, unless the rate is a whole number of    *)
(* octets per millisecond.  No pause may drain more than an int holds.     *)
BucketIsLeaky ==
  /\ bucket_max # 0 /\ passed # <<>> /\ passed[1].n = 1
  /\ (MaxMs * bucket_rate) \div 1000 < IntValues \div 2
  => LET n == Len(offered)
         Backlog(k) == MapThenSumSet(LAMBDA j : offered[j].oct, k..n)
                         - ((offered[n].ms - offered[k].ms) * bucket_rate) \div 1000
         level == Max({Backlog(k) : k \in 1..n})
         truncated == IF bucket_rate % 1000 = 0 THEN 0 ELSE n - 1
     IN  /\ dt.bucket_cur <= level + truncated
         /\ Len(passed) = n => dt.bucket_cur >= level

(* Packets that are all delayed are passed on in the order of their new    *)
(* times, however delays vary (qfDetunePacket: clamp to avoid out of       *)
(* order).                                                                 *)
DelayedInOrder ==
  (\A k \in 1..Len(passed) : passed[k].late > passed[k].ms) =>
    \A k \in 1..Len(passed) - 1 : passed[k].late <= passed[k + 1].late

=============================================================================
