-------------------------------- MODULE Stat --------------------------------
(***************************************************************************)
(* The statistics dump (src/src/yafstat.c): the handler of SIGUSR1 counts  *)
(* requests that the main loop serves.  The handler interrupts the main    *)
(* loop anywhere, also between the load and the store of --yaf_do_stat if  *)
(* the compiler made two instructions of it.                               *)
(***************************************************************************)
EXTENDS Integers

CONSTANTS
  MaxSignals,   \* bound: signals; less than 2^32, so that the counter fits
  MaxCounted    \* bound: packets counted

ASSUME StatAssumption == MaxSignals \in Nat /\ MaxCounted \in Nat

VARIABLES
  yaf_do_stat,   \* requests not served
  statpc,        \* where the main loop is
  loaded,        \* the value loaded for the decrement
  counted,       \* packets in the flow table, dropped by the detuner, not decoded
  total,         \* packets the dump reports
  statlog        \* history: signals, dumps of the loop, request since the last one began
statVars == <<yaf_do_stat, statpc, loaded, counted, total, statlog>>

(* yfStatInit: the handler is installed before the first packet.           *)
yfStatInit ==
  /\ yaf_do_stat = 0 /\ statpc = "loop" /\ loaded = 0 /\ total = 0
  /\ counted = [flow |-> 0, detune |-> 0, decode |-> 0]
  /\ statlog = [signals |-> 0, dumps |-> 0, pending |-> FALSE]

yfSigUsr1 ==
  /\ statpc # "exit" /\ statlog.signals < MaxSignals
  /\ yaf_do_stat' = yaf_do_stat + 1
  /\ statlog' = [statlog EXCEPT !.signals = @ + 1, !.pending = TRUE]
  /\ UNCHANGED <<statpc, loaded, counted, total>>

(* The rest of the loop: a packet is counted in one of three places.       *)
Packet(c) ==
  /\ statpc = "loop" /\ counted.flow + counted.detune + counted.decode < MaxCounted
  /\ counted' = [counted EXCEPT ![c] = @ + 1]
  /\ UNCHANGED <<yaf_do_stat, statpc, loaded, total, statlog>>

(* yfStatDumpLoop: the test, ...                                           *)
TestRequest ==
  /\ statpc = "loop" /\ yaf_do_stat # 0
  /\ statpc' = "decrement"
  /\ UNCHANGED <<yaf_do_stat, loaded, counted, total, statlog>>

(* ... the decrement, in one instruction or two, ...                       *)
Decrement ==
  /\ statpc = "decrement"
  /\ \/ yaf_do_stat' = yaf_do_stat - 1 /\ statpc' = "dump" /\ UNCHANGED loaded
     \/ loaded' = yaf_do_stat /\ statpc' = "store" /\ UNCHANGED yaf_do_stat
  /\ UNCHANGED <<counted, total, statlog>>

StoreDecremented ==
  /\ statpc = "store"
  /\ yaf_do_stat' = loaded - 1 /\ statpc' = "dump"
  /\ UNCHANGED <<loaded, counted, total, statlog>>

(* ... and the dump.  Its parts report a packet total from the last part's *)
(* and from what they counted.                                             *)
yfFlowDumpStats == counted.flow
qfDetuneDumpStats(packets) == packets + counted.detune
yfDecodeDumpStats(packets) == packets + counted.decode

(* yfStatDump begins, ...                                                  *)
yfStatDump ==
  /\ statpc \in {"dump", "complete"}
  /\ statpc' = IF statpc = "dump" THEN "dumping" ELSE "completing"
  /\ total' = yfFlowDumpStats
  /\ statlog' = [statlog EXCEPT !.pending = FALSE]
  /\ UNCHANGED <<yaf_do_stat, loaded, counted>>

(* Fault: requests that arrived during a dump are taken as served by it.   *)
EndDumpResets ==
  /\ statpc \in {"dumping", "completing"}
  /\ total' = yfDecodeDumpStats(qfDetuneDumpStats(total))
  /\ statpc' = IF statpc = "dumping" THEN "loop" ELSE "exit"
  /\ yaf_do_stat' = 0
  /\ statlog' = [statlog EXCEPT !.dumps = IF statpc = "dumping" THEN @ + 1 ELSE @]
  /\ UNCHANGED <<loaded, counted>>

(* ... and ends.                                                           *)
EndDump ==
  /\ statpc \in {"dumping", "completing"}
  /\ total' = yfDecodeDumpStats(qfDetuneDumpStats(total))
  /\ statpc' = IF statpc = "dumping" THEN "loop" ELSE "exit"
  /\ statlog' = [statlog EXCEPT !.dumps = IF statpc = "dumping" THEN @ + 1 ELSE @]
  /\ UNCHANGED <<yaf_do_stat, loaded, counted>>

(* yfStatComplete: a last dump when the loop has ended.                    *)
yfStatComplete ==
  /\ statpc = "loop"
  /\ statpc' = "complete"
  /\ UNCHANGED <<yaf_do_stat, loaded, counted, total, statlog>>

StatNext ==
  \/ yfSigUsr1 \/ TestRequest \/ Decrement \/ StoreDecremented
  \/ yfStatDump \/ EndDump \/ yfStatComplete
  \/ \E c \in {"flow", "detune", "decode"} : Packet(c)

StatSpec == yfStatInit /\ [][StatNext]_statVars

----------------------------------------------------------------------------
(* No request is forgotten, though the counter that the handler and the    *)
(* main loop change is not atomic and an increment may be lost: the loop   *)
(* finds the counter set as long as no dump has begun after the last       *)
(* request (yfStatDumpLoop decrements before it dumps).  No more dumps are *)
(* made than were requested, and the last one, at exit, reports every      *)
(* packet.                                                                 *)
StatRequestServed ==
  /\ statpc = "loop" /\ statlog.pending => yaf_do_stat > 0
  /\ statlog.dumps + yaf_do_stat <= statlog.signals
  /\ statpc = "exit" => total = counted.flow + counted.detune + counted.decode

=============================================================================
