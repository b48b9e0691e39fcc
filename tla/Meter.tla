------------------------------- MODULE Meter -------------------------------
(***************************************************************************)
(* The main loop of QoF (qfTraceMain in src/src/qofltrace.c, with          *)
(* yfProcessPBufRing and yfFinalFlush of yaflush.c, and yafout.c), around  *)
(* the flow table of module FlowTable.                                     *)
(*                                                                         *)
(* Packets are read in groups into a ring of packet buffers; after each    *)
(* full group the ring is emptied into the flow table, the table is        *)
(* flushed and the output is rotated if it is time.  A signal, the end of  *)
(* the input or an error ends the loop.  pc is the place in the code.      *)
(* Reading, decoding, detuning and reassembly are seen by their result:    *)
(* a packet for the ring, an invalid buffer, or nothing.                   *)
(***************************************************************************)
EXTENDS FlowTable

CONSTANTS
  GroupSize,      \* TRACE_PACKET_GROUP
  RingCap,        \* the capacity of pbufring
  rotate_period,  \* 0 for no rotation
  stats_period,   \* 0 for no statistics records
  enable_lock,    \* lock files are used
  transport,      \* export over the network, not to a file
  outspec,        \* "stdout" for -, "onechar" for another name of one letter
  MaxInput        \* bound: packets the source delivers

ASSUME MeterAssumption ==
  /\ GroupSize \in Nat \ {0} /\ RingCap \in Nat /\ GroupSize <= RingCap
  /\ rotate_period \in Nat /\ stats_period \in Nat /\ MaxInput \in Nat
  /\ enable_lock \in BOOLEAN /\ transport \in BOOLEAN
  /\ outspec \in {"stdout", "onechar", "path"}

VARIABLES
  pc,             \* the place in qfTraceMain
  ring,           \* pbufring, the tail first
  i,              \* buffers filled in this group
  trv,            \* what trace_read_packet returned last
  trace_err,      \* trace_is_err
  quit,           \* yaf_quit
  ok,             \* no error so far
  fbuf,           \* serial number of the open output, 0 for none
  serial,         \* outputs opened
  held,           \* the lock file is ours
  rotate_last,
  stats_last,
  decfail,        \* the decoder's count of dropped packets, modulo 2
  nread,          \* history: packets read into buffers
  closes          \* history: how each output was closed, in their order

loopVars == <<pc, ring, i, trv, trace_err, quit, ok, fbuf, serial, held,
              rotate_last, stats_last, decfail, nread, closes>>
meterVars == <<vars, loopVars>>

(* A slot of the ring: a packet, a buffer with ptime 0, or one that was    *)
(* handed out but not filled and still holds an old packet.                *)
Filled == [kind : {"packet"}, pbuf : Packet]
Invalid == [kind |-> "invalid"]
Stale == [kind |-> "stale"]

MeterInit ==
  /\ Init
  /\ pc = "top" /\ ring = <<>> /\ i = 0 /\ trv = 0 /\ trace_err = FALSE
  /\ quit = FALSE /\ ok = TRUE /\ fbuf = 0 /\ serial = 0 /\ held = FALSE
  /\ rotate_last = 0 /\ stats_last = 0 /\ decfail = 0 /\ nread = 0
  /\ closes = <<>>

----------------------------------------------------------------------------
(* SIGINT or SIGTERM, at any time.                                         *)
yfQuit ==
  /\ ~quit /\ pc \notin {"abort", "done"}
  /\ quit' = TRUE
  /\ UNCHANGED <<vars, pc, ring, i, trv, trace_err, ok, fbuf, serial, held,
                 rotate_last, stats_last, decfail, nread, closes>>

(* The head of the outer loop.                                             *)
StartGroup ==
  /\ pc = "top"
  /\ pc' = IF quit THEN "final" ELSE "read"
  /\ i' = IF quit THEN i ELSE 0
  /\ UNCHANGED <<vars, ring, trv, trace_err, quit, ok, fbuf, serial, held,
                 rotate_last, stats_last, decfail, nread, closes>>

(* The head of the inner loop: a slot from rgaNextHead, asserted to be     *)
(* there, or the group is over.                                            *)
NextSlot ==
  /\ pc = "read"
  /\ pc' = IF i < GroupSize /\ ~quit
           THEN IF Len(ring) < RingCap THEN "slot" ELSE "abort" ELSE "end"
  /\ ring' = IF pc' = "slot" THEN Append(ring, Stale) ELSE ring
  /\ UNCHANGED <<vars, i, trv, trace_err, quit, ok, fbuf, serial, held,
                 rotate_last, stats_last, decfail, nread, closes>>

(* trace_read_packet and qfTraceHandlePacket: the slot is filled, with     *)
(* ptime 0 by a fragment that completes nothing.                           *)
ReadPacket ==
  /\ pc = "slot" /\ nread < MaxInput
  /\ nread' = nread + 1
  /\ trv' = 1
  /\ \E b \in Filled \cup {Invalid} : ring' = [ring EXCEPT ![Len(ring)] = b]
  /\ i' = i + 1
  /\ pc' = "read"
  /\ UNCHANGED <<vars, trace_err, quit, ok, fbuf, serial, held, rotate_last,
                 stats_last, decfail, closes>>

(* A packet that is not decoded, or is dropped by the detuner: the loop    *)
(* reads the next into the same slot.                                      *)
DropPacket ==
  /\ pc = "slot"
  /\ trv' = 1
  /\ decfail' = 1 - decfail
  /\ UNCHANGED <<vars, pc, ring, i, trace_err, quit, ok, fbuf, serial, held,
                 rotate_last, stats_last, nread, closes>>

(* trace_read_packet reports the end of the input or an error.             *)
ReadEnds ==
  /\ pc = "slot"
  /\ \/ trv' = 0 /\ trace_err' = FALSE
     \/ trv' = -1 /\ trace_err' = TRUE
  /\ pc' = "end"
  /\ UNCHANGED <<vars, ring, i, quit, ok, fbuf, serial, held, rotate_last,
                 stats_last, decfail, nread, closes>>

(* Fault: the end of the input is not looked at.                           *)
GroupEndNoEof ==
  /\ pc = "end"
  /\ IF trace_err THEN ok' = FALSE /\ pc' = "final"
     ELSE ok' = ok /\ pc' = IF quit THEN "final" ELSE "open"
  /\ UNCHANGED <<vars, ring, i, trv, trace_err, quit, fbuf, serial, held,
                 rotate_last, stats_last, decfail, nread, closes>>

(* Fault: the loop goes on after a read error.                             *)
GroupEndNoBreak ==
  /\ pc = "end"
  /\ IF trace_err THEN ok' = FALSE /\ pc' = IF quit THEN "final" ELSE "export"
     ELSE ok' = ok /\ pc' = IF quit \/ trv = 0 THEN "final" ELSE "open"
  /\ UNCHANGED <<vars, ring, i, trv, trace_err, quit, fbuf, serial, held,
                 rotate_last, stats_last, decfail, nread, closes>>

(* TRACE_END: an error, quit and the end of the input leave the loop.      *)
GroupEnd ==
  /\ pc = "end"
  /\ IF trace_err THEN ok' = FALSE /\ pc' = "final"
     ELSE ok' = ok /\ pc' = IF quit \/ trv = 0 THEN "final" ELSE "open"
  /\ UNCHANGED <<vars, ring, i, trv, trace_err, quit, fbuf, serial, held,
                 rotate_last, stats_last, decfail, nread, closes>>

----------------------------------------------------------------------------
(***************************************************************************)
(* The output (yafout.c)                                                   *)
(***************************************************************************)

(* Whether yfOutputOpen takes a lock.                                      *)
Locks == enable_lock /\ ~transport /\ outspec # "onechar"

(* Fault: the lock is kept when the file cannot be opened.                 *)
OpenFailsKeepLock(next) ==
  /\ ok' = FALSE /\ pc' = "final" /\ fbuf' = 0
  /\ serial' = serial
  /\ held' \in {FALSE, Locks}

(* yfOutputOpen fails, on the lock or on the writer: the caller gives up.  *)
OpenFails(next) ==
  /\ ok' = FALSE /\ pc' = "final" /\ fbuf' = 0
  /\ serial' = serial
  /\ held' = FALSE

(* yfOutputOpen: the caller goes on at next.                               *)
yfOutputOpen(next) ==
  \/ /\ pc' = next /\ ok' = ok
     /\ serial' = serial + 1 /\ fbuf' = serial + 1
     /\ held' = Locks
  \/ OpenFails(next)

(* The writer of the open output is closed: with flush it emits first what *)
(* it has buffered, which may fail.  The failure is logged and nothing     *)
(* else; without flush what is buffered is dropped.                        *)
yfWriterClose(flush) ==
  \E how \in IF flush THEN {"flushed", "failed"} ELSE {"dropped"} :
    closes' = Append(closes, how)

(* The lock goes with the output, whatever became of the writer.           *)
yfOutputClose(flush) == yfWriterClose(flush) /\ fbuf' = 0 /\ held' = FALSE

(* yfProcessPBufRing: open the output if there is none.                    *)
OpenOutput ==
  /\ pc = "open"
  /\ IF fbuf # 0
     THEN pc' = "ring" /\ UNCHANGED <<ok, fbuf, serial, held>>
     ELSE yfOutputOpen("ring")
  /\ UNCHANGED <<vars, ring, i, trv, trace_err, quit, rotate_last,
                 stats_last, decfail, nread, closes>>

(* The loop over the ring: the oldest buffer goes to the flow table unless *)
(* its time is zero.  A stale slot holds some packet read before.          *)
ProcessBuffer ==
  /\ pc = "ring"
  /\ \/ /\ ring = <<>> /\ pc' = "flush" /\ UNCHANGED <<vars, ring>>
     \/ /\ ring # <<>> /\ ring' = Tail(ring) /\ pc' = pc
        /\ IF Head(ring) = Invalid
           THEN UNCHANGED vars
           ELSE \E p \in Packet : /\ Head(ring) # Stale => p = Head(ring).pbuf
                                  /\ PBuf(p)
  /\ UNCHANGED <<i, trv, trace_err, quit, ok, fbuf, serial, held,
                 rotate_last, stats_last, decfail, nread, closes>>

(* yfFlowTabFlush(FALSE): a failed write ends the main loop.               *)
FlushTable ==
  /\ pc = "flush"
  /\ IF FlushDue(ft) THEN Flush ELSE UNCHANGED vars
  /\ ok' = (phase' # "failed")
  /\ pc' = IF phase' = "failed" THEN "final" ELSE "rotate"
  /\ UNCHANGED <<ring, i, trv, trace_err, quit, fbuf, serial, held,
                 rotate_last, stats_last, decfail, nread, closes>>

RotateDue ==
  rotate_period # 0 /\ rotate_last # 0 /\ ft.ctime - rotate_last > rotate_period

(* Rotation: close the output, which releases the lock, and open the next. *)
Rotate ==
  /\ pc = "rotate"
  /\ IF RotateDue
     THEN yfWriterClose(TRUE) /\ yfOutputOpen("export") /\ rotate_last' = ft.ctime
     ELSE /\ rotate_last' = IF rotate_period # 0 /\ rotate_last = 0
                            THEN ft.ctime ELSE rotate_last
          /\ pc' = "export" /\ UNCHANGED <<ok, fbuf, serial, held, closes>>
  /\ UNCHANGED <<vars, ring, i, trv, trace_err, quit, stats_last, decfail,
                 nread>>

(* qfTracePeriodicExport; that its writes may fail changes only the timer, *)
(* the caller ignores its result.  (The template timer works the same.)    *)
PeriodicExport ==
  /\ pc = "export"
  /\ pc' = "top"
  /\ IF stats_period # 0 /\ ft.ctime - stats_last >= stats_period
     THEN stats_last' \in {stats_last, ft.ctime}
     ELSE stats_last' = stats_last
  /\ UNCHANGED <<vars, ring, i, trv, trace_err, quit, ok, fbuf, serial, held,
                 rotate_last, decfail, nread, closes>>

(* Fault: the result of the last flush is not looked at.                   *)
yfFinalFlushUnreported ==
  /\ pc = "final" /\ pc' = "done"
  /\ \/ fbuf = 0 /\ UNCHANGED <<vars, ok, fbuf, held, closes>>
     \/ /\ fbuf # 0 /\ ok /\ FinalFlush /\ yfOutputClose(TRUE)
        /\ ok' = TRUE \/ (stats_period # 0 /\ ok' = FALSE)
     \/ fbuf # 0 /\ ~ok /\ yfOutputClose(FALSE) /\ UNCHANGED <<vars, ok>>
  /\ UNCHANGED <<ring, i, trv, trace_err, quit, serial, rotate_last,
                 stats_last, decfail, nread>>

(* yfFinalFlush, if an output is open: without an error so far the whole   *)
(* table is written; the statistics record after it may fail too.  The     *)
(* output is closed, and flushed only if there was no error.               *)
yfFinalFlush ==
  /\ pc = "final" /\ pc' = "done"
  /\ \/ fbuf = 0 /\ UNCHANGED <<vars, ok, fbuf, held, closes>>
     \/ /\ fbuf # 0 /\ ok /\ FinalFlush /\ yfOutputClose(TRUE)
        /\ \/ ok' = (phase' # "failed")
           \/ stats_period # 0 /\ ok' = FALSE
     \/ fbuf # 0 /\ ~ok /\ yfOutputClose(FALSE) /\ UNCHANGED <<vars, ok>>
  /\ UNCHANGED <<ring, i, trv, trace_err, quit, serial, rotate_last,
                 stats_last, decfail, nread>>

LoopStep ==
  \/ StartGroup \/ NextSlot \/ ReadPacket \/ DropPacket \/ ReadEnds \/ GroupEnd
  \/ OpenOutput \/ ProcessBuffer \/ FlushTable \/ Rotate \/ PeriodicExport
  \/ yfFinalFlush

(* After main returned, or an assertion failed.                            *)
Exited == pc \in {"abort", "done"} /\ UNCHANGED meterVars

MeterNext == yfQuit \/ LoopStep \/ Exited

(* The loop runs by itself, and a read returns: with a packet, the end of  *)
(* the input or an error.                                                  *)
MeterSpec == MeterInit /\ [][MeterNext]_meterVars /\ WF_meterVars(LoopStep)

(* The same, for an input that does not deliver undecodable packets for    *)
(* ever.                                                                   *)
DecodableSpec == MeterSpec /\ WF_meterVars(ReadPacket \/ ReadEnds)

----------------------------------------------------------------------------
(***************************************************************************)
(* Properties                                                              *)
(***************************************************************************)

(* The assertion in the loop never fails: the ring is empty again before   *)
(* each group, whatever the buffers hold, so rgaNextHead finds a slot.  And*)
(* no buffer goes to the flow table that was not filled by this group: a   *)
(* slot handed out when the input ended is never processed (qfTraceMain).  *)
SlotsFilled ==
  /\ pc # "abort"
  /\ pc \in {"open", "ring", "flush"} => \A k \in 1..Len(ring) : ring[k] # Stale

(* A file is open or locked only together, nothing is flushed without an   *)
(* output, and when the program ends, however it ends, none is open and no *)
(* lock file is left behind.  When the loop goes back to reading the file  *)
(* is not older than the rotation period, in packet time                   *)
(* (yfProcessPBufRing, yfOutputOpen, yfOutputClose).                       *)
OutputPaired ==
  /\ held <=> Locks /\ fbuf # 0
  /\ pc \in {"ring", "flush", "rotate", "export"} => fbuf # 0
  /\ pc = "done" => fbuf = 0 /\ ~held
  /\ pc = "top" /\ rotate_period # 0 /\ fbuf # 0 =>
       ft.ctime - rotate_last <= rotate_period

(* Exit without an error means that everything the flow table accepted was *)
(* handed to an output and that each output ever opened was closed with    *)
(* its buffer flushed: no failed write or open, in any group, is forgotten,*)
(* and no output is dropped.  The one loss that the exit status hides is a *)
(* flush that fails in yfOutputClose, at rotation or at the end: the code  *)
(* only logs it, and what that output had buffered is gone.                *)
CleanExitFlushed ==
  pc = "done" /\ ok =>
    /\ \/ log = <<>>
       \/ phase = "closed" /\ lost = {} /\ ft.aq = <<>> /\ ft.cq = <<>>
    /\ Len(closes) = serial
    /\ \A k \in 1..Len(closes) : closes[k] # "dropped"

(* The program ends after a signal, after the end of the input and after   *)
(* an error.                                                               *)
QuitEnds == (quit \/ ~ok \/ (pc = "end" /\ trv # 1)) ~> (pc = "done")

(* Exit without an error or a signal means that every packet read into a   *)
(* buffer was accounted.                                                   *)
EndOfInputComplete ==
  pc = "done" /\ ok /\ ~quit => \A k \in 1..Len(ring) : ring[k].kind # "packet"

=============================================================================
