---------------------------- MODULE MeterProofs ----------------------------
(***************************************************************************)
(* Proofs about the main loop, for every group size, ring capacity, input  *)
(* and configuration of the output.  The flow table enters by the lemmas   *)
(* of FlowTableProofs on its three operations.                             *)
(***************************************************************************)
EXTENDS Meter, FlowTableProofs

(* The places where no error has been seen.                                *)
Running == {"top", "read", "slot", "end", "open", "ring", "flush", "rotate", "export"}

Slot == Filled \cup {Invalid, Stale}

LoopType ==
  /\ pc \in Running \cup {"final", "done"}
  /\ ring \in Seq(Slot) /\ i \in Nat
  /\ trv \in {-1, 0, 1} /\ trace_err \in BOOLEAN /\ quit \in BOOLEAN /\ ok \in BOOLEAN
  /\ fbuf \in Nat /\ serial \in Nat /\ held \in BOOLEAN
  /\ rotate_last \in Nat

NoStale(r) == \A k \in 1..Len(r) : r[k] # Stale

(* The ring is empty between groups, has one slot per packet of the group  *)
(* while it is read, and ends with a stale one only when the loop is left. *)
RingInv ==
  /\ pc = "top" => ring = <<>>
  /\ pc = "read" => Len(ring) = i /\ i <= GroupSize /\ NoStale(ring)
  /\ pc = "slot" =>
       /\ Len(ring) = i + 1 /\ i < GroupSize
       /\ \A k \in 1..i : ring[k] # Stale
  /\ pc = "end" => NoStale(ring) \/ trace_err \/ trv = 0
  /\ pc \in {"open", "ring"} => NoStale(ring)
  /\ pc \in {"flush", "rotate", "export"} => ring = <<>>

OutputInv ==
  /\ held <=> Locks /\ fbuf # 0
  /\ pc \in {"ring", "flush", "rotate", "export"} => fbuf # 0
  /\ pc = "done" => fbuf = 0
  /\ pc = "export" \/ (pc = "top" /\ fbuf # 0) =>
       rotate_period = 0 \/ ft.ctime - rotate_last <= rotate_period

(* No error is forgotten: the loop runs on only without one, and what the  *)
(* flow table accepted went to an output.                                  *)
ErrorInv ==
  /\ pc \in Running => ok
  /\ ok /\ pc # "done" => phase = "open" /\ (fbuf = 0 => log = <<>>)
  /\ ok /\ lost # {} => phase = "failed"
  /\ pc = "done" /\ ok =>
       log = <<>> \/ (phase = "closed" /\ ft.aq = <<>> /\ ft.cq = <<>> /\ lost = {})

(* Each output opened before the present one was closed, and without an    *)
(* error none was closed without a flush.                                  *)
CloseInv ==
  /\ closes \in Seq({"flushed", "failed", "dropped"})
  /\ serial = Len(closes) + (IF fbuf = 0 THEN 0 ELSE 1)
  /\ ok => \A k \in 1..Len(closes) : closes[k] # "dropped"

MeterInv == IInv /\ LoopType /\ RingInv /\ OutputInv /\ ErrorInv /\ CloseInv

(* A step that neither opens nor closes an output.                         *)
LEMMA ClosesKept ==
  ASSUME CloseInv, UNCHANGED <<closes, serial, fbuf>>, ok' => ok
  PROVE  CloseInv'
BY DEF CloseInv

(* A step that closes the open output, with a flush unless there was an    *)
(* error, and may open the next.                                           *)
LEMMA WriterCloseKept ==
  ASSUME CloseInv, fbuf # 0, NEW flush \in BOOLEAN, yfWriterClose(flush),
         ok' => flush /\ ok,
         serial' = serial + (IF fbuf' = 0 THEN 0 ELSE 1)
  PROVE  CloseInv'
<1>1. PICK how \in {"flushed", "failed", "dropped"} :
        closes' = Append(closes, how) /\ (flush => how # "dropped")
  BY DEF yfWriterClose
<1>2. closes \in Seq({"flushed", "failed", "dropped"}) /\ serial = Len(closes) + 1
  BY DEF CloseInv
<1>3. /\ closes' \in Seq({"flushed", "failed", "dropped"})
      /\ Len(closes') = Len(closes) + 1 /\ Len(closes) \in Nat
      /\ \A k \in 1..Len(closes) + 1 :
           closes'[k] = IF k = Len(closes) + 1 THEN how ELSE closes[k]
  BY <1>1, <1>2
<1>4. ok' => \A k \in 1..Len(closes') : closes'[k] # "dropped"
  <2> SUFFICES ASSUME ok', NEW k \in 1..Len(closes')
               PROVE  closes'[k] # "dropped"
    OBVIOUS
  <2>1. \A j \in 1..Len(closes) : closes[j] # "dropped"
    BY DEF CloseInv
  <2>2. k = Len(closes) + 1 \/ k \in 1..Len(closes)
    BY <1>3
  <2> QED BY <1>1, <1>3, <2>1, <2>2
<1>5. serial' = Len(closes') + (IF fbuf' = 0 THEN 0 ELSE 1)
  BY <1>2, <1>3
<1> QED BY <1>3, <1>4, <1>5 DEF CloseInv

(* A step that leaves the flow table alone keeps its invariant.            *)
LEMMA TableKept ==
  ASSUME IInv, UNCHANGED vars
  PROVE  IInv'
BY DEF vars, IInv, TypeOK

LEMMA SlotKinds ==
  /\ \A b \in Filled \cup {Invalid} : b # Stale /\ b \in Slot
  /\ Stale \in Slot
BY DEF Slot, Filled, Invalid, Stale

LEMMA LocksBoolean == Locks \in BOOLEAN
BY MeterAssumption DEF Locks

LEMMA MeterInitInv == MeterInit => MeterInv
<1> SUFFICES ASSUME MeterInit PROVE MeterInv
  OBVIOUS
<1>1. IInv
  BY InitIInv DEF MeterInit
<1>2. <<>> \in Seq(Slot)
  OBVIOUS
<1>3. LoopType
  BY <1>2 DEF MeterInit, LoopType, Running
<1>4. RingInv /\ OutputInv /\ ErrorInv /\ CloseInv
  BY DEF MeterInit, Init, RingInv, OutputInv, ErrorInv, CloseInv
<1> QED BY <1>1, <1>3, <1>4 DEF MeterInv

(* The steps that leave the table alone, one by one.                       *)
LEMMA QuitInv ==
  ASSUME MeterInv, yfQuit
  PROVE  MeterInv'
<1>0. CloseInv'
  BY ClosesKept DEF MeterInv, yfQuit
<1>1. IInv'
  BY TableKept DEF MeterInv, yfQuit
<1>2. LoopType' /\ RingInv' /\ OutputInv' /\ ErrorInv'
  BY DEF MeterInv, yfQuit, LoopType, RingInv, OutputInv, ErrorInv, NoStale, vars
<1> QED BY <1>0, <1>1, <1>2 DEF MeterInv

LEMMA StartGroupInv ==
  ASSUME MeterInv, StartGroup
  PROVE  MeterInv'
<1>0. CloseInv'
  BY ClosesKept DEF MeterInv, StartGroup
<1>1. IInv'
  BY TableKept DEF MeterInv, StartGroup
<1>2. LoopType'
  BY DEF MeterInv, StartGroup, LoopType, Running
<1>3. RingInv'
  <2>1. ring = <<>> /\ Len(ring) = 0 /\ GroupSize \in Nat
    BY MeterAssumption DEF MeterInv, StartGroup, RingInv
  <2>2. NoStale(ring)
    BY <2>1 DEF NoStale
  <2> QED BY <2>1, <2>2 DEF StartGroup, RingInv, NoStale
<1>4. OutputInv' /\ ErrorInv'
  BY DEF MeterInv, StartGroup, OutputInv, ErrorInv, Running, vars
<1> QED BY <1>0, <1>1, <1>2, <1>3, <1>4 DEF MeterInv

LEMMA NextSlotInv ==
  ASSUME MeterInv, NextSlot
  PROVE  MeterInv'
<1>0. CloseInv'
  BY ClosesKept DEF MeterInv, NextSlot
<1>1. /\ pc = "read" /\ ring \in Seq(Slot) /\ i \in Nat /\ quit \in BOOLEAN
      /\ Len(ring) = i /\ i <= GroupSize /\ NoStale(ring)
  BY DEF MeterInv, NextSlot, RingInv, LoopType
<1>2. GroupSize \in Nat /\ RingCap \in Nat /\ GroupSize <= RingCap
  BY MeterAssumption
<1>3. IF i < GroupSize /\ ~quit THEN pc' = "slot" /\ ring' = Append(ring, Stale)
                                ELSE pc' = "end" /\ ring' = ring
  BY <1>1, <1>2 DEF NextSlot
<1>4. Stale \in Slot
  BY SlotKinds
<1>5. IInv'
  BY TableKept DEF MeterInv, NextSlot
<1>6. CASE i < GroupSize /\ ~quit
  <2>1. /\ ring' \in Seq(Slot) /\ Len(ring') = i + 1 /\ i' = i
        /\ \A k \in 1..i : ring'[k] = ring[k]
    BY <1>1, <1>3, <1>4, <1>6 DEF NextSlot
  <2>2. LoopType'
    BY <1>3, <1>6, <2>1 DEF MeterInv, NextSlot, LoopType, Running
  <2>3. RingInv'
    BY <1>1, <1>3, <1>6, <2>1 DEF RingInv, NoStale
  <2>4. OutputInv' /\ ErrorInv'
    BY <1>1, <1>3, <1>6 DEF MeterInv, NextSlot, OutputInv, ErrorInv, Running, vars
  <2> QED BY <1>0, <1>5, <2>2, <2>3, <2>4 DEF MeterInv
<1>7. CASE ~(i < GroupSize /\ ~quit)
  <2>1. LoopType' /\ OutputInv' /\ ErrorInv'
    BY <1>1, <1>3, <1>7 DEF MeterInv, NextSlot, LoopType, OutputInv, ErrorInv, Running, vars
  <2>2. RingInv'
    BY <1>1, <1>3, <1>7 DEF RingInv, NoStale
  <2> QED BY <1>0, <1>5, <2>1, <2>2 DEF MeterInv
<1> QED BY <1>6, <1>7

LEMMA ReadPacketInv ==
  ASSUME MeterInv, ReadPacket
  PROVE  MeterInv'
<1>0. CloseInv'
  BY ClosesKept DEF MeterInv, ReadPacket
<1>1. /\ pc = "slot" /\ ring \in Seq(Slot) /\ i \in Nat
      /\ Len(ring) = i + 1 /\ i < GroupSize /\ GroupSize \in Nat
      /\ \A k \in 1..i : ring[k] # Stale
  BY MeterAssumption DEF MeterInv, ReadPacket, RingInv, LoopType
<1>2. PICK b \in Filled \cup {Invalid} : ring' = [ring EXCEPT ![Len(ring)] = b]
  BY DEF ReadPacket
<1>3. b \in Slot /\ b # Stale
  BY SlotKinds
<1>4. /\ ring' \in Seq(Slot) /\ Len(ring') = i + 1
      /\ \A k \in 1..i + 1 : ring'[k] = IF k = i + 1 THEN b ELSE ring[k]
  BY <1>1, <1>2, <1>3
<1>5. i' = i + 1 /\ pc' = "read" /\ i + 1 \in Nat
  BY <1>1 DEF ReadPacket
<1>6. IInv'
  BY TableKept DEF MeterInv, ReadPacket
<1>7. LoopType'
  BY <1>4, <1>5 DEF MeterInv, ReadPacket, LoopType, Running
<1>8. RingInv'
  <2>1. NoStale(ring')
    BY <1>1, <1>3, <1>4 DEF NoStale
  <2> QED BY <1>1, <1>4, <1>5, <2>1 DEF RingInv, NoStale
<1>9. OutputInv' /\ ErrorInv'
  BY <1>1, <1>5 DEF MeterInv, ReadPacket, OutputInv, ErrorInv, Running, vars
<1> QED BY <1>0, <1>6, <1>7, <1>8, <1>9 DEF MeterInv

LEMMA DropPacketInv ==
  ASSUME MeterInv, DropPacket
  PROVE  MeterInv'
<1>0. CloseInv'
  BY ClosesKept DEF MeterInv, DropPacket
<1>1. IInv'
  BY TableKept DEF MeterInv, DropPacket
<1>2. LoopType' /\ RingInv' /\ OutputInv' /\ ErrorInv'
  BY DEF MeterInv, DropPacket, LoopType, RingInv, OutputInv, ErrorInv, NoStale, vars
<1> QED BY <1>0, <1>1, <1>2 DEF MeterInv

LEMMA ReadEndsInv ==
  ASSUME MeterInv, ReadEnds
  PROVE  MeterInv'
<1>0. CloseInv'
  BY ClosesKept DEF MeterInv, ReadEnds
<1>1. IInv'
  BY TableKept DEF MeterInv, ReadEnds
<1>2. LoopType' /\ RingInv' /\ OutputInv' /\ ErrorInv'
  BY DEF MeterInv, ReadEnds, LoopType, RingInv, OutputInv, ErrorInv, NoStale, Running, vars
<1> QED BY <1>0, <1>1, <1>2 DEF MeterInv

LEMMA GroupEndInv ==
  ASSUME MeterInv, GroupEnd
  PROVE  MeterInv'
<1>0. CloseInv'
  BY ClosesKept DEF MeterInv, GroupEnd, ErrorInv, Running
<1>1. IInv'
  BY TableKept DEF MeterInv, GroupEnd
<1>2. LoopType' /\ RingInv' /\ OutputInv' /\ ErrorInv'
  BY DEF MeterInv, GroupEnd, LoopType, RingInv, OutputInv, ErrorInv, NoStale, Running, vars
<1> QED BY <1>0, <1>1, <1>2 DEF MeterInv

(* Opening an output, from a place where there was no error.               *)
LEMMA OpenFacts ==
  ASSUME MeterInv, NEW next \in Running, yfOutputOpen(next)
  PROVE  /\ fbuf' \in Nat /\ serial' \in Nat /\ held' \in BOOLEAN /\ ok' \in BOOLEAN
         /\ held' <=> Locks /\ fbuf' # 0
         /\ \/ pc' = next /\ ok' = ok /\ fbuf' # 0
            \/ pc' = "final" /\ ok' = FALSE
         /\ serial' = serial + (IF fbuf' = 0 THEN 0 ELSE 1)
<1>1. serial \in Nat /\ ok \in BOOLEAN
  BY DEF MeterInv, LoopType
<1>2. serial + 1 \in Nat /\ serial + 1 # 0 /\ 0 \in Nat
  BY <1>1
<1>3. CASE OpenFails(next)
  <2>1. ok' = FALSE /\ pc' = "final" /\ fbuf' = 0 /\ serial' = serial /\ held' = FALSE
    BY <1>3 DEF OpenFails
  <2>2. serial = serial + 0
    BY <1>1
  <2> QED BY <1>1, <2>1, <2>2
<1>4. CASE pc' = next /\ ok' = ok /\ serial' = serial + 1 /\ fbuf' = serial + 1 /\ held' = Locks
  BY <1>1, <1>2, <1>4, LocksBoolean
<1> QED BY <1>3, <1>4 DEF yfOutputOpen

LEMMA OpenOutputInv ==
  ASSUME MeterInv, OpenOutput
  PROVE  MeterInv'
<1>1. pc = "open" /\ UNCHANGED <<vars, ring, i, trv, trace_err, quit, rotate_last>>
  BY DEF OpenOutput
<1>2. IInv'
  BY <1>1, TableKept DEF MeterInv
<1>3. /\ fbuf' \in Nat /\ serial' \in Nat /\ held' \in BOOLEAN /\ ok' \in BOOLEAN
      /\ held' <=> Locks /\ fbuf' # 0
      /\ \/ pc' = "ring" /\ ok' = ok /\ fbuf' # 0
         \/ pc' = "final" /\ ok' = FALSE
  <2>1. CASE fbuf # 0
    BY <2>1 DEF OpenOutput, MeterInv, LoopType, OutputInv
  <2>2. CASE fbuf = 0
    <3>1. yfOutputOpen("ring") /\ "ring" \in Running
      BY <2>2 DEF OpenOutput, Running
    <3> QED BY <3>1, OpenFacts
  <2> QED BY <2>1, <2>2
<1>4. LoopType'
  BY <1>1, <1>3 DEF MeterInv, LoopType, Running
<1>5. RingInv'
  BY <1>1, <1>3 DEF MeterInv, RingInv, NoStale
<1>6. OutputInv'
  BY <1>1, <1>3 DEF OutputInv
<1>7. ok /\ phase = "open" /\ lost = {} /\ phase' = phase /\ lost' = lost
  BY <1>1 DEF MeterInv, ErrorInv, Running, vars
<1>8. ErrorInv'
  BY <1>3, <1>7 DEF ErrorInv, Running
<1>9. CloseInv'
  <2>1. CASE fbuf # 0
    BY <2>1, ClosesKept DEF OpenOutput, MeterInv
  <2>2. CASE fbuf = 0
    <3>1. yfOutputOpen("ring") /\ "ring" \in Running /\ closes' = closes
      BY <2>2 DEF OpenOutput, Running
    <3>2. serial' = serial + (IF fbuf' = 0 THEN 0 ELSE 1) /\ (ok' => ok)
      BY <1>7, <3>1, OpenFacts
    <3>3. serial = Len(closes)
      BY <2>2 DEF MeterInv, CloseInv
    <3> QED BY <3>1, <3>2, <3>3 DEF MeterInv, CloseInv
  <2> QED BY <2>1, <2>2
<1> QED BY <1>2, <1>4, <1>5, <1>6, <1>8, <1>9 DEF MeterInv

LEMMA ProcessBufferInv ==
  ASSUME MeterInv, ProcessBuffer
  PROVE  MeterInv'
<1>0. CloseInv'
  BY ClosesKept DEF MeterInv, ProcessBuffer
<1>1. /\ pc = "ring" /\ UNCHANGED <<i, trv, trace_err, quit, ok, fbuf, serial, held, rotate_last>>
      /\ ring \in Seq(Slot) /\ NoStale(ring) /\ fbuf # 0 /\ ok
      /\ phase = "open"
  BY DEF ProcessBuffer, MeterInv, LoopType, RingInv, OutputInv, ErrorInv, Running
<1>2. CASE ring = <<>> /\ pc' = "flush" /\ UNCHANGED <<vars, ring>>
  <2>1. IInv'
    BY <1>2, TableKept DEF MeterInv
  <2>2. LoopType' /\ RingInv' /\ OutputInv' /\ ErrorInv'
    BY <1>1, <1>2 DEF MeterInv, LoopType, RingInv, OutputInv, ErrorInv, Running, vars
  <2> QED BY <1>0, <2>1, <2>2 DEF MeterInv
<1>3. CASE ring # <<>> /\ ring' = Tail(ring) /\ pc' = pc
           /\ (UNCHANGED vars \/ \E p \in Packet : PBuf(p))
  <2>1. IInv'
    BY <1>3, PBufIInv, TableKept DEF MeterInv
  <2>2. ring' \in Seq(Slot) /\ NoStale(ring')
    BY <1>1, <1>3 DEF NoStale
  <2>3. LoopType'
    BY <1>1, <1>3, <2>2 DEF MeterInv, LoopType
  <2>4. RingInv' /\ OutputInv'
    BY <1>1, <1>3, <2>2 DEF MeterInv, RingInv, OutputInv
  <2>5. phase' = phase /\ lost' = lost
    BY <1>3 DEF PBuf, vars
  <2>6. ErrorInv'
    BY <1>1, <1>3, <2>5 DEF MeterInv, ErrorInv
  <2> QED BY <1>0, <2>1, <2>3, <2>4, <2>6 DEF MeterInv
<1> QED BY <1>2, <1>3 DEF ProcessBuffer

LEMMA FlushTableInv ==
  ASSUME MeterInv, FlushTable
  PROVE  MeterInv'
<1>0. CloseInv'
  BY ClosesKept DEF MeterInv, FlushTable, ErrorInv, Running
<1>1. /\ pc = "flush" /\ UNCHANGED <<ring, i, trv, trace_err, quit, fbuf, serial, held, rotate_last>>
      /\ ok' = (phase' # "failed") /\ pc' = IF phase' = "failed" THEN "final" ELSE "rotate"
      /\ ring = <<>> /\ fbuf # 0 /\ ok /\ phase = "open"
  BY DEF FlushTable, MeterInv, RingInv, OutputInv, ErrorInv, Running
<1>2. /\ IInv' /\ phase' \in {"open", "failed"} /\ (phase' # "failed" => lost' = lost)
      /\ ft'.ctime = ft.ctime /\ log' = log
  <2>1. CASE FlushDue(ft)
    <3>1. Flush
      BY <2>1 DEF FlushTable
    <3>2. FlushResult(FALSE) /\ phase' \in {"open", "failed"}
      BY <3>1, FlushIInv DEF MeterInv
    <3> QED BY <3>2 DEF FlushResult
  <2>2. CASE ~FlushDue(ft)
    <3>1. UNCHANGED vars
      BY <2>2 DEF FlushTable
    <3> QED BY <1>1, <3>1, TableKept DEF MeterInv, vars
  <2> QED BY <2>1, <2>2
<1>3. LoopType'
  BY <1>1, <1>2 DEF MeterInv, LoopType, Running
<1>4. RingInv' /\ OutputInv'
  BY <1>1, <1>2 DEF MeterInv, RingInv, OutputInv
<1>5. ErrorInv'
  BY <1>1, <1>2 DEF MeterInv, ErrorInv, Running
<1> QED BY <1>0, <1>2, <1>3, <1>4, <1>5 DEF MeterInv

LEMMA RotateInv ==
  ASSUME MeterInv, Rotate
  PROVE  MeterInv'
<1>1. /\ pc = "rotate" /\ UNCHANGED <<vars, ring, i, trv, trace_err, quit>>
      /\ ring = <<>> /\ fbuf # 0 /\ ok /\ phase = "open"
  BY DEF Rotate, MeterInv, RingInv, OutputInv, ErrorInv, Running
<1>2. IInv'
  BY <1>1, TableKept DEF MeterInv
<1>3. ft.ctime \in Nat /\ ft'.ctime = ft.ctime /\ rotate_last \in Nat /\ rotate_period \in Nat
  BY <1>1, MeterAssumption, TabFields DEF MeterInv, IInv, TypeOK, LoopType, vars
<1>4. /\ fbuf' \in Nat /\ serial' \in Nat /\ held' \in BOOLEAN /\ ok' \in BOOLEAN
      /\ held' <=> Locks /\ fbuf' # 0
      /\ \/ pc' = "export" /\ ok' = ok /\ fbuf' # 0
         \/ pc' = "final" /\ ok' = FALSE
  <2>1. CASE RotateDue
    <3>1. yfOutputOpen("export") /\ "export" \in Running
      BY <2>1 DEF Rotate, Running
    <3> QED BY <3>1, OpenFacts
  <2>2. CASE ~RotateDue
    BY <1>1, <2>2 DEF Rotate, MeterInv, LoopType, OutputInv
  <2> QED BY <2>1, <2>2
<1>5. /\ rotate_last' \in Nat
      /\ rotate_period = 0 \/ ft'.ctime - rotate_last' <= rotate_period
  <2>1. CASE RotateDue
    BY <1>3, <2>1 DEF Rotate
  <2>2. CASE ~RotateDue
    <3>1. rotate_last' = IF rotate_period # 0 /\ rotate_last = 0 THEN ft.ctime ELSE rotate_last
      BY <2>2 DEF Rotate
    <3>2. rotate_period = 0 \/ rotate_last = 0 \/ ~(ft.ctime - rotate_last > rotate_period)
      BY <2>2 DEF RotateDue
    <3> QED BY <1>3, <3>1, <3>2
  <2> QED BY <2>1, <2>2
<1>6. LoopType'
  BY <1>1, <1>4, <1>5 DEF MeterInv, LoopType, Running
<1>7. RingInv' /\ OutputInv'
  BY <1>1, <1>4, <1>5 DEF MeterInv, RingInv, OutputInv
<1>8. ErrorInv'
  BY <1>1, <1>4 DEF MeterInv, ErrorInv, Running, vars
<1>9. CloseInv'
  <2>1. CASE RotateDue
    <3>1. yfWriterClose(TRUE) /\ yfOutputOpen("export") /\ "export" \in Running
      BY <2>1 DEF Rotate, Running
    <3>2. serial' = serial + (IF fbuf' = 0 THEN 0 ELSE 1) /\ CloseInv
      BY <3>1, OpenFacts DEF MeterInv
    <3> QED BY <1>1, <3>1, <3>2, WriterCloseKept
  <2>2. CASE ~RotateDue
    BY <2>2, ClosesKept DEF Rotate, MeterInv
  <2> QED BY <2>1, <2>2
<1> QED BY <1>2, <1>6, <1>7, <1>8, <1>9 DEF MeterInv

LEMMA PeriodicExportInv ==
  ASSUME MeterInv, PeriodicExport
  PROVE  MeterInv'
<1>0. CloseInv'
  BY ClosesKept DEF MeterInv, PeriodicExport
<1>1. IInv'
  BY TableKept DEF MeterInv, PeriodicExport
<1>2. LoopType' /\ RingInv' /\ OutputInv' /\ ErrorInv'
  BY DEF MeterInv, PeriodicExport, LoopType, RingInv, OutputInv, ErrorInv, Running, vars
<1> QED BY <1>0, <1>1, <1>2 DEF MeterInv

LEMMA yfFinalFlushInv ==
  ASSUME MeterInv, yfFinalFlush
  PROVE  MeterInv'
<1>1. /\ pc = "final" /\ pc' = "done"
      /\ UNCHANGED <<ring, i, trv, trace_err, quit, serial, rotate_last>>
      /\ fbuf' = 0 /\ ~held' /\ held' \in BOOLEAN
  <2>1. /\ pc = "final" /\ pc' = "done"
        /\ UNCHANGED <<ring, i, trv, trace_err, quit, serial, rotate_last>>
        /\ \/ fbuf = 0 /\ fbuf' = fbuf /\ held' = held
           \/ fbuf' = 0 /\ held' = FALSE
    BY Zenon DEF yfFinalFlush, yfOutputClose
  <2>2. fbuf = 0 => ~held
    BY DEF MeterInv, OutputInv
  <2>3. held \in BOOLEAN
    BY DEF MeterInv, LoopType
  <2>4. CASE fbuf = 0 /\ fbuf' = fbuf /\ held' = held
    <3>1. fbuf' = 0
      BY <2>4
    <3>2. ~held' /\ held' \in BOOLEAN
      BY <2>2, <2>3, <2>4
    <3> QED BY <2>1, <3>1, <3>2, Zenon
  <2>5. CASE fbuf' = 0 /\ held' = FALSE
    <3>1. ~held' /\ held' \in BOOLEAN
      BY <2>5
    <3> QED BY <2>1, <2>5, <3>1, Zenon
  <2> QED BY <2>1, <2>4, <2>5, Zenon
<1>2. CASE fbuf = 0 /\ UNCHANGED <<vars, ok, fbuf, held, closes>>
  <2>1. IInv'
    BY <1>2, TableKept DEF MeterInv
  <2>2. LoopType' /\ RingInv' /\ OutputInv'
    BY <1>1, <1>2 DEF MeterInv, LoopType, RingInv, OutputInv
  <2>3. ErrorInv'
    BY <1>1, <1>2 DEF MeterInv, ErrorInv, Running, vars
  <2>4. CloseInv'
    BY <1>1, <1>2, ClosesKept DEF MeterInv
  <2> QED BY <2>1, <2>2, <2>3, <2>4 DEF MeterInv
<1>3. CASE /\ fbuf # 0 /\ ok /\ FinalFlush /\ yfOutputClose(TRUE)
           /\ ok' = (phase' # "failed") \/ (stats_period # 0 /\ ok' = FALSE)
  <2>1. FlushResult(TRUE) /\ phase' \in {"closed", "failed"}
    BY <1>3, FinalFlushIInv DEF MeterInv
  <2>2. lost = {} /\ ok' \in BOOLEAN /\ (ok' => phase' # "failed")
    BY <1>1, <1>3 DEF MeterInv, ErrorInv
  <2>3. IInv'
    BY <2>1 DEF FlushResult
  <2>4. LoopType' /\ RingInv' /\ OutputInv'
    BY <1>1, <2>2 DEF MeterInv, LoopType, RingInv, OutputInv
  <2>5. ErrorInv'
    BY <1>1, <2>1, <2>2 DEF ErrorInv, Running, FlushResult
  <2>6. CloseInv'
    <3>1. yfWriterClose(TRUE) /\ fbuf' = 0
      BY <1>3 DEF yfOutputClose
    <3>2. serial' = serial + (IF fbuf' = 0 THEN 0 ELSE 1)
      BY <1>1, <3>1 DEF MeterInv, LoopType
    <3> QED BY <1>3, <3>1, <3>2, WriterCloseKept DEF MeterInv
  <2> QED BY <2>3, <2>4, <2>5, <2>6 DEF MeterInv
<1>4. CASE fbuf # 0 /\ ~ok /\ yfOutputClose(FALSE) /\ UNCHANGED <<vars, ok>>
  <2>1. IInv'
    BY <1>4, TableKept DEF MeterInv
  <2>2. LoopType' /\ RingInv' /\ OutputInv'
    BY <1>1, <1>4 DEF MeterInv, LoopType, RingInv, OutputInv
  <2>3. ErrorInv'
    BY <1>1, <1>4 DEF MeterInv, ErrorInv, Running, vars
  <2>4. CloseInv'
    <3>1. yfWriterClose(FALSE) /\ fbuf' = 0
      BY <1>4 DEF yfOutputClose
    <3>2. serial' = serial + (IF fbuf' = 0 THEN 0 ELSE 1)
      BY <1>1, <3>1 DEF MeterInv, LoopType
    <3> QED BY <1>4, <3>1, <3>2, WriterCloseKept DEF MeterInv
  <2> QED BY <2>1, <2>2, <2>3, <2>4 DEF MeterInv
<1> QED BY <1>2, <1>3, <1>4 DEF yfFinalFlush

LEMMA MeterInductive == MeterInv /\ [MeterNext]_meterVars => MeterInv'
<1> SUFFICES ASSUME MeterInv, [MeterNext]_meterVars
             PROVE  MeterInv'
  OBVIOUS
<1>1. CASE UNCHANGED meterVars
  <2>1. IInv'
    BY <1>1, TableKept DEF MeterInv, meterVars
  <2>2. LoopType' /\ RingInv' /\ OutputInv' /\ ErrorInv' /\ CloseInv'
    BY <1>1 DEF MeterInv, meterVars, loopVars, vars, LoopType, RingInv, OutputInv, ErrorInv,
                CloseInv, NoStale
  <2> QED BY <2>1, <2>2 DEF MeterInv
<1> QED
  BY <1>1, QuitInv, StartGroupInv, NextSlotInv, ReadPacketInv, DropPacketInv, ReadEndsInv,
     GroupEndInv, OpenOutputInv, ProcessBufferInv, FlushTableInv, RotateInv,
     PeriodicExportInv, yfFinalFlushInv DEF MeterNext, LoopStep, Exited

LEMMA MeterInvariant == MeterSpec => []MeterInv
BY MeterInitInv, MeterInductive, PTL DEF MeterSpec

(* The assertion on rgaNextHead never fails and no stale buffer is ever    *)
(* accounted (qfTraceMain, yfProcessPBufRing), for every group size and    *)
(* ring at least as large.                                                 *)
THEOREM RingAlwaysHasSlots == MeterSpec => []SlotsFilled
<1>1. MeterInv => SlotsFilled
  <2> SUFFICES ASSUME MeterInv PROVE SlotsFilled
    OBVIOUS
  <2>1. pc # "abort"
    BY DEF MeterInv, LoopType, Running
  <2>2. ring = <<>> => NoStale(ring)
    BY DEF NoStale
  <2> QED BY <2>1, <2>2 DEF MeterInv, RingInv, NoStale, SlotsFilled
<1> QED BY <1>1, MeterInvariant, PTL

(* Output, lock file and rotation stay paired through every error, signal  *)
(* and rotation (yfOutputOpen, yfOutputClose, yfProcessPBufRing).          *)
THEOREM OutputsArePaired == MeterSpec => []OutputPaired
<1>1. MeterInv => OutputPaired
  BY DEF MeterInv, OutputInv, OutputPaired
<1> QED BY <1>1, MeterInvariant, PTL

(* An exit without an error has handed everything that was accounted to   *)
(* an output, and each output was closed with a flush, which may fail      *)
(* unnoticed (yfOutputClose): no failed open or write is forgotten on the  *)
(* way to yfFinalFlush, and no output dropped.                             *)
THEOREM CleanExitsAreComplete == MeterSpec => []CleanExitFlushed
<1>1. MeterInv => CleanExitFlushed
  BY DEF MeterInv, LoopType, OutputInv, ErrorInv, CloseInv, CleanExitFlushed
<1> QED BY <1>1, MeterInvariant, PTL

=============================================================================
