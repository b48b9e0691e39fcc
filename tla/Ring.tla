-------------------------------- MODULE Ring --------------------------------
(***************************************************************************)
(* The ring buffer (src/src/ring.c): an array of slots with a head, where  *)
(* the next entry is written, and a tail, where the oldest is.  The caller *)
(* gets a slot and fills it before the next call; the model does both at   *)
(* once.  Pointers are slot numbers.  The variants for threads are left    *)
(* out, with the reservations hrsv and trsv that only they change: they    *)
(* are compiled only with YAF_RING_THREAD, which nothing defines.          *)
(***************************************************************************)
EXTENDS Integers, Sequences

CONSTANTS Vals, cap

ASSUME CapAssumption == cap \in Nat \ {0}

VARIABLES
  slot,    \* the array, slot[0] at base and slot[cap - 1] at end
  head,
  tail,
  count,
  peak

ringVars == <<slot, head, tail, count, peak>>

(* A pointer advanced by one entry, wrapped after the end.                 *)
Advance(ptr) == IF ptr + 1 > cap - 1 THEN 0 ELSE ptr + 1

rgaAlloc ==
  /\ slot \in [0..(cap - 1) -> Vals]
  /\ head = 0 /\ tail = 0 /\ count = 0 /\ peak = 0

(* Fault: a slot more than there are is handed out.                        *)
NextHeadOver(v) ==
  /\ count <= cap
  /\ slot' = [slot EXCEPT ![head] = v]
  /\ head' = Advance(head)
  /\ count' = count + 1
  /\ peak' = IF count' > peak THEN count' ELSE peak
  /\ UNCHANGED tail

rgaNextHead(v) ==
  /\ count < cap
  /\ slot' = [slot EXCEPT ![head] = v]
  /\ head' = Advance(head)
  /\ count' = count + 1
  /\ peak' = IF count' > peak THEN count' ELSE peak
  /\ UNCHANGED tail

(* Fault: the overwritten entry stays the oldest.                          *)
ForceHeadKeepTail(v) ==
  /\ slot' = [slot EXCEPT ![head] = v]
  /\ head' = Advance(head)
  /\ tail' = tail
  /\ count' = IF count + 1 >= cap THEN count ELSE count + 1
  /\ peak' = IF count' > peak THEN count' ELSE peak

rgaForceHead(v) ==
  /\ slot' = [slot EXCEPT ![head] = v]
  /\ head' = Advance(head)
  /\ tail' = IF count + 1 >= cap THEN Advance(tail) ELSE tail
  /\ count' = IF count + 1 >= cap THEN count ELSE count + 1
  /\ peak' = IF count' > peak THEN count' ELSE peak

rgaNextTail ==
  /\ count > 0
  /\ tail' = Advance(tail)
  /\ count' = count - 1
  /\ UNCHANGED <<slot, head, peak>>

Next == rgaNextTail \/ \E v \in Vals : rgaNextHead(v) \/ rgaForceHead(v)

Spec == rgaAlloc /\ [][Next]_ringVars

----------------------------------------------------------------------------
(* The slot j entries after the slot t.                                    *)
At(t, j) == IF t + j < cap THEN t + j ELSE t + j - cap

(* The entries in the ring, the oldest first.                              *)
Entries(sl, t, n) == [j \in 1..n |-> sl[At(t, j - 1)]]
Queue == Entries(slot, tail, count)

(* Head, tail and count agree: the head is count entries after the tail,   *)
(* and no more entries are counted than there are slots.                   *)
PointersAgree ==
  /\ slot \in [0..(cap - 1) -> Vals]
  /\ tail \in 0..(cap - 1)
  /\ count \in 0..cap
  /\ peak \in count..cap
  /\ head = At(tail, count)

(* The ring is a bounded queue: it returns what was put in, in order, and  *)
(* a forced entry drops the oldest (rgaNextHead, rgaForceHead,             *)
(* rgaNextTail).                                                           *)
F == INSTANCE Fifo WITH q <- Queue

RingIsFifo == F!Spec

=============================================================================
