-------------------------------- MODULE Fifo --------------------------------
(***************************************************************************)
(* What the ring buffer promises: a bounded queue that refuses an entry    *)
(* when it is full, or, if forced, makes room by dropping its oldest one.  *)
(***************************************************************************)
EXTENDS Integers, Sequences

CONSTANTS Vals, cap

VARIABLES
  q,     \* the entries, the oldest first
  peak   \* the most entries there ever were

Push(v) ==
  /\ Len(q) < cap
  /\ q' = Append(q, v)
  /\ peak' = IF Len(q') > peak THEN Len(q') ELSE peak

(* A forced entry never fills the last free place.                         *)
Force(v) ==
  /\ q' = IF Len(q) + 1 < cap THEN Append(q, v) ELSE Tail(Append(q, v))
  /\ peak' = IF Len(q') > peak THEN Len(q') ELSE peak

Pop ==
  /\ q # <<>>
  /\ q' = Tail(q)
  /\ UNCHANGED peak

Init == q = <<>> /\ peak = 0
Next == Pop \/ \E v \in Vals : Push(v) \/ Force(v)
Spec == Init /\ [][Next]_<<q, peak>>

=============================================================================
