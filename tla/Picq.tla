-------------------------------- MODULE Picq --------------------------------
(***************************************************************************)
(* The doubly linked queues of src/src/picq.c, as sequences without        *)
(* repetitions.  The tail, the oldest entry, is q[1]; the head is          *)
(* q[Len(q)].                                                              *)
(***************************************************************************)
EXTENDS Integers, Sequences

InQueue(q, n) == \E i \in 1..Len(q) : q[i] = n

piqPick(q, n) ==
  IF InQueue(q, n)
  THEN LET i == CHOOSE j \in 1..Len(q) : q[j] = n
       IN  [j \in 1..(Len(q) - 1) |-> IF j < i THEN q[j] ELSE q[j + 1]]
  ELSE q

piqEnQ(q, n) == Append(q, n)

=============================================================================
