----------------------------- MODULE PicqNodes ------------------------------
(***************************************************************************)
(* The pickable queue (src/src/picq.c) with its pointers.  A node has one  *)
(* pair of pointers, so it is in at most one queue, and the flow table     *)
(* moves nodes from one queue to another.  The history variable q has each *)
(* queue as a sequence, changed by the operators of Picq: the tail is      *)
(* first.                                                                  *)
(***************************************************************************)
EXTENDS Picq

CONSTANTS Queues, Nodes, NULL

ASSUME NullAssumption == NULL \notin Nodes

VARIABLES
  p,       \* towards the tail
  n,       \* towards the head
  qhead,
  qtail,
  q        \* history

nodeVars == <<p, n, qhead, qtail, q>>

Unlinked(x) == n[x] = NULL /\ p[x] = NULL

(* Fault: any node without pointers is refused, even an only one.          *)
RefusesPickAlone(u, x) == Unlinked(x)

(* A node without pointers is not in the queue, unless it is the only one. *)
RefusesPick(u, x) == Unlinked(x) /\ ~(x = qhead[u] /\ x = qtail[u])

Unlink(u, x) ==
  /\ n' = [(IF p[x] # NULL THEN [n EXCEPT ![p[x]] = n[x]] ELSE n) EXCEPT ![x] = NULL]
  /\ qtail' = IF p[x] # NULL THEN qtail ELSE [qtail EXCEPT ![u] = n[x]]
  /\ p' = [(IF n[x] # NULL THEN [p EXCEPT ![n[x]] = p[x]] ELSE p) EXCEPT ![x] = NULL]
  /\ qhead' = IF n[x] # NULL THEN qhead ELSE [qhead EXCEPT ![u] = p[x]]

piqPickNode(u, x) ==
  /\ IF RefusesPick(u, x) THEN UNCHANGED <<p, n, qhead, qtail>> ELSE Unlink(u, x)
  /\ q' = [q EXCEPT ![u] = piqPick(@, x)]

(* A node is put at the head only if it is unlinked (the code asserts it)  *)
(* and in no queue, which the code cannot see of an only node.             *)
Free(x) == \A u \in Queues : ~InQueue(q[u], x)

piqEnQNode(u, x) ==
  /\ n' = IF qhead[u] # NULL THEN [n EXCEPT ![qhead[u]] = x] ELSE n
  /\ qtail' = IF qhead[u] # NULL THEN qtail ELSE [qtail EXCEPT ![u] = x]
  /\ p' = [p EXCEPT ![x] = qhead[u]]
  /\ qhead' = [qhead EXCEPT ![u] = x]
  /\ q' = [q EXCEPT ![u] = piqEnQ(@, x)]

(* At the tail.                                                            *)
piqUnshift(u, x) ==
  /\ p' = IF qtail[u] # NULL THEN [p EXCEPT ![qtail[u]] = x] ELSE p
  /\ qhead' = IF qtail[u] # NULL THEN qhead ELSE [qhead EXCEPT ![u] = x]
  /\ n' = [n EXCEPT ![x] = qtail[u]]
  /\ qtail' = [qtail EXCEPT ![u] = x]
  /\ q' = [q EXCEPT ![u] = <<x>> \o @]

piqShift(u) == qhead[u] # NULL /\ piqPickNode(u, qhead[u])
piqDeQ(u) == qtail[u] # NULL /\ piqPickNode(u, qtail[u])

PicqInit ==
  /\ p = [x \in Nodes |-> NULL] /\ n = [x \in Nodes |-> NULL]
  /\ qhead = [u \in Queues |-> NULL] /\ qtail = [u \in Queues |-> NULL]
  /\ q = [u \in Queues |-> <<>>]

(* A node is picked from the queue it is in or, when it is in none, from   *)
(* any (yfFlowTick with a new flow).                                       *)
PicqNext ==
  \E u \in Queues :
    \/ piqShift(u)
    \/ piqDeQ(u)
    \/ \E x \in Nodes :
         \/ (Free(x) \/ InQueue(q[u], x)) /\ piqPickNode(u, x)
         \/ Free(x) /\ piqEnQNode(u, x)
         \/ Free(x) /\ piqUnshift(u, x)

PicqSpec == PicqInit /\ [][PicqNext]_nodeVars

----------------------------------------------------------------------------
(* The pointers of a queue are those of its sequence: tail and head are    *)
(* its ends, n leads from each node to the next and p back, and a node in  *)
(* no queue has none, so that it passes the assertion of piqEnQ.           *)
PointersMatch ==
  /\ \A u \in Queues :
       LET s == q[u] IN
       /\ qtail[u] = IF s = <<>> THEN NULL ELSE s[1]
       /\ qhead[u] = IF s = <<>> THEN NULL ELSE s[Len(s)]
       /\ \A i \in 1..Len(s) :
            /\ n[s[i]] = IF i = Len(s) THEN NULL ELSE s[i + 1]
            /\ p[s[i]] = IF i = 1 THEN NULL ELSE s[i - 1]
  /\ \A x \in Nodes : Free(x) => Unlinked(x)

=============================================================================
