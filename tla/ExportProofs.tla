---------------------------- MODULE ExportProofs ----------------------------
(***************************************************************************)
(* Proofs about the IPFIX export (module Export) and the startup (module   *)
(* Config).                                                                *)
(***************************************************************************)
EXTENDS Export, Config, FiniteSetTheorems, SequenceTheorems, WellFoundedInduction, TLAPS

----------------------------------------------------------------------------
(***************************************************************************)
(* The contents of a record                                                *)
(***************************************************************************)
FieldNames == {"times", "delta", "ports", "ip4", "ip6", "rtt", "mac", "netIf", "counts",
               "tcpcounts", "acks", "ttl", "flags", "tcp", "mss", "chirp"}
Known(f) ==
  /\ DOMAIN f = {"name", "dir", "flags"} /\ f.name \in FieldNames
  /\ f.dir \in {"key", "flow", "fwd", "rev"}
  /\ f.name \in {"tcpcounts", "acks", "tcp", "mss", "chirp"} => "TCP" \in f.flags
  /\ f.dir \in {"key", "flow"} <=>
       f.name \in {"times", "delta", "ports", "ip4", "ip6", "rtt", "mac"}

LEMMA SizedKnown ==
  ASSUME NEW fs, \A f \in fs : Known(f) /\ f = Field(f.name, f.dir, f.flags)
  PROVE  \A f \in Sized(fs) : Known(f)
<1> SUFFICES ASSUME NEW g \in Sized(fs)
             PROVE  Known(g)
  OBVIOUS
<1>1. PICK f \in fs, s \in {"FLE", "RLE"} : g = [f EXCEPT !.flags = @ \cup {s}]
  BY DEF Sized
<1>2. Known(f) /\ f = Field(f.name, f.dir, f.flags)
  BY <1>1
<1>3. g.name = f.name /\ g.dir = f.dir /\ g.flags = f.flags \cup {s} /\ DOMAIN g = DOMAIN f
  BY <1>1, <1>2 DEF Field
<1> QED BY <1>2, <1>3 DEF Known

LEMMA FieldKnown ==
  ASSUME NEW n \in FieldNames, NEW d \in {"fwd", "rev"}, NEW fl,
         n \in {"tcpcounts", "acks", "tcp", "mss", "chirp"} => "TCP" \in fl,
         n \notin {"times", "delta", "ports", "ip4", "ip6", "rtt", "mac"},
         NEW f, f = Field(n, d, fl)
  PROVE  Known(f) /\ f = Field(f.name, f.dir, f.flags)
BY DEF Known, Field

LEMMA BothKnown ==
  ASSUME NEW n \in FieldNames, NEW fl,
         n \in {"tcpcounts", "acks", "tcp", "mss", "chirp"} => "TCP" \in fl,
         n \notin {"times", "delta", "ports", "ip4", "ip6", "rtt", "mac"}
  PROVE  \A f \in BothWays(n, fl) : Known(f) /\ f = Field(f.name, f.dir, f.flags)
BY FieldKnown DEF BothWays

LEMMA SpecKnown ==
  /\ \A f \in qof_internal_spec : Known(f)
  /\ Field("ports", "key", {}) \in qof_internal_spec
<1> SUFFICES ASSUME NEW f \in qof_internal_spec
             PROVE  Known(f)
  BY DEF qof_internal_spec
<1>1. CASE f \in {Field("times", "flow", {}), Field("delta", "flow", {"BIF"}),
                  Field("ports", "key", {}), Field("ip4", "key", {"IP4"}),
                  Field("ip6", "key", {"IP6"}), Field("rtt", "flow", {"RTT"}),
                  Field("mac", "flow", {}), Field("netIf", "fwd", {}), Field("netIf", "rev", {})}
  BY <1>1 DEF Known, Field, FieldNames
<1>2. CASE f \in Sized(BothWays("counts", {}))
  <2>1. \A g \in BothWays("counts", {}) : Known(g) /\ g = Field(g.name, g.dir, g.flags)
    BY BothKnown DEF FieldNames
  <2> QED BY <1>2, <2>1, SizedKnown
<1>3. CASE f \in Sized(BothWays("tcpcounts", {"TCP"}))
  <2>1. \A g \in BothWays("tcpcounts", {"TCP"}) : Known(g) /\ g = Field(g.name, g.dir, g.flags)
    BY BothKnown DEF FieldNames
  <2> QED BY <1>3, <2>1, SizedKnown
<1>4. CASE f \in Sized({Field("acks", d, {"TCP", "BIF"}) : d \in {"fwd", "rev"}})
  <2>1. \A g \in {Field("acks", d, {"TCP", "BIF"}) : d \in {"fwd", "rev"}} :
          Known(g) /\ g = Field(g.name, g.dir, g.flags)
    BY FieldKnown DEF FieldNames
  <2> QED BY <1>4, <2>1, SizedKnown
<1>5. CASE f \in BothWays("ttl", {})
  BY <1>5, BothKnown DEF FieldNames
<1>6. CASE f \in BothWays("flags", {"TCP"})
  BY <1>6, BothKnown DEF FieldNames
<1>7. CASE f \in BothWays("tcp", {"TCP"})
  BY <1>7, BothKnown DEF FieldNames
<1>8. CASE f \in BothWays("mss", {"TCP"})
  BY <1>8, BothKnown DEF FieldNames
<1>9. CASE f \in BothWays("chirp", {"TCP", "TSV"})
  BY <1>9, BothKnown DEF FieldNames
<1> QED BY <1>1, <1>2, <1>3, <1>4, <1>5, <1>6, <1>7, <1>8, <1>9 DEF qof_internal_spec

(* The last record was made from a flow, and TCP fields are in it only if  *)
(* the flow is of TCP.                                                     *)
LastInv ==
  \/ last = NoRecord
  \/ /\ last.flow \in Flows
     /\ last.rec = Contents(last.flow)
     /\ "TCP" \in last.tid => last.flow.tcp

LEMMA LastInvariant == ExportSpec => []LastInv
<1>1. ExportInit => LastInv
  BY DEF ExportInit, LastInv
<1>2. LastInv /\ [ExportNext]_exportVars => LastInv'
  <2> SUFFICES ASSUME LastInv, [ExportNext]_exportVars
               PROVE  LastInv'
    OBVIOUS
  <2>2. xcfg' = xcfg
    BY DEF ExportNext, exportVars, yfOutputOpen, WriteFlow, PeriodicExport, Rotate, FinalClose
  <2>1. ASSUME NEW flow \in Flows, NEW io, WriteFlow(flow, io)
        PROVE  LastInv'
    <3>1. last' = [flow |-> flow, tid |-> Wtid(flow), rec |-> Contents(flow)]
      BY <2>1 DEF WriteFlow
    <3>2. "TCP" \in Wtid(flow) => flow.tcp
      BY DEF Wtid
    <3>3. last'.flow = flow /\ last'.tid = Wtid(flow) /\ last'.rec = Contents(flow)
      BY <3>1
    <3>4. /\ (last.flow)' = flow /\ (last.tid)' = Wtid(flow) /\ (last.rec)' = Contents(flow)
          /\ Contents(last.flow)' = Contents(flow)
      BY <2>2, <3>3 DEF Contents, Directions, HasTcp, Tracked
    <3> QED BY <3>2, <3>4, Zenon DEF LastInv
  <2>3. last' = NoRecord \/ last' = last \/ \E flow \in Flows, io \in 0..MaxEmits : WriteFlow(flow, io)
    BY DEF ExportNext, exportVars, yfOutputOpen, PeriodicExport, Rotate, FinalClose
  <2>4. CASE last' = last
    <3>1. Contents(last.flow)' = Contents(last.flow)
      BY <2>2, <2>4 DEF Contents, Directions, HasTcp, Tracked
    <3> QED BY <2>4, <3>1, Zenon DEF LastInv
  <2>5. CASE last' = NoRecord
    BY <2>5 DEF LastInv
  <2> QED BY <2>1, <2>3, <2>4, <2>5
<1> QED BY <1>1, <1>2, PTL DEF ExportSpec

(* Every field of a record is of the direction that its key has, whichever *)
(* way the flow was turned, and is unset only if it is one of TCP, without *)
(* packets, frequency or any tracker (yfWriteFlow): for every set of flows *)
(* and of configured templates.                                            *)
THEOREM RecordFieldsAlwaysSet == ExportSpec => []RecordFieldsSet
<1>1. LastInv => RecordFieldsSet
  <2> SUFFICES ASSUME LastInv, last # NoRecord
               PROVE  RecordFieldsSet
    BY DEF RecordFieldsSet
  <2>1. PICK flow \in Flows : flow = last.flow
    BY DEF LastInv
  <2>2. last.rec = Contents(flow) /\ ("TCP" \in last.tid => flow.tcp)
    BY <2>1 DEF LastInv
  <2> DEFINE d == Directions(flow)
             of(dir) == IF dir = "fwd" THEN d.val ELSE d.rval
             key == last.rec[Field("ports", "key", {})]
             wanted(dir) == IF key = "fwd" THEN dir ELSE Reversed(dir)
  <2>3. /\ d.key \in {"fwd", "rev"} /\ d.val = d.key /\ d.rval = Reversed(d.key)
    BY DEF Directions, Reversed
  <2>4. key = d.key
    <3>1. PICK p : p = Field("ports", "key", {})
      OBVIOUS
    <3>2. p.dir = "key" /\ p.name = "ports" /\ p \in qof_internal_spec
      BY <3>1, SpecKnown DEF Field
    <3>3. last.rec[p] = d.key
      BY <2>2, <3>2 DEF Contents
    <3> QED BY <3>1, <3>3
  <2>5. \A dir \in {"fwd", "rev"} : of(dir) = wanted(dir) /\ of(dir) \in {"fwd", "rev"}
    BY <2>3, <2>4 DEF Reversed
  <2> HIDE DEF key
  <2>6. ASSUME NEW f \in yfAllocExportTemplate(last.tid)
        PROVE  CASE f.dir = "key" -> last.rec[f] = key
                 [] f.name = "netIf" -> last.rec[f] = f.dir
                 [] f.dir = "flow" -> last.rec[f] = "flow"
                 [] OTHER ->
                      \/ last.rec[f] = wanted(f.dir)
                      \/ /\ last.rec[f] = "unset" /\ "TCP" \in f.flags
                         /\ \/ ~last.flow[wanted(f.dir)].pkt
                            \/ f.name = "chirp" /\ ~last.flow[wanted(f.dir)].hz
                            \/ xcfg.spec \cap Tracking = {}
    <3>1. f \in qof_internal_spec /\ f.flags \subseteq last.tid
      BY DEF yfAllocExportTemplate
    <3>2. Known(f)
      BY <3>1, SpecKnown
    <3>3. CASE f.dir \in {"key", "flow"}
      <4>1. f.name \notin {"netIf", "tcpcounts", "acks", "tcp", "mss", "chirp"}
        BY <3>2, <3>3 DEF Known
      <4>2. last.rec[f] = IF f.dir = "key" THEN d.key ELSE "flow"
        BY <2>2, <3>1, <3>3, <4>1 DEF Contents
      <4> QED BY <2>4, <3>3, <4>1, <4>2
    <3>4. CASE f.dir \in {"fwd", "rev"}
      <4>1. of(f.dir) = wanted(f.dir) /\ of(f.dir) \in {"fwd", "rev"}
        BY <2>5, <3>4
      <4>2. PICK w \in {"fwd", "rev"} : w = of(f.dir) /\ w = wanted(f.dir)
        BY <4>1
      <4>3. flow.tcp /\ flow[w].pkt /\ xcfg.spec \cap Tracking # {} => HasTcp(flow, w)
        BY DEF HasTcp, Tracked
      <4>4. CASE f.name = "netIf"
        BY <2>2, <3>1, <3>4, <4>4 DEF Contents
      <4>5. CASE f.name \in {"tcpcounts", "acks", "tcp", "mss"}
        <5>1. last.rec[f] = IF HasTcp(flow, w) THEN w ELSE "unset"
          BY <2>2, <3>1, <3>4, <4>2, <4>5 DEF Contents
        <5>2. flow.tcp /\ "TCP" \in f.flags
          BY <2>2, <3>1, <3>2, <4>5 DEF Known
        <5> QED BY <2>1, <3>4, <4>2, <4>3, <4>5, <5>1, <5>2
      <4>6. CASE f.name = "chirp"
        <5>1. last.rec[f] = IF HasTcp(flow, w) /\ flow[w].hz THEN w ELSE "unset"
          BY <2>2, <3>1, <3>4, <4>2, <4>6 DEF Contents
        <5>2. flow.tcp /\ "TCP" \in f.flags
          BY <2>2, <3>1, <3>2, <4>6 DEF Known
        <5> QED BY <2>1, <3>4, <4>2, <4>3, <4>6, <5>1, <5>2
      <4>7. CASE f.name \notin {"netIf", "tcpcounts", "acks", "tcp", "mss", "chirp"}
        <5>1. last.rec[f] = w
          BY <2>2, <3>1, <3>4, <4>2, <4>7 DEF Contents
        <5> QED BY <3>4, <4>2, <4>7, <5>1
      <4> QED BY <4>4, <4>5, <4>6, <4>7
    <3> QED BY <3>2, <3>3, <3>4 DEF Known
  <2> QED BY <2>6 DEF RecordFieldsSet, key
<1> QED BY <1>1, LastInvariant, PTL

----------------------------------------------------------------------------
(***************************************************************************)
(* Exporting a set of templates                                            *)
(***************************************************************************)
(* A set of numbers has a least one.                                       *)
LEMMA LessThanRelation ==
  \E R : IsWellFoundedOn(R, Nat) /\ \A x, y \in Nat : <<y, x>> \in R <=> y < x
<1>1. \A x, y \in Nat : <<y, x>> \in OpToRel(<, Nat) <=> y < x
  BY Zenon DEF OpToRel
<1> QED BY <1>1, NatLessThanWellFounded, Zenon

LEMMA LeastNumber ==
  ASSUME NEW S \in SUBSET Nat, S # {}
  PROVE  \E x \in S : \A y \in S : x <= y
<1>1. PICK R : IsWellFoundedOn(R, Nat) /\ \A x, y \in Nat : <<y, x>> \in R <=> y < x
  BY LessThanRelation
<1>2. \E x \in S : \A y \in S : ~(<<y, x>> \in R)
  BY <1>1, WFMin, Zenon
<1>3. PICK x \in S : \A y \in S : ~(<<y, x>> \in R)
  BY <1>2
<1>4. \A y \in S : ~(y < x)
  BY <1>1, <1>3
<1> QED BY <1>3, <1>4

(* The folds of the models: tags stand for the operators, which the prover *)
(* cannot take as arguments.  fbSessionExportTemplates takes any element   *)
(* of a set, the others the last position of a sequence.                   *)
Highest(s) == CHOOSE x \in s : \A y \in s : x >= y
Taken(t, s) == IF t = "template" THEN CHOOSE x \in s : TRUE ELSE Highest(s)
Rest(t, s) == s \ {Taken(t, s)}
Step(t, c, x) ==
  CASE t = "template" -> fBufAppendTemplate(c, x)
    [] t = "element" -> qfConfigIE(c, x)
    [] t = "large" -> MapEntry(c, x, TRUE)
    [] OTHER -> MapEntry(c, x, FALSE)

(* The sets that can be folded.                                            *)
Foldable(t, S) == IF t = "template" THEN IsFiniteSet(S) ELSE \E n \in Nat : S = 1..n

(* What g is at s, if it is the function by which the fold is defined ...  *)
FoldAt(t, base, of, g, s) ==
  IF s = {} THEN base ELSE Step(t, g[Rest(t, s)], of[Taken(t, s)])

(* ... as far as sets of n elements.                                       *)
Small(S, n) == {s \in SUBSET S : Cardinality(s) <= n}
FoldsTo(t, S, base, of, n, g) ==
  /\ g = [s \in Small(S, n) |-> g[s]]
  /\ \A s \in Small(S, n) : g[s] = FoldAt(t, base, of, g, s)

LEMMA HighestIn ==
  ASSUME NEW n \in Nat, NEW s \in SUBSET (1..n), s # {}
  PROVE  Highest(s) \in s /\ \A y \in s : y <= Highest(s)
<1> DEFINE D == {n - x : x \in s}
<1>1. D \in SUBSET Nat /\ D # {}
  <2>1. \A x \in s : n - x \in Nat
    <3> TAKE x \in s
    <3>1. x \in 1..n
      OBVIOUS
    <3> QED BY <3>1
  <2> QED BY <2>1
<1>2. PICK d \in D : \A y \in D : d <= y
  BY <1>1, LeastNumber
<1>3. PICK m \in s : d = n - m
  BY <1>2
<1>4. \A y \in s : m >= y
  <2> TAKE y \in s
  <2>1. n - m <= n - y
    BY <1>2, <1>3
  <2> QED BY <2>1
<1>5. Highest(s) \in s /\ \A y \in s : Highest(s) >= y
  BY <1>3, <1>4, Zenon DEF Highest
<1> QED BY <1>5

LEMMA RestSmaller ==
  ASSUME NEW t, NEW S, Foldable(t, S), NEW s \in SUBSET S, s # {}
  PROVE  /\ Taken(t, s) \in s /\ Rest(t, s) \in SUBSET S
         /\ Cardinality(s) \in Nat /\ Cardinality(Rest(t, s)) = Cardinality(s) - 1
         /\ Cardinality(Rest(t, s)) \in Nat
<1>1. Taken(t, s) \in s
  <2>1. CASE t = "template"
    BY <2>1 DEF Taken
  <2>2. CASE t # "template"
    <3>1. PICK n \in Nat : S = 1..n
      BY <2>2 DEF Foldable
    <3> QED BY <2>2, <3>1, HighestIn DEF Taken
  <2> QED BY <2>1, <2>2
<1>2. IsFiniteSet(S)
  <2>1. CASE t # "template"
    <3>1. PICK n \in Nat : S = 1..n
      BY <2>1 DEF Foldable
    <3> QED BY <3>1, FS_Interval
  <2> QED BY <2>1 DEF Foldable
<1>3. IsFiniteSet(s)
  BY <1>2, FS_Subset
<1>4. IsFiniteSet(Rest(t, s)) /\ Cardinality(Rest(t, s)) = Cardinality(s) - 1
  BY <1>1, <1>3, FS_RemoveElement DEF Rest
<1>5. Cardinality(s) \in Nat /\ Cardinality(Rest(t, s)) \in Nat
  BY <1>3, <1>4, FS_CardinalityType
<1> QED BY <1>1, <1>4, <1>5 DEF Rest

LEMMA FoldsExist ==
  ASSUME NEW t, NEW S, Foldable(t, S), NEW base, NEW of
  PROVE  \A n \in Nat : \E g : FoldsTo(t, S, base, of, n, g)
<1> DEFINE Bad == {n \in Nat : ~\E g : FoldsTo(t, S, base, of, n, g)}
<1>1. SUFFICES ASSUME Bad # {}
               PROVE  FALSE
  OBVIOUS
<1>2. PICK n \in Bad : \A k \in Bad : n <= k
  BY <1>1, LeastNumber
<1>3. CASE n = 0
  <2> DEFINE g == [s \in Small(S, 0) |-> base]
  <2>1. \A s \in Small(S, 0) : s = {}
    <3> SUFFICES ASSUME NEW s \in Small(S, 0), s # {}
                 PROVE  FALSE
      OBVIOUS
    <3>1. s \in SUBSET S /\ Cardinality(s) <= 0
      BY DEF Small
    <3>2. /\ Cardinality(s) \in Nat /\ Cardinality(Rest(t, s)) = Cardinality(s) - 1
          /\ Cardinality(Rest(t, s)) \in Nat
      BY <3>1, RestSmaller
    <3> QED BY <3>1, <3>2
  <2>2. FoldsTo(t, S, base, of, 0, g)
    BY <2>1 DEF FoldsTo, FoldAt
  <2> QED BY <1>2, <1>3, <2>2
<1>4. CASE n # 0
  <2>1. n - 1 \in Nat /\ n - 1 \notin Bad
    BY <1>2, <1>4
  <2>2. PICK g : FoldsTo(t, S, base, of, n - 1, g)
    BY <2>1
  <2> DEFINE h == [s \in Small(S, n) |-> FoldAt(t, base, of, g, s)]
  <2>3. \A s \in Small(S, n) : s # {} => Rest(t, s) \in Small(S, n - 1) /\ Rest(t, s) \in Small(S, n)
    <3> SUFFICES ASSUME NEW s \in Small(S, n), s # {}
                 PROVE  Rest(t, s) \in Small(S, n - 1) /\ Rest(t, s) \in Small(S, n)
      OBVIOUS
    <3>1. s \in SUBSET S /\ Cardinality(s) <= n
      BY DEF Small
    <3>2. /\ Rest(t, s) \in SUBSET S /\ Cardinality(s) \in Nat
          /\ Cardinality(Rest(t, s)) = Cardinality(s) - 1
      BY <3>1, RestSmaller
    <3>3. Cardinality(Rest(t, s)) <= n - 1 /\ Cardinality(Rest(t, s)) <= n
      BY <1>2, <3>1, <3>2
    <3> QED BY <3>2, <3>3 DEF Small
  <2>4. \A s \in Small(S, n - 1) : s \in Small(S, n) => h[s] = g[s]
    BY <2>2 DEF FoldsTo
  <2>5. \A s \in Small(S, n) : h[s] = FoldAt(t, base, of, h, s)
    <3> SUFFICES ASSUME NEW s \in Small(S, n)
                 PROVE  h[s] = FoldAt(t, base, of, h, s)
      OBVIOUS
    <3>1. h[s] = FoldAt(t, base, of, g, s)
      OBVIOUS
    <3>2. s # {} => h[Rest(t, s)] = g[Rest(t, s)]
      BY <2>3, <2>4
    <3> HIDE DEF h
    <3> QED BY <3>1, <3>2 DEF FoldAt
  <2>6. h = [s \in Small(S, n) |-> h[s]]
    OBVIOUS
  <2> HIDE DEF h
  <2>7. FoldsTo(t, S, base, of, n, h)
    BY <2>5, <2>6 DEF FoldsTo
  <2> QED BY <1>2, <2>7
<1> QED BY <1>3, <1>4

(* So the function that the recursion chooses satisfies it.                *)
Folding(t, S, base, of) ==
  CHOOSE f : f = [s \in SUBSET S |-> IF s = {} THEN base
                                     ELSE Step(t, f[s \ {Taken(t, s)}], of[Taken(t, s)])]

LEMMA FoldingFolds ==
  ASSUME NEW t, NEW S, Foldable(t, S), NEW base, NEW of
  PROVE  \A s \in SUBSET S :
           Folding(t, S, base, of)[s] = FoldAt(t, base, of, Folding(t, S, base, of), s)
<1> DEFINE F(f) == [s \in SUBSET S |-> IF s = {} THEN base
                                       ELSE Step(t, f[s \ {Taken(t, s)}], of[Taken(t, s)])]
           iter == CHOOSE f : f = F(f)
<1>0. IsFiniteSet(S)
  <2>1. CASE t # "template"
    <3>1. PICK n \in Nat : S = 1..n
      BY <2>1 DEF Foldable
    <3> QED BY <3>1, FS_Interval
  <2> QED BY <2>1 DEF Foldable
<1>1. Cardinality(S) \in Nat
  BY <1>0, FS_CardinalityType
<1>2. PICK g : FoldsTo(t, S, base, of, Cardinality(S), g)
  BY <1>1, FoldsExist
<1>3. Small(S, Cardinality(S)) = SUBSET S
  BY <1>0, <1>1, FS_Subset DEF Small
<1>4. g = F(g)
  <2>1. g = [s \in SUBSET S |-> g[s]] /\ \A s \in SUBSET S : g[s] = F(g)[s]
    BY <1>2, <1>3 DEF FoldsTo, FoldAt, Rest
  <2>2. F(g) = [s \in SUBSET S |-> F(g)[s]]
    OBVIOUS
  <2> HIDE DEF F
  <2> QED BY <2>1, <2>2
<1>5. iter = F(iter)
  <2> HIDE DEF F
  <2> QED BY <1>4
<1>6. Folding(t, S, base, of) = iter
  BY DEF Folding
<1> HIDE DEF iter
<1>7. \A s \in SUBSET S : iter[s] = FoldAt(t, base, of, iter, s)
  BY <1>5 DEF FoldAt, Rest
<1> QED BY <1>6, <1>7

(* Induction along a fold, for a set of parts.                             *)
LEMMA FoldInduction ==
  ASSUME NEW t, NEW S, Foldable(t, S), NEW Good, {} \in Good,
         \A s \in SUBSET S : s # {} /\ Rest(t, s) \in Good => s \in Good
  PROVE  S \in Good
<1> DEFINE Bad == {Cardinality(s) : s \in {z \in SUBSET S : z \notin Good}}
<1>1. SUFFICES ASSUME S \notin Good
               PROVE  FALSE
  OBVIOUS
<1>2. \A s \in SUBSET S : s \notin Good => Cardinality(s) \in Nat
  BY RestSmaller
<1>3. Bad \in SUBSET Nat /\ Bad # {}
  BY <1>1, <1>2
<1>4. PICK k \in Bad : \A y \in Bad : k <= y
  BY <1>3, LeastNumber
<1>5. PICK s \in SUBSET S : s \notin Good /\ k = Cardinality(s)
  BY <1>4
<1>6. s # {}
  BY <1>5
<1>7. /\ Rest(t, s) \in SUBSET S /\ Cardinality(s) \in Nat
      /\ Cardinality(Rest(t, s)) = Cardinality(s) - 1
  BY <1>5, <1>6, RestSmaller
<1>8. ~(k <= Cardinality(Rest(t, s)))
  BY <1>5, <1>7
<1>9. Rest(t, s) \in Good
  BY <1>4, <1>7, <1>8
<1> QED BY <1>5, <1>6, <1>9

(* The fold of fbSessionExportTemplates is the value of such a function.   *)
TemplatesAt(base, g, s) ==
  IF s = {} THEN base ELSE fBufAppendTemplate(g[Rest("template", s)], Taken("template", s))

LEMMA ExportFolds ==
  ASSUME NEW b, IsFiniteSet(b.ext)
  PROVE  \E g : /\ fbSessionExportTemplates(b) = g[b.ext]
                /\ \A s \in SUBSET b.ext : g[s] = TemplatesAt(b, g, s)
<1> DEFINE S == b.ext
           F(f) == [s \in SUBSET S |-> IF s = {} THEN b
                                        ELSE fBufAppendTemplate(f[s \ {CHOOSE x \in s : TRUE}],
                                                                CHOOSE x \in s : TRUE)]
           iter == CHOOSE f : f = F(f)
<1>1. Foldable("template", S)
  BY DEF Foldable
<1>2. PICK g : g = Folding("template", S, b, [x \in S |-> x])
  OBVIOUS
<1>3. \A s \in SUBSET S : g[s] = TemplatesAt(b, g, s)
  <2> SUFFICES ASSUME NEW s \in SUBSET S
               PROVE  g[s] = TemplatesAt(b, g, s)
    OBVIOUS
  <2>1. g[s] = FoldAt("template", b, [x \in S |-> x], g, s)
    BY <1>1, <1>2, FoldingFolds
  <2>2. s # {} => [x \in S |-> x][Taken("template", s)] = Taken("template", s)
    BY <1>1, RestSmaller
  <2> QED BY <2>1, <2>2 DEF FoldAt, TemplatesAt, Step
<1>4. DEFINE h == [s \in SUBSET S |-> g[s]]
<1>5. h = F(h)
  <2>1. \A s \in SUBSET S : h[s] = F(h)[s]
    <3> SUFFICES ASSUME NEW s \in SUBSET S
                 PROVE  h[s] = F(h)[s]
      OBVIOUS
    <3>1. h[s] = TemplatesAt(b, g, s)
      BY <1>3
    <3>2. s # {} => g[Rest("template", s)] = h[Rest("template", s)]
      BY <1>1, RestSmaller
    <3>3. F(h)[s] = TemplatesAt(b, h, s)
      BY DEF TemplatesAt, Rest, Taken
    <3> HIDE DEF h, F
    <3> QED BY <3>1, <3>2, <3>3 DEF TemplatesAt
  <2>2. h = [s \in SUBSET S |-> h[s]]
    OBVIOUS
  <2>3. F(h) = [s \in SUBSET S |-> F(h)[s]]
    OBVIOUS
  <2> HIDE DEF F, h
  <2> QED BY <2>1, <2>2, <2>3
<1>6. iter = F(iter)
  <2> HIDE DEF F, h
  <2> QED BY <1>5
<1>7. fbSessionExportTemplates(b) = iter[S]
  BY DEF fbSessionExportTemplates, FoldSet, MapThenFoldSet
<1> HIDE DEF iter
<1>8. \A s \in SUBSET S : iter[s] = TemplatesAt(b, iter, s)
  BY <1>6 DEF TemplatesAt, Rest, Taken
<1> QED BY <1>7, <1>8

----------------------------------------------------------------------------
(***************************************************************************)
(* The buffer and what was put into it                                     *)
(***************************************************************************)
Tid == SUBSET {"IP4", "IP6", "TCP", "TSV", "RTT", "BIF", "FLE", "RLE",
               "YAF_OPTIONS_TID", "YAF_FLOW_FULL_TID"}
Item == [kind : {"template", "flow", "stats"}, tid : Tid, itid : Tid]
Buffer ==
  [msg : Seq(Item), file : Seq(Item), int : SUBSET Tid, ext : SUBSET Tid, itid : Tid,
   etid : Tid, stats_template_initialized : BOOLEAN, ok : BOOLEAN, io : Nat, fault : BOOLEAN]

(* What the reader of the output gets.                                     *)
Stream(b) == b.file \o b.msg

(* The template t is in the stream s.                                      *)
Defined(s, t) == \E j \in 1..Len(s) : s[j].kind = "template" /\ s[j].tid = t

(* A record of the structure of its kind.                                  *)
Encoded(x) == x.itid = IF x.kind = "stats" THEN Options ELSE Full

(* Templates come before their records; and records are of their structure *)
(* unless a statistics record failed, which is st.                         *)
Decodable(s, st) ==
  \A i \in 1..Len(s) : s[i].kind # "template" =>
    /\ \E j \in 1..i - 1 : s[j].kind = "template" /\ s[j].tid = s[i].tid
    /\ ~st => Encoded(s[i])

(* Only emission fails.                                                    *)
Faulty(b) == ~b.ok => b.fault

(* c has the session of b.                                                 *)
SameSession(b, c) ==
  /\ c \in Buffer
  /\ c.int = b.int /\ c.ext = b.ext /\ c.itid = b.itid /\ c.etid = b.etid
  /\ c.stats_template_initialized = b.stats_template_initialized
  /\ c.ok => b.ok
  /\ Faulty(b) => Faulty(c)

LEMMA BufferFields ==
  ASSUME NEW b \in Buffer
  PROVE  /\ b.msg \in Seq(Item) /\ b.file \in Seq(Item) /\ Stream(b) \in Seq(Item)
         /\ b.int \in SUBSET Tid /\ b.ext \in SUBSET Tid /\ b.itid \in Tid /\ b.etid \in Tid
         /\ b.ok \in BOOLEAN /\ b.io \in Nat /\ b.fault \in BOOLEAN
         /\ b.stats_template_initialized \in BOOLEAN
<1>1. b.msg \in Seq(Item) /\ b.file \in Seq(Item)
  BY DEF Buffer
<1>2. Stream(b) \in Seq(Item)
  BY <1>1, ConcatProperties DEF Stream
<1> QED BY <1>1, <1>2 DEF Buffer

LEMMA EmitFacts ==
  ASSUME NEW b \in Buffer, NEW c, c = fBufEmit(b)
  PROVE  /\ SameSession(b, c) /\ Stream(c) = Stream(b)
         /\ c.ok => c.msg = <<>>
<1>1. CASE ~b.ok \/ b.msg = <<>>
  BY <1>1 DEF fBufEmit, SameSession
<1>2. CASE ~(~b.ok \/ b.msg = <<>>) /\ b.io = 0
  <2>1. c = [b EXCEPT !.ok = FALSE, !.fault = TRUE]
    BY <1>2 DEF fBufEmit
  <2>2. c \in Buffer
    BY <2>1 DEF Buffer
  <2>3. c.msg = b.msg /\ c.file = b.file /\ ~c.ok /\ c.fault
        /\ c.int = b.int /\ c.ext = b.ext /\ c.itid = b.itid /\ c.etid = b.etid
        /\ c.stats_template_initialized = b.stats_template_initialized
    BY <2>1 DEF Buffer
  <2> QED BY <2>2, <2>3 DEF SameSession, Stream, Faulty
<1>3. CASE ~(~b.ok \/ b.msg = <<>>) /\ b.io # 0
  <2>1. c = [b EXCEPT !.io = @ - 1, !.file = @ \o b.msg, !.msg = <<>>]
    BY <1>3 DEF fBufEmit
  <2>2. b.io - 1 \in Nat /\ Stream(b) \in Seq(Item) /\ <<>> \in Seq(Item)
    BY <1>3, BufferFields, EmptySeq
  <2>3. c \in Buffer
    BY <2>1, <2>2 DEF Buffer, Stream
  <2>4. c.msg = <<>> /\ c.file = Stream(b) /\ c.ok = b.ok /\ c.fault = b.fault
        /\ c.int = b.int /\ c.ext = b.ext /\ c.itid = b.itid /\ c.etid = b.etid
        /\ c.stats_template_initialized = b.stats_template_initialized
    BY <2>1 DEF Buffer, Stream
  <2>5. Stream(c) = Stream(b)
    BY <2>2, <2>4, ConcatEmptySeq DEF Stream
  <2> QED BY <2>3, <2>4, <2>5 DEF SameSession, Faulty
<1> QED BY <1>1, <1>2, <1>3

LEMMA ConcatAppend ==
  \A s, t \in Seq(Item), x \in Item : s \o Append(t, x) = Append(s \o t, x)
<1> TAKE s, t \in Seq(Item), x \in Item
<1>1. s \o t \in Seq(Item) /\ <<x>> \in Seq(Item)
  BY ConcatProperties
<1>2. Append(t, x) = t \o <<x>> /\ Append(s \o t, x) = (s \o t) \o <<x>>
  BY <1>1, AppendIsConcat
<1> QED BY <1>1, <1>2, ConcatAssociative

LEMMA PutFacts ==
  ASSUME NEW b \in Buffer, NEW x \in Item, NEW c, c = fBufPut(b, x)
  PROVE  /\ SameSession(b, c)
         /\ Stream(c) = IF c.ok THEN Append(Stream(b), x) ELSE Stream(b)
         /\ b.ok /\ b.msg = <<>> => c.ok
<1> DEFINE room == IF Len(b.msg) < MsgCap THEN b ELSE fBufEmit(b)
<1>1. SameSession(b, room) /\ Stream(room) = Stream(b)
  <2>1. SameSession(b, b)
    BY DEF SameSession
  <2>2. PICK e : e = fBufEmit(b)
    OBVIOUS
  <2>3. SameSession(b, e) /\ Stream(e) = Stream(b)
    BY <2>2, EmitFacts
  <2> QED BY <2>1, <2>2, <2>3
<1>2. c = IF room.ok THEN [room EXCEPT !.msg = Append(@, x)] ELSE room
  BY DEF fBufPut
<1>3. b.msg = <<>> => room = b
  BY ExportAssumption, EmptySeq
<1> HIDE DEF room
<1>4. room \in Buffer
  BY <1>1 DEF SameSession
<1>5. CASE room.ok
  <2>1. c = [room EXCEPT !.msg = Append(@, x)] /\ Append(room.msg, x) \in Seq(Item)
    BY <1>2, <1>4, <1>5, BufferFields, AppendProperties
  <2>2. c \in Buffer
    BY <1>4, <2>1 DEF Buffer
  <2>3. c.msg = Append(room.msg, x) /\ c.file = room.file /\ c.ok = room.ok
        /\ c.fault = room.fault /\ c.int = room.int /\ c.ext = room.ext
        /\ c.itid = room.itid /\ c.etid = room.etid
        /\ c.stats_template_initialized = room.stats_template_initialized
    BY <1>4, <2>1 DEF Buffer
  <2>4. Stream(c) = Append(Stream(room), x)
    <3>1. PICK m, f \in Seq(Item) : m = room.msg /\ f = room.file
      BY <1>4, BufferFields
    <3>2. f \o Append(m, x) = Append(f \o m, x)
      BY <3>1, ConcatAppend, Zenon
    <3> QED BY <2>3, <3>1, <3>2 DEF Stream
  <2> QED BY <1>1, <1>5, <2>2, <2>3, <2>4 DEF SameSession, Faulty
<1>6. CASE ~room.ok
  BY <1>1, <1>2, <1>3, <1>6
<1> QED BY <1>5, <1>6

(* There are only templates in the stream s.                               *)
NoData(s) == \A i \in 1..Len(s) : s[i].kind = "template"

(* A stream that grows by one item.                                        *)
LEMMA StreamGrows ==
  ASSUME NEW s \in Seq(Item), NEW x \in Item, NEW u, u = Append(s, x), NEW st
  PROVE  /\ \A t : Defined(s, t) => Defined(u, t)
         /\ x.kind = "template" => Defined(u, x.tid) /\ (NoData(s) => NoData(u))
         /\ /\ Decodable(s, st)
            /\ x.kind = "template" \/ (Defined(s, x.tid) /\ (~st => Encoded(x)))
            => Decodable(u, st)
<1>1. /\ Len(s) \in Nat /\ Len(u) = Len(s) + 1 /\ u[Len(s) + 1] = x
      /\ \A i \in 1..Len(s) : u[i] = s[i]
  BY AppendProperties, LenProperties
<1>2. \A t : Defined(s, t) => Defined(u, t)
  BY <1>1 DEF Defined
<1>3. x.kind = "template" => Defined(u, x.tid) /\ (NoData(s) => NoData(u))
  <2>1. \A i \in 1..Len(u) : i \in 1..Len(s) \/ i = Len(s) + 1
    BY <1>1
  <2> QED BY <1>1, <2>1 DEF Defined, NoData
<1>4. ASSUME Decodable(s, st), x.kind = "template" \/ (Defined(s, x.tid) /\ (~st => Encoded(x))),
             NEW i \in 1..Len(u), u[i].kind # "template"
      PROVE  /\ \E j \in 1..i - 1 : u[j].kind = "template" /\ u[j].tid = u[i].tid
             /\ ~st => Encoded(u[i])
  <2>1. CASE i \in 1..Len(s)
    <3>1. u[i] = s[i] /\ \A j \in 1..i - 1 : j \in 1..Len(s) /\ u[j] = s[j]
      BY <1>1, <2>1
    <3>2. /\ \E j \in 1..i - 1 : s[j].kind = "template" /\ s[j].tid = s[i].tid
          /\ ~st => Encoded(s[i])
      BY <1>4, <2>1, <3>1 DEF Decodable
    <3> QED BY <3>1, <3>2
  <2>2. CASE i = Len(s) + 1
    <3>1. u[i] = x /\ Defined(s, x.tid) /\ (~st => Encoded(x))
      BY <1>1, <1>4, <2>2
    <3>2. PICK j \in 1..Len(s) : s[j].kind = "template" /\ s[j].tid = x.tid
      BY <3>1 DEF Defined
    <3>3. j \in 1..i - 1 /\ u[j] = s[j]
      BY <1>1, <2>2
    <3> QED BY <3>1, <3>2, <3>3
  <2> QED BY <1>1, <2>1, <2>2
<1> QED BY <1>2, <1>3, <1>4 DEF Decodable

(* c is b after templates were appended.                                   *)
Extends(b, c, st) ==
  /\ SameSession(b, c)
  /\ \A t : Defined(Stream(b), t) => Defined(Stream(c), t)
  /\ Decodable(Stream(b), st) => Decodable(Stream(c), st)
  /\ NoData(Stream(b)) => NoData(Stream(c))

LEMMA ExtendsTransitive ==
  ASSUME NEW b, NEW c, NEW d, NEW st, Extends(b, c, st), Extends(c, d, st)
  PROVE  Extends(b, d, st)
BY DEF Extends, SameSession

LEMMA AppendTemplateFacts ==
  ASSUME NEW b \in Buffer, NEW tid \in Tid, NEW c, c = fBufAppendTemplate(b, tid), NEW st
  PROVE  /\ Extends(b, c, st) /\ (c.ok => Defined(Stream(c), tid))
         /\ b.ok /\ b.msg = <<>> => c.ok
<1>1. PICK x \in Item : x = [kind |-> "template", tid |-> tid, itid |-> tid]
  BY DEF Item
<1>2. x.kind = "template" /\ x.tid = tid
  BY <1>1
<1>3. c = fBufPut(b, x)
  BY <1>1 DEF fBufAppendTemplate
<1>4. /\ SameSession(b, c)
      /\ Stream(c) = IF c.ok THEN Append(Stream(b), x) ELSE Stream(b)
      /\ b.ok /\ b.msg = <<>> => c.ok
  BY <1>3, PutFacts
<1>5. Stream(b) \in Seq(Item)
  BY BufferFields
<1>6. CASE c.ok
  <2>1. PICK u : u = Stream(c) /\ u = Append(Stream(b), x)
    BY <1>4, <1>6
  <2>2. /\ \A t : Defined(Stream(b), t) => Defined(u, t)
        /\ Defined(u, tid)
        /\ Decodable(Stream(b), st) => Decodable(u, st)
        /\ NoData(Stream(b)) => NoData(u)
    BY <1>2, <1>5, <2>1, StreamGrows
  <2> QED BY <1>4, <2>1, <2>2 DEF Extends
<1>7. CASE ~c.ok
  BY <1>4, <1>7 DEF Extends
<1> QED BY <1>6, <1>7

(* Exporting all templates again changes nothing that matters.             *)
LEMMA ExportTemplatesFacts ==
  ASSUME NEW b \in Buffer, IsFiniteSet(b.ext), NEW c, c = fbSessionExportTemplates(b), NEW st
  PROVE  Extends(b, c, st)
<1>1. PICK g : /\ c = g[b.ext]
               /\ \A s \in SUBSET b.ext : g[s] = TemplatesAt(b, g, s)
  BY ExportFolds
<1> DEFINE Bad == {n \in Nat : \E s \in SUBSET b.ext : Cardinality(s) = n /\ ~Extends(b, g[s], st)}
<1>2. ASSUME Bad # {}
      PROVE  FALSE
  <2>1. PICK n \in Bad : \A k \in Bad : n <= k
    BY <1>2, LeastNumber
  <2>2. PICK s \in SUBSET b.ext : Cardinality(s) = n /\ ~Extends(b, g[s], st)
    BY <2>1
  <2>3. g[s] = TemplatesAt(b, g, s)
    BY <1>1
  <2>4. s # {}
    <3>1. Extends(b, b, st)
      BY DEF Extends, SameSession
    <3> QED BY <2>2, <2>3, <3>1 DEF TemplatesAt
  <2>5. /\ Taken("template", s) \in s /\ Rest("template", s) \in SUBSET b.ext
        /\ Cardinality(Rest("template", s)) = n - 1 /\ n - 1 \in Nat
    <3>1. Foldable("template", b.ext)
      BY DEF Foldable
    <3>2. Cardinality(s) \in Nat
      BY <2>2, <2>4, <3>1, RestSmaller
    <3> QED BY <2>2, <2>4, <3>1, <3>2, RestSmaller
  <2>6. n - 1 \notin Bad
    BY <2>1, <2>5
  <2>7. Extends(b, g[Rest("template", s)], st)
    BY <2>5, <2>6
  <2>8. Taken("template", s) \in Tid
    BY <2>5, BufferFields
  <2>9. PICK r : r = g[Rest("template", s)]
    OBVIOUS
  <2>10. PICK e : e = g[s]
    OBVIOUS
  <2>11. r \in Buffer /\ e = fBufAppendTemplate(r, Taken("template", s))
    BY <2>3, <2>4, <2>7, <2>9, <2>10 DEF TemplatesAt, Extends, SameSession
  <2>12. Extends(r, e, st)
    BY <2>8, <2>11, AppendTemplateFacts
  <2> QED BY <2>2, <2>7, <2>9, <2>10, <2>12, ExtendsTransitive
<1>3. Cardinality(b.ext) \in Nat /\ b.ext \in SUBSET b.ext
  BY FS_CardinalityType
<1> QED BY <1>1, <1>2, <1>3

(* ... and the one template of a new session is written for certain.       *)
LEMMA ExportOneTemplate ==
  ASSUME NEW b \in Buffer, NEW t \in Tid, b.ext = {t}, b.ok, b.msg = <<>>,
         NEW c, c = fbSessionExportTemplates(b), NEW st
  PROVE  Extends(b, c, st) /\ c.ok /\ Defined(Stream(c), t)
<1>1. IsFiniteSet(b.ext)
  BY FS_Singleton
<1>2. PICK g : /\ c = g[b.ext]
               /\ \A s \in SUBSET b.ext : g[s] = TemplatesAt(b, g, s)
  BY <1>1, ExportFolds
<1>3. Taken("template", b.ext) = t /\ Rest("template", b.ext) = {}
  BY DEF Taken, Rest
<1>4. g[{}] = b
  BY <1>2 DEF TemplatesAt
<1>5. c = fBufAppendTemplate(b, t)
  <2>1. g[b.ext] = TemplatesAt(b, g, b.ext)
    BY <1>2
  <2>2. TemplatesAt(b, g, b.ext) = fBufAppendTemplate(g[Rest("template", b.ext)], Taken("template", b.ext))
    BY DEF TemplatesAt
  <2> QED BY <1>2, <1>3, <1>4, <2>1, <2>2
<1> QED BY <1>5, AppendTemplateFacts

----------------------------------------------------------------------------
(***************************************************************************)
(* The calls of the writer                                                 *)
(***************************************************************************)
(* What is in the stream can be decoded, and errors come from emission.    *)
Readable(b, st) == b \in Buffer /\ Decodable(Stream(b), st) /\ Faulty(b)

(* Moreover the session has its templates, and those that it counts as     *)
(* exported are in the stream.                                             *)
Running(b, st) ==
  /\ Readable(b, st)
  /\ IsFiniteSet(b.ext) /\ {Full, Options} \subseteq b.int /\ Options \in b.ext
  /\ \A t \in b.ext : Defined(Stream(b), t)

LEMMA TidTypes == Full \in Tid /\ Options \in Tid
BY DEF Full, Options, Tid

LEMMA ExtendsRuns ==
  ASSUME NEW b, NEW c, NEW st, Running(b, st), Extends(b, c, st)
  PROVE  Running(c, st)
BY DEF Running, Readable, Extends, SameSession

LEMMA AppendRecord ==
  ASSUME NEW b, NEW st, Running(b, st), NEW kind \in {"flow", "stats"}, b.etid \in b.ext,
         ~st => b.itid = IF kind = "stats" THEN Options ELSE Full,
         NEW c, c = fBufAppend(b, kind)
  PROVE  Running(c, st) /\ SameSession(b, c)
<1>1. b \in Buffer
  BY DEF Running, Readable
<1>2. PICK x \in Item : x = [kind |-> kind, tid |-> b.etid, itid |-> b.itid]
  BY <1>1, BufferFields DEF Item
<1>3. x.kind = kind /\ x.tid = b.etid /\ (~st => Encoded(x))
  BY <1>2 DEF Encoded
<1>4. c = fBufPut(b, x)
  BY <1>2 DEF fBufAppend
<1>5. /\ SameSession(b, c)
      /\ Stream(c) = IF c.ok THEN Append(Stream(b), x) ELSE Stream(b)
  BY <1>1, <1>4, PutFacts
<1>6. Stream(b) \in Seq(Item) /\ Defined(Stream(b), x.tid)
  BY <1>1, <1>3, BufferFields DEF Running
<1>7. CASE c.ok
  <2>1. PICK u : u = Stream(c) /\ u = Append(Stream(b), x)
    BY <1>5, <1>7
  <2>2. /\ \A t : Defined(Stream(b), t) => Defined(u, t)
        /\ Decodable(u, st)
    <3>1. Decodable(Stream(b), st)
      BY DEF Running, Readable
    <3> QED BY <1>3, <1>6, <2>1, <3>1, StreamGrows
  <2> QED BY <1>5, <2>1, <2>2 DEF Running, Readable, SameSession
<1>8. CASE ~c.ok
  BY <1>5, <1>8 DEF Running, Readable, SameSession
<1> QED BY <1>7, <1>8

LEMMA AddInternal ==
  ASSUME NEW b, NEW st, Running(b, st), NEW c, c = fbSessionAddTemplate(b, TRUE, Options)
  PROVE  Running(c, st) /\ SameSession(b, c)
<1>1. b \in Buffer /\ b.int \cup {Options} = b.int
  BY DEF Running, Readable
<1>2. c = b \/ c = [b EXCEPT !.int = b.int]
  BY <1>1 DEF fbSessionAddTemplate
<1>3. c = b
  BY <1>1, <1>2 DEF Buffer
<1> QED BY <1>1, <1>3 DEF SameSession

LEMMA AddExternal ==
  ASSUME NEW b, NEW st, Running(b, st), NEW tid \in Tid,
         NEW c, c = fbSessionAddTemplate(b, FALSE, tid)
  PROVE  /\ Readable(c, st) /\ c.itid = b.itid
         /\ c.stats_template_initialized = b.stats_template_initialized
         /\ c.ok => b.ok
         /\ c.ok \/ tid \in b.ext => Running(c, st)
         /\ c.ok => tid \in c.ext
<1>1. b \in Buffer
  BY DEF Running, Readable
<1>2. CASE ~b.ok
  <2>1. c = b
    BY <1>2 DEF fbSessionAddTemplate
  <2> QED BY <1>2, <2>1 DEF Running
<1>3. CASE b.ok
  <2>1. PICK e : e = [b EXCEPT !.ext = @ \cup {tid}]
    OBVIOUS
  <2>2. c = fBufAppendTemplate(e, tid)
    BY <1>3, <2>1 DEF fbSessionAddTemplate
  <2>3. e \in Buffer
    BY <1>1, <2>1 DEF Buffer
  <2>4. /\ e.ext = b.ext \cup {tid} /\ e.int = b.int /\ e.itid = b.itid /\ e.ok = b.ok
        /\ e.fault = b.fault /\ e.msg = b.msg /\ e.file = b.file
        /\ e.stats_template_initialized = b.stats_template_initialized
    BY <1>1, <2>1 DEF Buffer
  <2>5. Extends(e, c, st) /\ (c.ok => Defined(Stream(c), tid))
    BY <2>2, <2>3, AppendTemplateFacts
  <2>6. Stream(e) = Stream(b)
    BY <2>4 DEF Stream
  <2>7. Readable(c, st)
    BY <2>3, <2>4, <2>5, <2>6 DEF Running, Readable, Extends, SameSession, Faulty
  <2>8. /\ c.itid = b.itid /\ c.ext = b.ext \cup {tid} /\ c.int = b.int
        /\ c.stats_template_initialized = b.stats_template_initialized
        /\ \A t \in b.ext : Defined(Stream(c), t)
    BY <2>4, <2>5, <2>6 DEF Extends, SameSession, Running
  <2>9. IsFiniteSet(c.ext)
    <3>1. PICK S : S = b.ext /\ IsFiniteSet(S)
      BY DEF Running
    <3>2. IsFiniteSet(S \cup {tid})
      BY <3>1, FS_AddElement
    <3> QED BY <2>8, <3>1, <3>2
  <2>10. c.ok \/ tid \in b.ext => Running(c, st)
    BY <2>5, <2>7, <2>8, <2>9 DEF Running
  <2> QED BY <1>3, <2>7, <2>8, <2>10
<1> QED BY <1>2, <1>3

LEMMA SetInternal ==
  ASSUME NEW b, NEW st, Running(b, st), NEW tid \in {Full, Options},
         NEW c, c = fBufSetInternalTemplate(b, tid)
  PROVE  /\ Running(c, st) /\ c.ok = b.ok /\ c.etid = b.etid
         /\ c.ok => c.itid = tid
<1>1. b \in Buffer /\ tid \in b.int /\ tid \in Tid /\ b.ok \in BOOLEAN
  BY TidTypes, BufferFields DEF Running, Readable
<1>2. CASE b.ok
  <2>1. c = [b EXCEPT !.itid = tid]
    BY <1>1, <1>2 DEF fBufSetInternalTemplate
  <2>2. c \in Buffer
    BY <1>1, <2>1 DEF Buffer
  <2>3. /\ c.ext = b.ext /\ c.int = b.int /\ c.itid = tid /\ c.ok = b.ok /\ c.etid = b.etid
        /\ c.fault = b.fault /\ c.msg = b.msg /\ c.file = b.file
    BY <1>1, <2>1 DEF Buffer
  <2> QED BY <2>2, <2>3 DEF Running, Readable, Stream, Faulty
<1>3. CASE ~b.ok
  <2>1. c = [b EXCEPT !.ok = FALSE]
    BY <1>3 DEF fBufSetInternalTemplate
  <2>2. c = b
    BY <1>1, <1>3, <2>1 DEF Buffer
  <2> QED BY <1>3, <2>2
<1> QED BY <1>2, <1>3

LEMMA SetExport ==
  ASSUME NEW b, NEW st, Running(b, st), NEW tid \in Tid,
         NEW c, c = yfSetExportTemplate(b, tid)
  PROVE  /\ Readable(c, st) /\ c.itid = b.itid
         /\ c.ok \/ tid \in b.ext => Running(c, st)
         /\ c.ok => c.etid = tid /\ tid \in c.ext
<1>1. PICK has : has = IF tid \in b.ext THEN b ELSE fbSessionAddTemplate(b, FALSE, tid)
  OBVIOUS
<1>2. /\ Readable(has, st) /\ has.itid = b.itid
      /\ has.ok \/ tid \in b.ext => Running(has, st)
      /\ has.ok => tid \in has.ext
  <2>1. CASE tid \in b.ext
    BY <1>1, <2>1 DEF Running
  <2>2. CASE tid \notin b.ext
    <3>1. has = fbSessionAddTemplate(b, FALSE, tid)
      BY <1>1, <2>2
    <3> QED BY <2>2, <3>1, AddExternal
  <2> QED BY <2>1, <2>2
<1>3. c = IF has.ok THEN [has EXCEPT !.etid = tid] ELSE has
  BY <1>1 DEF yfSetExportTemplate
<1>4. CASE ~has.ok
  BY <1>2, <1>3, <1>4
<1>5. CASE has.ok
  <2>1. has \in Buffer
    BY <1>2 DEF Readable
  <2>2. c \in Buffer
    BY <1>3, <1>5, <2>1 DEF Buffer
  <2>3. /\ c.ext = has.ext /\ c.int = has.int /\ c.itid = has.itid /\ c.ok = has.ok
        /\ c.etid = tid /\ c.fault = has.fault /\ c.msg = has.msg /\ c.file = has.file
    BY <1>3, <1>5, <2>1 DEF Buffer
  <2> QED BY <1>2, <1>5, <2>2, <2>3 DEF Running, Readable, Stream, Faulty
<1> QED BY <1>4, <1>5

LEMMA WriteFlowFacts ==
  ASSUME NEW b, NEW st, Running(b, st), ~st => b.itid = Full, NEW flow,
         Wtid(flow) \in Tid, NEW c, c = yfWriteFlow(b, flow)
  PROVE  Readable(c, st) /\ (c.ok => Running(c, st) /\ c.itid = b.itid)
<1>1. PICK set : set = yfSetExportTemplate(b, Wtid(flow))
  OBVIOUS
<1>2. /\ Readable(set, st) /\ set.itid = b.itid
      /\ set.ok => Running(set, st)
      /\ set.ok => set.etid = Wtid(flow) /\ Wtid(flow) \in set.ext
  BY <1>1, SetExport
<1>3. c = IF set.ok THEN fBufAppend(set, "flow") ELSE set
  BY <1>1 DEF yfWriteFlow
<1>4. CASE ~set.ok
  BY <1>2, <1>3, <1>4
<1>5. CASE set.ok
  <2>1. PICK k \in {"flow", "stats"} : k = "flow"
    OBVIOUS
  <2>2. c = fBufAppend(set, k) /\ set.etid \in set.ext
    BY <1>2, <1>3, <1>5, <2>1
  <2>3. Running(c, st) /\ SameSession(set, c)
    BY <1>2, <1>5, <2>1, <2>2, AppendRecord
  <2> QED BY <1>2, <2>3 DEF Running, SameSession
<1> QED BY <1>4, <1>5

LEMMA EnsureStats ==
  ASSUME NEW b, NEW st, Running(b, st), NEW c, c = yfEnsureStatsTemplate(b)
  PROVE  Running(c, st) /\ (c.ok => c.itid = Options /\ c.etid = Options)
<1>1. PICK int : int = fbSessionAddTemplate(b, TRUE, Options)
  OBVIOUS
<1>2. PICK added : added = fbSessionAddTemplate(int, FALSE, Options)
  OBVIOUS
<1>3. PICK ready : ready = IF b.stats_template_initialized THEN b
                           ELSE [added EXCEPT !.stats_template_initialized = added.ok]
  OBVIOUS
<1>4. PICK set : set = fBufSetInternalTemplate(ready, Options)
  OBVIOUS
<1>5. c = IF set.ok THEN yfSetExportTemplate(set, Options) ELSE set
  BY <1>1, <1>2, <1>3, <1>4 DEF yfEnsureStatsTemplate
<1>6. Running(int, st)
  BY <1>1, AddInternal
<1>7. Options \in int.ext
  BY <1>6 DEF Running
<1>8. Running(added, st)
  BY <1>2, <1>6, <1>7, AddExternal, TidTypes
<1>9. Running(ready, st)
  <2>1. CASE b.stats_template_initialized
    BY <1>3, <2>1
  <2>2. CASE ~b.stats_template_initialized
    <3>1. added \in Buffer /\ added.ok \in BOOLEAN
      BY <1>8, BufferFields DEF Running, Readable
    <3>2. ready = [added EXCEPT !.stats_template_initialized = added.ok]
      BY <1>3, <2>2
    <3>3. ready \in Buffer
      BY <3>1, <3>2 DEF Buffer
    <3>4. /\ ready.ext = added.ext /\ ready.int = added.int /\ ready.ok = added.ok
          /\ ready.fault = added.fault /\ ready.msg = added.msg /\ ready.file = added.file
      BY <3>1, <3>2 DEF Buffer
    <3> QED BY <1>8, <3>3, <3>4 DEF Running, Readable, Stream, Faulty
  <2> QED BY <2>1, <2>2
<1>10. Running(set, st) /\ (set.ok => set.itid = Options)
  BY <1>4, <1>9, SetInternal
<1>11. CASE ~set.ok
  BY <1>5, <1>10, <1>11
<1>12. CASE set.ok
  <2>1. c = yfSetExportTemplate(set, Options) /\ Options \in set.ext
    BY <1>5, <1>10, <1>12 DEF Running
  <2>2. /\ c.itid = set.itid /\ Running(c, st)
        /\ c.ok => c.etid = Options /\ Options \in c.ext
    BY <1>10, <2>1, SetExport, TidTypes
  <2> QED BY <1>10, <1>12, <2>2
<1> QED BY <1>11, <1>12

LEMMA WriteStatsFacts ==
  ASSUME NEW b, NEW st, Running(b, st), NEW c, c = yfWriteStatsRec(b)
  PROVE  Running(c, st) /\ (c.ok => c.itid = Full)
<1>1. PICK ready : ready = yfEnsureStatsTemplate(b)
  OBVIOUS
<1>2. PICK put : put = IF ready.ok THEN fBufAppend(ready, "stats") ELSE ready
  OBVIOUS
<1>3. c = IF put.ok THEN fBufSetInternalTemplate(put, Full) ELSE put
  BY <1>1, <1>2 DEF yfWriteStatsRec
<1>4. Running(ready, st) /\ (ready.ok => ready.itid = Options /\ ready.etid = Options)
  BY <1>1, EnsureStats
<1>5. Running(put, st)
  <2>1. CASE ~ready.ok
    BY <1>2, <1>4, <2>1
  <2>2. CASE ready.ok
    <3>1. PICK k \in {"flow", "stats"} : k = "stats"
      OBVIOUS
    <3>2. put = fBufAppend(ready, k) /\ ready.etid \in ready.ext
      BY <1>2, <1>4, <2>2, <3>1 DEF Running
    <3> QED BY <1>4, <2>2, <3>1, <3>2, AppendRecord
  <2> QED BY <2>1, <2>2
<1>6. CASE ~put.ok
  BY <1>3, <1>5, <1>6
<1>7. CASE put.ok
  <2>1. c = fBufSetInternalTemplate(put, Full)
    BY <1>3, <1>7
  <2> QED BY <1>5, <2>1, SetInternal
<1> QED BY <1>6, <1>7

(* A call starts from a buffer at rest and leaves one at rest.             *)
LEMMA CallFacts ==
  ASSUME NEW st, Running(fb, st), NEW io \in Nat, NEW c, c = Call(io)
  PROVE  Running(c, st) /\ c.itid = fb.itid /\ Stream(c) = Stream(fb)
<1>1. c = [fb EXCEPT !.io = io] /\ fb \in Buffer
  BY DEF Call, Running, Readable
<1>2. c \in Buffer
  BY <1>1 DEF Buffer
<1>3. /\ c.ext = fb.ext /\ c.int = fb.int /\ c.itid = fb.itid /\ c.ok = fb.ok
      /\ c.fault = fb.fault /\ c.msg = fb.msg /\ c.file = fb.file
  BY <1>1 DEF Buffer
<1> QED BY <1>2, <1>3 DEF Running, Readable, Stream, Faulty

LEMMA ReturnedFacts ==
  ASSUME NEW b, NEW st, Readable(b, st), NEW c, c = Returned(b), NEW s, st => s
  PROVE  /\ Readable(c, s) /\ c.ok /\ ~c.fault /\ c.itid = b.itid /\ Stream(c) = Stream(b)
         /\ Running(b, st) => Running(c, s)
<1>1. c = [b EXCEPT !.ok = TRUE, !.io = 0, !.fault = FALSE] /\ b \in Buffer
  BY DEF Returned, Readable
<1>2. c \in Buffer
  <2>1. PICK y, n \in BOOLEAN : y = TRUE /\ n = FALSE
    OBVIOUS
  <2>2. c = [b EXCEPT !.ok = y, !.io = 0, !.fault = n]
    BY <1>1, <2>1
  <2>3. [b EXCEPT !.ok = y, !.io = 0, !.fault = n] \in Buffer
    BY <1>1 DEF Buffer
  <2> QED BY <2>2, <2>3
<1>3. /\ c.ext = b.ext /\ c.int = b.int /\ c.itid = b.itid /\ c.ok
      /\ ~c.fault /\ c.msg = b.msg /\ c.file = b.file
  BY <1>1 DEF Buffer
<1>4. Stream(c) = Stream(b)
  BY <1>3 DEF Stream
<1>5. Decodable(Stream(b), s)
  BY DEF Readable, Decodable
<1>6. Readable(c, s)
  BY <1>2, <1>3, <1>4, <1>5 DEF Readable, Faulty
<1>7. Running(b, st) => Running(c, s)
  BY <1>3, <1>4, <1>6 DEF Running
<1> QED BY <1>3, <1>4, <1>6, <1>7

LEMMA EmptyStream ==
  \A st : Decodable(<<>>, st) /\ NoData(<<>>)
BY EmptySeq DEF Decodable, NoData

LEMMA NewBufferFacts ==
  ASSUME NEW k \in BOOLEAN, NEW b, b = [NewBuffer EXCEPT !.stats_template_initialized = k]
  PROVE  /\ b \in Buffer /\ b.ok /\ ~b.fault /\ b.msg = <<>> /\ b.file = <<>>
         /\ Stream(b) = <<>>
<1>1. <<>> \in Seq(Item) /\ {} \in SUBSET Tid /\ Full \in Tid /\ Options \in Tid /\ 0 \in Nat
  BY EmptySeq, TidTypes
<1>2. /\ b = [msg |-> <<>>, file |-> <<>>, int |-> {}, ext |-> {}, itid |-> Full, etid |-> Options,
              stats_template_initialized |-> k, ok |-> TRUE, io |-> 0, fault |-> FALSE]
  BY DEF NewBuffer
<1>3. b \in Buffer
  <2>1. PICK y, n \in BOOLEAN : y = TRUE /\ n = FALSE
    OBVIOUS
  <2>2. PICK q \in Seq(Item), e \in SUBSET Tid, x, z \in Tid :
          q = <<>> /\ e = {} /\ x = Full /\ z = Options
    BY <1>1
  <2>3. b = [msg |-> q, file |-> q, int |-> e, ext |-> e, itid |-> x, etid |-> z,
             stats_template_initialized |-> k, ok |-> y, io |-> 0, fault |-> n]
    BY <1>2, <2>1, <2>2
  <2>4. [msg |-> q, file |-> q, int |-> e, ext |-> e, itid |-> x, etid |-> z,
         stats_template_initialized |-> k, ok |-> y, io |-> 0, fault |-> n] \in Buffer
    BY DEF Buffer
  <2> QED BY <2>3, <2>4
<1>4. b.ok /\ ~b.fault /\ b.msg = <<>> /\ b.file = <<>>
  BY <1>2
<1> QED BY <1>1, <1>3, <1>4, ConcatEmptySeq DEF Stream

(* A new output: its session's template is in the stream, and nothing else.*)
LEMMA WriterFacts ==
  ASSUME NEW b \in Buffer, b.ok, ~b.fault, NEW c, c = yfWriterForFile(b), NEW st
  PROVE  Running(c, st) /\ c.ok /\ c.itid = Full /\ NoData(Stream(c))
<1>1. PICK new : new = [b EXCEPT !.int = {Full, Options}, !.ext = {Options},
                                 !.msg = <<>>, !.file = <<>>]
  OBVIOUS
<1>2. PICK e : e = fbSessionExportTemplates(new)
  OBVIOUS
<1>3. c = fBufSetInternalTemplate(e, Full)
  BY <1>1, <1>2 DEF yfWriterForFile, yfInitExporterSession
<1>4. <<>> \in Seq(Item) /\ {Full, Options} \in SUBSET Tid /\ {Options} \in SUBSET Tid
  BY EmptySeq, TidTypes
<1>5. new \in Buffer
  BY <1>1, <1>4 DEF Buffer
<1>6. /\ new.int = {Full, Options} /\ new.ext = {Options} /\ new.msg = <<>> /\ new.file = <<>>
      /\ new.ok /\ ~new.fault
  BY <1>1 DEF Buffer
<1>7. Stream(new) = <<>>
  BY <1>4, <1>6, ConcatEmptySeq DEF Stream
<1>8. Extends(new, e, st) /\ e.ok /\ Defined(Stream(e), Options)
  BY <1>2, <1>5, <1>6, ExportOneTemplate, TidTypes
<1>9. Running(e, st)
  <2>1. Decodable(Stream(new), st) /\ Faulty(new)
    BY <1>6, <1>7, EmptyStream DEF Faulty
  <2>2. Readable(e, st)
    BY <1>8, <2>1 DEF Extends, SameSession, Readable
  <2>3. e.ext = {Options} /\ e.int = {Full, Options}
    BY <1>6, <1>8 DEF Extends, SameSession
  <2>4. IsFiniteSet({Options})
    BY FS_Singleton
  <2> QED BY <1>8, <2>2, <2>3, <2>4 DEF Running
<1>10. NoData(Stream(e))
  BY <1>7, <1>8, EmptyStream DEF Extends
<1>11. Running(c, st) /\ c.ok /\ c.itid = Full
  BY <1>3, <1>8, <1>9, SetInternal
<1>12. Stream(c) = Stream(e)
  <2>1. e \in Buffer /\ Full \in e.int
    BY <1>9 DEF Running, Readable
  <2>2. c = [e EXCEPT !.itid = Full]
    BY <1>3, <1>8, <2>1 DEF fBufSetInternalTemplate
  <2>3. c.msg = e.msg /\ c.file = e.file
    BY <2>1, <2>2 DEF Buffer
  <2> QED BY <2>3 DEF Stream
<1> QED BY <1>10, <1>11, <1>12

LEMMA DataFacts ==
  ASSUME NEW s \in Seq(Item)
  PROVE  Data(s) \in Nat /\ (NoData(s) => Data(s) = 0)
<1> DEFINE D == {i \in 1..Len(s) : s[i].kind # "template"}
<1>1. Len(s) \in Nat
  BY LenProperties
<1>2. IsFiniteSet(1..Len(s))
  BY <1>1, FS_Interval
<1>3. IsFiniteSet(D)
  <2>1. D \in SUBSET (1..Len(s))
    OBVIOUS
  <2> QED BY <1>2, <2>1, FS_Subset
<1>4. Cardinality(D) \in Nat
  BY <1>3, FS_CardinalityType
<1>5. NoData(s) => D = {}
  BY DEF NoData
<1>6. Data(s) = Cardinality(D)
  BY DEF Data
<1> HIDE DEF D
<1> QED BY <1>4, <1>5, <1>6, FS_EmptySet

----------------------------------------------------------------------------
(***************************************************************************)
(* The invariant of the export                                             *)
(***************************************************************************)
Books ==
  [calls : Nat, records : Int, kept : Nat, outputs : Nat, fault : BOOLEAN,
   error : BOOLEAN, stats : BOOLEAN]

(* An output that is open has a session that runs, with the internal       *)
(* template of flow records unless a statistics record failed; one that is *)
(* closed has nothing left to write.                                       *)
StreamInv ==
  /\ Readable(fb, books.stats) /\ fb.ok /\ ~fb.fault
  /\ xstate \in {"closed", "open", "failed", "done"}
  /\ xstate = "open" => Running(fb, books.stats) /\ (~books.stats => fb.itid = Full)
  /\ xstate \in {"closed", "done"} => Stream(fb) = <<>>

(* The books are right.                                                    *)
LedgerInv ==
  /\ books \in Books
  /\ xstate = "failed" => books.error
  /\ ~books.error => books.records = books.kept + Data(Stream(fb))
  /\ books.error => books.fault

ExportInv == StreamInv /\ LedgerInv

LEMMA EnteredFacts ==
  ASSUME ExportInv, NEW b \in Buffer, NEW e, e = Entered(b)
  PROVE  /\ e \in Books
         /\ e.records = books.records + Data(Stream(b)) - Data(Stream(fb))
         /\ e.kept = books.kept /\ e.stats = books.stats
         /\ e.fault = (books.fault \/ b.fault) /\ e.error = (books.error \/ ~b.ok)
<1>1. books \in Books /\ fb \in Buffer
  BY DEF ExportInv, StreamInv, LedgerInv, Readable
<1>2. Data(Stream(b)) \in Nat /\ Data(Stream(fb)) \in Nat
  BY <1>1, BufferFields, DataFacts
<1>3. PICK r \in Int : r = books.records + Data(Stream(b)) - Data(Stream(fb))
  BY <1>1, <1>2 DEF Books
<1>4. PICK f, o \in BOOLEAN : f = (books.fault \/ b.fault) /\ o = (books.error \/ ~b.ok)
  BY <1>1, BufferFields, Zenon DEF Books
<1>5. e = [books EXCEPT !.calls = @ + 1, !.records = r, !.fault = f, !.error = o]
  BY <1>3, <1>4 DEF Entered, Stream
<1>6. e \in Books
  <2>1. PICK n \in Nat : n = books.calls + 1
    BY <1>1 DEF Books
  <2>2. e = [books EXCEPT !.calls = n, !.records = r, !.fault = f, !.error = o]
    BY <1>5, <2>1
  <2> QED BY <1>1, <2>2 DEF Books
<1>7. /\ e.records = r /\ e.fault = f /\ e.error = o
      /\ e.kept = books.kept /\ e.stats = books.stats
  BY <1>1, <1>5 DEF Books
<1> QED BY <1>3, <1>4, <1>6, <1>7

(* A call that entered what it did keeps the books right.                  *)
LEMMA LedgerKept ==
  ASSUME ExportInv, NEW b \in Buffer, Faulty(b), NEW e, e = Entered(b),
         books' \in Books, books'.records = e.records, books'.kept = e.kept,
         books'.fault = e.fault, books'.error = e.error,
         Stream(fb)' = Stream(b), xstate' = "failed" => books'.error
  PROVE  LedgerInv'
<1>1. /\ e.records = books.records + Data(Stream(b)) - Data(Stream(fb))
      /\ e.kept = books.kept
      /\ e.fault = (books.fault \/ b.fault) /\ e.error = (books.error \/ ~b.ok)
  BY EnteredFacts
<1>2. fb \in Buffer /\ LedgerInv
  BY DEF ExportInv, StreamInv, Readable
<1>3. Data(Stream(b)) \in Nat /\ Data(Stream(fb)) \in Nat /\ books.records \in Int /\ books.kept \in Nat
  BY <1>2, BufferFields, DataFacts DEF LedgerInv, Books
<1>4. books'.error => books'.fault
  BY <1>1, <1>2 DEF LedgerInv, Faulty
<1>5. ~books'.error => books'.records = books'.kept + Data(Stream(b))
  <2>1. ~books'.error => ~books.error
    BY <1>1
  <2>2. ~books.error => books.records = books.kept + Data(Stream(fb))
    BY <1>2 DEF LedgerInv
  <2>3. /\ books'.records = books.records + Data(Stream(b)) - Data(Stream(fb))
        /\ books'.kept = books.kept
    BY <1>1
  <2> QED BY <1>3, <2>1, <2>2, <2>3
<1>6. Data(Stream(fb))' = Data(Stream(b))
  BY DEF Data
<1> QED BY <1>4, <1>5, <1>6 DEF LedgerInv

LEMMA OpenKeeps ==
  ASSUME ExportInv, yfOutputOpen
  PROVE  ExportInv'
<1>1. PICK b : b = Call(MaxEmits)
  OBVIOUS
<1>2. PICK c : c = yfWriterForFile(b)
  OBVIOUS
<1>3. /\ fb' = Returned(c) /\ xstate' = "open" /\ xstate = "closed"
      /\ books' = [books EXCEPT !.outputs = @ + 1]
  BY <1>1, <1>2 DEF yfOutputOpen, yfWriterForSpec
<1>4. b \in Buffer /\ b.ok /\ ~b.fault
  <2>1. fb \in Buffer /\ fb.ok /\ ~fb.fault /\ b = [fb EXCEPT !.io = MaxEmits] /\ MaxEmits \in Nat
    BY <1>1, ExportAssumption DEF ExportInv, StreamInv, Readable, Call
  <2> QED BY <2>1 DEF Buffer
<1>5. PICK st : st = books.stats
  OBVIOUS
<1>6. Running(c, st) /\ c.ok /\ c.itid = Full /\ NoData(Stream(c))
  BY <1>2, <1>4, WriterFacts
<1>7. PICK d : d = Returned(c)
  OBVIOUS
<1>8. /\ Readable(d, st) /\ d.ok /\ ~d.fault /\ d.itid = c.itid /\ Stream(d) = Stream(c)
      /\ Running(d, st)
  BY <1>6, <1>7, ReturnedFacts DEF Running
<1>9. /\ books' \in Books /\ books'.stats = st /\ books'.records = books.records
      /\ books'.kept = books.kept /\ books'.error = books.error /\ books'.fault = books.fault
  BY <1>3, <1>5 DEF ExportInv, LedgerInv, Books
<1>10. StreamInv'
  BY <1>3, <1>6, <1>7, <1>8, <1>9 DEF StreamInv
<1>11. Data(Stream(d)) = 0 /\ Data(Stream(fb)) = 0
  <2>1. Stream(d) \in Seq(Item) /\ Stream(fb) \in Seq(Item)
    BY <1>8, BufferFields DEF Readable, ExportInv, StreamInv
  <2>2. NoData(Stream(d)) /\ NoData(Stream(fb))
    BY <1>3, <1>6, <1>8, EmptyStream DEF ExportInv, StreamInv
  <2> QED BY <2>1, <2>2, DataFacts
<1>12. Data(Stream(fb))' = Data(Stream(d))
  BY <1>3, <1>7 DEF Data, Stream
<1>13. LedgerInv'
  BY <1>3, <1>9, <1>11, <1>12 DEF ExportInv, LedgerInv
<1> QED BY <1>10, <1>13 DEF ExportInv

LEMMA WriteFlowKeeps ==
  ASSUME ExportInv, NEW flow \in Flows, NEW io \in 0..MaxEmits, WriteFlow(flow, io)
  PROVE  ExportInv'
<1>1. io \in Nat
  BY ExportAssumption
<1>2. PICK a : a = Call(io)
  OBVIOUS
<1>3. PICK b : b = yfWriteFlow(a, flow)
  OBVIOUS
<1>4. /\ fb' = Returned(b) /\ xstate' = (IF b.ok THEN "open" ELSE "failed")
      /\ books' = Entered(b) /\ xstate = "open"
  BY <1>2, <1>3 DEF WriteFlow
<1>5. PICK st : st = books.stats
  OBVIOUS
<1>6. Running(fb, st) /\ (~st => fb.itid = Full)
  BY <1>4, <1>5 DEF ExportInv, StreamInv
<1>7. Running(a, st) /\ (~st => a.itid = Full)
  BY <1>1, <1>2, <1>6, CallFacts
<1>8. Wtid(flow) \in Tid
  BY DEF Wtid, Tid
<1>9. Readable(b, st) /\ (b.ok => Running(b, st) /\ b.itid = a.itid)
  BY <1>3, <1>7, <1>8, WriteFlowFacts
<1>10. PICK d : d = Returned(b)
  OBVIOUS
<1>11. /\ Readable(d, st) /\ d.ok /\ ~d.fault /\ d.itid = b.itid /\ Stream(d) = Stream(b)
       /\ Running(b, st) => Running(d, st)
  BY <1>9, <1>10, ReturnedFacts
<1>12. b \in Buffer /\ Faulty(b)
  BY <1>9 DEF Readable
<1>13. PICK e : e = Entered(b)
  OBVIOUS
<1>14. e \in Books /\ e.stats = st /\ e.error = (books.error \/ ~b.ok)
  BY <1>5, <1>12, <1>13, EnteredFacts
<1>15. StreamInv'
  BY <1>4, <1>7, <1>9, <1>10, <1>11, <1>13, <1>14 DEF StreamInv
<1>16. Stream(fb)' = Stream(b) /\ books' = e
  BY <1>4, <1>10, <1>11, <1>13 DEF Stream
<1>17. LedgerInv'
  BY <1>4, <1>12, <1>13, <1>14, <1>16, LedgerKept
<1> QED BY <1>15, <1>17 DEF ExportInv

LEMMA PeriodicKeeps ==
  ASSUME ExportInv, NEW stats \in BOOLEAN, NEW templates \in BOOLEAN,
         NEW io \in 0..MaxEmits, PeriodicExport(stats, templates, io)
  PROVE  ExportInv'
<1>1. io \in Nat
  BY ExportAssumption
<1>2. PICK a : a = Call(io)
  OBVIOUS
<1>3. PICK sent : sent = IF stats THEN yfWriteStatsRec(a) ELSE a
  OBVIOUS
<1>4. PICK b : b = IF templates /\ sent.ok THEN fbSessionExportTemplates(sent) ELSE sent
  OBVIOUS
<1>5. PICK e : e = Entered(b)
  OBVIOUS
<1>6. /\ fb' = Returned(b) /\ xstate' = "open" /\ xstate = "open"
      /\ books' = [e EXCEPT !.stats = @ \/ ~sent.ok]
  BY <1>2, <1>3, <1>4, <1>5 DEF PeriodicExport
<1>7. PICK st \in BOOLEAN : st = books.stats
  BY DEF ExportInv, LedgerInv, Books
<1>8. Running(fb, st) /\ (~st => fb.itid = Full) /\ fb.ok
  BY <1>6, <1>7 DEF ExportInv, StreamInv
<1>9. Running(a, st) /\ (~st => a.itid = Full)
  BY <1>1, <1>2, <1>8, CallFacts
<1>10. Running(sent, st) /\ (sent.ok => (~st => sent.itid = Full))
  <2>1. CASE stats
    <3>1. sent = yfWriteStatsRec(a)
      BY <1>3, <2>1
    <3> QED BY <1>9, <3>1, WriteStatsFacts
  <2>2. CASE ~stats
    BY <1>3, <1>9, <2>2
  <2> QED BY <2>1, <2>2
<1>11. Running(b, st) /\ b.itid = sent.itid
  <2>1. CASE templates /\ sent.ok
    <3>1. b = fbSessionExportTemplates(sent) /\ sent \in Buffer /\ IsFiniteSet(sent.ext)
      BY <1>4, <1>10, <2>1 DEF Running, Readable
    <3>2. Extends(sent, b, st)
      BY <3>1, ExportTemplatesFacts
    <3>3. Running(b, st)
      BY <1>10, <3>2, ExtendsRuns
    <3> QED BY <3>2, <3>3 DEF Extends, SameSession
  <2>2. CASE ~(templates /\ sent.ok)
    BY <1>4, <1>10, <2>2
  <2> QED BY <2>1, <2>2
<1>12. PICK s \in BOOLEAN : s = (st \/ ~sent.ok)
  <2>1. sent.ok \in BOOLEAN
    BY <1>10, BufferFields DEF Running, Readable
  <2> QED BY <2>1
<1>13. PICK d : d = Returned(b)
  OBVIOUS
<1>14. /\ Readable(d, s) /\ d.ok /\ ~d.fault /\ d.itid = b.itid /\ Stream(d) = Stream(b)
       /\ Running(d, s)
  <2>1. Readable(b, st) /\ (st => s)
    BY <1>11, <1>12 DEF Running
  <2> QED BY <1>11, <1>13, <2>1, ReturnedFacts
<1>15. b \in Buffer /\ Faulty(b)
  BY <1>11 DEF Running, Readable
<1>16. e \in Books /\ e.stats = st
  BY <1>5, <1>7, <1>15, EnteredFacts
<1>17. /\ books' \in Books /\ books'.stats = s /\ books'.records = e.records
       /\ books'.kept = e.kept /\ books'.fault = e.fault /\ books'.error = e.error
  <2>1. books' = [e EXCEPT !.stats = s]
    BY <1>6, <1>12, <1>16
  <2> QED BY <1>16, <2>1 DEF Books
<1>18. ~s => d.itid = Full
  BY <1>10, <1>11, <1>12, <1>14
<1>19. StreamInv'
  BY <1>6, <1>13, <1>14, <1>17, <1>18 DEF StreamInv
<1>20. Stream(fb)' = Stream(b)
  BY <1>6, <1>13, <1>14 DEF Stream
<1>21. LedgerInv'
  BY <1>5, <1>6, <1>15, <1>17, <1>20, LedgerKept
<1> QED BY <1>19, <1>21 DEF ExportInv

LEMMA CloseKeeps ==
  ASSUME ExportInv, NEW io \in 0..MaxEmits, NEW flush \in BOOLEAN, Closed(Call(io), flush),
         ~flush => books.error, xstate' \in {"closed", "done"}
  PROVE  ExportInv'
<1>1. io \in Nat
  BY ExportAssumption
<1>2. PICK a : a = Call(io)
  OBVIOUS
<1>3. PICK c : c = yfWriterClose(a, flush)
  OBVIOUS
<1>4. PICK e : e = Entered(c)
  OBVIOUS
<1>5. /\ books' = [e EXCEPT !.kept = @ + Data(c.file), !.stats = FALSE]
      /\ fb' = [NewBuffer EXCEPT !.stats_template_initialized = fb.stats_template_initialized]
  BY <1>2, <1>3, <1>4 DEF Closed
<1>6. fb \in Buffer /\ fb.ok /\ ~fb.fault /\ books \in Books
  BY DEF ExportInv, StreamInv, LedgerInv, Readable
<1>7. /\ a \in Buffer /\ a.ok /\ ~a.fault /\ Stream(a) = Stream(fb)
  <2>1. a = [fb EXCEPT !.io = io]
    BY <1>2 DEF Call
  <2>2. a \in Buffer
    BY <1>1, <1>6, <2>1 DEF Buffer
  <2>3. a.ok = fb.ok /\ a.fault = fb.fault /\ a.msg = fb.msg /\ a.file = fb.file
    BY <1>6, <2>1 DEF Buffer
  <2> QED BY <1>6, <2>2, <2>3 DEF Stream
<1>8. /\ c \in Buffer /\ Faulty(c) /\ Stream(c) = Stream(fb)
      /\ flush /\ c.ok => c.msg = <<>>
  <2>1. CASE flush
    <3>1. c = fBufEmit(a)
      BY <1>3, <2>1 DEF yfWriterClose
    <3>2. SameSession(a, c) /\ Stream(c) = Stream(a) /\ (c.ok => c.msg = <<>>)
      BY <1>7, <3>1, EmitFacts
    <3> QED BY <1>7, <3>2 DEF SameSession, Faulty
  <2>2. CASE ~flush
    BY <1>3, <1>7, <2>2 DEF yfWriterClose, Faulty
  <2> QED BY <2>1, <2>2
<1>9. /\ e \in Books /\ e.kept = books.kept
      /\ e.records = books.records + Data(Stream(c)) - Data(Stream(fb))
      /\ e.fault = (books.fault \/ c.fault) /\ e.error = (books.error \/ ~c.ok)
  BY <1>4, <1>8, EnteredFacts
<1>10. Data(c.file) \in Nat /\ Data(Stream(fb)) \in Nat
  BY <1>6, <1>8, BufferFields, DataFacts
<1>11. /\ books' \in Books /\ ~books'.stats /\ books'.records = e.records
       /\ books'.kept = e.kept + Data(c.file)
       /\ books'.fault = e.fault /\ books'.error = e.error
  <2>1. PICK n \in BOOLEAN, k \in Nat : n = FALSE /\ k = e.kept + Data(c.file)
    <3>1. e.kept \in Nat
      BY <1>9 DEF Books
    <3>2. e.kept + Data(c.file) \in Nat
      BY <1>10, <3>1
    <3> QED BY <3>2
  <2>2. books' = [e EXCEPT !.kept = k, !.stats = n]
    BY <1>5, <2>1
  <2>3. /\ books' \in Books /\ books'.stats = n /\ books'.records = e.records
        /\ books'.kept = k /\ books'.fault = e.fault /\ books'.error = e.error
    BY <1>9, <2>2 DEF Books
  <2> QED BY <2>1, <2>3
<1>12. /\ fb' \in Buffer /\ fb'.ok /\ ~fb'.fault /\ fb'.msg = <<>> /\ fb'.file = <<>>
       /\ Stream(fb)' = <<>>
  <2>k. PICK k \in BOOLEAN : k = fb.stats_template_initialized
    BY <1>6, BufferFields
  <2>1. PICK d : k = fb.stats_template_initialized
          /\ d = [NewBuffer EXCEPT !.stats_template_initialized = k]
    BY <2>k
  <2>2. d \in Buffer /\ d.ok /\ ~d.fault /\ d.msg = <<>> /\ d.file = <<>> /\ Stream(d) = <<>>
    BY <2>1, NewBufferFacts
  <2>3. fb' = d
    BY <1>5, <2>1
  <2> QED BY <2>2, <2>3 DEF Stream
<1>13. StreamInv'
  <2>1. PICK s : s = books'.stats
    OBVIOUS
  <2>2. PICK d : d = fb'
    OBVIOUS
  <2>3. Stream(d) = <<>> /\ Decodable(Stream(d), s) /\ d \in Buffer /\ Faulty(d)
    BY <1>12, <2>2, EmptyStream DEF Stream, Faulty
  <2>4. Readable(d, s)
    BY <2>3 DEF Readable
  <2> QED BY <1>12, <2>1, <2>2, <2>4 DEF StreamInv
<1>14. LedgerInv'
  <2>1. books'.error => books'.fault
    BY <1>8, <1>9, <1>11 DEF ExportInv, LedgerInv, Faulty
  <2>2. ~books'.error => books'.records = books'.kept
    <3> SUFFICES ASSUME ~books'.error
                 PROVE  books'.records = books'.kept
      OBVIOUS
    <3>1. ~books.error /\ c.ok /\ c.msg = <<>>
      BY <1>8, <1>9, <1>11
    <3>2. c.file = Stream(fb)
      BY <1>8, <3>1, BufferFields, ConcatEmptySeq DEF Stream
    <3>3. books.records = books.kept + Data(Stream(fb))
      BY <3>1 DEF ExportInv, LedgerInv
    <3>4. books.records \in Int /\ books.kept \in Nat
      BY <1>6 DEF Books
    <3> QED BY <1>8, <1>9, <1>10, <1>11, <3>2, <3>3, <3>4
  <2>3. Data(Stream(fb))' = 0
    <3>1. Data(<<>>) = 0
      <4>1. <<>> \in Seq(Item) /\ NoData(<<>>)
        BY EmptySeq, EmptyStream
      <4> QED BY <4>1, DataFacts
    <3>2. Data(Stream(fb))' = Data(<<>>)
      BY <1>12 DEF Data
    <3> QED BY <3>1, <3>2
  <2>4. books'.kept \in Nat
    BY <1>11 DEF Books
  <2> QED BY <1>11, <2>1, <2>2, <2>3, <2>4 DEF LedgerInv
<1> QED BY <1>13, <1>14 DEF ExportInv

LEMMA ExportInvariant == ExportSpec => []ExportInv
<1>1. ExportInit => ExportInv
  <2> SUFFICES ASSUME ExportInit
               PROVE  ExportInv
    OBVIOUS
  <2>n. PICK n \in BOOLEAN : n = FALSE
    OBVIOUS
  <2>1. PICK b : n = FALSE /\ b = [NewBuffer EXCEPT !.stats_template_initialized = n]
    BY <2>n
  <2>2. fb = b
    BY <2>1 DEF ExportInit, NewBuffer
  <2>3. /\ b \in Buffer /\ b.ok /\ ~b.fault /\ Stream(b) = <<>>
    BY <2>1, NewBufferFacts
  <2>4. books = [calls |-> 0, records |-> 0, kept |-> 0, outputs |-> 0,
                 fault |-> n, error |-> n, stats |-> n]
    BY <2>1 DEF ExportInit
  <2>5. books \in Books /\ books.records = 0 /\ books.kept = 0 /\ ~books.error /\ xstate = "closed"
    BY <2>1, <2>4 DEF Books, ExportInit
  <2>6. Decodable(Stream(b), books.stats) /\ Faulty(b)
    BY <2>3, EmptyStream DEF Faulty
  <2>7. StreamInv
    BY <2>2, <2>3, <2>5, <2>6 DEF StreamInv, Readable
  <2>8. Data(Stream(fb)) = 0
    <3>1. <<>> \in Seq(Item) /\ NoData(<<>>)
      BY EmptySeq, EmptyStream
    <3> QED BY <2>2, <2>3, <3>1, DataFacts
  <2> QED BY <2>5, <2>7, <2>8 DEF ExportInv, LedgerInv
<1>2. ExportInv /\ [ExportNext]_exportVars => ExportInv'
  <2> SUFFICES ASSUME ExportInv, [ExportNext]_exportVars
               PROVE  ExportInv'
    OBVIOUS
  <2>1. CASE yfOutputOpen
    BY <2>1, OpenKeeps
  <2>2. ASSUME NEW io \in 0..MaxEmits, NEW flow \in Flows, WriteFlow(flow, io)
        PROVE  ExportInv'
    BY <2>2, WriteFlowKeeps
  <2>3. ASSUME NEW io \in 0..MaxEmits, NEW stats \in BOOLEAN, NEW templates \in BOOLEAN,
               PeriodicExport(stats, templates, io)
        PROVE  ExportInv'
    BY <2>3, PeriodicKeeps
  <2>4. ASSUME NEW io \in 0..MaxEmits, Rotate(io)
        PROVE  ExportInv'
    <3>1. PICK y \in BOOLEAN : y = TRUE
      OBVIOUS
    <3>2. Closed(Call(io), y) /\ xstate' \in {"closed", "done"} /\ (~y => books.error)
      BY <2>4, <3>1 DEF Rotate
    <3> QED BY <3>2, CloseKeeps
  <2>5. ASSUME NEW io \in 0..MaxEmits, FinalClose(io)
        PROVE  ExportInv'
    <3>1. PICK y \in BOOLEAN : y = (xstate = "open")
      OBVIOUS
    <3>2. Closed(Call(io), y) /\ xstate' \in {"closed", "done"} /\ (~y => books.error)
      BY <2>5, <3>1 DEF FinalClose, ExportInv, LedgerInv
    <3> QED BY <3>2, CloseKeeps
  <2>6. CASE UNCHANGED exportVars
    BY <2>6 DEF exportVars, ExportInv, StreamInv, LedgerInv, Running, Readable, Stream, Faulty,
                Data, Decodable
  <2> QED BY <2>1, <2>2, <2>3, <2>4, <2>5, <2>6 DEF ExportNext
<1> QED BY <1>1, <1>2, PTL DEF ExportSpec

(* Every record of an output comes after its template and is encoded from  *)
(* the structure of its kind, through rotation, failed emission and        *)
(* exporting templates again (yfSetExportTemplate, yfWriteStatsRec): for   *)
(* every set of flows and every size of message.                           *)
THEOREM RecordsAlwaysDecodable == ExportSpec => []RecordsDecodable
<1>1. ExportInv => RecordsDecodable
  BY DEF ExportInv, StreamInv, Readable, Decodable, Encoded, Stream, RecordsDecodable
<1> QED BY <1>1, ExportInvariant, PTL

(* Records are lost only after an error, and errors come from emission     *)
(* alone (yfWriterClose, yfEnsureStatsTemplate and its static flag).       *)
THEOREM RecordsAlwaysReachOutput == ExportSpec => []RecordsReachOutput
<1>1. ExportInv => RecordsReachOutput
  BY DEF ExportInv, LedgerInv, Stream, RecordsReachOutput
<1> QED BY <1>1, ExportInvariant, PTL

----------------------------------------------------------------------------
(***************************************************************************)
(* The startup                                                             *)
(***************************************************************************)
(* The loops over a template and over an interface map are folds over      *)
(* places.                                                                 *)
LEMMA ElementsFold ==
  ASSUME NEW c, NEW ies
  PROVE  FoldLeft(qfConfigIE, c, ies) = Folding("element", DOMAIN ies, c, ies)[DOMAIN ies]
BY DEF FoldLeft, MapThenFoldSet, Folding, Step, Taken, Highest, Max

LEMMA EntriesFold ==
  ASSUME NEW c, NEW node
  PROVE  LET Entries(t, b) == Folding(t, DOMAIN node.items, b, node.items)[DOMAIN node.items]
             Used(all) == IF all.ok THEN [all EXCEPT !.uses = @ \cup {"interface-map"}] ELSE all
             b == qfYamlRequireEvent(c, node, "sequence")
         IN  /\ qfYamlInterfaceMap(c, node, TRUE) = Used(Entries("large", b))
             /\ qfYamlInterfaceMap(c, node, FALSE) = Used(Entries("small", b))
BY DEF qfYamlInterfaceMap, FoldLeft, MapThenFoldSet, Folding, Step, Taken, Highest, Max

(* The fields of the settings, the features that elements enable           *)
(* (cfg_ie_features), and settings whose features are those of their       *)
(* template.                                                               *)
CtxFields == {"scalar", "enable", "biflow", "spec", "ifmap", "nets", "macs", "uses", "rotate",
              "rtx", "stats", "detune", "out", "user", "ok"}

Feat(ies) == {q[2] : q \in {r \in cfg_ie_features : r[1] \in ies}}
Fits(c) ==
  /\ Feat(ToSet(c.spec)) \subseteq c.enable /\ c.enable \subseteq Feat(ToSet(c.spec)) \cup {"mac"}
  /\ c.biflow \in BOOLEAN /\ (c.biflow <=> ToSet(c.spec) \cap ReverseIEs # {})

(* What elements of a template (qfConfigIE) and entries of an interface    *)
(* map change, and what they leave alone.                                  *)
Grown(b, c) ==
  /\ DOMAIN c = CtxFields
  /\ \A f \in CtxFields \ {"ok", "spec", "enable", "biflow"} : c[f] = b[f]
  /\ b.enable \subseteq c.enable
  /\ c.spec \in Seq(Exportable)
  /\ Fits(b) => Fits(c)

Mapped(b, c) == DOMAIN c = CtxFields /\ \A f \in CtxFields \ {"ok", "ifmap"} : c[f] = b[f]

(* yfWriterExportIE appends an element, once, or fails.                    *)
LEMMA ElementAdded ==
  ASSUME NEW c, c.spec \in Seq(Exportable), DOMAIN c = CtxFields, NEW ie
  PROVE  LET new == yfWriterExportIE(c, ie)
         IN  \/ new = [c EXCEPT !.ok = FALSE]
             \/ \E s \in Seq(Exportable) : /\ new = [c EXCEPT !.spec = s]
                                         /\ ToSet(s) = ToSet(c.spec) \cup {ie}
                                         /\ s # <<>>
<1> DEFINE room == SpecSize - 1 - Len(c.spec)
           n == IF Len(Copies(ie)) <= room THEN Len(Copies(ie)) ELSE room
           new == yfWriterExportIE(c, ie)
           s == c.spec \o SubSeq(Copies(ie), 1, n)
<1>1. CASE room <= 0 \/ ie \notin Exportable
  <2>1. new = [c EXCEPT !.ok = FALSE]
    BY <1>1, Zenon DEF yfWriterExportIE
  <2> QED BY <2>1
<1>2. CASE ~(room <= 0 \/ ie \notin Exportable)
  <2>1. new = [c EXCEPT !.spec = s]
    <3>1. new = [c EXCEPT !.spec = @ \o SubSeq(Copies(ie), 1, n)]
      BY <1>2, Zenon DEF yfWriterExportIE
    <3> QED BY <3>1
  <2>2. Len(c.spec) \in Nat /\ SpecSize \in Nat
    BY ConfigAssumption, LenProperties
  <2>3. Copies(ie) \in Seq({ie}) /\ Len(Copies(ie)) \in 1..2
        /\ \A i \in 1..Len(Copies(ie)) : Copies(ie)[i] = ie
    <3>1. Copies(ie) = <<ie, ie>> \/ Copies(ie) = <<ie>>
      BY Zenon DEF Copies
    <3>2. CASE Copies(ie) = <<ie, ie>>
      BY <3>2
    <3>3. CASE Copies(ie) = <<ie>>
      BY <3>3
    <3> QED BY <3>1, <3>2, <3>3
  <2>4. n \in 1..Len(Copies(ie))
    <3>1. PICK m \in 1..2 : m = Len(Copies(ie))
      BY <2>3
    <3>a. room \in Int
      BY <2>2
    <3>b. ~(room <= 0)
      BY <1>2, Zenon
    <3> HIDE DEF room
    <3>2. room \in Nat /\ room > 0
      BY <3>a, <3>b
    <3>3. n = IF m <= room THEN m ELSE room
      BY <3>1
    <3>4. n \in 1..m
      BY <3>1, <3>2, <3>3
    <3> QED BY <3>1, <3>4
  <2>5. DEFINE one == SubSeq(Copies(ie), 1, n)
  <2>6. one \in Seq({ie}) /\ Len(one) = n /\ \A i \in 1..n : one[i] = ie
    BY <2>3, <2>4, SubSeqProperties
  <2> HIDE DEF n, one
  <2>7. s = c.spec \o one
    BY DEF one
  <2>8. one \in Seq(Exportable) /\ {ie} \subseteq Exportable
    BY <1>2, <2>6
  <2> HIDE DEF s
  <2>9. s \in Seq(Exportable) /\ Len(s) = Len(c.spec) + Len(one)
        /\ \A i \in 1..Len(s) : s[i] = IF i <= Len(c.spec) THEN c.spec[i] ELSE one[i - Len(c.spec)]
    BY <2>7, <2>8, ConcatProperties
  <2>10. ToSet(s) = ToSet(c.spec) \cup {ie}
    <3>1. DOMAIN s = 1..Len(s) /\ DOMAIN c.spec = 1..Len(c.spec)
      BY <2>9, LenProperties
    <3>2. \A i \in 1..Len(s) : s[i] \in ToSet(c.spec) \cup {ie}
      <4> TAKE i \in 1..Len(s)
      <4>1. CASE i <= Len(c.spec)
        BY <4>1, <3>1, <2>9, <2>2 DEF ToSet
      <4>2. CASE ~(i <= Len(c.spec))
        <5>1. i - Len(c.spec) \in 1..n
          BY <4>2, <2>9, <2>2, <2>6, <2>4, <2>3
        <5> QED BY <5>1, <4>2, <2>9, <2>6
      <4> QED BY <4>1, <4>2
    <3>3. \A i \in 1..Len(c.spec) : i \in 1..Len(s) /\ s[i] = c.spec[i]
      BY <2>2, <2>3, <2>4, <2>6, <2>9
    <3>4. Len(s) \in 1..Len(s) /\ s[Len(s)] = ie
      <4>1. Len(s) = Len(c.spec) + n /\ n \in Nat /\ n > 0
        BY <2>3, <2>4, <2>6, <2>9
      <4>2. n \in 1..n /\ Len(s) - Len(c.spec) = n /\ ~(Len(s) <= Len(c.spec)) /\ Len(s) \in 1..Len(s)
        BY <4>1, <2>2
      <4> QED BY <4>2, <2>6, <2>9
    <3>5. ToSet(s) \subseteq ToSet(c.spec) \cup {ie}
      BY <3>1, <3>2 DEF ToSet
    <3>6. ToSet(c.spec) \subseteq ToSet(s)
      BY <3>1, <3>3 DEF ToSet
    <3>7. ie \in ToSet(s)
      BY <3>1, <3>4 DEF ToSet
    <3> QED BY <3>5, <3>6, <3>7
  <2>11. s # <<>>
    BY <2>2, <2>3, <2>4, <2>6, <2>9, EmptySeq
  <2> QED BY <2>1, <2>9, <2>10, <2>11
<1> QED BY <1>1, <1>2

LEMMA FeatOf ==
  ASSUME NEW ies, NEW ie
  PROVE  Feat(ies \cup {ie})
           = Feat(ies) \cup {q[2] : q \in {r \in cfg_ie_features : r[1] = ie}}
<1> HIDE DEF cfg_ie_features
<1> QED BY DEF Feat

(* One element brings its features and, if it is a reverse element,        *)
(* biflows.                                                                *)
LEMMA FitsFor ==
  ASSUME NEW c, NEW d, Fits(c), NEW ie,
         ToSet(d.spec) = ToSet(c.spec) \cup {ie},
         d.enable = c.enable \cup {q[2] : q \in {r \in cfg_ie_features : r[1] = ie}},
         d.biflow = (c.biflow \/ ie \in ReverseIEs)
  PROVE  Fits(d)
<1>1. Feat(ToSet(d.spec))
           = Feat(ToSet(c.spec)) \cup {q[2] : q \in {r \in cfg_ie_features : r[1] = ie}}
  <2>1. PICK S : S = ToSet(c.spec)
    OBVIOUS
  <2>2. Feat(S \cup {ie})
           = Feat(S) \cup {q[2] : q \in {r \in cfg_ie_features : r[1] = ie}}
    BY FeatOf, Zenon
  <2> QED BY <2>1, <2>2, Zenon
<1> DEFINE more == {q[2] : q \in {r \in cfg_ie_features : r[1] = ie}}
           fc == Feat(ToSet(c.spec))
           fd == Feat(ToSet(d.spec))
<1>2. fd = fc \cup more /\ fc \subseteq c.enable /\ c.enable \subseteq fc \cup {"mac"}
      /\ d.enable = c.enable \cup more
  BY <1>1 DEF Fits
<1> HIDE DEF more, fc, fd
<1>3. fd \subseteq d.enable /\ d.enable \subseteq fd \cup {"mac"}
  BY <1>2
<1>4. d.biflow \in BOOLEAN
  OBVIOUS
<1>5. c.biflow <=> ToSet(c.spec) \cap ReverseIEs # {}
  BY DEF Fits
<1>6. d.biflow <=> c.biflow \/ ie \in ReverseIEs
  OBVIOUS
<1> HIDE DEF ReverseIEs
<1>7. (ToSet(d.spec) \cap ReverseIEs # {}) <=> (ToSet(c.spec) \cap ReverseIEs # {}) \/ ie \in ReverseIEs
  OBVIOUS
<1>8. d.biflow <=> ToSet(d.spec) \cap ReverseIEs # {}
  BY <1>5, <1>6, <1>7
<1> QED BY <1>3, <1>4, <1>8 DEF Fits, fd

LEMMA ElementGrows ==
  ASSUME NEW b, NEW c, Grown(b, c), NEW ie
  PROVE  Grown(b, qfConfigIE(c, ie))
         /\ (qfConfigIE(c, ie).ok => c.ok /\ qfConfigIE(c, ie).spec # <<>>)
<1> DEFINE new == yfWriterExportIE(c, ie)
           d == qfConfigIE(c, ie)
           more == {p[2] : p \in {q \in cfg_ie_features : q[1] = ie}}
<1>0. DOMAIN c = CtxFields /\ c.spec \in Seq(Exportable)
  BY DEF Grown
<1>1. \/ d = [c EXCEPT !.ok = FALSE]
      \/ c.ok /\ new.ok /\ d = [new EXCEPT !.biflow = @ \/ ie \in ReverseIEs, !.enable = @ \cup more]
  BY Zenon DEF qfConfigIE
<1>2. CASE d = [c EXCEPT !.ok = FALSE]
  <2>1. DOMAIN d = CtxFields /\ \A f \in CtxFields \ {"ok"} : d[f] = c[f]
    BY <1>0, <1>2 DEF CtxFields
  <2>2. ~d.ok
    BY <1>0, <1>2 DEF CtxFields
  <2>3. d.spec = c.spec /\ d.enable = c.enable /\ d.biflow = c.biflow
    BY <2>1 DEF CtxFields
  <2>4. Fits(c) => Fits(d)
    BY <2>3, Zenon DEF Fits
  <2> HIDE DEF d
  <2>5. \A f \in CtxFields \ {"ok", "spec", "enable", "biflow"} : d[f] = b[f]
    BY <2>1 DEF Grown
  <2>6. Grown(b, d)
    BY <2>1, <2>3, <2>4, <2>5 DEF Grown
  <2> QED BY <2>2, <2>6 DEF d
<1>3. CASE c.ok /\ new.ok /\ d = [new EXCEPT !.biflow = @ \/ ie \in ReverseIEs, !.enable = @ \cup more]
  <2>1. PICK s \in Seq(Exportable) : /\ new = [c EXCEPT !.spec = s]
                                     /\ ToSet(s) = ToSet(c.spec) \cup {ie}
                                     /\ s # <<>>
    <3>1. new = [c EXCEPT !.ok = FALSE] => ~new.ok
      BY <1>0 DEF CtxFields
    <3> QED BY <3>1, <1>0, <1>3, ElementAdded
  <2>2. DOMAIN new = CtxFields /\ new.spec = s /\ \A f \in CtxFields \ {"spec"} : new[f] = c[f]
    BY <2>1, <1>0 DEF CtxFields
  <2> HIDE DEF new, more
  <2>3. PICK m : m = more
    OBVIOUS
  <2>4. PICK r \in BOOLEAN : r = (new.biflow \/ ie \in ReverseIEs)
    OBVIOUS
  <2>5. d = [new EXCEPT !.biflow = r, !.enable = @ \cup m]
    BY <1>3, <2>3, <2>4
  <2> HIDE DEF d
  <2>6. DOMAIN d = CtxFields /\ d.spec = s /\ d.biflow = r /\ d.enable = new.enable \cup m
        /\ \A f \in CtxFields \ {"spec", "biflow", "enable"} : d[f] = new[f]
    BY <2>2, <2>5 DEF CtxFields
  <2>7. new.enable = c.enable /\ new.biflow = c.biflow /\ c.ok = new.ok /\ d.ok = new.ok
    BY <2>2, <2>6 DEF CtxFields
  <2>8. Fits(c) => Fits(d)
    BY <2>1, <2>3, <2>4, <2>6, <2>7, FitsFor DEF more
  <2>9. \A f \in CtxFields \ {"ok", "spec", "enable", "biflow"} : d[f] = b[f]
    BY <2>2, <2>6 DEF Grown
  <2>10. b.enable \subseteq d.enable
    BY <2>6, <2>7 DEF Grown
  <2>11. Fits(b) => Fits(d)
    BY <2>8 DEF Grown
  <2>12. Grown(b, d)
    BY <2>6, <2>9, <2>10, <2>11 DEF Grown
  <2> QED BY <1>3, <2>1, <2>6, <2>12 DEF d
<1> QED BY <1>1, <1>2, <1>3

(* An entry of the interface map changes the map and, if it fails, ok.     *)
LEMMA EntryMaps ==
  ASSUME NEW b, NEW c, Mapped(b, c), NEW pairs, NEW large \in BOOLEAN
  PROVE  Mapped(b, MapEntry(c, pairs, large))
<1> DEFINE d == MapEntry(c, pairs, large)
<1>0. DOMAIN c = CtxFields
  BY DEF Mapped
<1>1. \E ok, map : d = [c EXCEPT !.ok = ok, !.ifmap = map]
  <2> DEFINE e == FoldLeft(qfYamlParseMapEntry, [ok |-> TRUE, v4 |-> FALSE, v6 |-> FALSE], pairs)
             map == c.ifmap \o (IF e.v4 THEN <<"v4">> ELSE <<>>) \o (IF e.v6 THEN <<"v6">> ELSE <<>>)
             ok == c.ok /\ ~large
  <2>1. d = [c EXCEPT !.ok = FALSE] \/ d = [c EXCEPT !.ok = ok, !.ifmap = map]
    BY Zenon DEF MapEntry
  <2> HIDE DEF d, map, ok
  <2>2. [c EXCEPT !.ok = FALSE] = [c EXCEPT !.ok = FALSE, !.ifmap = c.ifmap]
    BY <1>0 DEF CtxFields
  <2> QED BY <2>1, <2>2
<1>2. PICK ok, map : d = [c EXCEPT !.ok = ok, !.ifmap = map]
  BY <1>1
<1> HIDE DEF d
<1>3. DOMAIN d = CtxFields /\ \A f \in CtxFields \ {"ok", "ifmap"} : d[f] = c[f]
  BY <1>0, <1>2 DEF CtxFields
<1> QED BY <1>3 DEF Mapped, d

(* Folds from the left grow, if each step does.                            *)
LEMMA ElementsGrow ==
  ASSUME NEW b, DOMAIN b = CtxFields, b.spec \in Seq(Exportable), NEW ies, ies \in Seq(ToSet(ies))
  PROVE  /\ Grown(b, FoldLeft(qfConfigIE, b, ies))
         /\ FoldLeft(qfConfigIE, b, ies).ok =>
              b.ok /\ (ies # <<>> => FoldLeft(qfConfigIE, b, ies).spec # <<>>)
<1>1. PICK n \in Nat : n = Len(ies) /\ DOMAIN ies = 1..n
  BY LenProperties
<1>2. PICK S : S = 1..n
  OBVIOUS
<1>3. Foldable("element", S)
  BY <1>2 DEF Foldable
<1>4. PICK f : f = Folding("element", S, b, ies)
  OBVIOUS
<1>5. \A s \in SUBSET S : f[s] = FoldAt("element", b, ies, f, s)
  <2>1. \A s \in SUBSET S : Folding("element", S, b, ies)[s]
                             = FoldAt("element", b, ies, Folding("element", S, b, ies), s)
    BY <1>3, FoldingFolds, Zenon
  <2> QED BY <1>4, <2>1, Zenon
<1>6. FoldLeft(qfConfigIE, b, ies) = f[S]
  BY <1>1, <1>2, <1>4, ElementsFold
<1> DEFINE Good == {s \in SUBSET S : /\ Grown(b, f[s])
                                     /\ f[s].ok => b.ok /\ (s # {} => f[s].spec # <<>>)}
<1>7. {} \in Good
  <2>1. f[{}] = b
    BY <1>5 DEF FoldAt
  <2>2. Grown(b, b)
    BY DEF Grown
  <2> QED BY <2>1, <2>2
<1>8. ASSUME NEW s \in SUBSET S, s # {}, Rest("element", s) \in Good
      PROVE  s \in Good
  <2>1. PICK c : c = f[Rest("element", s)]
    OBVIOUS
  <2>2. PICK ie : ie = ies[Taken("element", s)]
    OBVIOUS
  <2>3. Grown(b, c) /\ (c.ok => b.ok)
    BY <1>8, <2>1
  <2>4. f[s] = qfConfigIE(c, ie)
    BY <1>5, <1>8, <2>1, <2>2 DEF FoldAt, Step
  <2>5. Grown(b, qfConfigIE(c, ie))
         /\ (qfConfigIE(c, ie).ok => c.ok /\ qfConfigIE(c, ie).spec # <<>>)
    BY <2>3, ElementGrows
  <2> QED BY <2>3, <2>4, <2>5
<1>9. S \in Good
  <2> HIDE DEF Good
  <2> QED BY <1>3, <1>7, <1>8, FoldInduction
<1>10. ies # <<>> => S # {}
  <2>1. n = 0 => ies = <<>>
    BY <1>1, EmptySeq
  <2>2. n # 0 => 1 \in 1..n
    OBVIOUS
  <2> QED BY <1>2, <2>1, <2>2
<1> QED BY <1>6, <1>9, <1>10

LEMMA EntriesMap ==
  ASSUME NEW b, DOMAIN b = CtxFields, NEW list, list \in Seq(ToSet(list)),
         NEW t \in {"large", "small"}
  PROVE  Mapped(b, Folding(t, DOMAIN list, b, list)[DOMAIN list])
<1>1. PICK n \in Nat : DOMAIN list = 1..n
  BY LenProperties
<1>2. PICK S : S = 1..n
  OBVIOUS
<1>3. Foldable(t, S)
  BY <1>2 DEF Foldable
<1>4. PICK f : f = Folding(t, S, b, list)
  OBVIOUS
<1>5. \A s \in SUBSET S : f[s] = FoldAt(t, b, list, f, s)
  <2>1. \A s \in SUBSET S : Folding(t, S, b, list)[s]
                             = FoldAt(t, b, list, Folding(t, S, b, list), s)
    <3> HIDE <1>1, <1>2, <1>4
    <3> QED BY ONLY <1>3, FoldingFolds
  <2> QED BY <1>4, <2>1, Zenon
<1> DEFINE Good == {s \in SUBSET S : Mapped(b, f[s])}
<1>6. {} \in Good
  <2>1. f[{}] = b
    BY <1>5 DEF FoldAt
  <2>2. Mapped(b, b)
    BY DEF Mapped
  <2> QED BY <2>1, <2>2
<1>7. ASSUME NEW s \in SUBSET S, s # {}, Rest(t, s) \in Good
      PROVE  s \in Good
  <2>1. PICK c : c = f[Rest(t, s)]
    OBVIOUS
  <2>2. PICK pairs : pairs = list[Taken(t, s)]
    OBVIOUS
  <2>3. Mapped(b, c)
    BY <1>7, <2>1
  <2>4. f[s] = Step(t, c, pairs)
    BY <1>5, <1>7, <2>1, <2>2 DEF FoldAt
  <2>5. f[s] = MapEntry(c, pairs, TRUE) \/ f[s] = MapEntry(c, pairs, FALSE)
    BY <2>4 DEF Step
  <2>6. Mapped(b, MapEntry(c, pairs, TRUE)) /\ Mapped(b, MapEntry(c, pairs, FALSE))
    BY <2>3, EntryMaps
  <2> QED BY <2>5, <2>6
<1>8. S \in Good
  <2> HIDE DEF Good
  <2> QED BY <1>3, <1>6, <1>7, FoldInduction
<1>9. DOMAIN list = S
  BY <1>1, <1>2
<1> QED BY <1>4, <1>8, <1>9, Zenon

(* The keys by what they set, and what the document may give for one.      *)
Booleans == {"force-biflow", "gre-decap", "silk-compatible"}
Numbers == {"active-timeout", "idle-timeout", "max-flows", "max-frags", "active-timeout-rtts",
            "active-timeout-octets", "active-timeout-packets"}
Keys == Numbers \cup Booleans
Lists == {"interface-map", "source-net", "source-mac"}
Pairs == {<<kn[1], kn[2].items[1]>> : kn \in {q \in DocNodes : q[2].kind = "scalar"}}

(* What a key with its node does to the settings.                          *)
Applied(key, node, c) ==
  /\ DOMAIN c = CtxFields /\ c.spec \in Seq(Exportable)
  /\ \A f \in {"rotate", "rtx", "stats", "out", "user"} : c[f] = ctx[f]
  /\ ctx.enable \subseteq c.enable /\ (key = "source-mac" => "mac" \in c.enable)
  /\ c.uses = ctx.uses \cup ({key} \cap Lists)
  /\ IF key \in Keys
     THEN /\ node.kind = "scalar"
          /\ \E v : /\ c.scalar = [ctx.scalar EXCEPT ![key] = v]
                    /\ key \in Numbers => v = node.items[1] /\ v \in Nat
                    /\ key \in Booleans => (v # 0 <=> node.items[1] # 0)
     ELSE c.scalar = ctx.scalar
  /\ key # "template" => c.spec = ctx.spec
  /\ Fits(ctx) /\ (key = "template" => ctx.spec = <<>>) => Fits(c)

LEMMA SettingKeys ==
  /\ UNION {cfg_key_actions[t] : t \in {"U32", "U64", "BOOL"}} = Keys
  /\ cfg_key_actions.BOOL = Booleans
<1>1. /\ cfg_key_actions["U32"] = {"active-timeout", "idle-timeout", "max-flows", "max-frags", "active-timeout-rtts"}
      /\ cfg_key_actions["U64"] = {"active-timeout-octets", "active-timeout-packets"}
      /\ cfg_key_actions["BOOL"] = Booleans
  BY DEF cfg_key_actions, Booleans
<1>2. UNION {cfg_key_actions[t] : t \in {"U32", "U64", "BOOL"}}
        = cfg_key_actions["U32"] \cup cfg_key_actions["U64"] \cup cfg_key_actions["BOOL"]
  OBVIOUS
<1> QED BY <1>1, <1>2 DEF Keys, Numbers

(* A node of another kind than is required is an error, and no more.       *)
LEMMA EventRequired ==
  ASSUME NEW c, DOMAIN c = CtxFields, NEW node, NEW kind
  PROVE  LET d == qfYamlRequireEvent(c, node, kind)
         IN  /\ DOMAIN d = CtxFields /\ \A f \in CtxFields \ {"ok"} : d[f] = c[f]
             /\ d.ok => c.ok /\ node.kind = kind
<1>1. PICK r \in BOOLEAN : r = (c.ok /\ node.kind = kind)
  OBVIOUS
<1>2. qfYamlRequireEvent(c, node, kind) = [c EXCEPT !.ok = r]
  BY <1>1 DEF qfYamlRequireEvent
<1> QED BY <1>1, <1>2 DEF CtxFields

(* One lemma for each kind of key: the whole node is applied, or an error  *)
(* is left behind (qfYamlTemplate, qfYamlInterfaceMap, qfYamlSourceNets,   *)
(* qfYamlSourceMacs, qfYamlU32 and its like).                              *)
LEMMA TemplateApplied ==
  ASSUME DOMAIN ctx = CtxFields, NEW node, node.items \in Seq(ToSet(node.items))
  PROVE  Applied("template", node, qfYamlTemplate(ctx, node))
<1>1. PICK e : e = [ctx EXCEPT !.spec = <<>>]
  OBVIOUS
<1>2. DOMAIN e = CtxFields /\ e.spec = <<>> /\ \A f \in CtxFields \ {"spec"} : e[f] = ctx[f]
  BY <1>1 DEF CtxFields
<1>3. PICK b : b = qfYamlRequireEvent(e, node, "sequence")
  OBVIOUS
<1>4. DOMAIN b = CtxFields /\ \A f \in CtxFields \ {"ok"} : b[f] = e[f]
  BY <1>2, <1>3, EventRequired
<1>5. b.spec = <<>> /\ b.enable = ctx.enable /\ b.biflow = ctx.biflow
      /\ \A f \in CtxFields \ {"ok", "spec"} : b[f] = ctx[f]
  BY <1>2, <1>4 DEF CtxFields
<1>6. PICK c : c = FoldLeft(qfConfigIE, b, node.items)
  OBVIOUS
<1>7. qfYamlTemplate(ctx, node) = c
  BY <1>1, <1>3, <1>6, Zenon DEF qfYamlTemplate
<1>8. b.spec \in Seq(Exportable)
  BY <1>5
<1>9. Grown(b, c)
  BY <1>4, <1>6, <1>8, ElementsGrow
<1>10. Fits(ctx) /\ ctx.spec = <<>> => Fits(b)
  BY <1>5 DEF Fits
<1>11. \A f \in {"rotate", "rtx", "stats", "out", "user", "uses", "scalar"} : c[f] = ctx[f]
  BY <1>5, <1>9 DEF Grown, CtxFields
<1>12. c.uses = ctx.uses \cup ({"template"} \cap Lists)
  BY <1>11 DEF Lists
<1>13. c.scalar = ctx.scalar /\ "template" \notin Keys
  BY <1>11 DEF Keys, Numbers, Booleans
<1>14. ctx.enable \subseteq c.enable /\ c.spec \in Seq(Exportable) /\ DOMAIN c = CtxFields
  BY <1>5, <1>9 DEF Grown
<1>15. Fits(ctx) /\ ctx.spec = <<>> => Fits(c)
  BY <1>9, <1>10 DEF Grown
<1> QED BY <1>7, <1>11, <1>12, <1>13, <1>14, <1>15 DEF Applied

LEMMA InterfacesApplied ==
  ASSUME DOMAIN ctx = CtxFields, ctx.spec \in Seq(Exportable), NEW node,
         node.items \in Seq(ToSet(node.items)), NEW large \in BOOLEAN,
         qfYamlInterfaceMap(ctx, node, large).ok
  PROVE  Applied("interface-map", node, qfYamlInterfaceMap(ctx, node, large))
<1>1. PICK b : b = qfYamlRequireEvent(ctx, node, "sequence")
  OBVIOUS
<1>2. DOMAIN b = CtxFields /\ \A f \in CtxFields \ {"ok"} : b[f] = ctx[f]
  BY <1>1, EventRequired
<1>3. PICK all : /\ Mapped(b, all)
                 /\ qfYamlInterfaceMap(ctx, node, large)
                      = IF all.ok THEN [all EXCEPT !.uses = @ \cup {"interface-map"}] ELSE all
  <2>1. CASE large = TRUE
    <3>1. PICK all : all = Folding("large", DOMAIN node.items, b, node.items)[DOMAIN node.items]
      OBVIOUS
    <3>2. Mapped(b, all)
      BY <1>2, <3>1, EntriesMap
    <3>3. qfYamlInterfaceMap(ctx, node, TRUE)
            = IF all.ok THEN [all EXCEPT !.uses = @ \cup {"interface-map"}] ELSE all
      BY <1>1, <3>1, EntriesFold, Zenon
    <3> QED BY <2>1, <3>2, <3>3
  <2>2. CASE large = FALSE
    <3>1. PICK all : all = Folding("small", DOMAIN node.items, b, node.items)[DOMAIN node.items]
      OBVIOUS
    <3>2. Mapped(b, all)
      BY <1>2, <3>1, EntriesMap
    <3>3. qfYamlInterfaceMap(ctx, node, FALSE)
            = IF all.ok THEN [all EXCEPT !.uses = @ \cup {"interface-map"}] ELSE all
      BY <1>1, <3>1, EntriesFold, Zenon
    <3> QED BY <2>2, <3>2, <3>3
  <2> QED BY <2>1, <2>2
<1>4. PICK c : c = qfYamlInterfaceMap(ctx, node, large)
  OBVIOUS
<1>5. c = [all EXCEPT !.uses = @ \cup {"interface-map"}]
  BY <1>3, <1>4
<1>6. DOMAIN all = CtxFields /\ \A f \in CtxFields \ {"ok", "ifmap"} : all[f] = ctx[f]
  BY <1>2, <1>3 DEF Mapped
<1>7. /\ DOMAIN c = CtxFields /\ c.uses = ctx.uses \cup {"interface-map"}
      /\ \A f \in CtxFields \ {"ok", "ifmap", "uses"} : c[f] = ctx[f]
  BY <1>5, <1>6 DEF CtxFields
<1>8. /\ c.spec = ctx.spec /\ c.enable = ctx.enable /\ c.biflow = ctx.biflow
      /\ c.scalar = ctx.scalar
      /\ \A f \in {"rotate", "rtx", "stats", "out", "user"} : c[f] = ctx[f]
  BY <1>7 DEF CtxFields
<1>9. "interface-map" \in Lists /\ "interface-map" \notin Keys
  BY DEF Lists, Keys, Numbers, Booleans
<1>10. Fits(ctx) => Fits(c)
  BY <1>8, Zenon DEF Fits
<1> QED BY <1>4, <1>7, <1>8, <1>9, <1>10 DEF Applied

LEMMA SourceNetsApplied ==
  ASSUME DOMAIN ctx = CtxFields, ctx.spec \in Seq(Exportable), NEW node,
         qfYamlSourceNets(ctx, node).ok
  PROVE  Applied("source-net", node, qfYamlSourceNets(ctx, node))
<1>1. PICK b : b = qfYamlRequireEvent(ctx, node, "sequence")
  OBVIOUS
<1>2. DOMAIN b = CtxFields /\ \A f \in CtxFields \ {"ok"} : b[f] = ctx[f]
  BY <1>1, EventRequired
<1>3. PICK c : c = qfYamlSourceNets(ctx, node)
  OBVIOUS
<1>4. \/ c = [b EXCEPT !.nets = @ \cup (ToSet(node.items) \cap {"v4", "v6letter"}),
                      !.uses = @ \cup {"source-net"}]
      \/ c = [b EXCEPT !.ok = FALSE]
  BY <1>1, <1>3, Zenon DEF qfYamlSourceNets
<1>5. c # [b EXCEPT !.ok = FALSE]
  BY <1>2, <1>3 DEF CtxFields
<1>6. PICK nets : nets = b.nets \cup (ToSet(node.items) \cap {"v4", "v6letter"})
  OBVIOUS
<1>7. /\ DOMAIN c = CtxFields /\ c.uses = ctx.uses \cup {"source-net"}
      /\ \A f \in CtxFields \ {"ok", "nets", "uses"} : c[f] = ctx[f]
  BY <1>2, <1>4, <1>5 DEF CtxFields
<1>8. /\ c.spec = ctx.spec /\ c.enable = ctx.enable /\ c.biflow = ctx.biflow
      /\ c.scalar = ctx.scalar
      /\ \A f \in {"rotate", "rtx", "stats", "out", "user"} : c[f] = ctx[f]
  BY <1>7 DEF CtxFields
<1>9. "source-net" \in Lists /\ "source-net" \notin Keys
  BY DEF Lists, Keys, Numbers, Booleans
<1>10. Fits(ctx) => Fits(c)
  BY <1>8, Zenon DEF Fits
<1> QED BY <1>3, <1>7, <1>8, <1>9, <1>10 DEF Applied

LEMMA SourceMacsApplied ==
  ASSUME DOMAIN ctx = CtxFields, ctx.spec \in Seq(Exportable), NEW node,
         qfYamlSourceMacs(ctx, node).ok
  PROVE  Applied("source-mac", node, qfYamlSourceMacs(ctx, node))
<1>1. PICK b : b = qfYamlRequireEvent(ctx, node, "sequence")
  OBVIOUS
<1>2. DOMAIN b = CtxFields /\ \A f \in CtxFields \ {"ok"} : b[f] = ctx[f]
  BY <1>1, EventRequired
<1>3. PICK c : c = qfYamlSourceMacs(ctx, node)
  OBVIOUS
<1>4. \/ c = [b EXCEPT !.macs = @ \cup ToSet(node.items), !.enable = @ \cup {"mac"},
                      !.uses = @ \cup {"source-mac"}]
      \/ c = [b EXCEPT !.ok = FALSE]
  BY <1>1, <1>3, Zenon DEF qfYamlSourceMacs
<1>5. c # [b EXCEPT !.ok = FALSE]
  BY <1>2, <1>3 DEF CtxFields
<1>7. /\ DOMAIN c = CtxFields /\ c.uses = ctx.uses \cup {"source-mac"}
      /\ c.enable = ctx.enable \cup {"mac"}
      /\ \A f \in CtxFields \ {"ok", "macs", "uses", "enable"} : c[f] = ctx[f]
  BY <1>2, <1>4, <1>5 DEF CtxFields
<1>8. /\ c.spec = ctx.spec /\ c.biflow = ctx.biflow
      /\ c.scalar = ctx.scalar
      /\ \A f \in {"rotate", "rtx", "stats", "out", "user"} : c[f] = ctx[f]
  BY <1>7 DEF CtxFields
<1>9. "source-mac" \in Lists /\ "source-mac" \notin Keys
  BY DEF Lists, Keys, Numbers, Booleans
<1>10. Fits(ctx) => Fits(c)
  <2>1. PICK F : F = Feat(ToSet(ctx.spec)) /\ F = Feat(ToSet(c.spec))
    BY <1>8, Zenon
  <2>2. ASSUME F \subseteq ctx.enable, ctx.enable \subseteq F \cup {"mac"}
        PROVE  F \subseteq c.enable /\ c.enable \subseteq F \cup {"mac"}
    BY <1>7, <2>2
  <2>3. ASSUME Fits(ctx)
        PROVE  c.biflow \in BOOLEAN /\ (c.biflow <=> ToSet(c.spec) \cap ReverseIEs # {})
    BY <1>8, <2>3, Zenon DEF Fits
  <2> QED BY <2>1, <2>2, <2>3, Zenon DEF Fits
<1> QED BY <1>3, <1>7, <1>8, <1>9, <1>10 DEF Applied

LEMMA ScalarApplied ==
  ASSUME DOMAIN ctx = CtxFields, ctx.spec \in Seq(Exportable), DOMAIN ctx.scalar = Keys,
         NEW node, NEW key \in Keys, qfYamlScalar(ctx, key, node).ok
  PROVE  Applied(key, node, qfYamlScalar(ctx, key, node))
<1>1. PICK b : b = qfYamlRequireEvent(ctx, node, "scalar")
  OBVIOUS
<1>2. /\ DOMAIN b = CtxFields /\ \A f \in CtxFields \ {"ok"} : b[f] = ctx[f]
      /\ b.ok => node.kind = "scalar"
  BY <1>1, EventRequired
<1>3. PICK c : c = qfYamlScalar(ctx, key, node)
  OBVIOUS
<1>4. IF ~b.ok THEN c = b
      ELSE IF key \in Booleans THEN c = qfYamlParseBool(b, key, node.items[1])
      ELSE c = qfYamlParseU(b, key, node.items[1])
  BY <1>1, <1>3, SettingKeys, Zenon DEF qfYamlScalar
<1>5. c.ok
  BY <1>3
<1>6. node.kind = "scalar" /\ b.ok
  BY <1>2, <1>4, <1>5
<1>7. PICK v : /\ c = [b EXCEPT !.scalar[key] = v]
               /\ key \in Numbers => v = node.items[1] /\ v \in Nat
               /\ key \in Booleans => (v # 0 <=> node.items[1] # 0)
  <2>1. key \in Numbers <=> key \notin Booleans
    BY DEF Keys, Numbers, Booleans
  <2>2. CASE key \in Booleans
    <3>1. PICK v : v = IF node.items[1] = 0 THEN 0 ELSE 1
      OBVIOUS
    <3>2. v # 0 <=> node.items[1] # 0
      BY <3>1
    <3>3. c = [b EXCEPT !.scalar[key] = v]
      BY <1>4, <1>6, <2>2, <3>1, Zenon DEF qfYamlParseBool
    <3> QED BY <2>1, <2>2, <3>2, <3>3
  <2>3. CASE key \notin Booleans
    <3>1. c = qfYamlParseU(b, key, node.items[1])
      BY <1>4, <1>6, <2>3
    <3>2. [b EXCEPT !.ok = FALSE].ok = FALSE
      BY <1>2 DEF CtxFields
    <3>3. node.items[1] \in Nat /\ c = [b EXCEPT !.scalar[key] = node.items[1]]
      BY <1>5, <3>1, <3>2, Zenon DEF qfYamlParseU
    <3> QED BY <2>3, <3>3
  <2> QED BY <2>2, <2>3
<1>8. /\ DOMAIN c = CtxFields /\ c.scalar = [ctx.scalar EXCEPT ![key] = v]
      /\ \A f \in CtxFields \ {"ok", "scalar"} : c[f] = ctx[f]
  BY <1>2, <1>7 DEF CtxFields
<1>9. /\ c.spec = ctx.spec /\ c.enable = ctx.enable /\ c.biflow = ctx.biflow /\ c.uses = ctx.uses
      /\ \A f \in {"rotate", "rtx", "stats", "out", "user"} : c[f] = ctx[f]
  BY <1>8 DEF CtxFields
<1>10. key \notin Lists /\ key # "template"
  BY DEF Lists, Keys, Numbers, Booleans
<1>11. Fits(ctx) => Fits(c)
  BY <1>9, Zenon DEF Fits
<1>12. /\ ctx.enable \subseteq c.enable /\ c.uses = ctx.uses \cup ({key} \cap Lists)
       /\ key # "source-mac"
  BY <1>9, <1>10 DEF Lists
<1>13. \E w : /\ c.scalar = [ctx.scalar EXCEPT ![key] = w]
              /\ key \in Numbers => w = node.items[1] /\ w \in Nat
              /\ key \in Booleans => (w # 0 <=> node.items[1] # 0)
  BY <1>7, <1>8, Zenon
<1> QED BY <1>3, <1>6, <1>8, <1>9, <1>10, <1>11, <1>12, <1>13, Zenon DEF Applied

(* So for every key that qfYamlDocument knows.                             *)
LEMMA KeyApplied ==
  ASSUME DOMAIN ctx = CtxFields, ctx.spec \in Seq(Exportable), DOMAIN ctx.scalar = Keys,
         NEW kn \in DocNodes, NEW c \in KeyResults(kn[1], kn[2]), c.ok
  PROVE  Applied(kn[1], kn[2], c)
<1>1. PICK key, node : key = kn[1] /\ node = kn[2]
  OBVIOUS
<1>2. node.items \in Seq(ToSet(node.items))
  BY <1>1, ConfigAssumption, Zenon
<1> DEFINE T == {qfYamlTemplate(ctx, node)}
           I == {qfYamlInterfaceMap(ctx, node, large) : large \in BOOLEAN}
           N == {qfYamlSourceNets(ctx, node)}
           M == {qfYamlSourceMacs(ctx, node)}
           S == {qfYamlScalar(ctx, key, node)}
           O == {[ctx EXCEPT !.ok = FALSE]}
<1>a. KeyResults(key, node) =
        CASE key = "template" -> T [] key = "interface-map" -> I [] key = "source-net" -> N
          [] key = "source-mac" -> M [] key \in DOMAIN ctx.scalar -> S [] OTHER -> O
  BY Zenon DEF KeyResults
<1>b. c \in KeyResults(key, node)
  BY <1>1, Zenon
<1>3. CASE key = "template"
  <2>1. c = qfYamlTemplate(ctx, node)
    <3>1. key \notin DOMAIN ctx.scalar
      BY <1>3 DEF Keys, Numbers, Booleans
    <3> HIDE DEF T, I, N, M, S, O
    <3>2. KeyResults(key, node) = T
      BY <1>a, <1>3, <3>1
    <3> QED BY <3>2, <1>b, Zenon DEF T
  <2> QED BY <1>1, <1>2, <1>3, <2>1, TemplateApplied
<1>4. CASE key = "interface-map"
  <2>1. \E large \in BOOLEAN : c = qfYamlInterfaceMap(ctx, node, large)
    <3>1. key \notin DOMAIN ctx.scalar
      BY <1>4 DEF Keys, Numbers, Booleans
    <3> HIDE DEF T, I, N, M, S, O
    <3>2. KeyResults(key, node) = I
      BY <1>a, <1>4, <3>1
    <3> QED BY <3>2, <1>b, Zenon DEF I
  <2> QED BY <1>1, <1>2, <1>4, <2>1, InterfacesApplied
<1>5. CASE key = "source-net"
  <2>1. c = qfYamlSourceNets(ctx, node)
    <3>1. key \notin DOMAIN ctx.scalar
      BY <1>5 DEF Keys, Numbers, Booleans
    <3> HIDE DEF T, I, N, M, S, O
    <3>2. KeyResults(key, node) = N
      BY <1>a, <1>5, <3>1
    <3> QED BY <3>2, <1>b, Zenon DEF N
  <2> QED BY <1>1, <1>2, <1>5, <2>1, SourceNetsApplied
<1>6. CASE key = "source-mac"
  <2>1. c = qfYamlSourceMacs(ctx, node)
    <3>1. key \notin DOMAIN ctx.scalar
      BY <1>6 DEF Keys, Numbers, Booleans
    <3> HIDE DEF T, I, N, M, S, O
    <3>2. KeyResults(key, node) = M
      BY <1>a, <1>6, <3>1
    <3> QED BY <3>2, <1>b, Zenon DEF M
  <2> QED BY <1>1, <1>2, <1>6, <2>1, SourceMacsApplied
<1>7. CASE key \in Keys
  <2>1. key \notin {"template", "interface-map", "source-net", "source-mac"}
    BY <1>7 DEF Keys, Numbers, Booleans
  <2>2. c = qfYamlScalar(ctx, key, node)
    BY <1>1, <1>7, <2>1 DEF KeyResults
  <2> QED BY <1>1, <1>2, <1>7, <2>2, ScalarApplied
<1>8. CASE key \notin {"template", "interface-map", "source-net", "source-mac"} \cup Keys
  <2>1. c = [ctx EXCEPT !.ok = FALSE]
    BY <1>1, <1>8 DEF KeyResults
  <2>2. c.ok = FALSE
    BY <2>1 DEF CtxFields
  <2> QED BY <2>2
<1> QED BY <1>3, <1>4, <1>5, <1>6, <1>7, <1>8

(* The inductive invariant: the settings have their types; they are what   *)
(* the document asked for (AsAsked) and the command line (AsCommanded, by  *)
(* stage, because the output is set up late); lists given are in use;      *)
(* features fit the template while at most one was given; and the          *)
(* arguments of the stages are the settings.                               *)
Typed ==
  /\ DOMAIN ctx = CtxFields /\ ctx.ok /\ ctx.spec \in Seq(Exportable) /\ DOMAIN ctx.scalar = Keys
  /\ \A k \in Numbers : ctx.scalar[k] \in Nat
AsAsked ==
  /\ ~asked.bad
  /\ \A k \in Numbers : ctx.scalar[k] = Asked(k)
  /\ \A k \in Booleans : ctx.scalar[k] # 0 <=> Asked(k) # 0
AsCommanded ==
  /\ stage # "options" => ctx.rotate = 1000 * opts.rotate /\ ctx.stats = 1000 * opts.stats
  /\ stage \in {"yaml", "template", "input", "privilege", "output"} =>
       ctx.rtx = 1000 * opts.rtx /\ ctx.out = opts.out
  /\ stage \in {"middle", "run"} =>
       /\ opts.transport # "udp" => ctx.rtx = 1000 * opts.rtx
       /\ opts.transport = "udp" /\ opts.rtx = 0 => ctx.rtx = 1000 * 60
       /\ opts.transport # NONE \/ opts.rotate # 0 => ctx.out # NONE
  /\ stage \in {"output", "middle", "run"} =>
       (opts.root /\ opts.user # NONE /\ Uid(opts.user) # 0 => ctx.user = opts.user)
InUse ==
  /\ asked.lists \subseteq ctx.uses
  /\ "source-mac" \in asked.lists => "mac" \in ctx.enable
  /\ stage \notin {"middle", "run"} => ctx.uses \subseteq Lists
  /\ stage \in {"middle", "run"} =>
       /\ "force" \in ctx.uses <=> ctx.scalar["force-biflow"] # 0
       /\ "mapped" \in ctx.uses <=> "ipv6" \in ctx.enable /\ "ipv4" \notin ctx.enable
Templated ==
  /\ asked.templates \in Nat
  /\ asked.templates <= 1 => Fits(ctx)
  /\ asked.templates = 0 /\ stage \in {"options", "yaml", "template"} => ctx.spec = <<>>
  /\ stage \in {"input", "privilege", "output", "middle", "run"} => ctx.spec # <<>>
StartedWith ==
  stage = "run" =>
    /\ args.idle = 1000 * ctx.scalar["idle-timeout"]
    /\ args.active = 1000 * ctx.scalar["active-timeout"]
    /\ args.silk <=> ctx.scalar["silk-compatible"] # 0
    /\ args.silk \in BOOLEAN
    /\ args.fragtab = NONE <=> ctx.scalar["max-frags"] = 0
    /\ args.reqtype = "YF_TYPE_IPANY" <=> "ipv6" \in ctx.enable
    /\ args.uniflow \in BOOLEAN /\ (args.uniflow <=> ~ctx.biflow)
    /\ args.trackers = ctx.enable \ {"ipv4", "ipv6"}

StageNames == {"options", "yaml", "template", "input", "privilege", "output", "middle", "run", "exit"}
ConfigInv ==
  /\ opts \in CommandLines /\ stage \in StageNames
  /\ DOMAIN asked = {"scalar", "templates", "lists", "bad", "keys"} /\ asked.scalar \in Seq(Pairs)
  /\ stage # "exit" => Typed /\ AsAsked /\ AsCommanded /\ InUse /\ Templated /\ StartedWith

(* What a sequence of keys and values gives last for a key.                *)
Final(s) == CHOOSE i \in s : \A j \in s : j <= i
Given(seq, key) == {i \in DOMAIN seq : seq[i][1] = key}
AskedIn(seq, key) ==
  IF Given(seq, key) = {} THEN qfConfigDefaults.scalar[key] ELSE seq[Final(Given(seq, key))][2]

(* The last of the answers for a key, and what one more changes.           *)
LEMMA FinalIn ==
  ASSUME NEW n \in Nat, NEW s \in SUBSET (1..n), s # {}
  PROVE  Final(s) \in s /\ \A j \in s : j <= Final(s)
BY HighestIn, Zenon DEF Final

LEMMA AskedIs ==
  \A key : Asked(key) = AskedIn(asked.scalar, key)
BY Zenon DEF Asked, AskedIn, Final, Given

LEMMA AskedAppended ==
  ASSUME NEW T, NEW seq \in Seq(T), NEW key, NEW v, <<key, v>> \in T
  PROVE  /\ AskedIn(Append(seq, <<key, v>>), key) = v
         /\ \A k : k # key => AskedIn(Append(seq, <<key, v>>), k) = AskedIn(seq, k)
<1>1. PICK n \in Nat : n = Len(seq) /\ DOMAIN seq = 1..n
  BY LenProperties
<1>2. PICK new : new = Append(seq, <<key, v>>)
  OBVIOUS
<1>3. /\ new \in Seq(T) /\ Len(new) = n + 1 /\ \A i \in 1..n : new[i] = seq[i]
      /\ new[n + 1] = <<key, v>>
  BY <1>1, <1>2, AppendProperties
<1>4. DOMAIN new = 1..n + 1
  BY <1>3, LenProperties
<1>5. AskedIn(new, key) = v
  <2>1. n + 1 \in Given(new, key) /\ Given(new, key) \in SUBSET (1..n + 1)
    BY <1>3, <1>4 DEF Given
  <2>2. Final(Given(new, key)) \in 1..n + 1 /\ n + 1 <= Final(Given(new, key))
    BY <2>1, FinalIn, SMTT(30)
  <2>3. Final(Given(new, key)) = n + 1
    BY <2>2
  <2> QED BY <1>3, <2>1, <2>3 DEF AskedIn
<1>6. ASSUME NEW k, k # key
      PROVE  AskedIn(new, k) = AskedIn(seq, k)
  <2>1. Given(new, k) = Given(seq, k)
    <3>1. \A i \in 1..n + 1 : i \in 1..n \/ i = n + 1
      OBVIOUS
    <3>2. \A i \in 1..n : i \in 1..n + 1
      OBVIOUS
    <3>3. new[n + 1][1] # k
      BY <1>3, <1>6
    <3> QED BY <1>1, <1>3, <1>4, <3>1, <3>2, <3>3 DEF Given
  <2>2. CASE Given(seq, k) = {}
    BY <2>1, <2>2 DEF AskedIn
  <2>3. CASE Given(seq, k) # {}
    <3>1. Given(seq, k) \in SUBSET (1..n)
      BY <1>1 DEF Given
    <3>2. Final(Given(seq, k)) \in 1..n
      BY <2>3, <3>1, FinalIn
    <3>3. new[Final(Given(seq, k))] = seq[Final(Given(seq, k))]
      BY <1>3, <3>2
    <3> QED BY <2>1, <2>3, <3>3 DEF AskedIn
  <2> QED BY <2>2, <2>3
<1> QED BY <1>2, <1>5, <1>6

(* Each action keeps the invariant.                                        *)
LEMMA ConfigStarts ==
  ConfigInit => ConfigInv
<1> SUFFICES ASSUME ConfigInit
             PROVE  ConfigInv
  OBVIOUS
<1> USE DEF ConfigInit
<1>1. ctx = qfConfigDefaults
  OBVIOUS
<1> DEFINE D == [k \in Keys |->
                 CASE k = "active-timeout" -> 300 [] k = "idle-timeout" -> 30
                   [] k = "max-flows" -> mebiflow [] k = "max-frags" -> kfrags [] OTHER -> 0]
<1>2. ctx.scalar = D
  <2>1. qfConfigDefaults.scalar =
          [k \in UNION {cfg_key_actions[t] : t \in {"U32", "U64", "BOOL"}} |->
                 CASE k = "active-timeout" -> 300 [] k = "idle-timeout" -> 30
                   [] k = "max-flows" -> mebiflow [] k = "max-frags" -> kfrags [] OTHER -> 0]
    BY Zenon DEF qfConfigDefaults
  <2> QED BY <1>1, <2>1, SettingKeys, Zenon
<1>3. /\ DOMAIN ctx = CtxFields /\ ctx.ok /\ ctx.spec = <<>> /\ ctx.enable = {} /\ ctx.uses = {}
      /\ ctx.biflow = FALSE
  <2> PICK E : E = ctx.scalar
    OBVIOUS
  <2> QED BY <1>1 DEF qfConfigDefaults, CtxFields
<1>4. DOMAIN ctx.scalar = Keys /\ \A k \in Numbers : ctx.scalar[k] \in Nat
  <2>1. DOMAIN ctx.scalar = Keys
    BY <1>2
  <2>2. ASSUME NEW k \in Numbers
        PROVE  ctx.scalar[k] \in Nat
    <3>1. k \in Keys
      BY DEF Keys
    <3>2. ctx.scalar[k] =
                CASE k = "active-timeout" -> 300 [] k = "idle-timeout" -> 30
                   [] k = "max-flows" -> mebiflow [] k = "max-frags" -> kfrags [] OTHER -> 0
      BY <1>2, <3>1
    <3>3. mebiflow \in Nat /\ kfrags \in Nat
      BY DEF mebiflow, kfrags
    <3> QED BY <3>2, <3>3
  <2> QED BY <2>1, <2>2
<1>5. asked.scalar = <<>> /\ asked.scalar \in Seq(Pairs)
  OBVIOUS
<1>6. \A k : Asked(k) = ctx.scalar[k]
  <2>1. \A k : Given(asked.scalar, k) = {}
    BY <1>5 DEF Given
  <2> QED BY <1>1, <2>1, AskedIs, Zenon DEF AskedIn
<1>7. Fits(ctx)
  <2>1. ToSet(ctx.spec) = {}
    BY <1>3 DEF ToSet
  <2>2. Feat(ToSet(ctx.spec)) = {}
    BY <2>1 DEF Feat
  <2> QED BY <1>3, <2>1, <2>2 DEF Fits
<1>8. Typed
  BY <1>3, <1>4 DEF Typed
<1>9. AsAsked
  BY <1>6 DEF AsAsked, Numbers, Booleans
<1>10. InUse
  BY <1>3 DEF InUse
<1>11. Templated /\ StartedWith /\ AsCommanded
  BY <1>3, <1>7 DEF Templated, StartedWith, AsCommanded
<1> QED BY <1>5, <1>8, <1>9, <1>10, <1>11 DEF ConfigInv, StageNames

LEMMA ExitKeepsConfig ==
  ASSUME ConfigInv, Exit
  PROVE  ConfigInv'
BY DEF ConfigInv, Exit, StageNames

(* Actions that leave the answers of the document alone.                   *)
LEMMA AskedKept ==
  ASSUME AsAsked, asked' = asked, ctx'.scalar = ctx.scalar
  PROVE  AsAsked'
<1>1. \A k : Asked(k)' = Asked(k)
  <2>1. \A k : Asked(k)' = AskedIn(asked'.scalar, k)
    BY Zenon DEF Asked, AskedIn, Final, Given
  <2> QED BY <2>1, AskedIs
<1> QED BY <1>1 DEF AsAsked

LEMMA ParseOptionsKeeps ==
  ASSUME ConfigInv, yfParseOptions
  PROVE  ConfigInv'
<1>1. CASE Exit
  BY <1>1, ExitKeepsConfig
<1>2. CASE /\ stage = "options" /\ stage' = "yaml" /\ UNCHANGED <<opts, args, asked>>
           /\ ctx' = [ctx EXCEPT !.rotate = Milliseconds(opts.rotate), !.detune = Detuned,
                                 !.stats = Milliseconds(opts.stats),
                                 !.rtx = Milliseconds(opts.rtx),
                                 !.out = opts.out]
  <2>1. Typed /\ AsAsked /\ InUse /\ Templated
    BY <1>2 DEF ConfigInv
  <2>2. PICK d : d = Detuned
    OBVIOUS
  <2>3. ctx' = [ctx EXCEPT !.rotate = 1000 * opts.rotate, !.detune = d,
                           !.stats = 1000 * opts.stats, !.rtx = 1000 * opts.rtx, !.out = opts.out]
    BY <1>2, <2>2 DEF Milliseconds
  <2>4. /\ DOMAIN ctx' = CtxFields /\ ctx'.rotate = 1000 * opts.rotate
        /\ ctx'.stats = 1000 * opts.stats /\ ctx'.rtx = 1000 * opts.rtx /\ ctx'.out = opts.out
        /\ \A f \in CtxFields \ {"rotate", "detune", "stats", "rtx", "out"} : ctx'[f] = ctx[f]
    <3>1. PICK rotate, stats, rtx, out :
            /\ rotate = 1000 * opts.rotate /\ stats = 1000 * opts.stats
            /\ rtx = 1000 * opts.rtx /\ out = opts.out
      OBVIOUS
    <3>2. ctx' = [ctx EXCEPT !.rotate = rotate, !.detune = d, !.stats = stats, !.rtx = rtx, !.out = out]
      BY <2>3, <3>1
    <3>3. DOMAIN ctx = CtxFields
      BY <2>1 DEF Typed
    <3>4. /\ DOMAIN ctx' = CtxFields /\ ctx'.rotate = rotate /\ ctx'.stats = stats
          /\ ctx'.rtx = rtx /\ ctx'.out = out
          /\ \A f \in CtxFields \ {"rotate", "detune", "stats", "rtx", "out"} : ctx'[f] = ctx[f]
      BY <3>2, <3>3 DEF CtxFields
    <3> QED BY <3>1, <3>4
  <2>5. /\ ctx'.ok = ctx.ok /\ ctx'.spec = ctx.spec /\ ctx'.scalar = ctx.scalar
        /\ ctx'.uses = ctx.uses /\ ctx'.enable = ctx.enable /\ ctx'.biflow = ctx.biflow
    BY <2>4 DEF CtxFields
  <2>6. Typed'
    BY <2>1, <2>4, <2>5 DEF Typed
  <2>7. AsAsked'
    BY <1>2, <2>1, <2>5, AskedKept
  <2>8. AsCommanded'
    BY <1>2, <2>4 DEF AsCommanded
  <2>9. InUse'
    BY <1>2, <2>1, <2>5 DEF InUse
  <2>10. Fits(ctx) => Fits(ctx)'
    BY <2>5, Zenon DEF Fits
  <2>11. Templated'
    BY <1>2, <2>1, <2>5, <2>10 DEF Templated
  <2> QED BY <1>2, <2>6, <2>7, <2>8, <2>9, <2>11 DEF ConfigInv, StageNames, StartedWith
<1> QED BY <1>1, <1>2 DEF yfParseOptions

LEMMA DotfileKeeps ==
  ASSUME ConfigInv, qfConfigDotfile
  PROVE  ConfigInv'
<1>1. CASE Exit
  BY <1>1, ExitKeepsConfig
<1>2. CASE stage = "yaml" /\ stage' = "template" /\ UNCHANGED <<opts, ctx, args, asked>>
  <2>1. Typed /\ AsAsked /\ AsCommanded /\ InUse /\ Templated
    BY <1>2 DEF ConfigInv
  <2>2. AsAsked'
    BY <1>2, <2>1, AskedKept
  <2>3. Fits(ctx) => Fits(ctx)'
    BY <1>2, Zenon DEF Fits
  <2>4. Typed' /\ AsCommanded' /\ InUse' /\ Templated'
    BY <1>2, <2>1, <2>3 DEF Typed, AsCommanded, InUse, Templated
  <2> QED BY <1>2, <2>2, <2>4 DEF ConfigInv, StageNames, StartedWith
<1> QED BY <1>1, <1>2 DEF qfConfigDotfile

LEMMA InputKeeps ==
  ASSUME ConfigInv, qfContextSetupInput
  PROVE  ConfigInv'
<1>1. CASE Exit
  BY <1>1, ExitKeepsConfig
<1>2. CASE stage = "input" /\ stage' = "privilege" /\ UNCHANGED <<opts, ctx, args, asked>>
  <2>1. Typed /\ AsAsked /\ AsCommanded /\ InUse /\ Templated
    BY <1>2 DEF ConfigInv
  <2>2. AsAsked'
    BY <1>2, <2>1, AskedKept
  <2>3. Fits(ctx) => Fits(ctx)'
    BY <1>2, Zenon DEF Fits
  <2>4. Typed' /\ AsCommanded' /\ InUse' /\ Templated'
    BY <1>2, <2>1, <2>3 DEF Typed, AsCommanded, InUse, Templated
  <2> QED BY <1>2, <2>2, <2>4 DEF ConfigInv, StageNames, StartedWith
<1> QED BY <1>1, <1>2 DEF qfContextSetupInput

LEMMA PrivilegeKeeps ==
  ASSUME ConfigInv, DropPrivilege
  PROVE  ConfigInv'
<1>1. PICK result \in privc_become :
       IF result = "failed" THEN Exit
       ELSE /\ ctx' = [ctx EXCEPT !.user = IF opts.root /\ result = "become" THEN opts.user ELSE NONE]
            /\ stage' = "output" /\ UNCHANGED <<opts, args, asked>>
  BY DEF DropPrivilege
<1>2. stage = "privilege"
  BY DEF DropPrivilege
<1>3. CASE result = "failed"
  BY <1>1, <1>3, ExitKeepsConfig
<1>4. CASE result # "failed"
  <2>1. Typed /\ AsAsked /\ AsCommanded /\ InUse /\ Templated
    BY <1>2 DEF ConfigInv
  <2>2. PICK u : u = IF opts.root /\ result = "become" THEN opts.user ELSE NONE
    OBVIOUS
  <2>3. ctx' = [ctx EXCEPT !.user = u] /\ stage' = "output" /\ UNCHANGED <<opts, args, asked>>
    BY <1>1, <1>4, <2>2
  <2>4. DOMAIN ctx' = CtxFields /\ ctx'.user = u /\ \A f \in CtxFields \ {"user"} : ctx'[f] = ctx[f]
    BY <2>1, <2>3 DEF Typed, CtxFields
  <2>5. /\ ctx'.ok = ctx.ok /\ ctx'.spec = ctx.spec /\ ctx'.scalar = ctx.scalar
        /\ ctx'.uses = ctx.uses /\ ctx'.enable = ctx.enable /\ ctx'.biflow = ctx.biflow
        /\ ctx'.rotate = ctx.rotate /\ ctx'.stats = ctx.stats /\ ctx'.rtx = ctx.rtx
        /\ ctx'.out = ctx.out
    BY <2>4 DEF CtxFields
  <2>6. Typed'
    BY <2>1, <2>4, <2>5 DEF Typed
  <2>7. AsAsked'
    BY <2>1, <2>3, <2>5, AskedKept
  <2>8. opts.root /\ opts.user # NONE /\ Uid(opts.user) # 0 => u = opts.user
    <3> SUFFICES ASSUME opts.root, opts.user # NONE, Uid(opts.user) # 0
                 PROVE  u = opts.user
      OBVIOUS
    <3>1. new_user # 0
      BY DEF new_user
    <3>2. result = "become"
      BY <1>4, <3>1 DEF privc_become
    <3> QED BY <2>2, <3>2
  <2>9. AsCommanded'
    BY <1>2, <2>1, <2>3, <2>4, <2>5, <2>8 DEF AsCommanded
  <2>10. InUse'
    BY <1>2, <2>1, <2>3, <2>5 DEF InUse
  <2>11. Fits(ctx) => Fits(ctx)'
    BY <2>5, Zenon DEF Fits
  <2>12. Templated'
    BY <1>2, <2>1, <2>3, <2>5, <2>11 DEF Templated
  <2> QED BY <2>3, <2>6, <2>7, <2>9, <2>10, <2>12 DEF ConfigInv, StageNames, StartedWith
<1> QED BY <1>3, <1>4

LEMMA DocumentKeeps ==
  ASSUME ConfigInv, NEW kn \in DocNodes, qfYamlDocument(kn[1], kn[2])
  PROVE  ConfigInv'
<1>1. PICK key, node : key = kn[1] /\ node = kn[2]
  OBVIOUS
<1>2. PICK c \in KeyResults(kn[1], kn[2]) :
        /\ ctx' = c
        /\ stage' = IF c.ok THEN "yaml" ELSE "exit"
        /\ asked' = [asked EXCEPT
             !.keys = @ + 1, !.bad = @ \/ ~c.ok,
             !.templates = @ + (IF key = "template" THEN 1 ELSE 0),
             !.lists = @ \cup ({key} \cap {"interface-map", "source-net", "source-mac"}),
             !.scalar = IF node.kind = "scalar" THEN Append(@, <<key, node.items[1]>>) ELSE @]
  BY <1>1, Zenon DEF qfYamlDocument
<1>3. stage = "yaml" /\ UNCHANGED <<opts, args>>
  BY DEF qfYamlDocument
<1>4. Typed /\ AsAsked /\ AsCommanded /\ InUse /\ Templated
  BY <1>3 DEF ConfigInv
<1>5. DOMAIN asked = {"scalar", "templates", "lists", "bad", "keys"} /\ asked.scalar \in Seq(Pairs)
  BY DEF ConfigInv
<1>6. PICK bad \in BOOLEAN : bad = (asked.bad \/ ~c.ok)
  OBVIOUS
<1>7. PICK seq : seq = IF node.kind = "scalar" THEN Append(asked.scalar, <<key, node.items[1]>>)
                       ELSE asked.scalar
  OBVIOUS
<1>8. PICK num : num = asked.templates + (IF key = "template" THEN 1 ELSE 0)
  OBVIOUS
<1>9. PICK lists : lists = asked.lists \cup ({key} \cap {"interface-map", "source-net", "source-mac"})
  OBVIOUS
<1>10. PICK count : count = asked.keys + 1
  OBVIOUS
<1>11. asked' = [asked EXCEPT !.keys = count, !.bad = bad, !.templates = num, !.lists = lists,
                              !.scalar = seq]
  BY <1>2, <1>6, <1>7, <1>8, <1>9, <1>10, Zenon
<1>12. /\ DOMAIN asked' = {"scalar", "templates", "lists", "bad", "keys"} /\ asked'.bad = bad
       /\ asked'.templates = num /\ asked'.lists = lists /\ asked'.scalar = seq
  BY <1>5, <1>11
<1>13. node.kind = "scalar" => <<key, node.items[1]>> \in Pairs
  BY <1>1 DEF Pairs
<1>14. seq \in Seq(Pairs)
  <2>1. CASE node.kind = "scalar"
    BY <1>5, <1>7, <1>13, <2>1, AppendProperties
  <2> QED BY <1>5, <1>7, <2>1
<1>15. opts' \in CommandLines /\ opts' = opts
  BY <1>3 DEF ConfigInv
<1>16. CASE ~c.ok
  BY <1>2, <1>12, <1>14, <1>15, <1>16 DEF ConfigInv, StageNames
<1>17. CASE c.ok
  <2>1. Applied(key, node, c)
    BY <1>1, <1>4, <1>17, KeyApplied DEF Typed
  <2>2. ctx' = c /\ stage' = "yaml"
    BY <1>2, <1>17
  <2>3. \A k : Asked(k)' = AskedIn(seq, k)
    <3>1. \A k : Asked(k)' = AskedIn(asked'.scalar, k)
      BY Zenon DEF Asked, AskedIn, Final, Given
    <3> QED BY <1>12, <3>1
  <2>4. \A k : k # key => Asked(k)' = Asked(k)
    <3>1. CASE node.kind = "scalar"
      <4>1. \A k : k # key => AskedIn(seq, k) = AskedIn(asked.scalar, k)
        BY <1>5, <1>7, <1>13, <3>1, AskedAppended
      <4> QED BY <2>3, <4>1, AskedIs
    <3>2. CASE node.kind # "scalar"
      BY <1>7, <2>3, <3>2, AskedIs
    <3> QED BY <3>1, <3>2
  <2>5. node.kind = "scalar" => Asked(key)' = node.items[1]
    <3>1. node.kind = "scalar" => AskedIn(seq, key) = node.items[1]
      BY <1>5, <1>7, <1>13, AskedAppended
    <3> QED BY <2>3, <3>1
  <2>6. Typed' /\ AsAsked'
    <3>1. DOMAIN ctx' = CtxFields /\ ctx'.ok /\ ctx'.spec \in Seq(Exportable)
      BY <1>17, <2>1, <2>2 DEF Applied
    <3>2. asked'.bad = FALSE
      BY <1>4, <1>6, <1>12, <1>17 DEF AsAsked
    <3>3. CASE key \in Keys
      <4>1. node.kind = "scalar"
        BY <2>1, <3>3 DEF Applied
      <4>2. PICK v : /\ c.scalar = [ctx.scalar EXCEPT ![key] = v]
                     /\ key \in Numbers => v = node.items[1] /\ v \in Nat
                     /\ key \in Booleans => (v # 0 <=> node.items[1] # 0)
        BY <2>1, <3>3, Zenon DEF Applied
      <4>3. /\ DOMAIN ctx'.scalar = Keys /\ ctx'.scalar[key] = v
            /\ \A k \in Keys \ {key} : ctx'.scalar[k] = ctx.scalar[k]
        BY <1>4, <2>2, <3>3, <4>2 DEF Typed
      <4>4. Asked(key)' = node.items[1]
        BY <2>5, <4>1
      <4>5. ASSUME NEW k \in Numbers
            PROVE  ctx'.scalar[k] \in Nat /\ ctx'.scalar[k] = Asked(k)'
        <5>1. CASE k = key
          BY <4>2, <4>3, <4>4, <5>1, Zenon
        <5>2. CASE k # key
          <6>1. ctx'.scalar[k] = ctx.scalar[k]
            BY <4>3, <5>2 DEF Keys
          <6> QED BY <1>4, <2>4, <5>2, <6>1, Zenon DEF Typed, AsAsked
        <5> QED BY <5>1, <5>2
      <4>6. ASSUME NEW k \in Booleans
            PROVE  ctx'.scalar[k] # 0 <=> Asked(k)' # 0
        <5>1. CASE k = key
          BY <4>2, <4>3, <4>4, <5>1, Zenon
        <5>2. CASE k # key
          <6>1. ctx'.scalar[k] = ctx.scalar[k]
            BY <4>3, <5>2 DEF Keys
          <6> QED BY <1>4, <2>4, <5>2, <6>1, Zenon DEF Typed, AsAsked
        <5> QED BY <5>1, <5>2
      <4> QED BY <3>1, <3>2, <4>3, <4>5, <4>6, Zenon DEF Typed, AsAsked
    <3>4. CASE key \notin Keys
      <4>1. ctx'.scalar = ctx.scalar
        BY <2>1, <2>2, <3>4 DEF Applied
      <4>2. \A k \in Keys : Asked(k)' = Asked(k)
        BY <2>4, <3>4
      <4>3. \A k \in Numbers : Asked(k)' = Asked(k)
        BY <4>2, Zenon DEF Keys
      <4>4. \A k \in Booleans : Asked(k)' = Asked(k)
        BY <4>2, Zenon DEF Keys
      <4> QED BY <1>4, <3>1, <3>2, <4>1, <4>3, <4>4, Zenon DEF Typed, AsAsked
    <3> QED BY <3>3, <3>4
  <2>7. AsCommanded'
    <3>1. ctx'.rotate = ctx.rotate /\ ctx'.stats = ctx.stats /\ ctx'.rtx = ctx.rtx /\ ctx'.out = ctx.out
      BY <2>1, <2>2 DEF Applied
    <3> QED BY <1>3, <1>4, <1>15, <2>2, <3>1 DEF AsCommanded
  <2>8. InUse'
    <3>1. ctx'.uses = ctx.uses \cup ({key} \cap Lists) /\ ctx.enable \subseteq ctx'.enable
          /\ (key = "source-mac" => "mac" \in ctx'.enable)
      BY <2>1, <2>2 DEF Applied
    <3>2. asked'.lists = asked.lists \cup ({key} \cap Lists)
      BY <1>9, <1>12 DEF Lists
    <3> HIDE DEF Lists
    <3>3. asked'.lists \subseteq ctx'.uses /\ ctx'.uses \subseteq Lists
      BY <1>3, <1>4, <3>1, <3>2 DEF InUse
    <3>4. "source-mac" \in asked'.lists => "mac" \in ctx'.enable
      BY <1>4, <3>1, <3>2 DEF InUse
    <3> QED BY <2>2, <3>3, <3>4 DEF InUse
  <2>9. Templated'
    <3>1. num \in Nat /\ asked'.templates = num
      BY <1>4, <1>8, <1>12 DEF Templated
    <3>2. num <= 1 => Fits(c)
      <4> SUFFICES ASSUME num <= 1
                   PROVE  Fits(c)
        OBVIOUS
      <4>1. Fits(ctx) /\ (key = "template" => ctx.spec = <<>>)
        BY <1>3, <1>4, <1>8 DEF Templated
      <4> QED BY <2>1, <4>1, Zenon DEF Applied
    <3>3. num = 0 => c.spec = <<>>
      <4> SUFFICES ASSUME num = 0
                   PROVE  c.spec = <<>>
        OBVIOUS
      <4>1. key # "template" /\ ctx.spec = <<>>
        BY <1>3, <1>4, <1>8 DEF Templated
      <4> QED BY <2>1, <4>1 DEF Applied
    <3>4. num <= 1 => Fits(ctx)'
      BY <2>2, <3>2, Zenon DEF Fits
    <3> QED BY <2>2, <3>1, <3>3, <3>4 DEF Templated
  <2> QED BY <1>12, <1>14, <1>15, <2>2, <2>6, <2>7, <2>8, <2>9 DEF ConfigInv, StageNames, StartedWith
<1> QED BY <1>16, <1>17

LEMMA DefaultTemplateKeeps ==
  ASSUME ConfigInv, qfConfigDefaultTemplate
  PROVE  ConfigInv'
<1>1. PICK c : /\ c = IF ctx.spec = <<>> THEN FoldLeft(qfConfigIE, ctx, cfg_default_ies) ELSE ctx
               /\ ctx' = c /\ stage' = IF c.ok THEN "input" ELSE "exit"
  BY Zenon DEF qfConfigDefaultTemplate
<1>2. stage = "template" /\ UNCHANGED <<opts, args, asked>>
  BY DEF qfConfigDefaultTemplate
<1>3. Typed /\ AsAsked /\ AsCommanded /\ InUse /\ Templated
  BY <1>2 DEF ConfigInv
<1>4. CASE ~c.ok
  BY <1>1, <1>2, <1>4 DEF ConfigInv, StageNames
<1>5. CASE c.ok
  <2>1. cfg_default_ies \in Seq(ToSet(cfg_default_ies)) /\ cfg_default_ies # <<>>
    <3>1. PICK d : d = cfg_default_ies
      OBVIOUS
    <3>2. Len(d) = 14 /\ DOMAIN d = 1..14
      BY <3>1 DEF cfg_default_ies
    <3>3. d = [i \in 1..14 |-> d[i]]
      BY <3>1 DEF cfg_default_ies
    <3>4. PICK T : T = ToSet(d)
      OBVIOUS
    <3>5. \A i \in 1..14 : d[i] \in T
      BY <3>2, <3>4 DEF ToSet
    <3>6. d \in [1..14 -> T]
      BY <3>3, <3>5
    <3>7. d \in Seq(T)
      BY <3>6, SeqDef
    <3>8. d # <<>>
      BY <3>2, EmptySeq
    <3> QED BY <3>1, <3>4, <3>7, <3>8
  <2>2. DOMAIN ctx = CtxFields /\ ctx.spec \in Seq(Exportable)
    BY <1>3 DEF Typed
  <2>3. Grown(ctx, c) /\ c.spec # <<>>
    <3>1. CASE ctx.spec = <<>>
      BY <1>1, <1>5, <2>1, <2>2, <3>1, ElementsGrow
    <3>2. CASE ctx.spec # <<>>
      BY <1>1, <2>2, <3>2 DEF Grown
    <3> QED BY <3>1, <3>2
  <2>4. ctx' = c /\ stage' = "input"
    BY <1>1, <1>5
  <2>5. /\ ctx'.scalar = ctx.scalar /\ ctx'.uses = ctx.uses /\ ctx'.rotate = ctx.rotate
        /\ ctx'.stats = ctx.stats /\ ctx'.rtx = ctx.rtx /\ ctx'.out = ctx.out
    BY <2>3, <2>4 DEF Grown, CtxFields
  <2>6. DOMAIN ctx' = CtxFields /\ ctx.enable \subseteq ctx'.enable /\ ctx'.spec \in Seq(Exportable)
    BY <2>3, <2>4 DEF Grown
  <2>7. Typed'
    BY <1>3, <1>5, <2>4, <2>5, <2>6 DEF Typed
  <2>8. AsAsked'
    BY <1>2, <1>3, <2>5, AskedKept
  <2>9. AsCommanded'
    BY <1>2, <1>3, <2>4, <2>5 DEF AsCommanded
  <2>10. InUse'
    BY <1>2, <1>3, <2>4, <2>5, <2>6 DEF InUse
  <2>11. Fits(ctx) => Fits(ctx)'
    <3>1. Fits(ctx) => Fits(c)
      BY <2>3 DEF Grown
    <3> QED BY <2>4, <3>1, Zenon DEF Fits
  <2>12. Templated'
    BY <1>2, <1>3, <2>3, <2>4, <2>11 DEF Templated
  <2> QED BY <1>2, <2>4, <2>7, <2>8, <2>9, <2>10, <2>12 DEF ConfigInv, StageNames, StartedWith
<1> QED BY <1>4, <1>5

LEMMA OutputKeeps ==
  ASSUME ConfigInv, qfContextSetupOutput
  PROVE  ConfigInv'
<1>1. PICK out, rtx, more :
        /\ out = IF opts.transport = NONE /\ ctx.out \in {NONE, ""} THEN "-" ELSE ctx.out
        /\ rtx = IF opts.transport # "udp" THEN ctx.rtx
                 ELSE IF ctx.rtx = 0 THEN Milliseconds(60) ELSE Milliseconds(ctx.rtx)
        /\ more = (IF "ipv6" \in ctx.enable /\ "ipv4" \notin ctx.enable THEN {"mapped"} ELSE {})
                   \cup (IF ctx.scalar["force-biflow"] # 0 THEN {"force"} ELSE {})
  OBVIOUS
<1> DEFINE stop == \/ opts.transport # NONE /\ (ctx.out = NONE \/ Transport = NONE)
                   \/ opts.transport = NONE /\ ctx.out \in {NONE, ""} /\ ctx.rotate # 0
                   \/ out = "-" /\ opts.tty
<1>2. stage = "output"
  BY Zenon DEF qfContextSetupOutput
<1>3. \/ Exit
      \/ /\ ~stop /\ stage' = "middle" /\ UNCHANGED <<opts, args, asked>>
         /\ ctx' = [ctx EXCEPT !.out = out, !.rtx = rtx, !.uses = @ \cup more]
  <2>1. CASE stop
    BY <1>1, <2>1, Zenon DEF qfContextSetupOutput
  <2>2. CASE ~stop
    <3>1. /\ stage' = "middle" /\ UNCHANGED <<opts, args, asked>>
          /\ ctx' = [ctx EXCEPT !.out = out, !.rtx = rtx,
                  !.uses = @ \cup (IF "ipv6" \in ctx.enable /\ "ipv4" \notin ctx.enable
                                   THEN {"mapped"} ELSE {})
                             \cup (IF ctx.scalar["force-biflow"] # 0 THEN {"force"} ELSE {})]
      BY <1>1, <2>2, Zenon DEF qfContextSetupOutput
    <3>2. PICK a, b : /\ a = IF "ipv6" \in ctx.enable /\ "ipv4" \notin ctx.enable
                             THEN {"mapped"} ELSE {}
                      /\ b = IF ctx.scalar["force-biflow"] # 0 THEN {"force"} ELSE {}
      OBVIOUS
    <3>3. ctx' = [ctx EXCEPT !.out = out, !.rtx = rtx, !.uses = @ \cup a \cup b] /\ more = a \cup b
      BY <1>1, <3>1, <3>2, Zenon
    <3>4. ctx.uses \cup a \cup b = ctx.uses \cup more
      BY <3>3
    <3> QED BY <2>2, <3>1, <3>3, <3>4, Zenon
  <2> QED BY <2>1, <2>2
<1>4. CASE Exit
  BY <1>4, ExitKeepsConfig
<1>5. CASE /\ ~stop /\ stage' = "middle" /\ UNCHANGED <<opts, args, asked>>
           /\ ctx' = [ctx EXCEPT !.out = out, !.rtx = rtx, !.uses = @ \cup more]
  <2>1. Typed /\ AsAsked /\ AsCommanded /\ InUse /\ Templated
    BY <1>2 DEF ConfigInv
  <2>2. /\ DOMAIN ctx' = CtxFields /\ ctx'.out = out /\ ctx'.rtx = rtx
        /\ ctx'.uses = ctx.uses \cup more
        /\ \A f \in CtxFields \ {"out", "rtx", "uses"} : ctx'[f] = ctx[f]
    BY <1>5, <2>1 DEF Typed, CtxFields
  <2>3. /\ ctx'.ok = ctx.ok /\ ctx'.spec = ctx.spec /\ ctx'.scalar = ctx.scalar
        /\ ctx'.enable = ctx.enable /\ ctx'.biflow = ctx.biflow
        /\ ctx'.rotate = ctx.rotate /\ ctx'.stats = ctx.stats /\ ctx'.user = ctx.user
    BY <2>2 DEF CtxFields
  <2>4. Typed'
    BY <2>1, <2>2, <2>3 DEF Typed
  <2>5. AsAsked'
    BY <1>5, <2>1, <2>3, AskedKept
  <2>6. AsCommanded'
    <3>1. ctx.rtx = 1000 * opts.rtx /\ ctx.rotate = 1000 * opts.rotate /\ ctx.out = opts.out
      BY <1>2, <2>1 DEF AsCommanded
    <3>2. opts.rotate \in Nat
      BY ConfigAssumption DEF ConfigInv
    <3>3. opts.transport # "udp" => rtx = 1000 * opts.rtx
      BY <1>1, <3>1, ZenonT(30)
    <3>4. opts.transport = "udp" /\ opts.rtx = 0 => rtx = 1000 * 60
      <4> SUFFICES ASSUME opts.transport = "udp", opts.rtx = 0
                   PROVE  rtx = 1000 * 60
        OBVIOUS
      <4>1. ctx.rtx = 0
        BY <3>1
      <4>2. rtx = Milliseconds(60)
        BY <1>1, <4>1, Zenon
      <4> QED BY <4>2, Zenon DEF Milliseconds
    <3>5. opts.rotate # 0 => ctx.rotate # 0
      BY <3>1, <3>2
    <3>6. opts.transport # NONE \/ opts.rotate # 0 => out # NONE
      BY <1>1, <1>5, <3>5
    <3> HIDE DEF stop
    <3>7. opts.root /\ opts.user # NONE /\ Uid(opts.user) # 0 => ctx'.user = opts.user
      BY <1>2, <2>1, <2>3 DEF AsCommanded
    <3>8. ctx'.rotate = 1000 * opts.rotate /\ ctx'.stats = 1000 * opts.stats
      BY <1>2, <2>1, <2>3 DEF AsCommanded
    <3> QED BY <1>5, <2>2, <3>3, <3>4, <3>6, <3>7, <3>8 DEF AsCommanded
  <2> HIDE DEF stop
  <2>7. InUse'
    <3>1. ctx.uses \subseteq Lists /\ asked.lists \subseteq ctx.uses
      BY <1>2, <2>1 DEF InUse
    <3>2. "force" \notin Lists /\ "mapped" \notin Lists
      BY DEF Lists
    <3>3. "force" \in more <=> ctx.scalar["force-biflow"] # 0
      BY <1>1
    <3>4. "mapped" \in more <=> "ipv6" \in ctx.enable /\ "ipv4" \notin ctx.enable
      BY <1>1
    <3>5. "source-mac" \in asked.lists => "mac" \in ctx.enable
      BY <2>1 DEF InUse
    <3> HIDE DEF Lists
    <3>6. /\ "force" \in ctx'.uses <=> ctx'.scalar["force-biflow"] # 0
          /\ "mapped" \in ctx'.uses <=> "ipv6" \in ctx'.enable /\ "ipv4" \notin ctx'.enable
          /\ asked.lists \subseteq ctx'.uses
      BY <2>2, <2>3, <3>1, <3>2, <3>3, <3>4
    <3> QED BY <1>5, <2>3, <3>5, <3>6 DEF InUse
  <2>8. Fits(ctx) => Fits(ctx)'
    BY <2>3, Zenon DEF Fits
  <2>9. Templated'
    BY <1>2, <1>5, <2>1, <2>3, <2>8 DEF Templated
  <2> QED BY <1>5, <2>4, <2>5, <2>6, <2>7, <2>9 DEF ConfigInv, StageNames, StartedWith
<1> QED BY <1>3, <1>4, <1>5

LEMMA SetupKeeps ==
  ASSUME ConfigInv, qfContextSetup
  PROVE  ConfigInv'
<1>1. stage = "middle" /\ stage' = "run" /\ UNCHANGED <<opts, ctx, asked>>
  BY DEF qfContextSetup
<1>2. Typed /\ AsAsked /\ AsCommanded /\ InUse /\ Templated
  BY <1>1 DEF ConfigInv
<1>3. AsAsked'
  BY <1>1, <1>2, AskedKept
<1>4. Fits(ctx) => Fits(ctx)'
  BY <1>1, Zenon DEF Fits
<1>5. Typed' /\ AsCommanded' /\ InUse' /\ Templated'
  BY <1>1, <1>2, <1>4 DEF Typed, AsCommanded, InUse, Templated
<1>6. StartedWith'
  <2>1. PICK gre, silk, uniflow, reqtype, frag :
          /\ {gre, silk, uniflow} \subseteq BOOLEAN
          /\ gre = (ctx.scalar["gre-decap"] # 0) /\ silk = (ctx.scalar["silk-compatible"] # 0)
          /\ uniflow = ~ctx.biflow
          /\ reqtype = IF "ipv6" \in ctx.enable THEN "YF_TYPE_IPANY" ELSE "YF_TYPE_IPv4"
          /\ frag = IF ctx.scalar["max-frags"] # 0 THEN ctx.scalar["max-frags"] ELSE NONE
    OBVIOUS
  <2>2. args' = [reqtype |-> reqtype, gre |-> gre, silk |-> silk,
                 idle |-> Milliseconds(ctx.scalar["idle-timeout"]),
                 active |-> Milliseconds(ctx.scalar["active-timeout"]),
                 max_flows |-> ctx.scalar["max-flows"], uniflow |-> uniflow,
                 trackers |-> ctx.enable \ {"ipv4", "ipv6"}, fragtab |-> frag]
    BY <2>1, Zenon DEF qfContextSetup
  <2>3. /\ args'.idle = 1000 * ctx.scalar["idle-timeout"]
        /\ args'.active = 1000 * ctx.scalar["active-timeout"]
        /\ args'.silk = silk /\ args'.uniflow = uniflow /\ args'.fragtab = frag
        /\ args'.reqtype = reqtype /\ args'.trackers = ctx.enable \ {"ipv4", "ipv6"}
    BY <2>2 DEF Milliseconds
  <2>4. frag = NONE <=> ctx.scalar["max-frags"] = 0
    <3>1. ctx.scalar["max-frags"] \in Nat
      BY <1>2 DEF Typed, Numbers
    <3> QED BY <2>1, <3>1, ConfigAssumption
  <2>5. reqtype = "YF_TYPE_IPANY" <=> "ipv6" \in ctx.enable
    BY <2>1
  <2>6. (args'.silk <=> ctx'.scalar["silk-compatible"] # 0) /\ args'.silk \in BOOLEAN
    <3>1. silk <=> ctx.scalar["silk-compatible"] # 0
      BY <2>1
    <3>2. args'.silk = silk /\ ctx' = ctx
      BY <1>1, <2>3
    <3>3. silk \in BOOLEAN
      BY <2>1
    <3> QED BY <3>1, <3>2, <3>3, Zenon
  <2>7. args'.uniflow \in BOOLEAN /\ (args'.uniflow <=> ~ctx'.biflow)
    <3>1. uniflow <=> ~ctx.biflow
      BY <2>1
    <3>2. args'.uniflow = uniflow /\ ctx' = ctx
      BY <1>1, <2>3
    <3>3. uniflow \in BOOLEAN
      BY <2>1
    <3> QED BY <3>1, <3>2, <3>3, Zenon
  <2>8. /\ args'.idle = 1000 * ctx'.scalar["idle-timeout"]
        /\ args'.active = 1000 * ctx'.scalar["active-timeout"]
        /\ args'.fragtab = NONE <=> ctx'.scalar["max-frags"] = 0
        /\ args'.reqtype = "YF_TYPE_IPANY" <=> "ipv6" \in ctx'.enable
        /\ args'.trackers = ctx'.enable \ {"ipv4", "ipv6"}
    BY <1>1, <2>3, <2>4, <2>5
  <2> QED BY <2>6, <2>7, <2>8, ZenonT(30) DEF StartedWith
<1> QED BY <1>1, <1>3, <1>5, <1>6 DEF ConfigInv, StageNames

LEMMA ConfigStutters ==
  ASSUME ConfigInv, UNCHANGED configVars
  PROVE  ConfigInv'
<1>1. UNCHANGED <<opts, stage, ctx, args, asked>>
  BY DEF configVars
<1>2. AsAsked => AsAsked'
  BY <1>1, AskedKept
<1>3. Fits(ctx) => Fits(ctx)'
  BY <1>1, Zenon DEF Fits
<1> QED BY <1>1, <1>2, <1>3
        DEF ConfigInv, Typed, AsCommanded, InUse, Templated, StartedWith

LEMMA ConfigInductive ==
  ConfigSpec => []ConfigInv
<1>1. ConfigInv /\ [ConfigNext]_configVars => ConfigInv'
  <2> SUFFICES ASSUME ConfigInv, [ConfigNext]_configVars
               PROVE  ConfigInv'
    OBVIOUS
  <2>1. CASE yfParseOptions
    BY <2>1, ParseOptionsKeeps
  <2>2. CASE qfConfigDotfile
    BY <2>2, DotfileKeeps
  <2>3. CASE qfConfigDefaultTemplate
    BY <2>3, DefaultTemplateKeeps
  <2>4. ASSUME NEW kn \in DocNodes, qfYamlDocument(kn[1], kn[2])
        PROVE  ConfigInv'
    BY <2>4, DocumentKeeps
  <2>5. CASE qfContextSetupInput
    BY <2>5, InputKeeps
  <2>6. CASE DropPrivilege
    BY <2>6, PrivilegeKeeps
  <2>7. CASE qfContextSetupOutput
    BY <2>7, OutputKeeps
  <2>8. CASE qfContextSetup
    BY <2>8, SetupKeeps
  <2>9. CASE qfContextTeardown
    BY <2>9 DEF qfContextTeardown, ConfigInv, StageNames
  <2>10. CASE UNCHANGED configVars
    BY <2>10, ConfigStutters
  <2> QED BY <2>1, <2>2, <2>3, <2>4, <2>5, <2>6, <2>7, <2>8, <2>9, <2>10 DEF ConfigNext
<1> QED BY <1>1, ConfigStarts, PTL DEF ConfigSpec

(* A program that runs does so with what it was asked for: no bad key was  *)
(* passed over (qfYamlDocument), timeouts, periods, lists, collector and   *)
(* user are those of the document and the command line (yfParseOptions,    *)
(* qfContextSetup): for every document and every command line.             *)
THEOREM SettingsAlwaysReachStages == ConfigSpec => []SettingsReachStages
<1>1. ConfigInv => SettingsReachStages
  <2> SUFFICES ASSUME ConfigInv, stage = "run"
               PROVE  SettingsReachStages
    BY DEF SettingsReachStages
  <2>1. Typed /\ AsAsked /\ AsCommanded /\ InUse /\ StartedWith
    BY DEF ConfigInv
  <2>2. /\ ~asked.bad
        /\ args.idle = 1000 * Asked("idle-timeout")
        /\ args.active = 1000 * Asked("active-timeout")
    BY <2>1 DEF AsAsked, StartedWith, Numbers
  <2>3. args.silk = (Asked("silk-compatible") # 0)
    <3>1. (args.silk <=> Asked("silk-compatible") # 0) /\ args.silk \in BOOLEAN
      BY <2>1 DEF AsAsked, StartedWith, Booleans
    <3>2. PICK b \in BOOLEAN : b = (Asked("silk-compatible") # 0)
      OBVIOUS
    <3> QED BY <3>1, <3>2
  <2>4. (args.fragtab = NONE) = (Asked("max-frags") = 0)
    BY <2>1 DEF AsAsked, StartedWith, Numbers
  <2>5. ("force" \in ctx.uses) = (Asked("force-biflow") # 0)
    BY <2>1 DEF AsAsked, InUse, Booleans
  <2>6. /\ ctx.rotate = 1000 * opts.rotate /\ ctx.stats = 1000 * opts.stats
        /\ (opts.transport # NONE \/ opts.rotate # 0 => ctx.out # NONE)
        /\ (opts.root /\ opts.user # NONE /\ Uid(opts.user) # 0 => ctx.user = opts.user)
    BY <2>1 DEF AsCommanded
  <2>7. ctx.rtx = (IF opts.transport = "udp" /\ opts.rtx = 0 THEN 1000 * 60
                  ELSE IF opts.transport = "udp" THEN ctx.rtx ELSE 1000 * opts.rtx)
    BY <2>1 DEF AsCommanded
  <2>8. asked.lists \subseteq ctx.uses /\ ("source-mac" \in asked.lists => "mac" \in args.trackers)
    BY <2>1 DEF InUse, StartedWith
  <2> QED BY <2>2, <2>3, <2>4, <2>5, <2>6, <2>7, <2>8, ZenonT(30) DEF SettingsReachStages
<1> QED BY <1>1, ConfigInductive, PTL

(* What the manual says of an element is in cfg_ie_features, with the      *)
(* exceptions listed.                                                      *)
LEMMA DocumentedInTable ==
  ASSUME NEW ie, NEW f \in DocumentedFeatures(ie)
  PROVE  /\ f \notin {"ipv4", "ipv6"}
         /\ <<ie, f>> \in NotInTable \/ <<ie, f>> \in cfg_ie_features
<1> DEFINE A == {"sourceMacAddress", "destinationMacAddress", "vlanId"}
           B == {"tcpSequenceCount", "reverseTcpSequenceCount", "tcpRetransmitCount",
                 "maxTcpSequenceJump", "tcpSequenceLossCount", "tcpSequenceJumpCount"}
           C == {"minTcpRttMilliseconds", "lastTcpRttMilliseconds", "tcpRttSampleCount"}
           D == {"declaredTcpMss", "observedTcpMss", "qofTcpCharacteristics"}
           E == {"minTcpRwin", "meanTcpRwin", "maxTcpRwin"}
<1>1. \/ ie \in A /\ f = "mac"
      \/ ie \in B /\ f = "seq"
      \/ ie = "tcpLossEventCount" /\ f \in {"seq", "rtt", "tcpopt"}
      \/ ie \in C /\ f \in {"rtt", "tcpopt"}
      \/ ie \in D /\ f = "tcpopt"
      \/ ie \in E /\ f \in {"rwin", "tcpopt"}
  BY DEF DocumentedFeatures
<1>2. f \notin {"ipv4", "ipv6"}
  BY <1>1
<1>3. CASE ie \in A /\ f = "mac"
  BY <1>3 DEF cfg_ie_features
<1>4. CASE ie \in B /\ f = "seq"
  BY <1>4 DEF cfg_ie_features, NotInTable
<1>5. CASE ie = "tcpLossEventCount" /\ f \in {"seq", "rtt", "tcpopt"}
  BY <1>5 DEF cfg_ie_features, NotInTable
<1>6. CASE ie \in C /\ f \in {"rtt", "tcpopt"}
  BY <1>6 DEF cfg_ie_features, NotInTable
<1>7. CASE ie \in D /\ f = "tcpopt"
  BY <1>7 DEF cfg_ie_features, NotInTable
<1>8. CASE ie \in E /\ f \in {"rwin", "tcpopt"}
  BY <1>8 DEF cfg_ie_features, NotInTable
<1> QED BY <1>1, <1>2, <1>3, <1>4, <1>5, <1>6, <1>7, <1>8

(* The stages do what the template needs (qfConfigIE, cfg_ie_features,     *)
(* qfContextSetup): IPv6 is decoded, IPv4 mapped, directions joined and    *)
(* trackers enabled by the elements exported: for every document with at   *)
(* most one template.                                                      *)
THEOREM TemplateAlwaysReachesStages == ConfigSpec => []TemplateReachesStages
<1>1. ConfigInv => TemplateReachesStages
  <2> SUFFICES ASSUME ConfigInv, stage = "run", asked.templates <= 1
               PROVE  LET ies == ToSet(ctx.spec)
                          Has(f) == \E ie \in ies : <<ie, f>> \in cfg_ie_features
                      IN  /\ ies # {}
                          /\ (args.reqtype = "YF_TYPE_IPANY") = Has("ipv6")
                          /\ ("mapped" \in ctx.uses) = (Has("ipv6") /\ ~Has("ipv4"))
                          /\ args.uniflow = (ies \cap ReverseIEs = {})
                          /\ \A ie \in ies : \A f \in DocumentedFeatures(ie) :
                               <<ie, f>> \in NotInTable \/ f \in args.trackers
    BY Zenon DEF TemplateReachesStages
  <2>1. Typed /\ InUse /\ Templated /\ StartedWith
    BY DEF ConfigInv
  <2>2. PICK ies : ies = ToSet(ctx.spec)
    OBVIOUS
  <2> DEFINE Has(f) == \E ie \in ies : <<ie, f>> \in cfg_ie_features
  <2>3. ies # {}
    <3>1. ctx.spec \in Seq(Exportable) /\ ctx.spec # <<>>
      BY <2>1 DEF Typed, Templated
    <3>2. Len(ctx.spec) \in Nat /\ DOMAIN ctx.spec = 1..Len(ctx.spec) /\ Len(ctx.spec) # 0
      BY <3>1, EmptySeq, LenProperties
    <3>3. 1 \in DOMAIN ctx.spec
      BY <3>2
    <3> QED BY <2>2, <3>3 DEF ToSet
  <2>4. Fits(ctx)
    BY <2>1 DEF Templated
  <2>5. \A f : f \in Feat(ies) <=> Has(f)
    <3> TAKE f
    <3>1. ASSUME f \in Feat(ies)
          PROVE  Has(f)
      <4>1. PICK q \in cfg_ie_features : q[1] \in ies /\ f = q[2]
        BY <3>1 DEF Feat
      <4>2. q = <<q[1], q[2]>>
        BY <4>1 DEF cfg_ie_features
      <4> QED BY <4>1, <4>2, Zenon
    <3>2. ASSUME Has(f)
          PROVE  f \in Feat(ies)
      <4> HIDE DEF cfg_ie_features
      <4> QED BY <3>2 DEF Feat
    <3> QED BY <3>1, <3>2
  <2>6. /\ \A f : Has(f) => f \in ctx.enable
        /\ \A f : f \in ctx.enable /\ f # "mac" => Has(f)
    <3>1. PICK F : F = Feat(ies) /\ F \subseteq ctx.enable /\ ctx.enable \subseteq F \cup {"mac"}
      BY <2>2, <2>4, Zenon DEF Fits
    <3> HIDE DEF Has
    <3> QED BY <2>5, <3>1
  <2>7. ("ipv6" \in ctx.enable <=> Has("ipv6")) /\ ("ipv4" \in ctx.enable <=> Has("ipv4"))
    <3> HIDE DEF Has
    <3> QED BY <2>6
  <2>8. args.reqtype = "YF_TYPE_IPANY" <=> Has("ipv6")
    BY <2>1, <2>7, ZenonT(30) DEF StartedWith
  <2>9. "mapped" \in ctx.uses <=> Has("ipv6") /\ ~Has("ipv4")
    <3> HIDE DEF Has
    <3> QED BY <2>1, <2>7 DEF InUse
  <2>10. args.uniflow = (ies \cap ReverseIEs = {})
    <3>1. args.uniflow \in BOOLEAN /\ (args.uniflow <=> ~ctx.biflow)
      BY <2>1 DEF StartedWith
    <3>2. ctx.biflow <=> ies \cap ReverseIEs # {}
      BY <2>2, <2>4, Zenon DEF Fits
    <3>3. PICK b \in BOOLEAN : b = (ies \cap ReverseIEs = {})
      OBVIOUS
    <3> HIDE DEF ReverseIEs
    <3> QED BY <3>1, <3>2, <3>3
  <2>11. ASSUME NEW ie \in ies, NEW f \in DocumentedFeatures(ie)
         PROVE  <<ie, f>> \in NotInTable \/ f \in args.trackers
    <3>1. f \notin {"ipv4", "ipv6"} /\ (<<ie, f>> \in NotInTable \/ Has(f))
      BY <2>11, DocumentedInTable, Zenon
    <3>2. args.trackers = ctx.enable \ {"ipv4", "ipv6"}
      BY <2>1 DEF StartedWith
    <3> HIDE DEF Has
    <3> QED BY <2>6, <3>1, <3>2
  <2>12. (args.reqtype = "YF_TYPE_IPANY") = Has("ipv6")
    <3>1. PICK h \in BOOLEAN : h = Has("ipv6")
      OBVIOUS
    <3>2. h <=> Has("ipv6")
      BY <3>1
    <3> HIDE DEF Has
    <3>3. (args.reqtype = "YF_TYPE_IPANY") = h
      BY <2>8, <3>2
    <3> QED BY <3>1, <3>3, Zenon
  <2>13. ("mapped" \in ctx.uses) = (Has("ipv6") /\ ~Has("ipv4"))
    <3>1. PICK h \in BOOLEAN : h = (Has("ipv6") /\ ~Has("ipv4"))
      OBVIOUS
    <3>2. h <=> Has("ipv6") /\ ~Has("ipv4")
      BY <3>1
    <3> HIDE DEF Has
    <3>3. ("mapped" \in ctx.uses) = h
      BY <2>9, <3>2
    <3> QED BY <3>1, <3>3, Zenon
  <2> QED BY <2>2, <2>3, <2>10, <2>11, <2>12, <2>13, Zenon
<1> QED BY <1>1, ConfigInductive, PTL

=============================================================================
