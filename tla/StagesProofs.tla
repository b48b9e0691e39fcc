---------------------------- MODULE StagesProofs ----------------------------
(***************************************************************************)
(* Proofs about the stages a packet passes besides the tables (modules     *)
(* Stat, Detune, TcpTrack, Decode and SeqTrack).                           *)
(***************************************************************************)
EXTENDS Stat, Detune, TcpTrack, Decode, SeqTrack, FiniteSetTheorems, SequenceTheorems,
        WellFoundedInduction, TLAPS

----------------------------------------------------------------------------
(***************************************************************************)
(* Sums                                                                    *)
(***************************************************************************)
(* The sum of a function over a finite set, taken in the order that CHOOSE *)
(* gives: what the sums of the models unfold to.                           *)
One(s) == CHOOSE x \in s : TRUE
SumAt(of, g, s) == IF s = {} THEN 0 ELSE of[One(s)] + g[s \ {One(s)}]
Sums(S, of, g) == \A s \in SUBSET S : g[s] = SumAt(of, g, s)
Total(of, S) == (CHOOSE g : Sums(S, of, g))[S]

UpTo(S, n) == {s \in SUBSET S : Cardinality(s) <= n}

(* A set of numbers that is not empty has a least one.                     *)
LEMMA LessThanRelation ==
  \E R : IsWellFoundedOn(R, Nat) /\ \A x, y \in Nat : <<y, x>> \in R <=> y < x
<1>1. \A x, y \in Nat : <<y, x>> \in OpToRel(<, Nat) <=> y < x
  BY Zenon DEF OpToRel
<1> QED BY <1>1, NatLessThanWellFounded, Zenon

LEMMA LeastNumber ==
  ASSUME NEW S \in SUBSET Nat, S # {}
  PROVE  \E x \in S : \A y \in S : x <= y
<1>1. PICK R : IsWellFoundedOn(R, Nat) /\ \A x, y \in Nat : <<y, x>> \in R <=> y < x
  BY LessThanRelation
<1>2. \E x \in S : \A y \in S : ~(<<y, x>> \in R)
  BY <1>1, WFMin, Zenon
<1>3. PICK x \in S : \A y \in S : ~(<<y, x>> \in R)
  BY <1>2
<1>4. \A y \in S : ~(y < x)
  BY <1>1, <1>3
<1> QED BY <1>3, <1>4

LEMMA OneLess ==
  ASSUME NEW S, IsFiniteSet(S), NEW s \in SUBSET S, s # {}
  PROVE  /\ One(s) \in s /\ s \ {One(s)} \in SUBSET S
         /\ Cardinality(s) \in Nat /\ Cardinality(s \ {One(s)}) = Cardinality(s) - 1
         /\ Cardinality(s \ {One(s)}) \in Nat
<1>1. One(s) \in s
  BY DEF One
<1>2. IsFiniteSet(s)
  BY FS_Subset
<1>3. IsFiniteSet(s \ {One(s)}) /\ Cardinality(s \ {One(s)}) = Cardinality(s) - 1
  BY <1>1, <1>2, FS_RemoveElement
<1>4. Cardinality(s) \in Nat /\ Cardinality(s \ {One(s)}) \in Nat
  BY <1>2, <1>3, FS_CardinalityType
<1> QED BY <1>1, <1>3, <1>4

LEMMA SumsExist ==
  ASSUME NEW S, IsFiniteSet(S), NEW of
  PROVE  \E g : Sums(S, of, g)
<1> DEFINE Good(n, g) == \A s \in UpTo(S, n) : g[s] = SumAt(of, g, s)
           Bad == {n \in Nat : ~\E g : Good(n, g)}
<1>1. Bad = {}
  <2> SUFFICES ASSUME Bad # {}
               PROVE  FALSE
    OBVIOUS
  <2>1. PICK n \in Bad : \A k \in Bad : n <= k
    BY LeastNumber
  <2>2. CASE n = 0
    <3> DEFINE g == [s \in UpTo(S, 0) |-> 0]
    <3>1. \A s \in UpTo(S, 0) : s = {}
      <4> SUFFICES ASSUME NEW s \in UpTo(S, 0), s # {}
                   PROVE  FALSE
        OBVIOUS
      <4>1. s \in SUBSET S /\ Cardinality(s) <= 0
        BY DEF UpTo
      <4>2. /\ Cardinality(s) \in Nat /\ Cardinality(s \ {One(s)}) = Cardinality(s) - 1
            /\ Cardinality(s \ {One(s)}) \in Nat
        BY <4>1, OneLess
      <4> QED BY <4>1, <4>2
    <3>2. Good(0, g)
      BY <3>1 DEF SumAt
    <3> QED BY <2>1, <2>2, <3>2
  <2>3. CASE n # 0
    <3>1. n - 1 \in Nat /\ n - 1 \notin Bad
      BY <2>1, <2>3
    <3>2. PICK g : Good(n - 1, g)
      BY <3>1
    <3> DEFINE h == [s \in UpTo(S, n) |-> SumAt(of, g, s)]
    <3>3. \A s \in UpTo(S, n) : s # {} =>
            s \ {One(s)} \in UpTo(S, n - 1) /\ s \ {One(s)} \in UpTo(S, n)
      <4> SUFFICES ASSUME NEW s \in UpTo(S, n), s # {}
                   PROVE  s \ {One(s)} \in UpTo(S, n - 1) /\ s \ {One(s)} \in UpTo(S, n)
        OBVIOUS
      <4>1. s \in SUBSET S /\ Cardinality(s) <= n
        BY DEF UpTo
      <4>2. /\ s \ {One(s)} \in SUBSET S /\ Cardinality(s) \in Nat
            /\ Cardinality(s \ {One(s)}) = Cardinality(s) - 1
        BY <4>1, OneLess
      <4>3. Cardinality(s \ {One(s)}) <= n - 1 /\ Cardinality(s \ {One(s)}) <= n
        BY <2>1, <4>1, <4>2
      <4> QED BY <4>2, <4>3 DEF UpTo
    <3>4. \A s \in UpTo(S, n - 1) : s \in UpTo(S, n) => h[s] = g[s]
      BY <3>2
    <3>5. \A s \in UpTo(S, n) : h[s] = SumAt(of, h, s)
      <4> SUFFICES ASSUME NEW s \in UpTo(S, n)
                   PROVE  h[s] = SumAt(of, h, s)
        OBVIOUS
      <4>1. h[s] = SumAt(of, g, s)
        OBVIOUS
      <4>2. s # {} => h[s \ {One(s)}] = g[s \ {One(s)}]
        BY <3>3, <3>4
      <4> HIDE DEF h
      <4> QED BY <4>1, <4>2 DEF SumAt
    <3> HIDE DEF h
    <3>6. Good(n, h)
      BY <3>5
    <3> QED BY <2>1, <3>6
  <2> QED BY <2>2, <2>3
<1>2. Cardinality(S) \in Nat /\ UpTo(S, Cardinality(S)) = SUBSET S
  BY FS_CardinalityType, FS_Subset DEF UpTo
<1>3. PICK g : Good(Cardinality(S), g)
  BY <1>1, <1>2
<1> QED BY <1>2, <1>3 DEF Sums

(* The sum depends on nothing but the values that it adds.                 *)
LEMMA SumsAgree ==
  ASSUME NEW T, IsFiniteSet(T), NEW f, NEW g, Sums(T, f, g),
         NEW S \in SUBSET T, NEW of, \A x \in S : of[x] = f[x]
  PROVE  g[S] = Total(of, S)
<1>1. IsFiniteSet(S)
  BY FS_Subset
<1>2. PICK h : h = CHOOSE u : Sums(S, of, u)
  OBVIOUS
<1>3. Sums(S, of, h) /\ Total(of, S) = h[S]
  BY <1>1, <1>2, SumsExist DEF Total
<1> DEFINE Bad == {Cardinality(s) : s \in {z \in SUBSET S : g[z] # h[z]}}
<1>4. SUFFICES ASSUME g[S] # h[S]
               PROVE  FALSE
  BY <1>3
<1>5. \A s \in SUBSET S : Cardinality(s) \in Nat
  BY <1>1, FS_Subset, FS_CardinalityType
<1>6. Bad \in SUBSET Nat /\ Bad # {}
  BY <1>4, <1>5
<1>7. PICK k \in Bad : \A y \in Bad : k <= y
  BY <1>6, LeastNumber
<1>8. PICK s \in SUBSET S : g[s] # h[s] /\ k = Cardinality(s)
  BY <1>7
<1>9. g[s] = SumAt(f, g, s) /\ h[s] = SumAt(of, h, s)
  BY <1>3 DEF Sums
<1>10. s # {}
  BY <1>8, <1>9 DEF SumAt
<1>11. /\ One(s) \in s /\ s \ {One(s)} \in SUBSET S
       /\ Cardinality(s) \in Nat /\ Cardinality(s \ {One(s)}) = Cardinality(s) - 1
  BY <1>1, <1>10, OneLess
<1>12. g[s \ {One(s)}] # h[s \ {One(s)}]
  BY <1>8, <1>9, <1>10, <1>11 DEF SumAt
<1>13. Cardinality(s \ {One(s)}) \in Bad
  BY <1>11, <1>12
<1>14. ~(k <= Cardinality(s \ {One(s)}))
  BY <1>8, <1>11
<1> QED BY <1>7, <1>13, <1>14

LEMMA TotalAt ==
  ASSUME NEW S, IsFiniteSet(S), NEW of
  PROVE  /\ S = {} => Total(of, S) = 0
         /\ S # {} => /\ One(S) \in S /\ IsFiniteSet(S \ {One(S)})
                      /\ Cardinality(S \ {One(S)}) < Cardinality(S)
                      /\ Total(of, S) = of[One(S)] + Total(of, S \ {One(S)})
<1>1. PICK g : g = CHOOSE u : Sums(S, of, u)
  OBVIOUS
<1>2. Sums(S, of, g) /\ Total(of, S) = g[S]
  BY <1>1, SumsExist DEF Total
<1>3. g[S] = SumAt(of, g, S)
  BY <1>2 DEF Sums
<1>4. CASE S # {}
  <2>1. /\ One(S) \in S /\ S \ {One(S)} \in SUBSET S /\ Cardinality(S) \in Nat
        /\ Cardinality(S \ {One(S)}) = Cardinality(S) - 1
    BY <1>4, OneLess
  <2>2. g[S \ {One(S)}] = Total(of, S \ {One(S)})
    BY <1>2, <2>1, SumsAgree
  <2>3. IsFiniteSet(S \ {One(S)})
    BY <2>1, FS_Subset
  <2> QED BY <1>2, <1>3, <1>4, <2>1, <2>2, <2>3 DEF SumAt
<1> QED BY <1>2, <1>3, <1>4 DEF SumAt

LEMMA TotalAgrees ==
  ASSUME NEW S, IsFiniteSet(S), NEW of, NEW f, \A x \in S : of[x] = f[x]
  PROVE  Total(of, S) = Total(f, S)
<1>1. PICK g : g = CHOOSE u : Sums(S, of, u)
  OBVIOUS
<1>2. Sums(S, of, g) /\ Total(of, S) = g[S]
  BY <1>1, SumsExist DEF Total
<1> QED BY <1>2, SumsAgree

LEMMA TotalType ==
  ASSUME NEW S, IsFiniteSet(S), NEW of, \A x \in S : of[x] \in Nat
  PROVE  Total(of, S) \in Nat
<1> DEFINE Bad == {Cardinality(s) : s \in {z \in SUBSET S : Total(of, z) \notin Nat}}
<1>1. SUFFICES ASSUME Total(of, S) \notin Nat
               PROVE  FALSE
  OBVIOUS
<1>2. \A s \in SUBSET S : IsFiniteSet(s) /\ Cardinality(s) \in Nat
  BY FS_Subset, FS_CardinalityType
<1>3. Bad \in SUBSET Nat /\ Bad # {}
  BY <1>1, <1>2
<1>4. PICK k \in Bad : \A y \in Bad : k <= y
  BY <1>3, LeastNumber
<1>5. PICK s \in SUBSET S : Total(of, s) \notin Nat /\ k = Cardinality(s)
  BY <1>4
<1>6. s # {}
  BY <1>2, <1>5, TotalAt
<1>7. /\ One(s) \in s /\ Cardinality(s \ {One(s)}) < k
      /\ Total(of, s) = of[One(s)] + Total(of, s \ {One(s)})
  BY <1>2, <1>5, <1>6, TotalAt
<1>8. Total(of, s \ {One(s)}) \notin Nat
  BY <1>5, <1>7
<1>9. Cardinality(s \ {One(s)}) \in Bad /\ Cardinality(s \ {One(s)}) \in Nat
  BY <1>2, <1>8
<1>10. k <= Cardinality(s \ {One(s)}) /\ k \in Nat
  BY <1>2, <1>4, <1>5, <1>9
<1> QED BY <1>7, <1>9, <1>10

(* One more element adds its value, whichever is chosen first.             *)
LEMMA TotalAdds ==
  ASSUME NEW S, IsFiniteSet(S), NEW of, NEW e, e \notin S,
         \A x \in S \cup {e} : of[x] \in Nat
  PROVE  Total(of, S \cup {e}) = of[e] + Total(of, S)
<1> DEFINE Wrong(z) == \E y \in (S \cup {e}) \ z : Total(of, z \cup {y}) # of[y] + Total(of, z)
           Bad == {Cardinality(s) : s \in {z \in SUBSET (S \cup {e}) : Wrong(z)}}
<1>1. SUFFICES ASSUME Wrong(S)
               PROVE  FALSE
  OBVIOUS
<1>2. IsFiniteSet(S \cup {e})
  BY FS_AddElement
<1>3. \A s \in SUBSET (S \cup {e}) : IsFiniteSet(s) /\ Cardinality(s) \in Nat
  BY <1>2, FS_Subset, FS_CardinalityType
<1>4. Bad \in SUBSET Nat /\ Bad # {}
  BY <1>1, <1>3
<1>5. PICK k \in Bad : \A y \in Bad : k <= y
  BY <1>4, LeastNumber
<1>6. PICK s \in SUBSET (S \cup {e}) : Wrong(s) /\ k = Cardinality(s)
  BY <1>5
<1>7. PICK y \in (S \cup {e}) \ s : Total(of, s \cup {y}) # of[y] + Total(of, s)
  BY <1>6
<1>8. PICK w : w = s \cup {y}
  OBVIOUS
<1>9. w \in SUBSET (S \cup {e}) /\ w # {} /\ IsFiniteSet(w)
  BY <1>3, <1>7, <1>8
<1>10. /\ One(w) \in w
       /\ Total(of, w) = of[One(w)] + Total(of, w \ {One(w)})
  BY <1>9, TotalAt
<1>11. One(w) # y
  <2> SUFFICES ASSUME One(w) = y
               PROVE  FALSE
    OBVIOUS
  <2>1. w \ {One(w)} = s
    BY <1>7, <1>8
  <2> QED BY <1>7, <1>8, <1>10, <2>1
<1>12. PICK c \in s : c = One(w)
  BY <1>8, <1>10, <1>11
<1>13. PICK r : r = s \ {c}
  OBVIOUS
<1>14. r \in SUBSET (S \cup {e}) /\ IsFiniteSet(r) /\ Cardinality(r) \in Nat
  BY <1>3, <1>13
<1>15. ~Wrong(r)
  <2>1. Cardinality(r) = Cardinality(s) - 1
    BY <1>3, <1>13, FS_RemoveElement
  <2>2. ~(k <= Cardinality(r))
    BY <1>3, <1>6, <2>1
  <2>3. Cardinality(r) \notin Bad
    BY <1>5, <2>2
  <2> QED BY <1>14, <2>3
<1>16. r \cup {y} = w \ {c} /\ r \cup {c} = s /\ y \notin r /\ c \notin r
  BY <1>7, <1>8, <1>12, <1>13, <1>11
<1>17. Total(of, w \ {c}) = of[y] + Total(of, r)
  <2>1. y \in (S \cup {e}) \ r
    BY <1>7, <1>16
  <2> QED BY <1>15, <1>16, <2>1
<1>18. Total(of, s) = of[c] + Total(of, r)
  <2>1. c \in (S \cup {e}) \ r
    BY <1>6, <1>12, <1>16
  <2> QED BY <1>15, <1>16, <2>1
<1>19. of[c] \in Nat /\ of[y] \in Nat /\ Total(of, r) \in Nat
  BY <1>6, <1>7, <1>12, <1>14, TotalType
<1> QED BY <1>7, <1>8, <1>10, <1>12, <1>17, <1>18, <1>19

LEMMA IntervalAdds ==
  ASSUME NEW j \in Nat, NEW m \in Nat, j <= m + 1, NEW of, \A x \in j..m + 1 : of[x] \in Nat
  PROVE  /\ Total(of, j..m + 1) = of[m + 1] + Total(of, j..m)
         /\ Total(of, j..m) \in Nat
<1>1. IsFiniteSet(j..m) /\ j..m + 1 = (j..m) \cup {m + 1} /\ m + 1 \notin j..m
  BY FS_Interval
<1>2. \A x \in (j..m) \cup {m + 1} : of[x] \in Nat
  BY <1>1
<1> QED BY <1>1, <1>2, TotalAdds, TotalType

(* The sums of the models are of this kind.                                *)
LEMMA OctTotal ==
  ASSUME NEW seq, NEW S, IsFiniteSet(S), NEW of, \A x \in S : of[x] = seq[x].oct
  PROVE  MapThenSumSet(LAMBDA j : seq[j].oct, S) = Total(of, S)
<1> DEFINE F(f) == [s \in SUBSET S |-> IF s = {} THEN 0
                                       ELSE seq[CHOOSE x \in s : TRUE].oct
                                              + f[s \ {CHOOSE x \in s : TRUE}]]
           iter == CHOOSE f : f = F(f)
<1>1. PICK g : Sums(S, of, g)
  BY SumsExist
<1>2. DEFINE h == [s \in SUBSET S |-> g[s]]
<1>3. h = F(h)
  <2>1. \A s \in SUBSET S : h[s] = F(h)[s]
    <3> SUFFICES ASSUME NEW s \in SUBSET S
                 PROVE  h[s] = F(h)[s]
      OBVIOUS
    <3>1. h[s] = SumAt(of, g, s)
      BY <1>1 DEF Sums
    <3>2. s # {} => g[s \ {One(s)}] = h[s \ {One(s)}] /\ of[One(s)] = seq[One(s)].oct
      BY OneLess
    <3> QED BY <3>1, <3>2 DEF SumAt, One
  <2>2. F(h) = [s \in SUBSET S |-> F(h)[s]] /\ h = [s \in SUBSET S |-> h[s]]
    OBVIOUS
  <2> HIDE DEF F, h
  <2> QED BY <2>1, <2>2
<1>4. iter = F(iter)
  <2> HIDE DEF F, h
  <2> QED BY <1>3
<1>5. MapThenSumSet(LAMBDA j : seq[j].oct, S) = iter[S]
  BY DEF MapThenSumSet, MapThenFoldSet
<1> HIDE DEF iter
<1>6. Sums(S, of, iter)
  <2> SUFFICES ASSUME NEW s \in SUBSET S
               PROVE  iter[s] = SumAt(of, iter, s)
    BY DEF Sums
  <2>1. iter[s] = F(iter)[s]
    BY <1>4
  <2>2. s # {} => of[One(s)] = seq[One(s)].oct
    BY OneLess
  <2> QED BY <2>1, <2>2 DEF SumAt, One
<1>7. Total(of, S) = iter[S]
  BY <1>6, SumsAgree
<1> QED BY <1>5, <1>7

LEMMA OctetsTotal ==
  ASSUME NEW T, NEW hs \in Seq(T)
  PROVE  Octets(hs) = Total([x \in DOMAIN hs |-> hs[x].len], DOMAIN hs)
<1> DEFINE S == DOMAIN hs
           of == [x \in S |-> hs[x].len]
           F(f) == [s \in SUBSET S |-> IF s = {} THEN 0
                                       ELSE hs[CHOOSE x \in s : TRUE].len
                                              + f[s \ {CHOOSE x \in s : TRUE}]]
           iter == CHOOSE f : f = F(f)
<1>0. IsFiniteSet(S)
  <2>1. S = 1..Len(hs) /\ Len(hs) \in Nat
    BY LenProperties
  <2> QED BY <2>1, FS_Interval
<1>1. PICK g : Sums(S, of, g)
  BY <1>0, SumsExist
<1>2. DEFINE h == [s \in SUBSET S |-> g[s]]
<1>3. h = F(h)
  <2>1. \A s \in SUBSET S : h[s] = F(h)[s]
    <3> SUFFICES ASSUME NEW s \in SUBSET S
                 PROVE  h[s] = F(h)[s]
      OBVIOUS
    <3>1. h[s] = SumAt(of, g, s)
      BY <1>1 DEF Sums
    <3>2. s # {} => One(s) \in s /\ s \ {One(s)} \in SUBSET S
      BY <1>0, OneLess
    <3>3. s # {} => g[s \ {One(s)}] = h[s \ {One(s)}] /\ of[One(s)] = hs[One(s)].len
      BY <3>2
    <3> HIDE DEF of
    <3> QED BY <3>1, <3>3 DEF SumAt, One
  <2>2. F(h) = [s \in SUBSET S |-> F(h)[s]] /\ h = [s \in SUBSET S |-> h[s]]
    OBVIOUS
  <2> HIDE DEF F, h
  <2> QED BY <2>1, <2>2
<1>4. iter = F(iter)
  <2> HIDE DEF F, h
  <2> QED BY <1>3
<1>5. Octets(hs) = iter[S]
  BY DEF Octets, FoldSeq, FoldFunction, FoldFunctionOnSet, MapThenFoldSet
<1> HIDE DEF iter
<1>6. Sums(S, of, iter)
  <2> SUFFICES ASSUME NEW s \in SUBSET S
               PROVE  iter[s] = SumAt(of, iter, s)
    BY DEF Sums
  <2>1. iter[s] = F(iter)[s]
    BY <1>4
  <2>2. s # {} => of[One(s)] = hs[One(s)].len
    BY <1>0, OneLess
  <2> HIDE DEF of
  <2> QED BY <2>1, <2>2 DEF SumAt, One
<1>7. Total(of, S) = iter[S]
  BY <1>0, <1>6, SumsAgree
<1> QED BY <1>5, <1>7

----------------------------------------------------------------------------
(***************************************************************************)
(* The statistics dump                                                     *)
(***************************************************************************)
StatType ==
  /\ yaf_do_stat \in Nat /\ loaded \in Nat
  /\ statpc \in {"loop", "decrement", "store", "dump", "dumping", "complete",
                 "completing", "exit"}
  /\ counted \in [flow : Nat, detune : Nat, decode : Nat] /\ total \in Nat
  /\ statlog \in [signals : Nat, dumps : Nat, pending : BOOLEAN]

(* Between the test and the store the counter is not zero, and the value   *)
(* loaded is not above it: signals only add to it.  From the store to the  *)
(* end of the dump one request is taken off the counter and not yet in     *)
(* dumps.  A request that came after the dump began is still in it.        *)
StatInv ==
  /\ StatType
  /\ statpc = "decrement" => yaf_do_stat > 0
  /\ statpc = "store" => 0 < loaded /\ loaded <= yaf_do_stat
  /\ statlog.dumps + yaf_do_stat + (IF statpc \in {"dump", "dumping"} THEN 1 ELSE 0)
       <= statlog.signals
  /\ statpc \in {"loop", "dumping"} /\ statlog.pending => yaf_do_stat > 0
  /\ statpc = "completing" => total = counted.flow
  /\ statpc = "exit" => total = counted.flow + counted.detune + counted.decode

LEMMA StatInvInit == yfStatInit => StatInv
BY DEF yfStatInit, StatInv, StatType

LEMMA StatInvNext == StatInv /\ [StatNext]_statVars => StatInv'
<1> SUFFICES ASSUME StatInv, [StatNext]_statVars
             PROVE  StatInv'
  OBVIOUS
<1> USE DEF StatInv, StatType
<1>1. CASE yfSigUsr1
  <2>1. /\ statlog'.signals = statlog.signals + 1 /\ statlog'.dumps = statlog.dumps
        /\ statlog' \in [signals : Nat, dumps : Nat, pending : BOOLEAN]
    <3>1. statlog.signals + 1 \in Nat /\ TRUE \in BOOLEAN
      OBVIOUS
    <3> QED BY <1>1, <3>1 DEF yfSigUsr1
  <2> QED BY <1>1, <2>1 DEF yfSigUsr1
<1>2. CASE TestRequest
  BY <1>2 DEF TestRequest
<1>3. CASE Decrement
  BY <1>3 DEF Decrement
<1>4. CASE StoreDecremented
  BY <1>4 DEF StoreDecremented
<1>5. CASE yfStatDump
  BY <1>5 DEF yfStatDump, yfFlowDumpStats
<1>6. CASE EndDump
  BY <1>6 DEF EndDump, yfDecodeDumpStats, qfDetuneDumpStats
<1>7. CASE yfStatComplete
  BY <1>7 DEF yfStatComplete
<1>8. ASSUME NEW c \in {"flow", "detune", "decode"}, Packet(c)
      PROVE  StatInv'
  BY <1>8 DEF Packet
<1>9. CASE UNCHANGED statVars
  BY <1>9 DEF statVars
<1> QED BY <1>1, <1>2, <1>3, <1>4, <1>5, <1>6, <1>7, <1>8, <1>9 DEF StatNext

(* No request for statistics is forgotten and no dump is made without one, *)
(* for any number of signals at any points of the loop (yfSigUsr1 against  *)
(* yfStatDumpLoop).                                                        *)
THEOREM StatRequestsServed == StatSpec => []StatRequestServed
<1>1. StatInv => StatRequestServed
  BY DEF StatInv, StatType, StatRequestServed
<1> QED BY <1>1, StatInvInit, StatInvNext, PTL DEF StatSpec

----------------------------------------------------------------------------
(***************************************************************************)
(* The detuner                                                             *)
(***************************************************************************)
DetuneType ==
  /\ dt \in [bucket_cur : Int, last_real_ms : Nat, last_delayed_ms : Int, bucket_drop : Nat,
             random_drop : Nat, highwater : Int]
  /\ offered \in Seq([ms : Nat, oct : Nat])
  /\ passed \in Seq([n : Nat, ms : Nat, late : Int])

(* The time a packet is held back to is that of the last one passed on.    *)
DetuneInv ==
  /\ DetuneType
  /\ passed # <<>> => dt.last_delayed_ms = passed[Len(passed)].late
  /\ DelayedInOrder

LEMMA MaxOfTwo ==
  ASSUME NEW a \in Int, NEW b \in Int
  PROVE  Max({a, b}) \in Int /\ Max({a, b}) \in {a, b} /\ Max({a, b}) >= a /\ Max({a, b}) >= b
<1>1. \E x \in {a, b} : \A y \in {a, b} : x >= y
  OBVIOUS
<1> QED BY <1>1 DEF Max

LEMMA DrainType ==
  ASSUME DetuneType, NEW ms \in Nat
  PROVE  Drain(dt, ms) \in Int
<1> USE DetuneAssumption DEF DetuneType
<1>1. \A x \in Int : AsInt(x) \in Int
  BY SMTT(30) DEF AsInt
<1>2. ((ms - dt.last_real_ms) * bucket_rate) \div 1000 \in Int
  BY SMTT(30)
<1> DEFINE x == AsInt(dt.bucket_cur - ((ms - dt.last_real_ms) * bucket_rate) \div 1000)
<1>3. x \in Int
  BY <1>1, <1>2, SMTT(30)
<1>4. Max({0, x}) \in Int
  <2>1. 0 \in Int
    OBVIOUS
  <2> HIDE DEF x
  <2> QED BY <1>3, <2>1, MaxOfTwo
<1> QED BY <1>4 DEF Drain

LEMMA FillType ==
  ASSUME DetuneType, NEW ms \in Nat, NEW oct \in Nat
  PROVE  /\ Fill(dt, ms, oct) \in [bucket_cur : Int, last_real_ms : Nat, last_delayed_ms : Int,
                                   bucket_drop : Nat, random_drop : Nat, highwater : Int]
         /\ Fill(dt, ms, oct).last_delayed_ms = dt.last_delayed_ms
<1> USE DetuneAssumption DEF DetuneType
<1>2. Drain(dt, ms) \in Int
  BY DrainType
<1>3. Drain(dt, ms) + oct \in Int /\ Max({dt.highwater, Drain(dt, ms) + oct}) \in Int
  <2> DEFINE level == Drain(dt, ms) + oct
  <2>1. level \in Int /\ dt.highwater \in Int
    BY <1>2, SMTT(30)
  <2> HIDE DEF level
  <2>2. Max({dt.highwater, level}) \in Int
    BY <2>1, MaxOfTwo
  <2> QED BY <2>1, <2>2 DEF level
<1> QED BY <1>3 DEF Fill

LEMMA DelayValue ==
  ASSUME NEW d, d.bucket_cur \in Int, d.last_delayed_ms \in Int, NEW ms \in Nat, NEW rdelay \in Nat
  PROVE  /\ Delay(d, ms, rdelay) \in Int
         /\ Delay(d, ms, rdelay) # ms => Delay(d, ms, rdelay) >= d.last_delayed_ms
<1> DEFINE bdelay == IF bucket_max # 0 THEN (d.bucket_cur * bucket_delay) \div bucket_max ELSE 0
           late == ms + Max({bdelay, rdelay})
<1>1. bdelay \in Int
  <2>1. \A x \in Int, y \in Nat \ {0} : x \div y \in Int
    OBVIOUS
  <2>2. d.bucket_cur * bucket_delay \in Int /\ bucket_max \in Nat
    BY DetuneAssumption
  <2> QED BY <2>1, <2>2
<1> HIDE DEF bdelay
<1>2. late \in Int
  <2>1. rdelay \in Int
    OBVIOUS
  <2>2. Max({bdelay, rdelay}) \in Int
    BY <1>1, <2>1, MaxOfTwo
  <2> QED BY <2>2
<1>3. Delay(d, ms, rdelay) = IF late = ms THEN ms ELSE Max({late, d.last_delayed_ms})
  BY DEF Delay, bdelay
<1> HIDE DEF late
<1> QED BY <1>2, <1>3, MaxOfTwo

LEMMA DetuneInvNext == DetuneInv /\ [DetuneNext]_detuneVars => DetuneInv'
<1> SUFFICES ASSUME DetuneInv, [DetuneNext]_detuneVars
             PROVE  DetuneInv'
  OBVIOUS
<1> USE DEF DetuneInv
<1>1. CASE UNCHANGED detuneVars
  BY <1>1 DEF detuneVars, DetuneType, DelayedInOrder
<1>2. ASSUME NEW ms \in 1..MaxMs, NEW oct \in Octs, qfDetunePacket(ms, oct)
      PROVE  DetuneInv'
  <2> DEFINE d == Fill(dt, ms, oct)
  <2>1. ms \in Nat /\ oct \in Nat
    BY DetuneAssumption
  <2>2. /\ d \in [bucket_cur : Int, last_real_ms : Nat, last_delayed_ms : Int, bucket_drop : Nat,
                  random_drop : Nat, highwater : Int]
        /\ d.last_delayed_ms = dt.last_delayed_ms
    BY <2>1, FillType
  <2>3. offered' \in Seq([ms : Nat, oct : Nat])
    BY <1>2, <2>1 DEF qfDetunePacket, DetuneType
  <2> HIDE DEF d
  <2>4. CASE TailDrop(ms, oct)
    <3>1. dt' = [d EXCEPT !.bucket_cur = bucket_max, !.bucket_drop = @ + 1] /\ passed' = passed
      BY <2>4 DEF TailDrop, d
    <3>2. bucket_max \in Int
      BY DetuneAssumption
    <3>4. d.bucket_drop + 1 \in Nat
      BY <2>2
    <3>3. DetuneType' /\ dt'.last_delayed_ms = dt.last_delayed_ms
      BY <2>2, <2>3, <3>1, <3>2, <3>4 DEF DetuneType
    <3> QED BY <3>1, <3>3 DEF DelayedInOrder
  <2>5. CASE RandomDrop(ms, oct)
    <3>1. dt' = [d EXCEPT !.random_drop = @ + 1] /\ passed' = passed
      BY <2>5 DEF RandomDrop, d
    <3>2. d.random_drop + 1 \in Nat
      BY <2>2
    <3>3. DetuneType' /\ dt'.last_delayed_ms = dt.last_delayed_ms
      BY <2>2, <2>3, <3>1, <3>2 DEF DetuneType
    <3> QED BY <3>1, <3>3 DEF DelayedInOrder
  <2>6. ASSUME NEW rdelay \in 0..delay_max, PassOn(ms, oct, rdelay)
        PROVE  DetuneInv'
    <3> DEFINE late == Delay(d, ms, rdelay)
               new == [n |-> Len(offered) + 1, ms |-> ms, late |-> late]
    <3>1. rdelay \in Nat /\ Len(offered) + 1 \in Nat
      BY DetuneAssumption DEF DetuneType
    <3>2. late \in Int /\ (late # ms => late >= dt.last_delayed_ms)
      BY <2>1, <2>2, <3>1, DelayValue
    <3>3. /\ dt' = [d EXCEPT !.last_real_ms = ms, !.last_delayed_ms = late]
          /\ passed' = Append(passed, new)
      BY <2>6 DEF PassOn, d
    <3> HIDE DEF late
    <3>4. new \in [n : Nat, ms : Nat, late : Int] /\ new.late = late /\ new.ms = ms
      BY <2>1, <3>1, <3>2
    <3> HIDE DEF new
    <3>5. /\ passed' \in Seq([n : Nat, ms : Nat, late : Int]) /\ Len(passed) \in Nat
          /\ Len(passed') = Len(passed) + 1 /\ passed'[Len(passed) + 1] = new
          /\ \A k \in 1..Len(passed) : passed'[k] = passed[k]
      <4> DEFINE R == [n : Nat, ms : Nat, late : Int]
      <4>1. passed \in Seq(R) /\ new \in R
        BY <3>4 DEF DetuneType
      <4> HIDE DEF R
      <4>2. /\ passed' \in Seq(R) /\ Len(passed) \in Nat
            /\ Len(passed') = Len(passed) + 1 /\ passed'[Len(passed) + 1] = new
            /\ \A k \in 1..Len(passed) : passed'[k] = passed[k]
        BY <3>3, <4>1
      <4> QED BY <4>2 DEF R
    <3>6. DetuneType' /\ dt'.last_delayed_ms = late
      BY <2>1, <2>2, <2>3, <3>2, <3>3, <3>5 DEF DetuneType
    <3>7. \A j \in 1..Len(passed) : j \in 1..Len(passed') /\ passed'[j] = passed[j]
      BY <3>5
    <3>8. DelayedInOrder'
      <4> SUFFICES ASSUME \A k \in 1..Len(passed') : passed'[k].late > passed'[k].ms,
                          NEW k \in 1..Len(passed') - 1
                   PROVE  passed'[k].late <= passed'[k + 1].late
        BY DEF DelayedInOrder
      <4>1. \A j \in 1..Len(passed) : passed[j].late > passed[j].ms
        BY <3>7
      <4>2. CASE k \in 1..Len(passed) - 1
        <5>1. passed[k].late <= passed[k + 1].late
          BY <4>1, <4>2 DEF DelayedInOrder
        <5>2. k \in 1..Len(passed) /\ k + 1 \in 1..Len(passed)
          <6>1. PICK n \in Nat : n = Len(passed)
            BY DEF DetuneType
          <6>2. k \in 1..n - 1
            BY <4>2, <6>1
          <6>3. k \in 1..n /\ k + 1 \in 1..n
            BY <6>2
          <6> QED BY <6>1, <6>3
        <5> QED BY <3>5, <5>1, <5>2
      <4>3. CASE k = Len(passed)
        <5>1. passed # <<>> /\ passed'[k].late = dt.last_delayed_ms
          BY <3>5, <4>3
        <5>2. late > ms /\ late # ms
          <6>1. Len(passed) + 1 \in 1..Len(passed')
            BY <3>5
          <6>2. passed'[Len(passed) + 1].late > passed'[Len(passed) + 1].ms
            BY <6>1
          <6> QED BY <2>1, <3>2, <3>4, <3>5, <6>2
        <5> QED BY <3>2, <3>4, <3>5, <4>3, <5>1, <5>2
      <4> QED BY <3>5, <4>2, <4>3
    <3> QED BY <3>4, <3>5, <3>6, <3>8
  <2> QED BY <1>2, <2>4, <2>5, <2>6 DEF qfDetunePacket
<1> QED BY <1>1, <1>2 DEF DetuneNext

(* Packets that are all delayed are passed on in the order of their new    *)
(* times for every bucket, rate, delay and width of an int, whatever the   *)
(* random delays and the sizes of the packets (qfDetunePacket).            *)
THEOREM DelayedPacketsInOrder == DetuneSpec => []DelayedInOrder
<1>1. qfDetuneAlloc => DetuneInv
  <2> SUFFICES ASSUME qfDetuneAlloc
               PROVE  DetuneInv
    OBVIOUS
  <2>1. DetuneType /\ passed = <<>> /\ Len(passed) = 0
    BY DEF qfDetuneAlloc, DetuneType
  <2> QED BY <2>1 DEF DetuneInv, DelayedInOrder
<1>2. DetuneInv => DelayedInOrder
  BY DEF DetuneInv
<1> QED BY <1>1, <1>2, DetuneInvNext, PTL DEF DetuneSpec

----------------------------------------------------------------------------
(* What drains in a time, the backlog of a run of packets, and what the    *)
(* truncation may cost for each packet.                                    *)
Drained(ms) == (ms * bucket_rate) \div 1000
Sizes(seq) == [x \in DOMAIN seq |-> seq[x].oct]
BacklogFrom(seq, k) ==
  Total(Sizes(seq), k..Len(seq)) - Drained(seq[Len(seq)].ms - seq[k].ms)
Truncation == IF bucket_rate % 1000 = 0 THEN 0 ELSE 1

NoIntWraps == (MaxMs * bucket_rate) \div 1000 < IntValues \div 2

(* Times of packets are ordered; the last packet passed on is not later    *)
(* than the last one offered, and is that one as long as none was dropped; *)
(* the level is between nothing and the limit; it is not above the largest *)
(* backlog, and not below it as long as none was dropped.                  *)
BucketInv ==
  /\ DetuneType
  /\ \A k \in 1..Len(offered) : offered[k].ms \in 1..MaxMs /\ offered[k].oct \in Octs
  /\ \A j, k \in 1..Len(offered) : j <= k => offered[j].ms <= offered[k].ms
  /\ Len(passed) <= Len(offered)
  /\ passed = <<>> => dt.last_real_ms = 0
  /\ passed # <<>> => dt.last_real_ms \in 1..offered[Len(offered)].ms
  /\ passed # <<>> /\ Len(passed) = Len(offered) =>
       dt.last_real_ms = offered[Len(offered)].ms
  /\ offered = <<>> => dt.bucket_cur = 0
  /\ bucket_max # 0 => dt.bucket_cur \in 0..bucket_max
  /\ bucket_max # 0 /\ NoIntWraps /\ passed # <<>> /\ passed[1].n = 1 =>
       /\ \E k \in 1..Len(offered) :
            dt.bucket_cur <= BacklogFrom(offered, k) + Truncation * (Len(offered) - 1)
       /\ Len(passed) = Len(offered) =>
            \A k \in 1..Len(offered) : BacklogFrom(offered, k) <= dt.bucket_cur

LEMMA DivisionAdds ==
  ASSUME NEW a \in Nat, NEW b \in Nat
  PROVE  /\ a \div 1000 \in Nat
         /\ a \div 1000 + b \div 1000 <= (a + b) \div 1000
         /\ (a + b) \div 1000 <= a \div 1000 + b \div 1000 + 1
         /\ b % 1000 = 0 => (a + b) \div 1000 = a \div 1000 + b \div 1000
         /\ a <= b => a \div 1000 <= b \div 1000
OBVIOUS

LEMMA DrainedAdds ==
  ASSUME NEW x \in Nat, NEW y \in Nat
  PROVE  /\ Drained(x) \in Nat /\ Drained(0) = 0
         /\ Drained(x) + Drained(y) <= Drained(x + y)
         /\ Drained(x + y) <= Drained(x) + Drained(y) + Truncation
         /\ x <= y => Drained(x) <= Drained(y)
<1>0. bucket_rate \in Nat
  BY DetuneAssumption
<1>1. /\ x * bucket_rate \in Nat /\ y * bucket_rate \in Nat
      /\ (x + y) * bucket_rate = x * bucket_rate + y * bucket_rate
      /\ 0 * bucket_rate = 0
  BY <1>0
<1>2. x <= y => x * bucket_rate <= y * bucket_rate
  <2> SUFFICES ASSUME x <= y
               PROVE  x * bucket_rate <= y * bucket_rate
    OBVIOUS
  <2>1. PICK z \in Nat : y = x + z
    <3>1. y - x \in Nat /\ y = x + (y - x)
      OBVIOUS
    <3> QED BY <3>1
  <2>2. z * bucket_rate \in Nat /\ y * bucket_rate = x * bucket_rate + z * bucket_rate
    BY <1>0, <2>1
  <2> QED BY <1>1, <2>2
<1>3. bucket_rate % 1000 = 0 => (y * bucket_rate) % 1000 = 0
  <2> SUFFICES ASSUME bucket_rate % 1000 = 0
               PROVE  (y * bucket_rate) % 1000 = 0
    OBVIOUS
  <2>1. PICK r \in Nat : bucket_rate = 1000 * r
    <3>1. bucket_rate = 1000 * (bucket_rate \div 1000) /\ bucket_rate \div 1000 \in Nat
      BY <1>0
    <3> QED BY <3>1
  <2>2. PICK z \in Nat : z = y * r
    OBVIOUS
  <2>3. y * bucket_rate = 1000 * z
    BY <2>1, <2>2
  <2> QED BY <2>2, <2>3
<1>4. PICK a \in Nat, b \in Nat : a = x * bucket_rate /\ b = y * bucket_rate
  BY <1>1
<1>5. Drained(x) = a \div 1000 /\ Drained(y) = b \div 1000 /\ Drained(x + y) = (a + b) \div 1000
  BY <1>1, <1>4 DEF Drained
<1>6. Drained(0) = 0
  BY <1>1 DEF Drained
<1>7. bucket_rate % 1000 = 0 => b % 1000 = 0
  BY <1>3, <1>4
<1>8. /\ a \div 1000 \in Nat /\ b \div 1000 \in Nat
      /\ a \div 1000 + b \div 1000 <= (a + b) \div 1000
      /\ (a + b) \div 1000 <= a \div 1000 + b \div 1000 + 1
      /\ b % 1000 = 0 => (a + b) \div 1000 = a \div 1000 + b \div 1000
      /\ a <= b => a \div 1000 <= b \div 1000
  BY DivisionAdds
<1>9. x <= y => a <= b
  BY <1>2, <1>4
<1>10. PICK p \in Nat, q \in Nat, r \in Nat :
         p = a \div 1000 /\ q = b \div 1000 /\ r = (a + b) \div 1000
  BY DivisionAdds
<1>11. r <= p + q + Truncation
  BY <1>7, <1>8, <1>10 DEF Truncation
<1> QED BY <1>5, <1>6, <1>8, <1>9, <1>10, <1>11

LEMMA TimesAdd ==
  ASSUME NEW u \in Nat, NEW v \in Nat, NEW ms \in Nat, v <= u, u <= ms
  PROVE  u - v \in Nat /\ ms - u \in Nat /\ (u - v) + (ms - u) = ms - v
OBVIOUS

LEMMA LevelsCompare ==
  ASSUME NEW t \in Nat, NEW oct \in Nat, NEW p \in Nat, NEW q \in Nat, NEW z \in Nat,
         NEW c \in {0, 1}, p + q <= z, z <= p + q + c
  PROVE  /\ t - p \in Int /\ (oct + t) - z \in Int
         /\ (oct + t) - z <= (t - p) + oct - q
         /\ (t - p) + oct - q <= ((oct + t) - z) + c
OBVIOUS

LEMMA BacklogGrows ==
  ASSUME NEW seq \in Seq([ms : Nat, oct : Nat]), NEW ms \in Nat, NEW oct \in Nat,
         \A k \in 1..Len(seq) : seq[k].ms <= seq[Len(seq)].ms,
         seq # <<>> => seq[Len(seq)].ms <= ms,
         NEW seq2, seq2 = Append(seq, [ms |-> ms, oct |-> oct])
  PROVE  /\ Len(seq2) = Len(seq) + 1
         /\ BacklogFrom(seq2, Len(seq) + 1) = oct
         /\ \A k \in 1..Len(seq) :
              LET grown == BacklogFrom(seq, k) + oct - Drained(ms - seq[Len(seq)].ms)
              IN  /\ BacklogFrom(seq, k) \in Int /\ BacklogFrom(seq2, k) \in Int
                  /\ BacklogFrom(seq2, k) <= grown
                  /\ grown <= BacklogFrom(seq2, k) + Truncation
<1>1. PICK m \in Nat : m = Len(seq) /\ DOMAIN seq = 1..m
  BY LenProperties
<1>2. /\ Len(seq2) = m + 1 /\ DOMAIN seq2 = 1..m + 1 /\ seq2[m + 1] = [ms |-> ms, oct |-> oct]
      /\ \A j \in 1..m : seq2[j] = seq[j]
  BY <1>1, AppendProperties
<1>3. \A j \in 1..m : seq[j] \in [ms : Nat, oct : Nat]
  BY <1>1, ElementOfSeq
<1>4. /\ \A j \in 1..m + 1 : Sizes(seq2)[j] \in Nat
      /\ Sizes(seq2)[m + 1] = oct
      /\ \A j \in 1..m : Sizes(seq2)[j] = Sizes(seq)[j]
  <2>1. \A j \in 1..m : Sizes(seq2)[j] = seq[j].oct /\ Sizes(seq)[j] = seq[j].oct /\ seq[j].oct \in Nat
    BY <1>1, <1>2, <1>3 DEF Sizes
  <2>2. Sizes(seq2)[m + 1] = oct
    BY <1>2 DEF Sizes
  <2> QED BY <2>1, <2>2, SMTT(30)
<1>5. BacklogFrom(seq2, m + 1) = oct
  <2>1. Total(Sizes(seq2), (m + 1)..(m + 1)) = oct
    <3>1. Total(Sizes(seq2), m + 1..m) = 0
      <4>1. m + 1..m = {}
        OBVIOUS
      <4>2. IsFiniteSet({})
        BY FS_EmptySet
      <4> QED BY <4>1, <4>2, TotalAt
    <3>2. \A j \in m + 1..m + 1 : Sizes(seq2)[j] \in Nat
      BY <1>4
    <3>3. m + 1 \in Nat /\ m + 1 <= m + 1
      OBVIOUS
    <3>4. Total(Sizes(seq2), m + 1..m + 1) = Sizes(seq2)[m + 1] + Total(Sizes(seq2), m + 1..m)
      BY <3>2, <3>3, IntervalAdds
    <3> QED BY <1>4, <3>1, <3>4
  <2>2. seq2[m + 1].ms - seq2[m + 1].ms = 0
    BY <1>2
  <2>3. Drained(0) = 0
    BY DrainedAdds
  <2>4. BacklogFrom(seq2, m + 1) = oct - 0
    BY <1>2, <2>1, <2>2, <2>3, Zenon DEF BacklogFrom
  <2> QED BY <2>4
<1>6. ASSUME NEW k \in 1..m
      PROVE  LET grown == BacklogFrom(seq, k) + oct - Drained(ms - seq[Len(seq)].ms)
              IN  /\ BacklogFrom(seq, k) \in Int /\ BacklogFrom(seq2, k) \in Int
                  /\ BacklogFrom(seq2, k) <= grown
                  /\ grown <= BacklogFrom(seq2, k) + Truncation
  <2>0. k \in Int /\ m \in Int /\ (\A j \in k..m : j \in 1..m) /\ \A j \in 1..m : j \in 1..m + 1
    OBVIOUS
  <2>9. IsFiniteSet(k..m)
    BY <2>0, FS_Interval, Zenon
  <2>1. PICK t \in Nat : t = Total(Sizes(seq), k..m)
    <3>1. \A j \in k..m : Sizes(seq)[j] \in Nat
      BY <1>4, <2>0, Zenon
    <3>2. Total(Sizes(seq), k..m) \in Nat
      BY <2>9, <3>1, TotalType, Zenon
    <3> QED BY <3>2
  <2>2. Total(Sizes(seq2), k..m + 1) = oct + t
    <3>1. \A j \in k..m + 1 : Sizes(seq2)[j] \in Nat
      BY <1>4
    <3>2. k \in Nat /\ k <= m + 1
      OBVIOUS
    <3>3. Total(Sizes(seq2), k..m + 1) = Sizes(seq2)[m + 1] + Total(Sizes(seq2), k..m)
      BY <3>1, <3>2, IntervalAdds
    <3>4. Total(Sizes(seq2), k..m) = Total(Sizes(seq), k..m)
      <4>1. \A j \in k..m : Sizes(seq2)[j] = Sizes(seq)[j]
        BY <1>4, <2>0, Zenon
      <4> QED BY <2>9, <4>1, TotalAgrees, Zenon
    <3> QED BY <1>4, <2>1, <3>3, <3>4
  <2>3. PICK u \in Nat, v \in Nat : u = seq[m].ms /\ v = seq[k].ms /\ v <= u /\ u <= ms
    <3>1. seq[m].ms \in Nat /\ seq[k].ms \in Nat
      BY <1>3
    <3>2. seq[k].ms <= seq[m].ms /\ seq[m].ms <= ms
      BY <1>1
    <3> QED BY <3>1, <3>2
  <2>4. PICK x \in Nat, y \in Nat : x = u - v /\ y = ms - u /\ x + y = ms - v
    <3>1. u - v \in Nat /\ ms - u \in Nat /\ (u - v) + (ms - u) = ms - v
      <4>1. v <= u /\ u <= ms
        BY <2>3, Zenon
      <4> HIDE <2>3
      <4> QED BY <4>1, TimesAdd, Zenon
    <3> QED BY <3>1
  <2>5. BacklogFrom(seq, k) = t - Drained(x)
    BY <1>1, <2>1, <2>3, <2>4, Zenon DEF BacklogFrom
  <2>6. BacklogFrom(seq2, k) = (oct + t) - Drained(x + y)
    <3>1. seq2[m + 1].ms = ms /\ seq2[k].ms = v /\ Len(seq2) = m + 1
      BY <1>2, <2>3
    <3>2. seq2[Len(seq2)].ms - seq2[k].ms = x + y /\ Total(Sizes(seq2), k..Len(seq2)) = oct + t
      BY <2>2, <2>4, <3>1, Zenon
    <3>3. BacklogFrom(seq2, k)
            = Total(Sizes(seq2), k..Len(seq2)) - Drained(seq2[Len(seq2)].ms - seq2[k].ms)
      BY Zenon DEF BacklogFrom
    <3> QED BY <3>2, <3>3, Zenon
  <2>7. ms - seq[Len(seq)].ms = y
    BY <1>1, <2>3, <2>4
  <2>8. PICK p \in Nat, q \in Nat, z \in Nat :
          /\ p = Drained(x) /\ q = Drained(y) /\ z = Drained(x + y)
          /\ p + q <= z /\ z <= p + q + Truncation
    <3>1. x + y \in Nat
      OBVIOUS
    <3> QED BY <3>1, DrainedAdds, Zenon
  <2>10. Truncation \in {0, 1}
    BY DEF Truncation
  <2>11. /\ t - p \in Int /\ (oct + t) - z \in Int
         /\ (oct + t) - z <= (t - p) + oct - q
         /\ (t - p) + oct - q <= ((oct + t) - z) + Truncation
    BY <2>8, <2>10, LevelsCompare, Zenon
  <2> QED BY <2>5, <2>6, <2>7, <2>8, <2>11, Zenon
<1> QED BY <1>1, <1>2, <1>5, <1>6

(* What Drain leaves, if nothing wraps.                                    *)
LEMMA DrainValue ==
  ASSUME NoIntWraps, NEW d, d.bucket_cur \in 0..bucket_max, d.last_real_ms \in Nat,
         NEW ms \in 1..MaxMs, d.last_real_ms <= ms
  PROVE  /\ Drain(d, ms) \in 0..d.bucket_cur
         /\ d.last_real_ms = 0 => Drain(d, ms) = d.bucket_cur
         /\ d.last_real_ms # 0 => LET left == d.bucket_cur - Drained(ms - d.last_real_ms)
                                  IN  Drain(d, ms) >= left /\ Drain(d, ms) \in {0, left}
<1>1. bucket_max \in Nat /\ MaxMs \in Nat /\ IntValues \in Nat \ {0} /\ IntValues % 2 = 0
      /\ bucket_max < IntValues \div 2
  BY DetuneAssumption
<1>2. PICK c \in Nat, p \in Nat : c = d.bucket_cur /\ p = ms - d.last_real_ms /\ p <= MaxMs
  <2>1. ms - d.last_real_ms \in Nat /\ ms - d.last_real_ms <= MaxMs
    BY <1>1
  <2> QED BY <1>1, <2>1
<1>3. Drained(p) \in Nat /\ Drained(p) < IntValues \div 2 /\ Drained(0) = 0
  <2>1. Drained(p) \in Nat /\ Drained(p) <= Drained(MaxMs) /\ Drained(MaxMs) \in Nat /\ Drained(0) = 0
    BY <1>1, <1>2, DrainedAdds
  <2>2. Drained(MaxMs) < IntValues \div 2 /\ IntValues \div 2 \in Int
    BY <1>1 DEF NoIntWraps, Drained
  <2> QED BY <2>1, <2>2
<1>4. PICK h \in Nat, left \in Int : h = IntValues \div 2 /\ IntValues = 2 * h /\ h > 0
                                     /\ left = c - Drained(p)
  <2>1. IntValues \div 2 \in Nat /\ IntValues = 2 * (IntValues \div 2) /\ IntValues \div 2 > 0
    BY <1>1
  <2>2. c - Drained(p) \in Int
    BY <1>3
  <2> QED BY <2>1, <2>2
<1>5. c < h /\ left < h /\ left > 0 - h /\ left <= c
  BY <1>1, <1>2, <1>3, <1>4
<1>6. AsInt(left) = left
  <2>1. left + h \in 0..(2 * h - 1)
    BY <1>5
  <2>2. \A x \in 0..(2 * h - 1) : x % (2 * h) = x
    <3>1. 2 * h \in Nat /\ 2 * h > 0
      BY <1>4
    <3>2. PICK w \in Nat : w = 2 * h /\ w > 0
      BY <3>1
    <3>3. \A x \in 0..(w - 1) : x % w = x
      BY <3>2
    <3> QED BY <3>2, <3>3
  <2> QED BY <1>4, <2>1, <2>2 DEF AsInt
<1>7. Max({0, left}) \in {0, left} /\ Max({0, left}) >= 0 /\ Max({0, left}) >= left
  <2>1. 0 \in Int
    OBVIOUS
  <2> QED BY <2>1, MaxOfTwo, Zenon
<1>8. Drain(d, ms) = IF d.last_real_ms # 0 /\ c # 0 /\ ms > d.last_real_ms THEN Max({0, left}) ELSE c
  BY <1>2, <1>4, <1>6 DEF Drain, Drained
<1>9. CASE d.last_real_ms # 0 /\ c # 0 /\ ms > d.last_real_ms
  BY <1>2, <1>4, <1>5, <1>7, <1>8, <1>9
<1>10. CASE d.last_real_ms = 0
  BY <1>2, <1>8, <1>10
<1>11. CASE d.last_real_ms # 0 /\ c = 0
  BY <1>2, <1>3, <1>4, <1>8, <1>11
<1>12. CASE d.last_real_ms # 0 /\ ~(ms > d.last_real_ms)
  <2>1. p = 0
    BY <1>2, <1>12
  <2> QED BY <1>2, <1>3, <1>4, <1>8, <1>12, <2>1
<1> QED BY <1>9, <1>10, <1>11, <1>12, <1>2

LEMMA UpperStep ==
  ASSUME NEW cur \in Nat, NEW cur2 \in Nat, NEW left \in Nat, NEW oct \in Nat, NEW n \in Nat \ {0},
         NEW b \in Int, NEW b2 \in Int, NEW c \in {0, 1}, NEW x \in Nat, NEW y \in Nat,
         cur2 <= left + oct, left = cur - y, x <= y,
         cur <= b + c * (n - 1), b + oct - x <= b2 + c
  PROVE  cur2 <= b2 + c * n
<1>1. c * n = c + c * (n - 1)
  <2>1. CASE c = 0
    BY <2>1
  <2>2. CASE c = 1
    BY <2>2
  <2> QED BY <2>1, <2>2
<1>2. PICK e \in Int : e = c * (n - 1)
  <2>1. c * (n - 1) \in Int
    OBVIOUS
  <2> QED BY <2>1
<1>3. cur2 <= b2 + (c + e)
  BY <1>2
<1> QED BY <1>1, <1>2, <1>3

LEMMA LowerStep ==
  ASSUME NEW cur \in Nat, NEW left \in Nat, NEW oct \in Nat, NEW x \in Nat,
         NEW b \in Int, NEW b2 \in Int, left >= cur - x, b <= cur, b2 <= b + oct - x
  PROVE  b2 <= left + oct
OBVIOUS

(* One packet: by how it leaves, what is left and what is passed on.       *)
PacketLeaves(ms, oct, left) ==
  /\ dt'.bucket_cur <= left + oct
  /\ \/ passed' = passed /\ dt'.last_real_ms = dt.last_real_ms
     \/ /\ \E late \in Int :
             passed' = Append(passed, [n |-> Len(offered) + 1, ms |-> ms, late |-> late])
        /\ dt'.last_real_ms = ms /\ dt'.bucket_cur = left + oct

LEMMA PacketCases ==
  ASSUME DetuneInv, NEW ms \in 1..MaxMs, NEW oct \in Octs, qfDetunePacket(ms, oct)
  PROVE  /\ offered' = Append(offered, [ms |-> ms, oct |-> oct])
         /\ offered # <<>> => offered[Len(offered)].ms <= ms
         /\ bucket_max # 0 => PacketLeaves(ms, oct, Drain(dt, ms))
         /\ \/ passed' = passed /\ dt'.last_real_ms = dt.last_real_ms
            \/ /\ \E late \in Int :
                    passed' = Append(passed, [n |-> Len(offered) + 1, ms |-> ms, late |-> late])
               /\ dt'.last_real_ms = ms
         /\ bucket_max # 0 /\ Drain(dt, ms) >= 0 => dt'.bucket_cur \in 0..bucket_max
<1>0. ms \in Nat /\ oct \in Nat /\ bucket_max \in Nat
  BY DetuneAssumption
<1>1. /\ offered' = Append(offered, [ms |-> ms, oct |-> oct])
      /\ offered # <<>> => offered[Len(offered)].ms <= ms
  <2>1. offered # <<>> => offered[Len(offered)].ms \in Nat
    <3> SUFFICES ASSUME offered # <<>>
                 PROVE  offered[Len(offered)].ms \in Nat
      OBVIOUS
    <3>1. offered \in Seq([ms : Nat, oct : Nat])
      BY DEF DetuneInv, DetuneType
    <3>2. Len(offered) \in 1..Len(offered)
      BY <3>1, LenProperties, EmptySeq
    <3>3. offered[Len(offered)] \in [ms : Nat, oct : Nat]
      BY <3>1, <3>2, ElementOfSeq
    <3> QED BY <3>3
  <2> QED BY <1>0, <2>1 DEF qfDetunePacket, Last
<1> DEFINE d == Fill(dt, ms, oct)
<1>2. /\ d \in [bucket_cur : Int, last_real_ms : Nat, last_delayed_ms : Int,
                bucket_drop : Nat, random_drop : Nat, highwater : Int]
      /\ dt \in [bucket_cur : Int, last_real_ms : Nat, last_delayed_ms : Int,
                 bucket_drop : Nat, random_drop : Nat, highwater : Int]
  BY <1>0, FillType DEF DetuneInv, DetuneType
<1>3. PICK left : left = Drain(dt, ms)
  OBVIOUS
<1>4. /\ bucket_max # 0 => d.bucket_cur = left + oct
      /\ d.last_real_ms = dt.last_real_ms
  BY <1>2, <1>3 DEF Fill
<1> HIDE DEF d
<1>5. CASE TailDrop(ms, oct)
  <2>1. /\ dt' = [d EXCEPT !.bucket_cur = bucket_max, !.bucket_drop = @ + 1]
        /\ passed' = passed /\ bucket_max # 0 /\ d.bucket_cur >= bucket_max
    BY <1>5, Zenon DEF TailDrop, Overflows, d
  <2>2. dt'.bucket_cur = bucket_max /\ dt'.last_real_ms = dt.last_real_ms
    BY <1>2, <1>4, <2>1
  <2>3. dt'.bucket_cur <= left + oct
    BY <1>0, <1>2, <1>4, <2>1, <2>2
  <2> QED BY <1>0, <1>1, <1>3, <2>1, <2>2, <2>3 DEF PacketLeaves
<1>6. CASE RandomDrop(ms, oct)
  <2>1. /\ dt' = [d EXCEPT !.random_drop = @ + 1]
        /\ passed' = passed /\ ~(bucket_max # 0 /\ d.bucket_cur >= bucket_max)
    BY <1>6, Zenon DEF RandomDrop, Overflows, d
  <2>2. dt'.bucket_cur = d.bucket_cur /\ dt'.last_real_ms = dt.last_real_ms
    BY <1>2, <1>4, <2>1
  <2>3. bucket_max # 0 => d.bucket_cur \in Int /\ d.bucket_cur < bucket_max
    BY <1>0, <1>2, <2>1
  <2>4. bucket_max # 0 /\ left >= 0 => dt'.bucket_cur \in 0..bucket_max
    <3> SUFFICES ASSUME bucket_max # 0, left >= 0
                 PROVE  dt'.bucket_cur \in 0..bucket_max
      OBVIOUS
    <3>1. left + oct \in Int /\ left + oct < bucket_max
      BY <1>4, <2>3
    <3>2. left \in Int
      BY <1>0, <1>3, DrainType, Zenon DEF DetuneInv
    <3>3. left + oct \in 0..bucket_max
      BY <1>0, <3>1, <3>2
    <3> QED BY <1>4, <2>2, <3>3
  <2>5. bucket_max # 0 => dt'.bucket_cur <= left + oct
    BY <1>4, <2>2, <2>3
  <2> QED BY <1>1, <1>3, <2>1, <2>2, <2>4, <2>5 DEF PacketLeaves
<1>7. ASSUME NEW rdelay \in 0..delay_max, PassOn(ms, oct, rdelay)
      PROVE  /\ bucket_max # 0 => PacketLeaves(ms, oct, left)
             /\ \E late \in Int :
                  passed' = Append(passed, [n |-> Len(offered) + 1, ms |-> ms, late |-> late])
             /\ dt'.last_real_ms = ms
             /\ bucket_max # 0 /\ left >= 0 => dt'.bucket_cur \in 0..bucket_max
  <2>0. PICK late \in Int : late = Delay(d, ms, rdelay)
    <3>1. rdelay \in Nat
      BY DetuneAssumption
    <3> QED BY <1>0, <1>2, <3>1, DelayValue
  <2>1. /\ dt' = [d EXCEPT !.last_real_ms = ms, !.last_delayed_ms = late]
        /\ passed' = Append(passed, [n |-> Len(offered) + 1, ms |-> ms, late |-> late])
        /\ ~(bucket_max # 0 /\ d.bucket_cur >= bucket_max)
    BY <1>7, <2>0, Zenon DEF PassOn, Overflows, d
  <2>2. dt'.bucket_cur = d.bucket_cur /\ dt'.last_real_ms = ms
    BY <1>2, <2>1
  <2>3. bucket_max # 0 => d.bucket_cur \in Int /\ d.bucket_cur < bucket_max
    <3>1. d.bucket_cur \in Int
      BY <1>2
    <3>2. \A x \in Int, y \in Nat : ~(x >= y) => x < y
      OBVIOUS
    <3> QED BY <1>0, <2>1, <3>1, <3>2, Zenon
  <2>4. bucket_max # 0 /\ left >= 0 => dt'.bucket_cur \in 0..bucket_max
    <3> SUFFICES ASSUME bucket_max # 0, left >= 0
                 PROVE  dt'.bucket_cur \in 0..bucket_max
      OBVIOUS
    <3>1. left + oct \in Int /\ left + oct < bucket_max
      BY <1>4, <2>3
    <3>2. left \in Int
      BY <1>0, <1>3, DrainType, Zenon DEF DetuneInv
    <3>3. left + oct \in 0..bucket_max
      BY <1>0, <3>1, <3>2
    <3> QED BY <1>4, <2>2, <3>3
  <2>5. bucket_max # 0 => dt'.bucket_cur = left + oct /\ dt'.bucket_cur <= left + oct
    BY <1>4, <2>2, <2>3
  <2> QED BY <2>1, <2>2, <2>4, <2>5, Zenon DEF PacketLeaves
<1>8. TailDrop(ms, oct) \/ RandomDrop(ms, oct) \/ \E rdelay \in 0..delay_max : PassOn(ms, oct, rdelay)
  BY DEF qfDetunePacket
<1>9. CASE \E rdelay \in 0..delay_max : PassOn(ms, oct, rdelay)
  BY <1>1, <1>3, <1>7, <1>9
<1> QED BY <1>5, <1>6, <1>8, <1>9

LEMMA BucketNotNegative ==
  ASSUME DetuneType, NEW ms \in Nat, dt.bucket_cur \in 0..bucket_max
  PROVE  Drain(dt, ms) \in Nat
<1>1. \A x \in Int : AsInt(x) \in Int
  BY DetuneAssumption, SMTT(30) DEF AsInt
<1>2. ((ms - dt.last_real_ms) * bucket_rate) \div 1000 \in Int
  BY DetuneAssumption, SMTT(30) DEF DetuneType
<1> DEFINE x == AsInt(dt.bucket_cur - ((ms - dt.last_real_ms) * bucket_rate) \div 1000)
<1>3. x \in Int
  BY <1>1, <1>2, SMTT(30) DEF DetuneType
<1>4. Max({0, x}) \in Int /\ Max({0, x}) >= 0
  <2>1. 0 \in Int
    OBVIOUS
  <2> HIDE DEF x
  <2> QED BY <1>3, <2>1, MaxOfTwo
<1>5. dt.bucket_cur \in Nat
  BY DetuneAssumption
<1>6. Drain(dt, ms) \in {Max({0, x}), dt.bucket_cur}
  BY DEF Drain
<1> HIDE DEF x
<1> QED BY <1>4, <1>5, <1>6

LEMMA BucketStep ==
  ASSUME DetuneInv, BucketInv, NEW ms \in 1..MaxMs, NEW oct \in Octs, qfDetunePacket(ms, oct),
         DetuneType'
  PROVE  BucketInv'
<1>0. ms \in Nat /\ oct \in Nat /\ bucket_max \in Nat
  BY DetuneAssumption
<1>1. PICK n \in Nat, p \in Nat :
        /\ n = Len(offered) /\ p = Len(passed) /\ p <= n
        /\ DOMAIN offered = 1..n /\ DOMAIN passed = 1..p
        /\ offered = <<>> <=> n = 0
        /\ passed = <<>> <=> p = 0
  <2>1. offered \in Seq([ms : Nat, oct : Nat]) /\ passed \in Seq([n : Nat, ms : Nat, late : Int])
    BY DEF DetuneInv, DetuneType
  <2>2. Len(passed) <= Len(offered)
    BY DEF BucketInv
  <2> QED BY <2>1, <2>2, LenProperties, EmptySeq
<1>2. PICK left : left = Drain(dt, ms)
  OBVIOUS
<1>3. /\ offered' = Append(offered, [ms |-> ms, oct |-> oct])
      /\ n # 0 => offered[n].ms <= ms
      /\ bucket_max # 0 => PacketLeaves(ms, oct, left)
      /\ \/ passed' = passed /\ dt'.last_real_ms = dt.last_real_ms
         \/ /\ \E late \in Int : passed' = Append(passed, [n |-> n + 1, ms |-> ms, late |-> late])
            /\ dt'.last_real_ms = ms
      /\ bucket_max # 0 /\ left >= 0 => dt'.bucket_cur \in 0..bucket_max
  BY <1>1, <1>2, PacketCases
<1>4. /\ Len(offered') = n + 1 /\ DOMAIN offered' = 1..n + 1
      /\ offered'[n + 1].ms = ms /\ offered'[n + 1].oct = oct
      /\ \A k \in 1..n : offered'[k] = offered[k]
      /\ offered' # <<>>
  <2>1. offered \in Seq([ms : Nat, oct : Nat]) /\ [ms |-> ms, oct |-> oct] \in [ms : Nat, oct : Nat]
    BY <1>0 DEF DetuneInv, DetuneType
  <2>2. /\ Len(offered') = n + 1 /\ DOMAIN offered' = 1..n + 1
        /\ offered'[n + 1] = [ms |-> ms, oct |-> oct]
        /\ \A k \in 1..n : offered'[k] = offered[k]
    BY <1>1, <1>3, <2>1, AppendProperties
  <2>3. offered' # <<>>
    BY <1>3, <2>1, AppendProperties
  <2> QED BY <2>2, <2>3
<1>5. \/ /\ passed' = passed /\ Len(passed') = p /\ dt'.last_real_ms = dt.last_real_ms
      \/ /\ Len(passed') = p + 1 /\ passed' # <<>> /\ dt'.last_real_ms = ms
         /\ passed'[p + 1].n = n + 1 /\ \A k \in 1..p : passed'[k] = passed[k]
  <2>1. ASSUME NEW late \in Int, passed' = Append(passed, [n |-> n + 1, ms |-> ms, late |-> late])
        PROVE  /\ Len(passed') = p + 1 /\ passed' # <<>>
               /\ passed'[p + 1].n = n + 1 /\ \A k \in 1..p : passed'[k] = passed[k]
    <3>1. /\ passed \in Seq([n : Nat, ms : Nat, late : Int])
          /\ [n |-> n + 1, ms |-> ms, late |-> late] \in [n : Nat, ms : Nat, late : Int]
      BY <1>0 DEF DetuneInv, DetuneType
    <3> QED BY <1>1, <2>1, <3>1, AppendProperties, SMTT(30)
  <2> QED BY <1>1, <1>3, <2>1
<1>6. \A k \in 1..n : offered[k].ms \in 1..MaxMs /\ offered[k].oct \in Octs
  BY <1>1 DEF BucketInv
<1>7. \A j, k \in 1..n : j <= k => offered[j].ms <= offered[k].ms
  BY <1>1 DEF BucketInv
<1>8. \A k \in 1..n + 1 : k \in 1..n \/ k = n + 1
  OBVIOUS
<1>9. \A k \in 1..n + 1 : offered'[k].ms \in 1..MaxMs /\ offered'[k].oct \in Octs
  BY <1>4, <1>6, <1>8, Zenon
<1>10. \A k \in 1..n : offered[k].ms \in Nat /\ offered[k].ms <= ms /\ offered[k].ms <= offered[n].ms
  <2> TAKE k \in 1..n
  <2>1. n \in 1..n /\ k <= n /\ n # 0
    OBVIOUS
  <2>2. offered[k].ms \in 1..MaxMs /\ offered[n].ms \in 1..MaxMs
    BY <1>6, <2>1, Zenon
  <2>3. offered[k].ms <= offered[n].ms /\ offered[n].ms <= ms
    BY <1>3, <1>7, <2>1, Zenon
  <2> QED BY <1>0, <2>2, <2>3
<1>11. \A j, k \in 1..n + 1 : j <= k => offered'[j].ms <= offered'[k].ms
  <2> SUFFICES ASSUME NEW j \in 1..n + 1, NEW k \in 1..n + 1, j <= k
               PROVE  offered'[j].ms <= offered'[k].ms
    OBVIOUS
  <2>1. CASE k \in 1..n
    <3>1. j \in 1..n
      BY <2>1
    <3> QED BY <1>4, <1>7, <2>1, <3>1, Zenon
  <2>2. CASE k = n + 1 /\ j \in 1..n
    BY <1>4, <1>10, <2>2, Zenon
  <2>3. CASE k = n + 1 /\ j = n + 1
    BY <1>0, <1>4, <2>3
  <2> QED BY <1>8, <2>1, <2>2, <2>3, Zenon
<1>12. passed # <<>> => n # 0 /\ p # 0 /\ dt.last_real_ms \in 1..offered[n].ms
  BY <1>1 DEF BucketInv
<1>13. Len(passed') <= n + 1
  BY <1>1, <1>5
<1>14. passed' = <<>> => dt'.last_real_ms = 0
  BY <1>5 DEF BucketInv
<1>15. passed' # <<>> => dt'.last_real_ms \in 1..ms
  <2>1. CASE passed' = passed /\ dt'.last_real_ms = dt.last_real_ms
    <3> SUFFICES ASSUME passed # <<>>
                 PROVE  dt.last_real_ms \in 1..ms
      BY <2>1
    <3>1. n \in 1..n
      BY <1>12
    <3>2. offered[n].ms \in Nat /\ offered[n].ms <= ms
      BY <1>10, <3>1
    <3> QED BY <1>0, <1>12, <3>2
  <2>2. CASE dt'.last_real_ms = ms
    BY <2>2
  <2> QED BY <1>5, <2>1, <2>2
<1>16. passed' # <<>> /\ Len(passed') = n + 1 => dt'.last_real_ms = ms
  BY <1>1, <1>5
<1>17. bucket_max # 0 => dt.bucket_cur \in 0..bucket_max
  BY DEF BucketInv
<1>18. dt.last_real_ms \in Nat /\ dt.last_real_ms <= ms
  <2>1. CASE passed = <<>>
    BY <1>0, <2>1 DEF BucketInv
  <2>2. CASE passed # <<>>
    <3>1. n \in 1..n
      BY <1>12, <2>2
    <3>2. offered[n].ms \in Nat /\ offered[n].ms <= ms
      BY <1>10, <3>1
    <3> QED BY <1>0, <1>12, <2>2, <3>2
  <2> QED BY <2>1, <2>2
<1>19. bucket_max # 0 => left \in Nat
  BY <1>0, <1>2, <1>17, BucketNotNegative DEF DetuneInv
<1>20. bucket_max # 0 => dt'.bucket_cur \in 0..bucket_max
  BY <1>3, <1>19
<1>21. ASSUME bucket_max # 0, NoIntWraps, passed' # <<>>, passed'[1].n = 1
       PROVE  /\ \E k \in 1..n + 1 :
                   dt'.bucket_cur <= BacklogFrom(offered', k) + Truncation * n
              /\ Len(passed') = n + 1 =>
                   \A k \in 1..n + 1 : BacklogFrom(offered', k) <= dt'.bucket_cur
  <2>1. PacketLeaves(ms, oct, left)
    BY <1>3, <1>21
  <2>2. /\ left \in 0..dt.bucket_cur
        /\ dt.last_real_ms = 0 => left = dt.bucket_cur
        /\ dt.last_real_ms # 0 => LET rest == dt.bucket_cur - Drained(ms - dt.last_real_ms)
                                  IN  left >= rest /\ left \in {0, rest}
    BY <1>2, <1>17, <1>18, <1>21, DrainValue
  <2>3. PICK cur \in Nat, cur2 \in Nat : cur = dt.bucket_cur /\ cur2 = dt'.bucket_cur
    BY <1>0, <1>17, <1>20, <1>21
  <2>4. cur2 <= left + oct /\ (Len(passed') # Len(passed) => cur2 = left + oct) /\ left \in Nat
    BY <1>1, <1>5, <1>19, <1>21, <2>1, <2>3 DEF PacketLeaves
  <2>5. /\ BacklogFrom(offered', n + 1) = oct
        /\ \A k \in 1..n :
              LET grown == BacklogFrom(offered, k) + oct - Drained(ms - offered[n].ms)
              IN  /\ BacklogFrom(offered, k) \in Int /\ BacklogFrom(offered', k) \in Int
                  /\ BacklogFrom(offered', k) <= grown
                  /\ grown <= BacklogFrom(offered', k) + Truncation
    <3>1. offered \in Seq([ms : Nat, oct : Nat])
      BY DEF DetuneInv, DetuneType
    <3>2. \A k \in 1..Len(offered) : offered[k].ms <= offered[Len(offered)].ms
      BY <1>1, <1>10
    <3>3. offered # <<>> => offered[Len(offered)].ms <= ms
      BY <1>1, <1>3
    <3>4. PICK seq2 : seq2 = offered' /\ seq2 = Append(offered, [ms |-> ms, oct |-> oct])
      BY <1>3
    <3>5. /\ BacklogFrom(seq2, Len(offered) + 1) = oct
          /\ \A k \in 1..Len(offered) :
              LET grown == BacklogFrom(offered, k) + oct - Drained(ms - offered[Len(offered)].ms)
              IN  /\ BacklogFrom(offered, k) \in Int /\ BacklogFrom(seq2, k) \in Int
                  /\ BacklogFrom(seq2, k) <= grown
                  /\ grown <= BacklogFrom(seq2, k) + Truncation
      BY <1>0, <3>1, <3>2, <3>3, <3>4, BacklogGrows, ZenonT(30)
    <3> QED BY <1>1, <3>4, <3>5, Zenon
  <2>6. Truncation \in {0, 1}
    BY DEF Truncation
  <2>7. CASE n = 0
    <3>1. dt.bucket_cur = 0 /\ left = 0
      BY <1>1, <2>2, <2>7 DEF BucketInv
    <3>2. cur2 <= oct + Truncation * 0
      BY <1>0, <2>3, <2>4, <2>6, <3>1
    <3>3. Len(passed') = 1 => cur2 = oct
      BY <1>0, <1>1, <2>4, <2>7, <3>1
    <3>4. n + 1 = 1 /\ 1 \in 1..1 /\ \A k \in 1..1 : k = 1
      BY <2>7
    <3>5. BacklogFrom(offered', 1) = oct
      BY <2>5, <3>4
    <3>6. \A k \in 1..1 : BacklogFrom(offered', k) = oct
      BY <3>4, <3>5
    <3> QED BY <1>0, <2>3, <2>7, <3>2, <3>3, <3>4, <3>5, <3>6
  <2>8. CASE n # 0
    <3>1. passed # <<>> /\ passed[1].n = 1
      <4>1. p # 0
        BY <1>1, <1>5, <1>21, <2>8
      <4>2. 1 \in 1..p
        BY <4>1
      <4>3. passed'[1] = passed[1]
        BY <1>5, <4>2
      <4> QED BY <1>1, <1>21, <4>1, <4>3
    <3>2. /\ \E k \in 1..n : cur <= BacklogFrom(offered, k) + Truncation * (n - 1)
          /\ p = n => \A k \in 1..n : BacklogFrom(offered, k) <= cur
          /\ p = n => dt.last_real_ms = offered[n].ms
      BY <1>1, <1>21, <2>3, <3>1 DEF BucketInv
    <3>3. n \in 1..n
      BY <2>8
    <3>4. PICK u \in Nat, last \in Nat :
            /\ u = offered[n].ms /\ u <= ms /\ last = dt.last_real_ms /\ last # 0 /\ last <= u
            /\ ms - u \in Nat /\ ms - last \in Nat /\ ms - u <= ms - last
      <4>1. offered[n].ms \in Nat /\ offered[n].ms <= ms
        BY <1>10, <3>3
      <4>2. dt.last_real_ms \in 1..offered[n].ms
        BY <1>12, <3>1
      <4>3. \A u \in Nat : \A last \in 1..u : u <= ms =>
              ms - u \in Nat /\ ms - last \in Nat /\ ms - u <= ms - last
        BY <1>0
      <4> QED BY <4>1, <4>2, <4>3
    <3>5. PICK x \in Nat, y \in Nat : x = Drained(ms - u) /\ y = Drained(ms - last) /\ x <= y
      BY <3>4, DrainedAdds, Zenon
    <3>6. left >= cur - y /\ left \in {0, cur - y}
      BY <2>2, <2>3, <3>4, <3>5
    <3>7. \E k \in 1..n + 1 : dt'.bucket_cur <= BacklogFrom(offered', k) + Truncation * n
      <4>1. CASE left = 0
        <5>1. Truncation * n >= 0 /\ Truncation * n \in Int
          BY <2>6
        <5>2. cur2 <= oct + Truncation * n
          BY <1>0, <2>4, <4>1, <5>1
        <5> QED BY <2>3, <2>5, <5>2
      <4>2. CASE left = cur - y
        <5>1. PICK k \in 1..n : cur <= BacklogFrom(offered, k) + Truncation * (n - 1)
          BY <3>2
        <5>2. PICK b \in Int, b2 \in Int :
                /\ b = BacklogFrom(offered, k) /\ b2 = BacklogFrom(offered', k)
                /\ b2 <= b + oct - x /\ b + oct - x <= b2 + Truncation
          BY <2>5, <3>4, <3>5
        <5>3. cur2 <= b2 + Truncation * n
          <6>1. n \in Nat \ {0} /\ cur <= b + Truncation * (n - 1)
            BY <2>8, <5>1, <5>2
          <6>2. cur2 <= left + oct /\ left \in Nat
            BY <2>4
          <6>3. x <= y /\ b + oct - x <= b2 + Truncation
            BY <3>5, <5>2
          <6> QED BY <1>0, <2>6, <4>2, <6>1, <6>2, <6>3, UpperStep, ZenonT(30)
        <5>4. k \in 1..n + 1
          OBVIOUS
        <5> QED BY <2>3, <5>2, <5>3, <5>4
      <4> QED BY <3>6, <4>1, <4>2
    <3>8. ASSUME Len(passed') = n + 1, NEW k \in 1..n + 1
          PROVE  BacklogFrom(offered', k) <= dt'.bucket_cur
      <4>1. p = n /\ cur2 = left + oct
        BY <1>1, <1>5, <2>4, <3>8
      <4>2. CASE k \in 1..n
        <5>1. PICK b \in Int, b2 \in Int :
                /\ b = BacklogFrom(offered, k) /\ b2 = BacklogFrom(offered', k)
                /\ b2 <= b + oct - x
          BY <2>5, <3>4, <3>5, <4>2
        <5>2. b <= cur /\ last = u /\ x = y
          BY <3>2, <3>4, <3>5, <4>1, <4>2, <5>1
        <5>3. left >= cur - x
          BY <3>6, <5>2
        <5>4. b2 <= left + oct
          BY <1>0, <2>4, <5>1, <5>2, <5>3, LowerStep
        <5> QED BY <2>3, <4>1, <5>1, <5>4
      <4>3. CASE k = n + 1
        <5>1. oct <= left + oct
          BY <1>0, <2>4
        <5> QED BY <2>3, <2>5, <4>1, <4>3, <5>1
      <4> QED BY <1>8, <4>2, <4>3
    <3> QED BY <3>7, <3>8
  <2> QED BY <2>7, <2>8
<1>22. (n + 1) - 1 = n
  OBVIOUS
<1> QED
  BY <1>4, <1>9, <1>11, <1>13, <1>14, <1>15, <1>16, <1>20, <1>21, <1>22, Zenon DEF BucketInv

(* A function on an interval has a greatest value.                         *)
LEMMA GreatestValue ==
  ASSUME NEW n \in Nat \ {0}, NEW v, \A k \in 1..n : v[k] \in Int
  PROVE  \E k \in 1..n : \A j \in 1..n : v[k] >= v[j]
<1> DEFINE Bad == {m \in 1..n : ~\E k \in 1..m : \A j \in 1..m : v[k] >= v[j]}
<1>1. SUFFICES ASSUME n \in Bad
               PROVE  FALSE
  BY DEF Bad
<1>2. Bad \in SUBSET Nat /\ Bad # {}
  <2>1. Bad \subseteq 1..n /\ 1..n \subseteq Nat
    OBVIOUS
  <2> HIDE DEF Bad
  <2> QED BY <1>1, <2>1
<1>3. PICK m \in Bad : \A j \in Bad : m <= j
  <2> HIDE DEF Bad
  <2> QED BY <1>2, LeastNumber
<1>4. m # 1
  <2> SUFFICES ASSUME m = 1
               PROVE  \E k \in 1..m : \A j \in 1..m : v[k] >= v[j]
    BY <1>3
  <2>1. 1 \in 1..n /\ \A j \in 1..1 : j = 1
    OBVIOUS
  <2>2. v[1] \in Int
    BY <2>1
  <2>3. v[1] >= v[1]
    BY <2>2
  <2> QED BY <2>1, <2>3
<1>5. m - 1 \in 1..n /\ m - 1 \notin Bad /\ \A j \in 1..m : j \in 1..m - 1 \/ j = m
  <2>1. m \in 1..n
    BY Zenon, <1>3
  <2>2. m - 1 \in 1..n /\ m - 1 \in Nat /\ ~(m <= m - 1)
    BY <1>4, <2>1
  <2>3. m - 1 \notin Bad
    BY <1>3, <2>2, Zenon
  <2>4. \A j \in 1..m : j \in 1..m - 1 \/ j = m
    BY <2>1
  <2> QED BY <2>2, <2>3, <2>4
<1>6. PICK k \in 1..m - 1 : \A j \in 1..m - 1 : v[k] >= v[j]
  BY <1>5
<1>7. v[k] \in Int /\ v[m] \in Int /\ k \in 1..m /\ m \in 1..m /\ \A j \in 1..m : v[j] \in Int
  BY <1>3, <1>5
<1>8. CASE v[k] >= v[m]
  <2>1. \A j \in 1..m : v[k] >= v[j]
    BY <1>5, <1>6, <1>8
  <2> QED BY <1>3, <1>7, <2>1
<1>9. CASE v[m] >= v[k]
  <2>1. \A j \in 1..m : v[m] >= v[j]
    <3> TAKE j \in 1..m
    <3>1. CASE j = m
      BY <1>7, <3>1
    <3>2. CASE j \in 1..m - 1
      BY <1>6, <1>7, <1>9, <3>2
    <3> QED BY <1>5, <3>1, <3>2
  <2> QED BY <1>3, <1>7, <2>1
<1> QED BY <1>7, <1>8, <1>9

LEMMA BucketInvariant == DetuneSpec => []BucketInv
<1>1. qfDetuneAlloc => DetuneInv
  <2> SUFFICES ASSUME qfDetuneAlloc
               PROVE  DetuneInv
    OBVIOUS
  <2>1. <<>> \in Seq([ms : Nat, oct : Nat]) /\ <<>> \in Seq([n : Nat, ms : Nat, late : Int])
    OBVIOUS
  <2>2. Len(passed) = 0
    BY DEF qfDetuneAlloc
  <2> QED BY <2>1, <2>2 DEF qfDetuneAlloc, DetuneInv, DetuneType, DelayedInOrder
<1>2. qfDetuneAlloc => BucketInv
  <2> SUFFICES ASSUME qfDetuneAlloc
               PROVE  BucketInv
    OBVIOUS
  <2>1. /\ offered = <<>> /\ passed = <<>> /\ Len(offered) = 0 /\ Len(passed) = 0
        /\ dt.bucket_cur = 0 /\ dt.last_real_ms = 0
    BY DEF qfDetuneAlloc
  <2>2. 1..0 = {} /\ bucket_max \in Nat
    BY DetuneAssumption
  <2>3. DetuneType
    BY <1>1 DEF DetuneInv
  <2> QED BY <2>1, <2>2, <2>3 DEF BucketInv
<1>3. DetuneInv /\ BucketInv /\ [DetuneNext]_detuneVars => (DetuneInv /\ BucketInv)'
  <2> SUFFICES ASSUME DetuneInv, BucketInv, [DetuneNext]_detuneVars
               PROVE  BucketInv'
    BY DetuneInvNext
  <2>1. DetuneType'
    BY DetuneInvNext DEF DetuneInv
  <2>2. CASE UNCHANGED detuneVars
    BY <2>1, <2>2, Zenon DEF detuneVars, BucketInv, BacklogFrom, DetuneType
  <2>3. ASSUME NEW ms \in 1..MaxMs, NEW oct \in Octs, qfDetunePacket(ms, oct)
        PROVE  BucketInv'
    BY <2>1, <2>3, BucketStep
  <2> QED BY <2>2, <2>3 DEF DetuneNext
<1> QED BY <1>1, <1>2, <1>3, PTL DEF DetuneSpec

(* The level is that of a leaky bucket: never above the largest backlog of *)
(* a run of packets, but for an octet for each packet if the rate is       *)
(* truncated, and never below it as long as no packet was dropped, for     *)
(* every limit, rate and sequence of packets (qfDetunePacket).             *)
THEOREM BucketAlwaysLeaky == DetuneSpec => []BucketIsLeaky
<1>1. BucketInv => BucketIsLeaky
  <2> SUFFICES ASSUME BucketInv, bucket_max # 0, passed # <<>>, passed[1].n = 1,
                      (MaxMs * bucket_rate) \div 1000 < IntValues \div 2
               PROVE  LET n == Len(offered)
                          Backlog(k) == MapThenSumSet(LAMBDA j : offered[j].oct, k..n)
                                          - ((offered[n].ms - offered[k].ms) * bucket_rate) \div 1000
                          level == Max({Backlog(k) : k \in 1..n})
                          truncated == IF bucket_rate % 1000 = 0 THEN 0 ELSE n - 1
                      IN  /\ dt.bucket_cur <= level + truncated
                          /\ Len(passed) = n => dt.bucket_cur >= level
    BY Zenon DEF BucketIsLeaky
  <2> DEFINE Backlog(k) == MapThenSumSet(LAMBDA j : offered[j].oct, k..Len(offered))
                             - ((offered[Len(offered)].ms - offered[k].ms) * bucket_rate) \div 1000
             truncated == IF bucket_rate % 1000 = 0 THEN 0 ELSE Len(offered) - 1
  <2>1. PICK n \in Nat : n = Len(offered) /\ DOMAIN offered = 1..n /\ n # 0
    <3>1. offered \in Seq([ms : Nat, oct : Nat]) /\ passed \in Seq([n : Nat, ms : Nat, late : Int])
      BY DEF BucketInv, DetuneType
    <3>2. Len(passed) <= Len(offered) /\ Len(passed) # 0
      BY <3>1, EmptySeq DEF BucketInv
    <3> QED BY <3>1, <3>2, LenProperties
  <2>2. /\ \E k \in 1..n : dt.bucket_cur <= BacklogFrom(offered, k) + Truncation * (n - 1)
        /\ Len(passed) = n => \A k \in 1..n : BacklogFrom(offered, k) <= dt.bucket_cur
    BY <2>1 DEF BucketInv, NoIntWraps
  <2>3. \A k \in 1..n : Backlog(k) = BacklogFrom(offered, k)
    <3> SUFFICES ASSUME NEW k \in 1..n
                 PROVE  Backlog(k) = BacklogFrom(offered, k)
      OBVIOUS
    <3>0. k \in Int /\ n \in Int /\ \A x \in k..n : x \in 1..n
      OBVIOUS
    <3>1. IsFiniteSet(k..n) /\ \A x \in k..n : Sizes(offered)[x] = offered[x].oct
      <4>1. IsFiniteSet(k..n)
        BY <3>0, FS_Interval, Zenon
      <4>2. \A x \in 1..n : Sizes(offered)[x] = offered[x].oct
        BY <2>1 DEF Sizes
      <4> QED BY <3>0, <4>1, <4>2, Zenon
    <3>2. MapThenSumSet(LAMBDA j : offered[j].oct, k..n) = Total(Sizes(offered), k..n)
      BY <3>1, OctTotal
    <3> QED BY <2>1, <3>2 DEF BacklogFrom, Drained
  <2>4. \A k \in 1..n : BacklogFrom(offered, k) \in Int
    <3> SUFFICES ASSUME NEW k \in 1..n
                 PROVE  BacklogFrom(offered, k) \in Int
      OBVIOUS
    <3>1. \A x \in k..n : x \in 1..n
      OBVIOUS
    <3>2. \A x \in k..n : Sizes(offered)[x] \in Nat
      BY <2>1, <3>1, DetuneAssumption DEF Sizes, BucketInv
    <3>3. IsFiniteSet(k..n)
      <4>1. k \in Int /\ n \in Int
        OBVIOUS
      <4> QED BY <4>1, FS_Interval, Zenon
    <3>4. Total(Sizes(offered), k..n) \in Nat
      BY <3>2, <3>3, TotalType
    <3>5. offered[n].ms - offered[k].ms \in Nat
      <4>1. /\ n \in 1..n
            /\ \A j \in 1..n : offered[j].ms \in 1..MaxMs
            /\ \A i, j \in 1..n : i <= j => offered[i].ms <= offered[j].ms
        BY <2>1 DEF BucketInv
      <4>2. offered[n].ms \in Nat /\ offered[k].ms \in Nat /\ offered[k].ms <= offered[n].ms
        BY <4>1
      <4> QED BY <4>2
    <3>6. Drained(offered[n].ms - offered[k].ms) \in Nat
      BY <3>5, DrainedAdds
    <3> QED BY <2>1, <3>4, <3>6 DEF BacklogFrom
  <2>5. PICK v : v = [k \in 1..n |-> BacklogFrom(offered, k)]
    OBVIOUS
  <2>6. PICK k \in 1..n : \A j \in 1..n : v[k] >= v[j]
    BY <2>1, <2>4, <2>5, GreatestValue
  <2>7. PICK level : level = Max({Backlog(j) : j \in 1..n})
    OBVIOUS
  <2>8. /\ level \in {BacklogFrom(offered, j) : j \in 1..n}
        /\ \A j \in 1..n : level >= BacklogFrom(offered, j)
    <3>1. {Backlog(j) : j \in 1..n} = {v[j] : j \in 1..n}
      <4>1. \A j \in 1..n : v[j] = BacklogFrom(offered, j)
        BY <2>5
      <4> HIDE DEF Backlog
      <4>2. \A j \in 1..n : Backlog(j) = v[j]
        BY <2>3, <4>1, Zenon
      <4> QED BY <4>2
    <3> HIDE DEF Backlog
    <3>2. level = CHOOSE x \in {v[j] : j \in 1..n} : \A y \in {v[j] : j \in 1..n} : x >= y
      BY <2>7, <3>1, Zenon DEF Max
    <3>3. \E x \in {v[j] : j \in 1..n} : \A y \in {v[j] : j \in 1..n} : x >= y
      BY <2>6
    <3>4. level \in {v[j] : j \in 1..n} /\ \A y \in {v[j] : j \in 1..n} : level >= y
      BY <3>2, <3>3, Zenon
    <3>5. \A j \in 1..n : v[j] = BacklogFrom(offered, j)
      BY <2>5
    <3> QED BY <3>4, <3>5
  <2>9. dt.bucket_cur \in Int /\ level \in Int
    BY <2>4, <2>8 DEF BucketInv, DetuneType
  <2>10. truncated = Truncation * (n - 1) /\ truncated \in Int
    BY <2>1 DEF Truncation
  <2>11. dt.bucket_cur <= level + truncated
    <3>1. PICK j \in 1..n : dt.bucket_cur <= BacklogFrom(offered, j) + Truncation * (n - 1)
      BY <2>2
    <3>2. PICK b \in Int, t \in Int : b = BacklogFrom(offered, j) /\ t = truncated /\ level >= b
      <4> HIDE DEF truncated
      <4> QED BY <2>4, <2>8, <2>10, Zenon
    <3>3. dt.bucket_cur <= b + t
      BY <2>10, <3>1, <3>2, ZenonT(30)
    <3> QED BY <2>9, <3>2, <3>3
  <2>12. Len(passed) = n => dt.bucket_cur >= level
    BY <2>2, <2>8, <2>9
  <2> HIDE DEF Backlog, truncated
  <2>13. level = Max({Backlog(j) : j \in 1..Len(offered)}) /\ (Len(passed) = Len(offered) => dt.bucket_cur >= level)
    BY <2>1, <2>7, <2>12
  <2> QED BY <2>11, <2>13, Zenon DEF Backlog, truncated
<1> QED BY <1>1, BucketInvariant, PTL

----------------------------------------------------------------------------
(***************************************************************************)
(* Round trip times                                                        *)
(***************************************************************************)
TcpStat == [n : Nat, mm : [min : Int, max : Int], val : Int]
TcpWait == [wait : {"none", "ack", "ecr"}, tsack : 0..Space - 1, lms : Nat, obs : Nat]
TcpSeen == [s : TcpInfos, dir : Dirs, ms : Nat]

(* The estimate is between the extremes of its samples, all at least 2.    *)
StatOk(v) ==
  /\ v \in TcpStat
  /\ v.mm.min <= v.val /\ v.val <= v.mm.max
  /\ IF v.n = 0 THEN v.val = 0 /\ v.mm = [min |-> 0, max |-> 0] ELSE v.mm.min >= 2

(* Direction d waits for the answer to a segment of the other one: since   *)
(* its time, with its sequence number or timestamp.                        *)
Awaits(x, h, j) ==
  \/ x.wait = "ack" /\ x.tsack = h[j].s.seq
  \/ x.wait = "ecr" /\ x.tsack = h[j].s.tsval /\ x.tsack # 0

WaitOk(x, d, h) ==
  x.wait # "none" =>
    \E j \in 1..Len(h) : h[j].dir = Other(d) /\ x.lms = h[j].ms /\ Awaits(x, h, j)

Answer(h, k, j) ==
  /\ j < k /\ h[k].dir # h[j].dir
  /\ \/ h[k].s.ackflag /\ Compare(h[k].s.ack, h[j].s.seq) >= 0
     \/ h[j].s.tsval # 0 /\ Compare(h[k].s.tsecr, h[j].s.tsval) >= 0

ObsOk(x, d, h) ==
  x.obs # 0 => \E k \in 1..Len(h) : \E j \in 1..k :
                 h[k].dir = d /\ Answer(h, k, j) /\ x.obs = h[k].ms - h[j].ms

RttInv ==
  /\ hist \in Seq(TcpSeen)
  /\ \A j \in 1..Len(hist) : hist[j].ms <= hist[Len(hist)].ms
  /\ DOMAIN rtt = {"val", "dir"} /\ rtt = [val |-> rtt.val, dir |-> rtt.dir]
  /\ rtt.dir \in [Dirs -> TcpWait]
  /\ \A d \in Dirs : WaitOk(rtt.dir[d], d, hist) /\ ObsOk(rtt.dir[d], d, hist)
  /\ StatOk(rtt.val)
  /\ (\A d \in Dirs : rtt.dir[d].obs # 0) => rtt.val.n > 0

(* The weighted mean of two numbers is between their bounds.               *)
LEMMA MeanBounded ==
  ASSUME NEW a \in Nat \ {0}, NEW lo \in Int, NEW hi \in Int, NEW v \in Int, NEW x \in Int,
         lo <= v, v <= hi, lo <= x, x <= hi
  PROVE  LET m == (v * (a - 1) + x) \div a IN m \in Int /\ lo <= m /\ m <= hi
<1> DEFINE y == v * (a - 1) + x  m == y \div a
<1>1. y \in Int
  OBVIOUS
<1>2. \A p, q, r \in Int : p <= q /\ 0 <= r => p * r <= q * r
  OBVIOUS
<1>3. lo * (a - 1) <= v * (a - 1) /\ v * (a - 1) <= hi * (a - 1)
  <2>1. a - 1 \in Int /\ 0 <= a - 1
    OBVIOUS
  <2> QED BY <1>2, <2>1
<1>4. lo * (a - 1) = lo * a - lo /\ hi * (a - 1) = hi * a - hi
  OBVIOUS
<1>5. lo * a <= y /\ y <= hi * a
  <2>1. lo * a \in Int /\ hi * a \in Int /\ v * (a - 1) \in Int
    OBVIOUS
  <2> QED BY <1>3, <1>4, <2>1
<1> HIDE DEF y
<1>6. m \in Int /\ a * m <= y /\ y < a * m + a
  BY <1>1
<1> HIDE DEF m
<1>7. lo <= m
  <2>1. SUFFICES ASSUME m + 1 <= lo
                 PROVE  FALSE
    BY <1>6
  <2>2. (m + 1) * a <= lo * a
    BY <1>2, <1>6, <2>1
  <2>3. (m + 1) * a = a * m + a
    BY <1>6
  <2>4. lo * a \in Int /\ a * m \in Int
    BY <1>6
  <2> QED BY <1>1, <1>5, <1>6, <2>2, <2>3, <2>4
<1>8. m <= hi
  <2>1. SUFFICES ASSUME hi + 1 <= m
                 PROVE  FALSE
    BY <1>6
  <2>2. (hi + 1) * a <= m * a
    BY <1>2, <1>6, <2>1
  <2>3. (hi + 1) * a = hi * a + a /\ m * a = a * m
    BY <1>6
  <2>4. hi * a \in Int /\ a * m \in Int
    BY <1>6
  <2> QED BY <1>1, <1>5, <1>6, <2>2, <2>3, <2>4
<1> QED BY <1>6, <1>7, <1>8 DEF m, y

LEMMA SmoothOk ==
  ASSUME NEW v, StatOk(v), NEW x \in Int, x >= 2
  PROVE  StatOk(sstLinSmoothAdd(v, x)) /\ sstLinSmoothAdd(v, x).n > 0
<1> DEFINE w == sstLinSmoothAdd(v, x)
<1>1. v \in TcpStat /\ v.n \in Nat /\ v.val \in Int /\ v.mm.min \in Int /\ v.mm.max \in Int
      /\ v.mm \in [min : Int, max : Int]
  BY DEF StatOk, TcpStat
<1>2. CASE v.n = 0
  <2>1. w = [n |-> v.n + 1, mm |-> [min |-> x, max |-> x], val |-> x]
    BY <1>2 DEF StatOk, sstLinSmoothAdd
  <2> HIDE DEF w
  <2>2. w \in TcpStat /\ w.n = 1 /\ w.mm.min = x /\ w.mm.max = x /\ w.val = x
    BY <1>1, <1>2, <2>1 DEF TcpStat
  <2> QED BY <2>2 DEF StatOk, w
<1>3. CASE v.n # 0
  <2>1. v.mm.min >= 2 /\ v.mm # [min |-> 0, max |-> 0]
    <3>1. v.mm.min >= 2
      BY <1>3 DEF StatOk
    <3> QED BY <1>1, <3>1
  <2> DEFINE mm == sstMinMaxAdd(v.mm, x)  m == (v.val * (alpha - 1) + x) \div alpha
  <2>2. w = [n |-> v.n + 1, mm |-> mm, val |-> m]
    BY <2>1 DEF sstLinSmoothAdd
  <2>3. /\ mm \in [min : Int, max : Int] /\ mm.min <= v.val /\ v.val <= mm.max
        /\ mm.min <= x /\ x <= mm.max /\ mm.min >= 2
    <3>1. v.mm.min <= v.val /\ v.val <= v.mm.max
      BY DEF StatOk
    <3>2. CASE x > v.mm.max
      BY <1>1, <2>1, <3>1, <3>2 DEF sstMinMaxAdd
    <3>3. CASE ~(x > v.mm.max) /\ x < v.mm.min
      BY <1>1, <2>1, <3>1, <3>3 DEF sstMinMaxAdd
    <3>4. CASE ~(x > v.mm.max) /\ ~(x < v.mm.min)
      BY <1>1, <2>1, <3>1, <3>4 DEF sstMinMaxAdd
    <3> QED BY <3>2, <3>3, <3>4
  <2> HIDE DEF mm
  <2>4. m \in Int /\ mm.min <= m /\ m <= mm.max
    <3>1. alpha \in Nat \ {0} /\ mm.min \in Int /\ mm.max \in Int
      BY <2>3, TcpAssumption
    <3> QED BY <1>1, <2>3, <3>1, MeanBounded
  <2> HIDE DEF m, w
  <2>5. w \in TcpStat /\ w.n = v.n + 1 /\ w.mm = mm /\ w.val = m
    BY <1>1, <2>2, <2>3, <2>4 DEF TcpStat
  <2> QED BY <1>1, <1>3, <2>3, <2>4, <2>5 DEF StatOk, w
<1> QED BY <1>2, <1>3

(* What is known of a direction stays known when a segment is added.       *)
LEMMA HistoryGrows ==
  ASSUME NEW h \in Seq(TcpSeen), NEW e \in TcpSeen, NEW x, NEW d \in Dirs
  PROVE  /\ Append(h, e) \in Seq(TcpSeen) /\ Len(h) \in Nat
         /\ Len(Append(h, e)) = Len(h) + 1 /\ Append(h, e)[Len(h) + 1] = e
         /\ \A j \in 1..Len(h) : j \in 1..Len(h) + 1 /\ Append(h, e)[j] = h[j]
         /\ WaitOk(x, d, h) => WaitOk(x, d, Append(h, e))
         /\ ObsOk(x, d, h) => ObsOk(x, d, Append(h, e))
<1> DEFINE g == Append(h, e)
<1>1. /\ g \in Seq(TcpSeen) /\ Len(h) \in Nat /\ Len(g) = Len(h) + 1 /\ g[Len(h) + 1] = e
      /\ \A j \in 1..Len(h) : j \in 1..Len(h) + 1 /\ g[j] = h[j]
  OBVIOUS
<1> HIDE DEF g
<1>2. ASSUME WaitOk(x, d, h)
      PROVE  WaitOk(x, d, g)
  BY <1>1, <1>2 DEF WaitOk, Awaits
<1>3. ASSUME ObsOk(x, d, h)
      PROVE  ObsOk(x, d, g)
  <2> SUFFICES ASSUME x.obs # 0
               PROVE  \E k \in 1..Len(g) : \E j \in 1..k :
                        g[k].dir = d /\ Answer(g, k, j) /\ x.obs = g[k].ms - g[j].ms
    BY DEF ObsOk
  <2>1. PICK k \in 1..Len(h) : \E j \in 1..k :
          h[k].dir = d /\ Answer(h, k, j) /\ x.obs = h[k].ms - h[j].ms
    BY <1>3 DEF ObsOk
  <2>2. PICK j \in 1..k : h[k].dir = d /\ Answer(h, k, j) /\ x.obs = h[k].ms - h[j].ms
    BY <2>1
  <2>3. k \in 1..Len(g) /\ j \in 1..Len(h) /\ g[k] = h[k] /\ g[j] = h[j]
    BY <1>1
  <2>4. Answer(g, k, j)
    BY <2>2, <2>3 DEF Answer
  <2> QED BY <2>2, <2>3, <2>4
<1> QED BY <1>1, <1>2, <1>3 DEF g

(* An observation, and the sample it may complete.                         *)
LEMMA ObservedOk ==
  ASSUME NEW r, r = [val |-> r.val, dir |-> r.dir], r.dir \in [Dirs -> TcpWait], StatOk(r.val),
         NEW d \in Dirs, NEW ms \in Nat, r.dir[d].lms <= ms
  PROVE  LET q == Observed(r, d, ms)  o == ms - r.dir[d].lms
         IN  /\ q = [val |-> q.val, dir |-> [r.dir EXCEPT ![d].obs = o]] /\ o \in Nat
             /\ StatOk(q.val) /\ (r.val.n > 0 => q.val.n > 0)
             /\ (\A c \in Dirs : q.dir[c].obs # 0) => q.val.n > 0
<1> DEFINE o == ms - r.dir[d].lms
           s == [r EXCEPT !.dir[d].obs = o]
           q == Observed(r, d, ms)
<1>1. o \in Nat
  BY DEF TcpWait
<1>2. s = [val |-> r.val, dir |-> [r.dir EXCEPT ![d].obs = o]] /\ q = qfRttSample(s)
  BY DEF Observed
<1>3. s.dir \in [Dirs -> TcpWait] /\ s.val = r.val /\ s.dir = [r.dir EXCEPT ![d].obs = o]
  <2>1. [r.dir EXCEPT ![d].obs = o] \in [Dirs -> TcpWait]
    BY <1>1 DEF TcpWait
  <2> QED BY <1>2, <2>1
<1> HIDE DEF o, s, q
<1>4. "fwd" \in Dirs /\ "rev" \in Dirs /\ \A c \in Dirs : c = "fwd" \/ c = "rev"
  BY DEF Dirs
<1>5. s.dir["fwd"].obs \in Nat /\ s.dir["rev"].obs \in Nat
  BY <1>3, <1>4 DEF TcpWait
<1>6. CASE s.dir["fwd"].obs # 0 /\ s.dir["rev"].obs # 0
  <2> DEFINE x == s.dir["fwd"].obs + s.dir["rev"].obs
  <2>1. x \in Int /\ x >= 2
    BY <1>5, <1>6
  <2>2. q = [s EXCEPT !.val = sstLinSmoothAdd(@, x)]
    BY <1>2, <1>6 DEF qfRttSample
  <2> HIDE DEF x
  <2>3. q.val = sstLinSmoothAdd(r.val, x) /\ q.dir = s.dir /\ q = [val |-> q.val, dir |-> s.dir]
    BY <1>2, <1>3, <2>2
  <2>4. StatOk(q.val) /\ q.val.n > 0
    BY <2>1, <2>3, SmoothOk
  <2> QED BY <1>1, <1>3, <2>3, <2>4 DEF o, q
<1>7. CASE ~(s.dir["fwd"].obs # 0 /\ s.dir["rev"].obs # 0)
  <2>1. q = s
    BY <1>2, <1>7 DEF qfRttSample
  <2>2. q.val = r.val /\ q.dir = s.dir /\ q = [val |-> q.val, dir |-> s.dir]
    BY <1>2, <1>3, <2>1
  <2>3. ~\A c \in Dirs : q.dir[c].obs # 0
    BY <1>4, <1>7, <2>2
  <2> QED BY <1>1, <1>3, <2>2, <2>3 DEF o, q
<1> QED BY <1>6, <1>7

LEMMA OtherDirection ==
  ASSUME NEW d \in Dirs
  PROVE  /\ Other(d) \in Dirs /\ Other(d) # d /\ Other(Other(d)) = d
         /\ \A c \in Dirs : c = d \/ c = Other(d)
BY DEF Dirs, Other

(* The answer a direction waits for makes an observation; a segment starts *)
(* a wait of the other direction.                                          *)
LEMMA AnswerObserved ==
  ASSUME RttInv, NEW seg \in TcpInfos, NEW d \in Dirs, NEW ms \in Nat,
         hist # <<>> => ms >= hist[Len(hist)].ms,
         \/ AckAwaited(rtt.dir[d], seg)
         \/ rtt.dir[d].wait = "ecr" /\ Compare(seg.tsecr, rtt.dir[d].tsack) >= 0,
         NEW y, y.obs = ms - rtt.dir[d].lms
  PROVE  /\ rtt.dir[d].lms <= ms
         /\ ObsOk(y, d, Append(hist, [s |-> seg, dir |-> d, ms |-> ms]))
<1> DEFINE e == [s |-> seg, dir |-> d, ms |-> ms]  g == Append(hist, e)  x == rtt.dir[d]
           k == Len(hist) + 1
<1>1. hist \in Seq(TcpSeen) /\ e \in TcpSeen
  BY DEF RttInv, TcpSeen
<1>2. /\ Len(hist) \in Nat /\ Len(g) = k /\ g[k] = e
      /\ \A j \in 1..Len(hist) : g[j] = hist[j]
  BY <1>1, HistoryGrows
<1>3. x.wait # "none"
  BY DEF AckAwaited
<1>4. PICK j \in 1..Len(hist) : hist[j].dir = Other(d) /\ x.lms = hist[j].ms /\ Awaits(x, hist, j)
  BY <1>3 DEF RttInv, WaitOk
<1>5. x.lms <= ms
  <2>1. hist # <<>> /\ hist[j].ms <= hist[Len(hist)].ms /\ hist[j].ms \in Nat
    <3>1. hist[j] \in TcpSeen /\ hist[j].ms <= hist[Len(hist)].ms
      BY DEF RttInv
    <3> QED BY <1>1, <1>4, <3>1 DEF TcpSeen
  <2>2. hist[Len(hist)].ms \in Nat
    <3>1. hist[Len(hist)] \in TcpSeen
      BY <1>1, <1>2, <2>1
    <3> QED BY <3>1 DEF TcpSeen
  <2> QED BY <1>4, <2>1, <2>2
<1>6. e.s = seg /\ e.dir = d /\ e.ms = ms
  OBVIOUS
<1> HIDE DEF g, e
<1>7. g[j] = hist[j] /\ j < k /\ j \in 1..k /\ k \in 1..Len(g)
  BY <1>2
<1>8. Answer(g, k, j)
  <2>1. \/ seg.ackflag /\ Compare(seg.ack, hist[j].s.seq) >= 0
        \/ hist[j].s.tsval # 0 /\ Compare(seg.tsecr, hist[j].s.tsval) >= 0
    BY <1>4 DEF AckAwaited, Awaits
  <2> QED BY <1>2, <1>4, <1>6, <1>7, <2>1, OtherDirection DEF Answer
<1>9. y.obs = g[k].ms - g[j].ms /\ g[k].dir = d
  BY <1>2, <1>4, <1>6, <1>7
<1> QED BY <1>5, <1>7, <1>8, <1>9 DEF ObsOk, g, e

LEMMA WaitStarts ==
  ASSUME RttInv, NEW seg \in TcpInfos, NEW d \in Dirs, NEW ms \in Nat, NEW x,
         x.lms = ms, \/ x.wait = "ack" /\ x.tsack = seg.seq
                     \/ x.wait = "ecr" /\ x.tsack = seg.tsval /\ seg.tsval # 0
  PROVE  WaitOk(x, Other(d), Append(hist, [s |-> seg, dir |-> d, ms |-> ms]))
<1> DEFINE e == [s |-> seg, dir |-> d, ms |-> ms]  g == Append(hist, e)  k == Len(hist) + 1
<1>1. hist \in Seq(TcpSeen) /\ e \in TcpSeen
  BY DEF RttInv, TcpSeen
<1>2. Len(hist) \in Nat /\ Len(g) = k /\ g[k] = e /\ e.s = seg /\ e.dir = d /\ e.ms = ms
  BY <1>1, HistoryGrows
<1> HIDE DEF g, e
<1>3. k \in 1..Len(g) /\ g[k].dir = Other(Other(d)) /\ x.lms = g[k].ms /\ Awaits(x, g, k)
  BY <1>2, OtherDirection DEF Awaits
<1> QED BY <1>3 DEF WaitOk, g, e

(* The invariant from the parts of the new estimator.                      *)
LEMMA RttInvFrom ==
  ASSUME RttInv, NEW seg \in TcpInfos, NEW d \in Dirs, NEW ms \in Nat,
         hist # <<>> => ms >= hist[Len(hist)].ms,
         hist' = Append(hist, [s |-> seg, dir |-> d, ms |-> ms]),
         NEW v, NEW D \in [Dirs -> TcpWait], rtt' = [val |-> v, dir |-> D], StatOk(v),
         WaitOk(D[d], d, hist'), ObsOk(D[d], d, hist'),
         WaitOk(D[Other(d)], Other(d), hist'), ObsOk(D[Other(d)], Other(d), hist'),
         (\A c \in Dirs : D[c].obs # 0) => v.n > 0
  PROVE  RttInv'
<1> DEFINE e == [s |-> seg, dir |-> d, ms |-> ms]
<1>1. hist \in Seq(TcpSeen) /\ e \in TcpSeen /\ e.ms = ms
  BY DEF RttInv, TcpSeen
<1> HIDE DEF e
<1>2. /\ hist' \in Seq(TcpSeen) /\ Len(hist) \in Nat /\ Len(hist') = Len(hist) + 1
      /\ hist'[Len(hist) + 1] = e /\ \A j \in 1..Len(hist) : hist'[j] = hist[j]
  BY <1>1, HistoryGrows DEF e
<1>3. \A j \in 1..Len(hist') : hist'[j].ms <= hist'[Len(hist')].ms
  <2> TAKE j \in 1..Len(hist')
  <2>1. CASE j = Len(hist) + 1
    BY <1>1, <1>2, <2>1
  <2>2. CASE j # Len(hist) + 1
    <3>1. j \in 1..Len(hist) /\ Len(hist) \in 1..Len(hist) /\ hist # <<>>
      BY <1>1, <1>2, <2>2
    <3>2. hist[j].ms <= hist[Len(hist)].ms /\ hist[Len(hist)].ms <= ms
      BY <3>1 DEF RttInv
    <3>3. hist[j] \in TcpSeen /\ hist[Len(hist)] \in TcpSeen
      BY <1>1, <3>1
    <3>4. hist[j].ms \in Nat /\ hist[Len(hist)].ms \in Nat
      BY <3>3 DEF TcpSeen
    <3> QED BY <1>1, <1>2, <3>1, <3>2, <3>4
  <2> QED BY <2>1, <2>2
<1>4. rtt'.val = v /\ rtt'.dir = D /\ DOMAIN rtt' = {"val", "dir"}
  OBVIOUS
<1>5. \A c \in Dirs : WaitOk(rtt'.dir[c], c, hist') /\ ObsOk(rtt'.dir[c], c, hist')
  BY <1>4, OtherDirection
<1> QED BY <1>2, <1>3, <1>4, <1>5 DEF RttInv

LEMMA RttInvStep ==
  ASSUME RttInv, NEW seg \in TcpInfos, NEW d \in Dirs, NEW ms \in Nat, TcpSegment(seg, d, ms)
  PROVE  RttInv'
<1> DEFINE e == [s |-> seg, dir |-> d, ms |-> ms]  g == Append(hist, e)
           x == rtt.dir[d]  y == rtt.dir[Other(d)]  D0 == rtt.dir
<1>1. /\ hist # <<>> => ms >= hist[Len(hist)].ms
      /\ hist' = g /\ rtt' = qfRttSegment(rtt, seg, d, ms)
  BY DEF TcpSegment
<1>2. /\ hist \in Seq(TcpSeen) /\ e \in TcpSeen /\ D0 \in [Dirs -> TcpWait]
      /\ rtt = [val |-> rtt.val, dir |-> D0] /\ StatOk(rtt.val)
      /\ (\A c \in Dirs : D0[c].obs # 0) => rtt.val.n > 0
      /\ Other(d) \in Dirs /\ Other(d) # d /\ x \in TcpWait /\ y \in TcpWait
  BY OtherDirection DEF RttInv, TcpSeen
<1>3. /\ WaitOk(x, d, g) /\ ObsOk(x, d, g) /\ WaitOk(y, Other(d), g) /\ ObsOk(y, Other(d), g)
  BY <1>2, HistoryGrows DEF RttInv
<1>4. seg.seq \in 0..Space - 1 /\ seg.tsval \in 0..Space - 1
  BY TcpAssumption
<1> HIDE DEF e
<1> DEFINE y1 == [y EXCEPT !.wait = "ack", !.lms = ms, !.tsack = seg.seq]
           y2 == [y EXCEPT !.wait = "ecr", !.lms = ms, !.tsack = seg.tsval]
<1>5. /\ y1 \in TcpWait /\ y1.obs = y.obs /\ WaitOk(y1, Other(d), g) /\ ObsOk(y1, Other(d), g)
  <2>1. y1 \in TcpWait /\ y1.obs = y.obs /\ y1.wait = "ack" /\ y1.lms = ms /\ y1.tsack = seg.seq
    BY <1>2, <1>4 DEF TcpWait
  <2> HIDE DEF y1
  <2> QED BY <1>3, <2>1, WaitStarts DEF ObsOk, e
<1>6. seg.tsval # 0 =>
      /\ y2 \in TcpWait /\ y2.obs = y.obs /\ WaitOk(y2, Other(d), g) /\ ObsOk(y2, Other(d), g)
  <2>1. y2 \in TcpWait /\ y2.obs = y.obs /\ y2.wait = "ecr" /\ y2.lms = ms /\ y2.tsack = seg.tsval
    BY <1>2, <1>4 DEF TcpWait
  <2> HIDE DEF y2
  <2> QED BY <1>3, <2>1, WaitStarts DEF ObsOk, e
<1> DEFINE Known(v, D) ==
             /\ rtt' = [val |-> v, dir |-> D] /\ D \in [Dirs -> TcpWait] /\ StatOk(v)
             /\ WaitOk(D[d], d, g) /\ ObsOk(D[d], d, g)
             /\ WaitOk(D[Other(d)], Other(d), g) /\ ObsOk(D[Other(d)], Other(d), g)
             /\ (\A c \in Dirs : D[c].obs # 0) => v.n > 0
<1>7. ASSUME NEW v, NEW D, Known(v, D)
      PROVE  RttInv'
  BY <1>1, <1>7, RttInvFrom DEF e
<1>8. CASE AckAwaited(x, seg)
  <2> DEFINE q == Observed(rtt, d, ms)  o == ms - x.lms
             x1 == [x EXCEPT !.obs = o, !.wait = "none"]
             D1 == [D0 EXCEPT ![d] = x1]
  <2>1. x.lms <= ms
    <3>1. [obs |-> o].obs = o
      OBVIOUS
    <3> QED BY <1>1, <1>8, <3>1, AnswerObserved
  <2>2. /\ q = [val |-> q.val, dir |-> [D0 EXCEPT ![d].obs = o]] /\ o \in Nat
        /\ StatOk(q.val) /\ ((\A c \in Dirs : q.dir[c].obs # 0) => q.val.n > 0)
    BY <1>2, <2>1, ObservedOk
  <2>3. x1 \in TcpWait /\ x1.obs = o /\ x1.wait = "none"
    BY <1>2, <2>2 DEF TcpWait
  <2>4. WaitOk(x1, d, g) /\ ObsOk(x1, d, g)
    BY <1>1, <1>8, <2>3, AnswerObserved DEF WaitOk, e
  <2> HIDE DEF q
  <2>5. Done(q, d) = [val |-> q.val, dir |-> D1] /\ D1 \in [Dirs -> TcpWait]
        /\ D1[d] = x1 /\ D1[Other(d)] = y
    <3> DEFINE E == [D0 EXCEPT ![d].obs = o]
    <3>1. E \in [Dirs -> TcpWait] /\ [E EXCEPT ![d].wait = "none"] = D1
      <4>1. E = [D0 EXCEPT ![d] = [x EXCEPT !.obs = o]]
        BY <1>2
      <4>2. [x EXCEPT !.obs = o] \in TcpWait
        BY <1>2, <2>2 DEF TcpWait
      <4>3. E \in [Dirs -> TcpWait] /\ E[d] = [x EXCEPT !.obs = o]
        BY <1>2, <4>1, <4>2
      <4>4. [E[d] EXCEPT !.wait = "none"] = x1
        BY <1>2, <4>3 DEF TcpWait
      <4> QED BY <1>2, <4>1, <4>3, <4>4
    <3>2. q = [val |-> q.val, dir |-> E]
      BY <2>2
    <3> HIDE DEF E, D1
    <3>3. Done(q, d) = [val |-> q.val, dir |-> [E EXCEPT ![d].wait = "none"]]
      BY <3>2 DEF Done
    <3> QED BY <1>2, <2>3, <3>1, <3>3 DEF D1
  <2>6. (\A c \in Dirs : D1[c].obs # 0) => q.val.n > 0
    <3>1. q.dir = [D0 EXCEPT ![d].obs = o]
      BY <2>2
    <3>2. q.dir[d].obs = o /\ q.dir[Other(d)] = y
      BY <1>2, <3>1 DEF TcpWait
    <3> HIDE DEF D1, o, x1, x, y
    <3> QED BY <1>2, <2>2, <2>3, <2>5, <3>2, OtherDirection
  <2>7. CASE seg.tsval = 0
    <3>1. rtt' = [val |-> q.val, dir |-> D1]
      BY <1>1, <1>8, <2>5, <2>7 DEF qfRttSegment, q
    <3>2. Known(q.val, D1)
      BY <1>3, <2>2, <2>4, <2>5, <2>6, <3>1
    <3> QED BY <1>7, <3>2
  <2>8. CASE seg.tsval # 0
    <3> DEFINE D2 == [D1 EXCEPT ![Other(d)] = y2]
    <3>1. rtt' = qfRttSetEcrWait([val |-> q.val, dir |-> D1], Other(d), seg.tsval, ms)
      BY <1>1, <1>8, <2>5, <2>8 DEF qfRttSegment, q
    <3> HIDE DEF D1
    <3>2. rtt' = [val |-> q.val, dir |-> D2] /\ D2 \in [Dirs -> TcpWait]
          /\ D2[d] = x1 /\ D2[Other(d)] = y2
      BY <1>2, <1>6, <2>5, <2>8, <3>1 DEF qfRttSetEcrWait, TcpWait
    <3> HIDE DEF y2, x1, D2
    <3>3. \A c \in Dirs : D2[c].obs = D1[c].obs
      BY <1>2, <1>6, <2>5, <2>8, <3>2, OtherDirection
    <3>4. Known(q.val, D2)
      BY <1>6, <2>2, <2>4, <2>6, <2>8, <3>2, <3>3
    <3> QED BY <1>7, <3>4
  <2> QED BY <2>7, <2>8
<1>9. CASE ~AckAwaited(x, seg) /\ x.wait = "ecr" /\ Compare(seg.tsecr, x.tsack) >= 0
  <2> DEFINE o == ms - x.lms
             q == IF o > x.obs THEN Observed(rtt, d, ms) ELSE rtt
             n == IF o > x.obs THEN o ELSE x.obs
             x1 == [x EXCEPT !.obs = n, !.wait = "none"]
             D1 == [D0 EXCEPT ![d] = x1]
             D2 == [D1 EXCEPT ![Other(d)] = y1]
  <2>1. x.lms <= ms
    <3>1. [obs |-> o].obs = o
      OBVIOUS
    <3> QED BY <1>1, <1>9, <3>1, AnswerObserved
  <2>2. /\ q = [val |-> q.val, dir |-> [D0 EXCEPT ![d].obs = n]] /\ n \in Nat
        /\ StatOk(q.val) /\ ((\A c \in Dirs : q.dir[c].obs # 0) => q.val.n > 0)
    <3>1. CASE o > x.obs
      BY <1>2, <2>1, <3>1, ObservedOk
    <3>2. CASE ~(o > x.obs)
      <4>1. [D0 EXCEPT ![d].obs = x.obs] = D0 /\ x.obs \in Nat
        BY <1>2 DEF TcpWait
      <4> QED BY <1>2, <3>2, <4>1
    <3> QED BY <3>1, <3>2
  <2>3. x1 \in TcpWait /\ x1.obs = n /\ x1.wait = "none"
    BY <1>2, <2>2 DEF TcpWait
  <2>4. WaitOk(x1, d, g) /\ ObsOk(x1, d, g)
    <3>1. CASE o > x.obs
      BY <1>1, <1>9, <2>3, <3>1, AnswerObserved DEF WaitOk, e
    <3>2. CASE ~(o > x.obs)
      BY <1>3, <2>3, <3>2 DEF WaitOk, ObsOk
    <3> QED BY <3>1, <3>2
  <2> HIDE DEF q, n
  <2>5. Done(q, d) = [val |-> q.val, dir |-> D1] /\ D1 \in [Dirs -> TcpWait]
        /\ D1[d] = x1 /\ D1[Other(d)] = y
    <3> DEFINE E == [D0 EXCEPT ![d].obs = n]
    <3>1. E \in [Dirs -> TcpWait] /\ [E EXCEPT ![d].wait = "none"] = D1
      <4>1. E = [D0 EXCEPT ![d] = [x EXCEPT !.obs = n]]
        BY <1>2
      <4>2. [x EXCEPT !.obs = n] \in TcpWait
        BY <1>2, <2>2 DEF TcpWait
      <4>3. E \in [Dirs -> TcpWait] /\ E[d] = [x EXCEPT !.obs = n]
        BY <1>2, <4>1, <4>2
      <4>4. [E[d] EXCEPT !.wait = "none"] = x1
        BY <1>2, <4>3 DEF TcpWait
      <4> QED BY <1>2, <4>1, <4>3, <4>4
    <3>2. q = [val |-> q.val, dir |-> E]
      BY <2>2
    <3> HIDE DEF E, D1
    <3>3. Done(q, d) = [val |-> q.val, dir |-> [E EXCEPT ![d].wait = "none"]]
      BY <3>2 DEF Done
    <3> QED BY <1>2, <2>3, <3>1, <3>3 DEF D1
  <2>6. (\A c \in Dirs : D1[c].obs # 0) => q.val.n > 0
    <3>1. q.dir = [D0 EXCEPT ![d].obs = n]
      BY <2>2
    <3>2. q.dir[d].obs = n /\ q.dir[Other(d)] = y
      BY <1>2, <3>1 DEF TcpWait
    <3> HIDE DEF D1, x1, x, y
    <3> QED BY <1>2, <2>2, <2>3, <2>5, <3>2, OtherDirection
  <2>7. rtt' = qfRttSetAckWait([val |-> q.val, dir |-> D1], Other(d), seg.seq, ms)
    BY <1>1, <1>9, <2>5 DEF qfRttSegment, q
  <2> HIDE DEF D1
  <2>8. rtt' = [val |-> q.val, dir |-> D2] /\ D2 \in [Dirs -> TcpWait]
        /\ D2[d] = x1 /\ D2[Other(d)] = y1
    BY <1>2, <1>5, <2>5, <2>7 DEF qfRttSetAckWait, TcpWait
  <2> HIDE DEF y1, x1, D2
  <2>9. \A c \in Dirs : D2[c].obs = D1[c].obs
    BY <1>2, <1>5, <2>5, <2>8, OtherDirection
  <2>10. Known(q.val, D2)
    BY <1>5, <2>2, <2>4, <2>6, <2>8, <2>9
  <2> QED BY <1>7, <2>10
<1>10. CASE ~AckAwaited(x, seg) /\ ~(x.wait = "ecr" /\ Compare(seg.tsecr, x.tsack) >= 0)
  <2>1. CASE y.wait = "none"
    <3> DEFINE D2 == [D0 EXCEPT ![Other(d)] = y1]
    <3>1. rtt' = qfRttSetAckWait(rtt, Other(d), seg.seq, ms)
      BY <1>1, <1>10, <2>1 DEF qfRttSegment
    <3>2. rtt' = [val |-> rtt.val, dir |-> D2] /\ D2 \in [Dirs -> TcpWait]
          /\ D2[d] = x /\ D2[Other(d)] = y1
      BY <1>2, <1>5, <3>1 DEF qfRttSetAckWait, TcpWait
    <3> HIDE DEF y1, D2
    <3>3. \A c \in Dirs : D2[c].obs = D0[c].obs
      BY <1>2, <1>5, <3>2, OtherDirection
    <3>4. Known(rtt.val, D2)
      BY <1>2, <1>3, <1>5, <3>2, <3>3
    <3> QED BY <1>7, <3>4
  <2>2. CASE y.wait # "none"
    <3>1. rtt' = rtt
      BY <1>1, <1>10, <2>2 DEF qfRttSegment
    <3>2. Known(rtt.val, D0)
      BY <1>2, <1>3, <3>1
    <3> QED BY <1>7, <3>2
  <2> QED BY <2>1, <2>2
<1> QED BY <1>8, <1>9, <1>10

(* For every history of segments in both directions, whatever they carry:  *)
(* each observation of the estimator is the time from a segment to a later *)
(* answer of the other side, and the smoothed estimate is between its      *)
(* smallest and largest sample (qfRttSegment, qfRttSample,                 *)
(* sstLinSmoothAdd).                                                       *)
THEOREM ObservationsAreRoundTrips == TcpSpec => []ObservationIsRoundTrip
<1>1. TcpInit => RttInv
  <2> SUFFICES ASSUME TcpInit
               PROVE  RttInv
    OBVIOUS
  <2>1. hist \in Seq(TcpSeen) /\ Len(hist) = 0
    BY DEF TcpInit
  <2>2. /\ rtt = [val |-> rtt.val, dir |-> rtt.dir] /\ DOMAIN rtt = {"val", "dir"}
        /\ rtt.val = NoStat
        /\ rtt.dir = [d \in Dirs |-> [wait |-> "none", tsack |-> 0, lms |-> 0, obs |-> 0]]
    BY DEF TcpInit
  <2>3. StatOk(rtt.val)
    BY <2>2 DEF StatOk, NoStat, TcpStat
  <2>4. rtt.dir \in [Dirs -> TcpWait]
    <3>1. 0 \in 0..Space - 1
      BY TcpAssumption
    <3> QED BY <2>2, <3>1 DEF TcpWait
  <2>5. \A d \in Dirs : rtt.dir[d].wait = "none" /\ rtt.dir[d].obs = 0
    BY <2>2
  <2>6. "fwd" \in Dirs
    BY DEF Dirs
  <2> QED BY <2>1, <2>2, <2>3, <2>4, <2>5, <2>6 DEF RttInv, WaitOk, ObsOk
<1>2. RttInv /\ [TcpNext]_tcpVars => RttInv'
  <2> SUFFICES ASSUME RttInv, [TcpNext]_tcpVars
               PROVE  RttInv'
    OBVIOUS
  <2>1. CASE UNCHANGED tcpVars
    BY <2>1 DEF tcpVars, RttInv
  <2>2. CASE TcpNext
    BY <2>2, RttInvStep, TcpAssumption DEF TcpNext
  <2> QED BY <2>1, <2>2
<1>3. RttInv => ObservationIsRoundTrip
  <2> SUFFICES ASSUME RttInv
               PROVE  ObservationIsRoundTrip
    OBVIOUS
  <2>1. ASSUME NEW d \in Dirs, rtt.dir[d].obs # 0
        PROVE  \E k \in 1..Len(hist) : \E j \in 1..k :
                 /\ hist[k].dir = d /\ Answers(k, j)
                 /\ rtt.dir[d].obs = hist[k].ms - hist[j].ms
    BY <2>1 DEF RttInv, ObsOk, Answer, Answers
  <2>2. /\ rtt.val.mm.min <= rtt.val.val /\ rtt.val.val <= rtt.val.mm.max
        /\ (\A d \in Dirs : rtt.dir[d].obs # 0) => rtt.val.n > 0
        /\ rtt.val.n > 0 => rtt.val.mm.min >= 2
    BY DEF RttInv, StatOk
  <2> QED BY <2>1, <2>2 DEF ObservationIsRoundTrip
<1> QED BY <1>1, <1>2, <1>3, PTL DEF TcpSpec

----------------------------------------------------------------------------
(***************************************************************************)
(* The final acknowledgement                                               *)
(***************************************************************************)

(* How far a is ahead of o, round the number space.                        *)
Ahead(o, a) == (a - o) % Space

LEMMA ModularDifference ==
  ASSUME NEW a \in 0..Space - 1, NEW b \in 0..Space - 1
  PROVE  (a - b) % Space = IF a >= b THEN a - b ELSE a - b + Space
<1>1. Space \in Nat /\ Space > 1
  BY TcpAssumption
<1>2. a - b \in Int /\ (a - b + Space) % Space = (a - b) % Space
  BY <1>1
<1>3. \A x \in 0..Space - 1 : x % Space = x
  BY <1>1
<1>4. CASE a >= b
  <2>1. a - b \in 0..Space - 1
    BY <1>1, <1>4
  <2> QED BY <1>3, <1>4, <2>1
<1>5. CASE ~(a >= b)
  <2>1. a - b + Space \in 0..Space - 1
    BY <1>1, <1>5
  <2> QED BY <1>2, <1>3, <1>5, <2>1
<1> QED BY <1>4, <1>5

(* Within half the space, what is ahead compares as later.                 *)
LEMMA CompareInWindow ==
  ASSUME NEW o \in 0..Space - 1, NEW a \in 0..Space - 1, NEW b \in 0..Space - 1,
         Ahead(o, a) < Space \div 2, Ahead(o, b) < Space \div 2
  PROVE  Compare(a, b) >= 0 <=> Ahead(o, a) >= Ahead(o, b)
<1>1. Space \in Nat /\ Space > 1 /\ Space \div 2 \in Nat /\ 2 * (Space \div 2) = Space
  BY TcpAssumption
<1>2. /\ Ahead(o, a) = IF a >= o THEN a - o ELSE a - o + Space
      /\ Ahead(o, b) = IF b >= o THEN b - o ELSE b - o + Space
      /\ (a - b) % Space = IF a >= b THEN a - b ELSE a - b + Space
  BY ModularDifference DEF Ahead
<1>3. Compare(a, b) >= 0 <=> a = b \/ (a - b) % Space < Space \div 2
  <2>1. (a - b) % Space \in Int
    BY <1>1, <1>2
  <2> QED BY <1>1, <2>1 DEF Compare
<1> DEFINE half == Space \div 2  d == (a - b) % Space  x == Ahead(o, a)  y == Ahead(o, b)
<1> HIDE DEF half, d, x, y
<1>4. /\ Space = 2 * half /\ half \in Nat
      /\ x = IF a >= o THEN a - o ELSE a - o + Space
      /\ y = IF b >= o THEN b - o ELSE b - o + Space
      /\ d = IF a >= b THEN a - b ELSE a - b + Space
      /\ x < half /\ y < half
      /\ Compare(a, b) >= 0 <=> a = b \/ d < half
  BY <1>1, <1>2, <1>3 DEF half, d, x, y
<1>5. x >= y <=> a = b \/ d < half
  BY <1>1, <1>4
<1> QED BY <1>4, <1>5 DEF x, y

(* The acknowledgements of direction d, all within half the space.         *)
Acked(d) == {j \in 1..Len(hist) : hist[j].dir = d /\ hist[j].s.ackflag}
InWindow(d) ==
  \E o \in 0..Space - 1 : \A j \in Acked(d) : Ahead(o, hist[j].s.ack) < Space \div 2

AcksInWindow == \A d \in Dirs : InWindow(d)

AcksNonzero == \A j \in 1..Len(hist) : hist[j].s.ackflag => hist[j].s.ack # 0

(* The final acknowledgement is one of them, and the latest.               *)
FanOk(d) ==
  IF Acked(d) = {} THEN dirs[d].fan = 0
  ELSE /\ \E j \in Acked(d) : dirs[d].fan = hist[j].s.ack
       /\ InWindow(d) => \A j \in Acked(d) : Compare(dirs[d].fan, hist[j].s.ack) >= 0

DirFields == {"fan", "dup", "sel", "stall", "scale", "rwin", "opts", "mss"}

AckInv ==
  /\ hist \in Seq(TcpSeen)
  /\ DOMAIN dirs = Dirs /\ \A d \in Dirs : DOMAIN dirs[d] = DirFields
  /\ AcksNonzero => \A d \in Dirs : FanOk(d)

LEMMA AckSegmentFan ==
  ASSUME AckInv, NEW seg \in TcpInfos, NEW d \in Dirs, NEW ms \in Nat, TcpSegment(seg, d, ms)
  PROVE  /\ DOMAIN dirs' = Dirs /\ \A c \in Dirs : DOMAIN dirs'[c] = DirFields
         /\ \A c \in Dirs : c # d => dirs'[c] = dirs[c]
         /\ dirs'[d].fan = IF seg.ackflag /\ (dirs[d].fan = 0 \/ Compare(seg.ack, dirs[d].fan) > 0)
                           THEN seg.ack ELSE dirs[d].fan
<1> DEFINE a == IF seg.ackflag THEN qfAckSegment(dirs[d], seg) ELSE dirs[d]
           r == qfRwinSegment(a, seg)
           o == qfOptSegment(r, seg)
<1>1. DOMAIN dirs = Dirs /\ DOMAIN dirs[d] = DirFields
  BY DEF AckInv
<1>2. dirs' = [dirs EXCEPT ![d] = o]
  BY DEF TcpSegment
<1>3. /\ DOMAIN a = DirFields
      /\ a.fan = IF seg.ackflag /\ (dirs[d].fan = 0 \/ Compare(seg.ack, dirs[d].fan) > 0)
                 THEN seg.ack ELSE dirs[d].fan
  BY <1>1 DEF qfAckSegment, DirFields
<1> HIDE DEF a
<1>4. DOMAIN r = DirFields /\ r.fan = a.fan
  BY <1>3 DEF qfRwinSegment, DirFields
<1> HIDE DEF r
<1>5. DOMAIN o = DirFields /\ o.fan = r.fan
  BY <1>4 DEF qfOptSegment, DirFields
<1> HIDE DEF o
<1>6. \A c \in Dirs : DOMAIN dirs[c] = DirFields
  BY DEF AckInv
<1> QED BY <1>1, <1>2, <1>3, <1>4, <1>5, <1>6

LEMMA AckInvStep ==
  ASSUME AckInv, NEW seg \in TcpInfos, NEW d \in Dirs, NEW ms \in Nat, TcpSegment(seg, d, ms)
  PROVE  AckInv'
<1> DEFINE e == [s |-> seg, dir |-> d, ms |-> ms]  L == Len(hist)
<1>1. /\ hist \in Seq(TcpSeen) /\ e \in TcpSeen /\ L \in Nat
  BY LenProperties DEF AckInv, TcpSeen
<1>2. hist' = Append(hist, e)
  BY DEF TcpSegment
<1>3. /\ hist' \in Seq(TcpSeen) /\ Len(hist') = L + 1
      /\ \A j \in 1..L : hist'[j] = hist[j]
      /\ hist'[L + 1] = e
  BY <1>1, <1>2, AppendProperties
<1>4. /\ \A j \in 1..(L + 1) : j \in 1..L \/ j = L + 1
      /\ \A j \in 1..L : j \in 1..(L + 1) /\ j # L + 1
      /\ L + 1 \in 1..(L + 1)
  BY <1>1
<1>5. e.s = seg /\ e.dir = d
  OBVIOUS
<1> HIDE DEF e, L
<1>6. /\ \A c \in Dirs : c # d => Acked(c)' = Acked(c)
      /\ Acked(d)' = Acked(d) \cup (IF seg.ackflag THEN {L + 1} ELSE {})
      /\ \A c \in Dirs : \A j \in Acked(c) : hist'[j] = hist[j] /\ j # L + 1 /\ j \in 1..L
  BY <1>3, <1>4, <1>5 DEF Acked, L
<1>7. AcksNonzero' => AcksNonzero /\ (seg.ackflag => seg.ack # 0)
  BY <1>3, <1>4, <1>5 DEF AcksNonzero, L
<1>8. ASSUME NEW c \in Dirs, InWindow(c)'
      PROVE  InWindow(c)
  BY <1>6, <1>8 DEF InWindow
<1>9. ASSUME AcksNonzero', NEW c \in Dirs, c # d
      PROVE  FanOk(c)'
  <2>1. FanOk(c)
    BY <1>7, <1>9 DEF AckInv
  <2>2. dirs'[c] = dirs[c] /\ Acked(c)' = Acked(c)
    BY <1>6, <1>9, AckSegmentFan
  <2> QED BY <1>6, <1>8, <2>1, <2>2 DEF FanOk
<1>10. ASSUME AcksNonzero'
       PROVE  FanOk(d)'
  <2>1. FanOk(d)
    BY <1>7, <1>10 DEF AckInv
  <2> DEFINE new == seg.ackflag /\ (dirs[d].fan = 0 \/ Compare(seg.ack, dirs[d].fan) > 0)
  <2>2. dirs'[d].fan = IF new THEN seg.ack ELSE dirs[d].fan
    BY AckSegmentFan
  <2> HIDE DEF new
  <2>3. CASE ~seg.ackflag
    <3>1. Acked(d)' = Acked(d) /\ dirs'[d].fan = dirs[d].fan
      BY <1>6, <2>2, <2>3 DEF new
    <3> QED BY <1>6, <1>8, <2>1, <3>1 DEF FanOk
  <2>4. CASE seg.ackflag
    <3>1. Acked(d)' = Acked(d) \cup {L + 1} /\ seg.ack # 0 /\ hist'[L + 1].s = seg
      BY <1>3, <1>5, <1>6, <1>7, <1>10, <2>4
    <3>2. \E j \in Acked(d)' : dirs'[d].fan = hist'[j].s.ack
      <4>1. CASE new
        BY <2>2, <3>1, <4>1
      <4>2. CASE ~new
        <5>1. dirs[d].fan # 0 /\ dirs'[d].fan = dirs[d].fan
          BY <2>2, <2>4, <4>2 DEF new
        <5>2. PICK j \in Acked(d) : dirs[d].fan = hist[j].s.ack
          BY <2>1, <5>1 DEF FanOk
        <5> QED BY <1>6, <3>1, <5>1, <5>2
      <4> QED BY <4>1, <4>2
    <3>3. ASSUME InWindow(d)', NEW j \in Acked(d)'
          PROVE  Compare(dirs'[d].fan, hist'[j].s.ack) >= 0
      <4>1. PICK o \in 0..Space - 1 : \A i \in Acked(d)' : Ahead(o, hist'[i].s.ack) < Space \div 2
        BY <3>3 DEF InWindow
      <4>2. \A i \in Acked(d)' : hist'[i].s.ack \in 0..Space - 1
        <5>1. \A i \in Acked(d)' : i \in 1..Len(hist')
          BY DEF Acked
        <5>2. \A i \in Acked(d)' : hist'[i] \in TcpSeen
          BY <1>3, <5>1, ElementOfSeq
        <5> QED BY <5>2, TcpAssumption DEF TcpSeen
      <4>3. /\ seg.ack \in 0..Space - 1 /\ Ahead(o, seg.ack) < Space \div 2
        BY <3>1, <4>1, <4>2
      <4>4. Ahead(o, seg.ack) \in Int /\ \A i \in Acked(d)' : Ahead(o, hist'[i].s.ack) \in Int
        BY <4>1, <4>2, <4>3, ModularDifference, TcpAssumption DEF Ahead
      <4>5. j \in Acked(d) \/ j = L + 1
        BY <3>1
      <4>6. InWindow(d)
        BY <1>8, <3>3
      <4>7. ASSUME j \in Acked(d)
            PROVE  /\ dirs[d].fan \in 0..Space - 1 /\ dirs[d].fan # 0
                   /\ Ahead(o, dirs[d].fan) < Space \div 2
                   /\ Ahead(o, dirs[d].fan) >= Ahead(o, hist[j].s.ack)
        <5>1. /\ Compare(dirs[d].fan, hist[j].s.ack) >= 0
              /\ \E i \in Acked(d) : dirs[d].fan = hist[i].s.ack
          BY <2>1, <4>6, <4>7 DEF FanOk
        <5>2. PICK i \in Acked(d) : dirs[d].fan = hist[i].s.ack
          BY <5>1
        <5>3. i \in Acked(d)' /\ hist'[i] = hist[i] /\ hist'[j] = hist[j]
          BY <1>6, <3>1, <4>7
        <5>4. hist[i].s.ackflag
          BY DEF Acked
        <5>5. i \in 1..Len(hist) /\ AcksNonzero
          BY <1>7, <1>10 DEF Acked
        <5> QED BY <4>1, <4>2, <5>1, <5>2, <5>3, <5>4, <5>5, CompareInWindow DEF AcksNonzero
      <4>8. CASE j \in Acked(d) /\ ~new
        <5>1. dirs'[d].fan = dirs[d].fan /\ hist'[j] = hist[j]
          BY <1>6, <2>2, <4>8
        <5> QED BY <2>1, <4>6, <4>8, <5>1 DEF FanOk
      <4>9. CASE j \in Acked(d) /\ new
        <5>1. dirs'[d].fan = seg.ack /\ hist'[j] = hist[j] /\ Compare(seg.ack, dirs[d].fan) > 0
          BY <1>6, <2>2, <4>7, <4>9 DEF new
        <5>2. Compare(seg.ack, dirs[d].fan) >= 0
          BY <5>1 DEF Compare
        <5>3. Ahead(o, seg.ack) >= Ahead(o, dirs[d].fan)
          BY <4>3, <4>7, <4>9, <5>2, CompareInWindow
        <5>4. Ahead(o, dirs[d].fan) \in Int
          BY <4>7, <4>9, ModularDifference, TcpAssumption DEF Ahead
        <5>5. hist[j].s.ack \in 0..Space - 1 /\ Ahead(o, hist[j].s.ack) < Space \div 2
              /\ Ahead(o, hist[j].s.ack) \in Int
          BY <4>1, <4>2, <4>4, <5>1
        <5>6. Ahead(o, seg.ack) >= Ahead(o, hist[j].s.ack)
          BY <4>4, <4>7, <4>9, <5>3, <5>4, <5>5
        <5> QED BY <4>3, <5>1, <5>5, <5>6, CompareInWindow
      <4>10. CASE j = L + 1 /\ new
        BY <2>2, <3>1, <4>10 DEF Compare
      <4>11. CASE j = L + 1 /\ ~new
        <5>1. dirs'[d].fan = dirs[d].fan /\ hist'[j].s = seg
              /\ ~(Compare(seg.ack, dirs[d].fan) > 0) /\ dirs[d].fan # 0
          BY <2>2, <2>4, <3>1, <4>11 DEF new
        <5>2. PICK i \in Acked(d) : dirs[d].fan = hist[i].s.ack
          BY <2>1, <5>1 DEF FanOk
        <5>3. dirs[d].fan \in 0..Space - 1 /\ Ahead(o, dirs[d].fan) < Space \div 2
              /\ Ahead(o, dirs[d].fan) \in Int
          BY <1>6, <3>1, <4>1, <4>2, <4>4, <5>2
        <5>4. CASE seg.ack = dirs[d].fan
          BY <5>1, <5>4 DEF Compare
        <5>5. CASE seg.ack # dirs[d].fan
          <6>1. ~(Compare(seg.ack, dirs[d].fan) >= 0)
            BY <5>1, <5>5 DEF Compare
          <6>2. ~(Ahead(o, seg.ack) >= Ahead(o, dirs[d].fan))
            BY <4>3, <5>3, <6>1, CompareInWindow
          <6>3. Ahead(o, dirs[d].fan) >= Ahead(o, seg.ack)
            BY <4>4, <5>3, <6>2
          <6>4. Compare(dirs[d].fan, seg.ack) >= 0
            BY <4>3, <5>3, <6>3, CompareInWindow
          <6> QED BY <5>1, <6>4
        <5> QED BY <5>4, <5>5
      <4> QED BY <4>5, <4>8, <4>9, <4>10, <4>11
    <3> QED BY <3>1, <3>2, <3>3 DEF FanOk
  <2> QED BY <2>3, <2>4
<1>11. AcksNonzero' => \A c \in Dirs : FanOk(c)'
  BY <1>9, <1>10
<1> QED BY <1>3, <1>11, AckSegmentFan DEF AckInv

(* If the acknowledgements of each direction are within half the number    *)
(* space of a common origin, none is later than the final one, whatever    *)
(* their order (qfAckSegment): comparison of sequence numbers is not       *)
(* transitive otherwise.                                                   *)
THEOREM FinalAcksAreLatest == TcpSpec => [](AcksInWindow => FinalAckIsLatest)
<1>1. TcpInit => AckInv
  <2> SUFFICES ASSUME TcpInit
               PROVE  AckInv
    OBVIOUS
  <2>1. hist = <<>> /\ hist \in Seq(TcpSeen) /\ Len(hist) = 0
    BY EmptySeq DEF TcpInit
  <2>2. \A d \in Dirs : DOMAIN dirs[d] = DirFields /\ dirs[d].fan = 0
    BY DEF TcpInit, DirFields
  <2>3. DOMAIN dirs = Dirs
    BY DEF TcpInit
  <2> QED BY <2>1, <2>2, <2>3 DEF AckInv, FanOk, Acked
<1>2. AckInv /\ [TcpNext]_tcpVars => AckInv'
  <2> SUFFICES ASSUME AckInv, [TcpNext]_tcpVars
               PROVE  AckInv'
    OBVIOUS
  <2>1. CASE UNCHANGED tcpVars
    BY <2>1, SMTT(30) DEF tcpVars, AckInv, AcksNonzero, FanOk, Acked, InWindow
  <2>2. CASE TcpNext
    BY <2>2, AckInvStep, TcpAssumption DEF TcpNext
  <2> QED BY <2>1, <2>2
<1>3. AckInv => (AcksInWindow => FinalAckIsLatest)
  <2> SUFFICES ASSUME AckInv, AcksInWindow, AcksNonzero,
                      NEW k \in 1..Len(hist), hist[k].s.ackflag
               PROVE  Compare(dirs[hist[k].dir].fan, hist[k].s.ack) >= 0
    BY DEF FinalAckIsLatest, AcksNonzero
  <2>1. hist[k].dir \in Dirs
    <3>1. hist[k] \in TcpSeen
      BY ElementOfSeq DEF AckInv
    <3> QED BY <3>1 DEF TcpSeen
  <2>2. FanOk(hist[k].dir) /\ InWindow(hist[k].dir) /\ k \in Acked(hist[k].dir)
    BY <2>1 DEF AckInv, AcksInWindow, Acked
  <2> QED BY <2>2 DEF FanOk
<1> QED BY <1>1, <1>2, <1>3, PTL DEF TcpSpec

----------------------------------------------------------------------------
(***************************************************************************)
(* The packet decoder                                                      *)
(***************************************************************************)
(* The frame and the packet buffer, for every field the decoder sets.      *)
PbufFields ==
  {"ptime", "addr", "iplen", "ipinfo", "proto", "ports", "tcpinfo", "opt", "mac",
   "vlan", "vlanId", "mpls", "l2hlen", "allHeaderLen"}
DecFields == {"pc", "n", "frame", "at", "pos", "caplen", "type", "opts"}

LinkSteps == {"l2", "ppp", "shim"}
IpSteps == {"ip", "IPv4", "IPv6"}
UpperSteps == {"ext", "l4"} \cup Transports
TunnelSteps == {"gre", "sre"}
DecSteps ==
  {"idle", "rejected", "accepted", "opt"} \cup LinkSteps \cup IpSteps
    \cup UpperSteps \cup TunnelSteps

DecodeShape ==
  /\ DOMAIN pbuf = PbufFields /\ DOMAIN pbuf.opt = Opts
  /\ DOMAIN fraginfo = {"frag", "offset", "more"} /\ dec.pc \in DecSteps
  /\ dec.pc # "idle" => /\ DOMAIN dec = DecFields /\ dec.frame \in Frames
                        /\ dec.at \in Nat \ {0}

(* The header at k is there, and of kind h.                                *)
IsAt(k, h) == k \in 1..Len(dec.frame.hdrs) /\ dec.frame.hdrs[k].h = h

(* The header at the pointer is of the kind that the decoder takes it for. *)
KindKnown ==
  /\ dec.pc = "l2" => dec.at = 1 /\ dec.type = dec.frame.link
  /\ dec.pc = "ppp" => dec.at \in 1..Len(dec.frame.hdrs) /\ Hdr.h # "gre"
  /\ dec.pc \in {"shim", "ip"} /\ dec.type \in ShimTypes \cup {"IPv4", "IPv6"} =>
       IsAt(dec.at, dec.type)
  /\ dec.pc \in {"IPv4", "IPv6"} \cup Transports \cup {"gre"} => IsAt(dec.at, dec.pc)
  /\ dec.pc \in Transports => pbuf.proto = dec.pc
  /\ dec.pc = "opt" => IsAt(dec.at, "tcp") /\ pbuf.proto = "tcp"
  /\ dec.pc = "ext" =>
       /\ dec.type \in {"HOP", "FRAG"} => IsAt(dec.at, dec.type)
       /\ /\ dec.type \in Transports \cup {"gre"}
          /\ ~(fraginfo.frag /\ fraginfo.offset)
          => IsAt(dec.at, dec.type)
  /\ dec.pc = "l4" /\ pbuf.proto \in Transports \cup {"gre"} => IsAt(dec.at, pbuf.proto)
  /\ dec.pc = "sre" =>
       \E g \in 1..dec.at - 1 :
         /\ g \in 1..Len(dec.frame.hdrs) /\ Routed(dec.frame.hdrs[g])
         /\ dec.type = dec.frame.hdrs[g].next
         /\ \A i \in g + 1..dec.at : IsAt(i, "SRE")

(* What the link layer leaves in the buffer is of this frame.              *)
LinkRead ==
  /\ dec.pc \notin {"idle", "rejected"} => pbuf.mac # Stale /\ pbuf.vlan # Stale
  /\ dec.pc \notin {"idle", "rejected"} \cup LinkSteps => pbuf.vlanId = pbuf.vlan

(* So is what the last IP header leaves, and only extensions follow it,    *)
(* later fragments noted in fraginfo or misread.                           *)
Passed(h) == h.h \in {"HOP", "FRAG"} /\ (LaterFragment(h) => fraginfo.frag \/ Misread(h))
AddressRead ==
  dec.pc \in UpperSteps \cup {"opt", "accepted"} =>
    \E ip \in 1..dec.at - 1 :
      /\ pbuf.addr = <<"header", ip>> /\ pbuf.ipinfo = pbuf.addr
      /\ pbuf.iplen = IpLen(dec.frame, ip)
      /\ \A k \in ip + 1..dec.at - 1 : Passed(dec.frame.hdrs[k])

(* The options before the j-th, none of which ends the list, are noted;    *)
(* the last window scale among them may be too short.                      *)
OptionsBefore(opts, j) == {opts[i].kind : i \in 1..j - 1}
ShortBefore(opts, j) ==
  \E i \in 1..j - 1 : /\ opts[i].kind = "ws" /\ opts[i].len < 3
                      /\ \A m \in 1..j - 1 : m > i => opts[m].kind # "ws"
FieldBefore(opts, j, k, o) ==
  IF o \notin OptionsBefore(opts, j) THEN Zero
  ELSE IF o = "ws" /\ ShortBefore(opts, j) THEN <<"after", k>> ELSE <<"header", k>>
OptionsRead ==
  dec.pc = "opt" =>
    /\ ctx.tomode /\ pbuf.ports = Here /\ pbuf.tcpinfo = Here
    /\ \E j \in 1..Len(Hdr.opts) + 1 :
         /\ dec.opts = SubSeq(Hdr.opts, j, Len(Hdr.opts))
         /\ "eol" \notin OptionsBefore(Hdr.opts, j)
         /\ \A o \in Opts : pbuf.opt[o] = FieldBefore(Hdr.opts, j, dec.at, o)

TransportRead ==
  dec.pc = "accepted" /\ ~fraginfo.frag =>
    IF pbuf.proto \notin Transports THEN pbuf.ports = Zero
    ELSE /\ IsAt(dec.at, pbuf.proto) /\ pbuf.ports = Here
         /\ pbuf.proto = "tcp" =>
              /\ pbuf.tcpinfo = Here
              /\ \A o \in Opts : pbuf.opt[o] = OptionField(Hdr, dec.at, o)

(* Outside of tunnels the pointer is where the lengths of the headers put  *)
(* it.                                                                     *)
NoTunnel(f) == \A k \in 1..Len(f.hdrs) : f.hdrs[k].h # "gre"
PointerRight ==
  NoTunnel(dec.frame) =>
    /\ dec.pc \notin TunnelSteps
    /\ dec.pc \notin {"rejected", "accepted"} => dec.pos \in Nat
    /\ dec.pc \notin {"rejected"} \cup LinkSteps => pbuf.l2hlen \in Nat
    /\ dec.pc \in IpSteps => dec.pos = pbuf.l2hlen
    /\ dec.pc \in UpperSteps => dec.pos + IpLen(dec.frame, dec.at) = pbuf.iplen + pbuf.l2hlen
    /\ dec.pc = "opt" =>
         dec.pos + IpLen(dec.frame, dec.at)
           = pbuf.iplen + pbuf.l2hlen + 20 + (Octets(Hdr.opts) - Octets(dec.opts))
    /\ dec.pc = "accepted" /\ ~fraginfo.frag /\ pbuf.proto \in Transports =>
         /\ pbuf.iplen + pbuf.l2hlen = pbuf.allHeaderLen + dec.frame.pay
         /\ pbuf.allHeaderLen \in Int

DecodeInv ==
  /\ DecodeShape /\ LinkRead
  /\ dec.pc # "idle" =>
       KindKnown /\ AddressRead /\ OptionsRead /\ TransportRead /\ PointerRight

(* The octets of headers, or options, from one on.                         *)
LEMMA TotalShifts ==
  ASSUME NEW n \in Nat, NEW of, \A x \in 1..n + 1 : of[x] \in Nat,
         NEW sh, \A x \in 1..n : sh[x] = of[x + 1]
  PROVE  Total(of, 1..n + 1) = of[1] + Total(sh, 1..n) /\ Total(sh, 1..n) \in Nat
<1> DEFINE Bad == {m \in 0..n : Total(of, 1..m + 1) # of[1] + Total(sh, 1..m)}
<1>1. Total(sh, 1..n) \in Nat
  <2>1. \A x \in 1..n : sh[x] \in Nat
    OBVIOUS
  <2>2. IsFiniteSet(1..n)
    BY FS_Interval
  <2> QED BY <2>1, <2>2, TotalType
<1>2. SUFFICES ASSUME Bad # {}
               PROVE  FALSE
  <2>1. n \in 0..n
    OBVIOUS
  <2>2. Bad = {} => Total(of, 1..n + 1) = of[1] + Total(sh, 1..n)
    BY <2>1
  <2> HIDE DEF Bad
  <2> QED BY <1>1, <2>2, Zenon
<1>3. PICK m \in Bad : \A y \in Bad : m <= y
  <2>1. Bad \in SUBSET Nat
    OBVIOUS
  <2> HIDE DEF Bad
  <2> QED BY <1>2, <2>1, LeastNumber
<1>4. m \in 0..n /\ Total(of, 1..m + 1) # of[1] + Total(sh, 1..m)
  BY <1>3
<1>5. Total(of, 1..m + 1) = of[m + 1] + Total(of, 1..m) /\ Total(of, 1..m) \in Nat
  <2>1. m \in Nat /\ 1 <= m + 1 /\ \A x \in 1..m + 1 : of[x] \in Nat
    BY <1>4
  <2>2. 1 \in Nat
    OBVIOUS
  <2> HIDE DEF Bad
  <2> QED BY <2>1, <2>2, IntervalAdds, Zenon
<1>6. m # 0
  <2> SUFFICES ASSUME m = 0
               PROVE  FALSE
    OBVIOUS
  <2>1. 1..0 = {} /\ IsFiniteSet({})
    BY FS_EmptySet
  <2>2. Total(of, 1..0) = 0 /\ Total(sh, 1..0) = 0
    BY <2>1, TotalAt
  <2>3. of[1] \in Nat
    OBVIOUS
  <2> QED BY <1>4, <1>5, <2>2, <2>3
<1>7. PICK i \in Nat : m = i + 1 /\ i + 1 \in 1..n /\ i \in 0..n
  BY <1>4, <1>6
<1>8. Total(sh, 1..i + 1) = sh[i + 1] + Total(sh, 1..i) /\ Total(sh, 1..i) \in Nat
  <2>1. 1 \in Nat /\ 1 <= i + 1 /\ \A x \in 1..i + 1 : sh[x] \in Nat
    BY <1>7
  <2> HIDE DEF Bad
  <2> QED BY <2>1, <1>7, IntervalAdds, Zenon
<1>9. Total(of, 1..i + 1) = of[1] + Total(sh, 1..i)
  BY <1>3, <1>7
<1>10. sh[i + 1] = of[i + 1 + 1] /\ of[i + 1 + 1] \in Nat /\ of[1] \in Nat
  BY <1>7
<1> HIDE DEF Bad
<1> QED BY <1>4, <1>5, <1>7, <1>8, <1>9, <1>10

LEMMA OctetsFirst ==
  ASSUME NEW T, NEW hs \in Seq(T), \A k \in 1..Len(hs) : hs[k].len \in Nat
  PROVE  /\ Octets(hs) \in Nat
         /\ hs = <<>> => Octets(hs) = 0
         /\ hs # <<>> => Octets(hs) = hs[1].len + Octets(Tail(hs))
<1> DEFINE of == [x \in DOMAIN hs |-> hs[x].len]
<1>1. PICK n \in Nat : n = Len(hs) /\ DOMAIN hs = 1..n
  BY LenProperties
<1>2. Octets(hs) = Total(of, 1..n)
  BY <1>1, OctetsTotal, Zenon
<1>3. (\A x \in 1..n : of[x] \in Nat) /\ IsFiniteSet(1..n)
  <2>1. \A x \in 1..n : of[x] \in Nat
    BY <1>1
  <2>2. 1 \in Int /\ n \in Int
    BY <1>1
  <2> QED BY <2>1, <2>2, FS_Interval, Zenon
<1>4. Octets(hs) \in Nat
  <2> HIDE DEF of
  <2> QED BY <1>2, <1>3, TotalType
<1>5. ASSUME hs = <<>>
      PROVE  Octets(hs) = 0
  <2>1. 1..n = {}
    BY <1>1, <1>5
  <2> HIDE DEF of
  <2> QED BY <1>2, <1>3, <2>1, TotalAt
<1>6. ASSUME hs # <<>>
      PROVE  Octets(hs) = hs[1].len + Octets(Tail(hs))
  <2> DEFINE sh == [x \in DOMAIN Tail(hs) |-> Tail(hs)[x].len]
  <2>1. PICK m \in Nat : n = m + 1
    BY <1>1, <1>6, EmptySeq
  <2>2. /\ Tail(hs) \in Seq(T) /\ DOMAIN Tail(hs) = 1..m
        /\ \A x \in 1..m : Tail(hs)[x] = hs[x + 1]
    BY <1>1, <1>6, <2>1
  <2>3. Octets(Tail(hs)) = Total(sh, 1..m)
    BY <2>2, OctetsTotal, Zenon
  <2>4. \A x \in 1..m : sh[x] = of[x + 1]
    BY <1>1, <2>1, <2>2
  <2>5. of[1] = hs[1].len /\ \A x \in 1..m + 1 : of[x] \in Nat
    BY <1>1, <1>3, <2>1
  <2> HIDE DEF of, sh
  <2>6. Total(of, 1..m + 1) = of[1] + Total(sh, 1..m)
    BY <2>4, <2>5, TotalShifts
  <2> QED BY <1>2, <2>1, <2>3, <2>5, <2>6
<1> QED BY <1>4, <1>5, <1>6

LEMMA OctetsFrom ==
  ASSUME NEW T, NEW hs \in Seq(T), \A k \in 1..Len(hs) : hs[k].len \in Nat,
         NEW j \in 1..Len(hs) + 1
  PROVE  LET from(i) == SubSeq(hs, i, Len(hs))
         IN  /\ Octets(from(j)) \in Nat
             /\ j = Len(hs) + 1 => from(j) = <<>> /\ Octets(from(j)) = 0
             /\ j # Len(hs) + 1 =>
                  /\ from(j) # <<>> /\ Head(from(j)) = hs[j] /\ Tail(from(j)) = from(j + 1)
                  /\ Octets(from(j)) = hs[j].len + Octets(from(j + 1))
<1>1. PICK n \in Nat : n = Len(hs)
  BY LenProperties
<1>2. PICK s : s = SubSeq(hs, j, n)
  OBVIOUS
<1>3. /\ s \in Seq(T) /\ Len(s) = n - j + 1 /\ \A k \in 1..Len(s) : s[k] = hs[j + k - 1]
  BY <1>1, <1>2, SubSeqProperties
<1>4. \A k \in 1..Len(s) : s[k].len \in Nat
  <2> SUFFICES ASSUME NEW k \in 1..Len(s)
               PROVE  s[k].len \in Nat
    OBVIOUS
  <2>1. j + k - 1 \in 1..n
    BY <1>1, <1>3
  <2> QED BY <1>1, <1>3, <2>1
<1>5. /\ Octets(s) \in Nat
      /\ s = <<>> => Octets(s) = 0
      /\ s # <<>> => Octets(s) = s[1].len + Octets(Tail(s))
  BY <1>3, <1>4, OctetsFirst
<1>6. j = n + 1 => s = <<>>
  BY <1>1, <1>3, EmptySeq
<1>7. j # n + 1 => s # <<>> /\ Head(s) = hs[j] /\ s[1] = hs[j] /\ Tail(s) = SubSeq(hs, j + 1, n)
  <2> SUFFICES ASSUME j # n + 1
               PROVE  s # <<>> /\ Head(s) = hs[j] /\ s[1] = hs[j] /\ Tail(s) = SubSeq(hs, j + 1, n)
    OBVIOUS
  <2>1. Len(s) # 0 /\ j + 1 - 1 = j /\ 1 \in 1..Len(s)
    BY <1>1, <1>3
  <2>2. s # <<>> /\ s[1] = hs[j]
    BY <1>3, <2>1, EmptySeq
  <2>3. Head(s) = s[1]
    BY DEF Head
  <2>4. Tail(s) = SubSeq(hs, j + 1, n)
    BY <1>1, <1>2, <1>3, <2>1, <2>2
  <2> QED BY <2>2, <2>3, <2>4
<1>8. (j = n + 1 => Octets(s) = 0) /\ (j # n + 1 => Octets(s) = hs[j].len + Octets(Tail(s)))
  BY <1>5, <1>6, <1>7, Zenon
<1>9. n = Len(hs) /\ SubSeq(hs, j, n) = s /\ Octets(s) \in Nat
  BY <1>1, <1>2, <1>5, Zenon
<1> QED BY <1>6, <1>7, <1>8, <1>9, Zenon

(* What the decoder may take for granted of a frame.                       *)
LEMMA FrameHeaders ==
  ASSUME NEW f \in Frames
  PROVE  /\ f.hdrs \in Seq(ToSet(f.hdrs)) /\ Len(f.hdrs) \in Nat \ {0} /\ f.pay \in Nat
         /\ f.link # "NONE" => f.hdrs[1].h # "gre"
         /\ \A k \in 1..Len(f.hdrs) :
              /\ f.hdrs[k].len \in Nat /\ Chained(f.hdrs, k)
              /\ f.hdrs[k].h \in {"IPv4", "FRAG"} =>
                   f.hdrs[k].off \in BOOLEAN /\ f.hdrs[k].more \in BOOLEAN
              /\ f.hdrs[k].h = "FRAG" =>
                   f.hdrs[k].high \in BOOLEAN /\ (f.hdrs[k].high => f.hdrs[k].off)
              /\ f.hdrs[k].h = "IPv6" => f.hdrs[k].len = 40
              /\ f.hdrs[k].h \in {"udp", "icmp"} => f.hdrs[k].len = 8
              /\ f.hdrs[k].h = "tcp" => WithOptions(f.hdrs[k])
              /\ f.hdrs[k].h \in Transports => k = Len(f.hdrs)
<1>1. IsFrame(f)
  BY DecodeAssumption
<1>2. f.hdrs \in Seq(ToSet(f.hdrs)) /\ f.hdrs # <<>>
  BY <1>1, Zenon DEF IsFrame
<1>3. Len(f.hdrs) \in Nat \ {0}
  BY <1>2, LenProperties, EmptySeq
<1> QED BY <1>1, <1>3, Zenon DEF IsFrame

LEMMA IpLenFrom ==
  ASSUME NEW f \in Frames
  PROVE  /\ \A k \in 1..Len(f.hdrs) + 1 : IpLen(f, k) \in Nat
         /\ IpLen(f, Len(f.hdrs) + 1) = f.pay
         /\ \A k \in 1..Len(f.hdrs) : IpLen(f, k) = f.hdrs[k].len + IpLen(f, k + 1)
<1>1. PICK hs : hs = f.hdrs
  OBVIOUS
<1>2. /\ hs \in Seq(ToSet(hs)) /\ Len(hs) \in Nat /\ f.pay \in Nat
      /\ \A k \in 1..Len(hs) : hs[k].len \in Nat
  BY <1>1, FrameHeaders
<1> DEFINE Rest(k) == Octets(SubSeq(hs, k, Len(hs)))
<1>3. \A k : IpLen(f, k) = Rest(k) + f.pay
  BY <1>1 DEF IpLen
<1>4. \A k \in 1..Len(hs) + 1 : Rest(k) \in Nat
  BY <1>2, OctetsFrom
<1>5. Rest(Len(hs) + 1) = 0
  <2>1. Len(hs) + 1 \in 1..Len(hs) + 1
    BY <1>2
  <2> QED BY <1>2, <2>1, OctetsFrom
<1>6. \A k \in 1..Len(hs) : Rest(k) = hs[k].len + Rest(k + 1)
  <2> SUFFICES ASSUME NEW k \in 1..Len(hs)
               PROVE  Rest(k) = hs[k].len + Rest(k + 1)
    OBVIOUS
  <2>1. k \in 1..Len(hs) + 1 /\ k # Len(hs) + 1
    BY <1>2
  <2> QED BY <1>2, <2>1, OctetsFrom
<1> HIDE DEF Rest
<1>7. \A k \in 1..Len(hs) : k + 1 \in 1..Len(hs) + 1
  BY <1>2
<1>8. \A k \in 1..Len(hs) : IpLen(f, k) = hs[k].len + IpLen(f, k + 1)
  <2> SUFFICES ASSUME NEW k \in 1..Len(hs)
               PROVE  IpLen(f, k) = hs[k].len + IpLen(f, k + 1)
    OBVIOUS
  <2>1. Rest(k) = hs[k].len + Rest(k + 1) /\ Rest(k + 1) \in Nat /\ hs[k].len \in Nat
    BY <1>2, <1>4, <1>6, <1>7
  <2>2. IpLen(f, k) = Rest(k) + f.pay /\ IpLen(f, k + 1) = Rest(k + 1) + f.pay
    BY <1>3
  <2> QED BY <1>2, <2>1, <2>2
<1>9. IpLen(f, Len(hs) + 1) = f.pay
  BY <1>2, <1>3, <1>5
<1>10. \A k \in 1..Len(hs) + 1 : IpLen(f, k) \in Nat
  BY <1>2, <1>3, <1>4
<1> QED BY <1>1, <1>8, <1>9, <1>10

LEMMA GotoFields ==
  ASSUME DOMAIN dec = DecFields, NEW pc, NEW d, d = Goto(pc)
  PROVE  /\ DOMAIN d = DecFields /\ d.pc = pc /\ d.frame = dec.frame /\ d.at = dec.at
         /\ d.pos = dec.pos /\ d.type = dec.type /\ d.opts = dec.opts
BY DEF Goto, DecFields

LEMMA PastFields ==
  ASSUME DOMAIN dec = DecFields, NEW len, NEW type, NEW pc, NEW d, d = Past(len, type, pc)
  PROVE  /\ DOMAIN d = DecFields /\ d.pc = pc /\ d.frame = dec.frame /\ d.at = dec.at + 1
         /\ d.pos = dec.pos + len /\ d.type = type /\ d.opts = dec.opts
BY DEF Past, DecFields

(* Ways to end a step: the packet is rejected, or below the transport      *)
(* layer nothing is known of its fields.                                   *)
LEMMA RejectedInv ==
  ASSUME DecodeInv, dec.pc # "idle", dec' = Goto("rejected"), DOMAIN pbuf' = PbufFields,
         DOMAIN pbuf'.opt = Opts, DOMAIN fraginfo' = {"frag", "offset", "more"}
  PROVE  DecodeInv'
<1>1. DOMAIN dec = DecFields /\ dec.frame \in Frames /\ dec.at \in Nat \ {0}
  BY DEF DecodeInv, DecodeShape
<1>2. /\ DOMAIN dec' = DecFields /\ dec'.pc = "rejected" /\ dec'.frame = dec.frame
      /\ dec'.at = dec.at
  BY <1>1, GotoFields
<1>3. DecodeShape'
  BY <1>1, <1>2 DEF DecodeShape, DecSteps
<1>4. LinkRead' /\ KindKnown'
  BY <1>2 DEF LinkRead, KindKnown, Transports
<1>5. AddressRead' /\ OptionsRead' /\ TransportRead'
  BY <1>2 DEF AddressRead, OptionsRead, TransportRead, UpperSteps, Transports
<1>6. PointerRight'
  BY <1>2 DEF PointerRight, IpSteps, UpperSteps, TunnelSteps, Transports
<1> QED BY <1>3, <1>4, <1>5, <1>6 DEF DecodeInv

LEMMA BelowInv ==
  ASSUME dec'.pc \in LinkSteps \cup IpSteps \cup TunnelSteps,
         DecodeShape', LinkRead', KindKnown', PointerRight'
  PROVE  DecodeInv'
<1>1. dec'.pc \notin UpperSteps \cup {"opt", "accepted"}
  BY DEF LinkSteps, IpSteps, TunnelSteps, UpperSteps, Transports
<1>2. AddressRead' /\ OptionsRead' /\ TransportRead'
  BY <1>1 DEF AddressRead, OptionsRead, TransportRead
<1> QED BY <1>2 DEF DecodeInv

LEMMA DecodeInvInit == yfDecodeCtxAlloc => DecodeInv
BY DEF yfDecodeCtxAlloc, DecodeInv, DecodeShape, DecSteps, LinkRead, PbufFields

LEMMA StartInv ==
  ASSUME DecodeInv, NEW f \in Frames, NEW cap, yfDecodeToPBuf(f, cap)
  PROVE  DecodeInv'
<1>1. /\ DOMAIN pbuf = PbufFields /\ DOMAIN fraginfo = {"frag", "offset", "more"}
      /\ fraginfo' = fraginfo
  BY DEF DecodeInv, DecodeShape, yfDecodeToPBuf
<1>2. /\ DOMAIN dec' = DecFields /\ dec'.pc = "l2" /\ dec'.frame = f /\ dec'.at = 1
      /\ dec'.pos = 0 /\ dec'.type = f.link
  BY DEF yfDecodeToPBuf, DecFields
<1>3. /\ DOMAIN pbuf' = PbufFields /\ DOMAIN pbuf'.opt = Opts
      /\ pbuf'.mac = Zero /\ pbuf'.vlan = Zero
  BY <1>1 DEF yfDecodeToPBuf, Age, PbufFields
<1>4. DecodeShape'
  BY <1>1, <1>2, <1>3 DEF DecodeShape, DecSteps, LinkSteps
<1>5. LinkRead'
  BY <1>2, <1>3 DEF LinkRead, LinkSteps, Zero, Stale
<1>6. KindKnown'
  BY <1>2 DEF KindKnown, Transports
<1>7. PointerRight'
  BY <1>2 DEF PointerRight, IpSteps, UpperSteps, TunnelSteps, LinkSteps, Transports
<1> QED BY <1>2, <1>4, <1>5, <1>6, <1>7, BelowInv DEF LinkSteps

LEMMA LinkStep ==
  ASSUME DecodeInv, dec.pc \in LinkSteps, NEW n,
         NoTunnel(dec.frame) => n \in Nat,
         DOMAIN dec' = DecFields, dec'.pc \in LinkSteps \ {"l2"}, dec'.frame = dec.frame,
         dec'.at \in Nat \ {0}, dec'.pos = dec.pos + n,
         DOMAIN pbuf' = PbufFields, DOMAIN pbuf'.opt = Opts,
         pbuf'.mac # Stale, pbuf'.vlan # Stale, fraginfo' = fraginfo,
         dec'.pc = "ppp" => dec'.at \in 1..Len(dec'.frame.hdrs) /\ Hdr'.h # "gre",
         /\ dec'.pc = "shim" /\ dec'.type \in ShimTypes \cup {"IPv4", "IPv6"}
         => IsAt(dec.at, dec.type)'
  PROVE  DecodeInv'
<1>1. DecodeShape'
  BY DEF DecodeInv, DecodeShape, DecSteps, LinkSteps
<1>2. LinkRead'
  BY DEF LinkRead, LinkSteps
<1>3. KindKnown'
  BY DEF KindKnown, LinkSteps, Transports
<1>4. PointerRight'
  <2>1. NoTunnel(dec.frame) => dec.pos \in Nat
    BY DEF DecodeInv, PointerRight, LinkSteps
  <2>2. NoTunnel(dec.frame) => dec'.pos \in Nat
    BY <2>1
  <2> QED BY <2>2 DEF PointerRight, IpSteps, UpperSteps, TunnelSteps, LinkSteps, Transports
<1> QED BY <1>1, <1>2, <1>3, <1>4, BelowInv

(* What the actions of the link layer start from.                          *)
LEMMA LinkState ==
  ASSUME DecodeInv, dec.pc \in LinkSteps
  PROVE  /\ DOMAIN pbuf = PbufFields /\ DOMAIN pbuf.opt = Opts
         /\ DOMAIN fraginfo = {"frag", "offset", "more"}
         /\ DOMAIN dec = DecFields /\ dec.frame \in Frames /\ dec.at \in Nat \ {0}
         /\ pbuf.mac # Stale /\ pbuf.vlan # Stale
         /\ dec.pc # "idle" /\ KindKnown
BY DEF DecodeInv, DecodeShape, LinkRead, LinkSteps

LEMMA HereIsNotStale == Here # Stale /\ Here # Zero
BY DEF Here, Stale, Zero

LEMMA NextIsThere ==
  ASSUME dec.frame \in Frames, dec.at \in 1..Len(dec.frame.hdrs)
  PROVE  /\ Hdr.len \in Nat /\ dec.at + 1 \in Nat \ {0}
         /\ Hdr.next \in ShimTypes \cup {"IPv4", "IPv6"} /\ ~Routed(Hdr) =>
              IsAt(dec.at + 1, Hdr.next)
         /\ Hdr.h \in {"hdlc", "PPPOE"} => Hdr.next = "PPP" /\ IsAt(dec.at + 1, "PPP")
         /\ Hdr.h = "MPLS" => dec.at + 1 \in 1..Len(dec.frame.hdrs)
         /\ Hdr.next \in {"HOP", "FRAG"} => IsAt(dec.at + 1, Hdr.next)
         /\ Hdr.next \in Transports \cup {"gre"} /\ (LaterFragment(Hdr) => Misread(Hdr)) =>
              IsAt(dec.at + 1, Hdr.next)
<1>1. PICK k \in Nat : k = dec.at /\ k \in 1..Len(dec.frame.hdrs) /\ Hdr = dec.frame.hdrs[k]
  BY FrameHeaders DEF Hdr
<1>2. Len(dec.frame.hdrs) \in Nat /\ Hdr.len \in Nat /\ Chained(dec.frame.hdrs, k)
  BY <1>1, FrameHeaders
<1>3. Follows(dec.frame.hdrs, k) => IsAt(dec.at + 1, Hdr.next)
  BY <1>1, <1>2 DEF Follows, IsAt
<1>4. /\ Hdr.h \in {"hdlc", "PPPOE"} => Hdr.next = "PPP" /\ Follows(dec.frame.hdrs, k)
      /\ Hdr.h = "MPLS" => k < Len(dec.frame.hdrs)
      /\ Hdr.next \in ShimTypes \cup {"IPv4", "IPv6"} /\ ~Routed(Hdr) =>
           Follows(dec.frame.hdrs, k)
      /\ Hdr.next \in {"HOP", "FRAG"} => Follows(dec.frame.hdrs, k)
      /\ Hdr.next \in Transports \cup {"gre"} /\ (LaterFragment(Hdr) => Misread(Hdr)) =>
           Follows(dec.frame.hdrs, k)
  BY <1>1, <1>2, Zenon DEF Chained
<1>5. /\ dec.at + 1 \in Nat \ {0}
      /\ k < Len(dec.frame.hdrs) => dec.at + 1 \in 1..Len(dec.frame.hdrs)
  BY <1>1, <1>2
<1>6. Hdr.h \in {"hdlc", "PPPOE"} => Hdr.next = "PPP" /\ IsAt(dec.at + 1, "PPP")
  BY <1>3, <1>4
<1>7. Hdr.h = "MPLS" => dec.at + 1 \in 1..Len(dec.frame.hdrs)
  BY <1>4, <1>5
<1> QED BY <1>2, <1>3, <1>4, <1>5, <1>6, <1>7, Zenon

(* A version that is read is that of the header that is there.             *)
LEMMA VersionStep ==
  ASSUME DecodeInv, dec.pc \in LinkSteps, NEW len \in Nat, NEW k \in 1..Len(dec.frame.hdrs),
         VersionToType(len, k, "shim"), DOMAIN pbuf' = PbufFields, DOMAIN pbuf'.opt = Opts,
         pbuf'.mac # Stale, pbuf'.vlan # Stale, fraginfo' = fraginfo
  PROVE  DecodeInv'
<1>1. /\ DOMAIN fraginfo = {"frag", "offset", "more"} /\ DOMAIN dec = DecFields
      /\ dec.frame \in Frames /\ dec.pc # "idle"
  BY LinkState
<1>2. k \in Nat \ {0}
  BY <1>1, FrameHeaders
<1>3. CASE RejectSilently
  BY <1>1, <1>3, RejectedInv DEF RejectSilently
<1>4. CASE /\ dec' = [dec EXCEPT !.pc = "shim", !.at = k, !.pos = @ + len,
                                 !.caplen = @ - len, !.type = dec.frame.hdrs[k].h]
           /\ dec.frame.hdrs[k].h \in {"IPv4", "IPv6"}
  <2>1. /\ DOMAIN dec' = DecFields /\ dec'.pc = "shim" /\ dec'.frame = dec.frame
        /\ dec'.at = k /\ dec'.pos = dec.pos + len /\ dec'.type = dec.frame.hdrs[k].h
    BY <1>1, <1>4 DEF DecFields
  <2>2. IsAt(dec.at, dec.type)'
    BY <2>1 DEF IsAt
  <2> QED BY <1>2, <2>1, <2>2, LinkStep DEF LinkSteps
<1> QED BY <1>3, <1>4 DEF VersionToType

LEMMA L2Inv ==
  ASSUME DecodeInv, yfDecodeL2
  PROVE  DecodeInv'
<1>1. dec.pc = "l2" /\ fraginfo' = fraginfo
  BY DEF yfDecodeL2
<1>2. /\ DOMAIN pbuf = PbufFields /\ DOMAIN pbuf.opt = Opts
      /\ DOMAIN fraginfo = {"frag", "offset", "more"}
      /\ DOMAIN dec = DecFields /\ dec.frame \in Frames /\ dec.at = 1 /\ dec.type = dec.frame.link
      /\ pbuf.mac # Stale /\ pbuf.vlan # Stale /\ dec.pc # "idle"
  BY <1>1, LinkState DEF LinkSteps, KindKnown
<1>3. 1 \in 1..Len(dec.frame.hdrs) /\ (dec.type # "NONE" => Hdr.h # "gre")
  BY <1>2, FrameHeaders DEF Hdr
<1>4. CASE pbuf' = pbuf /\ (RejectSilently \/ Reject("l2hdr"))
  BY <1>1, <1>2, <1>4, RejectedInv DEF RejectSilently, Reject
<1>5. CASE VersionToType(0, 1, "shim") /\ pbuf' = pbuf
  BY <1>1, <1>2, <1>3, <1>5, VersionStep DEF LinkSteps
<1>6. CASE /\ dec' = Past(Hdr.len, Hdr.next, "shim") /\ dec.type # "NONE"
           /\ pbuf' = IF dec.type = "ETH" THEN [pbuf EXCEPT !.mac = Here] ELSE pbuf
  <2>1. /\ DOMAIN dec' = DecFields /\ dec'.pc = "shim" /\ dec'.frame = dec.frame
        /\ dec'.at = dec.at + 1 /\ dec'.pos = dec.pos + Hdr.len /\ dec'.type = Hdr.next
    BY <1>2, <1>6, PastFields
  <2>2. /\ DOMAIN pbuf' = PbufFields /\ DOMAIN pbuf'.opt = Opts
        /\ pbuf'.mac # Stale /\ pbuf'.vlan # Stale
    BY <1>2, <1>6, HereIsNotStale DEF PbufFields
  <2>3. /\ Hdr.len \in Nat /\ dec.at + 1 \in Nat \ {0}
        /\ dec'.type \in ShimTypes \cup {"IPv4", "IPv6"} => IsAt(dec.at, dec.type)'
    <3>1. ~Routed(Hdr)
      BY <1>3, <1>6 DEF Routed
    <3>2. /\ Hdr.len \in Nat /\ dec.at + 1 \in Nat \ {0}
          /\ Hdr.next \in ShimTypes \cup {"IPv4", "IPv6"} => IsAt(dec.at + 1, Hdr.next)
      BY <1>2, <1>3, <3>1, NextIsThere
    <3> QED BY <2>1, <3>2 DEF IsAt
  <2> QED BY <1>1, <2>1, <2>2, <2>3, LinkStep DEF LinkSteps
<1>7. CASE /\ dec' = IF Hdr.h = "hdlc" THEN Past(2, Hdr.next, "ppp") ELSE Goto("ppp")
           /\ dec.type # "NONE" /\ pbuf' = pbuf
  <2>1. CASE Hdr.h = "hdlc"
    <3>1. /\ DOMAIN dec' = DecFields /\ dec'.pc = "ppp" /\ dec'.frame = dec.frame
          /\ dec'.at = dec.at + 1 /\ dec'.pos = dec.pos + 2 /\ dec'.type = Hdr.next
      BY <1>2, <1>7, <2>1, PastFields
    <3>2. IsAt(dec.at + 1, "PPP") /\ dec.at + 1 \in Nat \ {0}
      BY <1>2, <1>3, <2>1, NextIsThere
    <3>3. dec'.at \in 1..Len(dec'.frame.hdrs) /\ Hdr'.h # "gre"
      BY <3>1, <3>2 DEF IsAt, Hdr
    <3> QED BY <1>1, <1>2, <1>7, <3>1, <3>2, <3>3, LinkStep DEF LinkSteps
  <2>2. CASE Hdr.h # "hdlc"
    <3>1. /\ DOMAIN dec' = DecFields /\ dec'.pc = "ppp" /\ dec'.frame = dec.frame
          /\ dec'.at = dec.at /\ dec'.pos = dec.pos
      BY <1>2, <1>7, <2>2, GotoFields
    <3>2. dec'.at \in 1..Len(dec'.frame.hdrs) /\ Hdr'.h # "gre"
      BY <1>2, <1>3, <1>7, <3>1 DEF Hdr
    <3>3. DecodeShape'
      BY <1>1, <1>2, <1>7, <3>1 DEF DecodeShape, DecSteps, LinkSteps
    <3>4. LinkRead' /\ KindKnown'
      BY <1>2, <1>7, <3>1, <3>2 DEF LinkRead, KindKnown, LinkSteps, Transports
    <3>5. PointerRight'
      BY <1>1, <1>2, <3>1 DEF DecodeInv, PointerRight, IpSteps, UpperSteps, TunnelSteps,
                              LinkSteps, Transports
    <3> QED BY <3>1, <3>3, <3>4, <3>5, BelowInv DEF LinkSteps
  <2> QED BY <2>1, <2>2
<1> QED BY <1>4, <1>5, <1>6, <1>7 DEF yfDecodeL2

LEMMA L2PPPInv ==
  ASSUME DecodeInv, yfDecodeL2PPP
  PROVE  DecodeInv'
<1>1. dec.pc = "ppp" /\ fraginfo' = fraginfo /\ pbuf' = pbuf
  BY DEF yfDecodeL2PPP
<1>2. /\ DOMAIN pbuf = PbufFields /\ DOMAIN pbuf.opt = Opts
      /\ DOMAIN fraginfo = {"frag", "offset", "more"}
      /\ DOMAIN dec = DecFields /\ dec.frame \in Frames
      /\ dec.at \in 1..Len(dec.frame.hdrs) /\ Hdr.h # "gre"
      /\ pbuf.mac # Stale /\ pbuf.vlan # Stale /\ dec.pc # "idle"
  BY <1>1, LinkState DEF LinkSteps, KindKnown
<1>3. CASE RejectSilently \/ Reject("l2hdr")
  BY <1>1, <1>2, <1>3, RejectedInv DEF RejectSilently, Reject
<1>4. CASE dec' = Past(2, Hdr.next, "shim")
  <2>1. /\ DOMAIN dec' = DecFields /\ dec'.pc = "shim" /\ dec'.frame = dec.frame
        /\ dec'.at = dec.at + 1 /\ dec'.pos = dec.pos + 2 /\ dec'.type = Hdr.next
    BY <1>2, <1>4, PastFields
  <2>2. /\ dec.at + 1 \in Nat \ {0}
        /\ Hdr.next \in ShimTypes \cup {"IPv4", "IPv6"} => IsAt(dec.at + 1, Hdr.next)
    BY <1>2, NextIsThere DEF Routed
  <2>3. dec'.type \in ShimTypes \cup {"IPv4", "IPv6"} => IsAt(dec.at, dec.type)'
    BY <2>1, <2>2 DEF IsAt
  <2> QED BY <1>1, <1>2, <2>1, <2>2, <2>3, LinkStep DEF LinkSteps
<1> QED BY <1>3, <1>4 DEF yfDecodeL2PPP

LEMMA L2ShimInv ==
  ASSUME DecodeInv, yfDecodeL2Shim
  PROVE  DecodeInv'
<1>1. dec.pc = "shim" /\ fraginfo' = fraginfo
  BY DEF yfDecodeL2Shim
<1>2. /\ DOMAIN pbuf = PbufFields /\ DOMAIN pbuf.opt = Opts
      /\ DOMAIN fraginfo = {"frag", "offset", "more"}
      /\ DOMAIN dec = DecFields /\ dec.frame \in Frames /\ dec.at \in Nat \ {0}
      /\ pbuf.mac # Stale /\ pbuf.vlan # Stale /\ dec.pc # "idle"
      /\ dec.type \in ShimTypes \cup {"IPv4", "IPv6"} =>
           dec.at \in 1..Len(dec.frame.hdrs) /\ Hdr.h = dec.type
  BY <1>1, LinkState DEF LinkSteps, KindKnown, IsAt, Hdr
<1>3. dec.type \in ShimTypes =>
        /\ dec.at \in 1..Len(dec.frame.hdrs) /\ dec.at + 1 \in Nat \ {0} /\ Hdr.len \in Nat
        /\ Hdr.h = dec.type
        /\ Hdr.next \in ShimTypes \cup {"IPv4", "IPv6"} => IsAt(dec.at + 1, Hdr.next)
        /\ Hdr.h = "PPPOE" => IsAt(dec.at + 1, "PPP")
        /\ Hdr.h = "MPLS" => dec.at + 1 \in 1..Len(dec.frame.hdrs)
  BY <1>2, NextIsThere DEF Routed, ShimTypes
<1>4. CASE /\ dec.type = "8021Q" /\ dec' = Past(4, Hdr.next, "shim")
           /\ pbuf' = [pbuf EXCEPT !.vlan = Here]
  <2>1. /\ DOMAIN dec' = DecFields /\ dec'.pc = "shim" /\ dec'.frame = dec.frame
        /\ dec'.at = dec.at + 1 /\ dec'.pos = dec.pos + 4 /\ dec'.type = Hdr.next
    BY <1>2, <1>4, PastFields
  <2>2. /\ DOMAIN pbuf' = PbufFields /\ DOMAIN pbuf'.opt = Opts
        /\ pbuf'.mac # Stale /\ pbuf'.vlan # Stale
    BY <1>2, <1>4, HereIsNotStale DEF PbufFields
  <2>3. dec'.type \in ShimTypes \cup {"IPv4", "IPv6"} => IsAt(dec.at, dec.type)'
    BY <1>3, <1>4, <2>1 DEF IsAt, ShimTypes
  <2>4. dec.at + 1 \in Nat \ {0}
    BY <1>3, <1>4 DEF ShimTypes
  <2> QED BY <1>1, <2>1, <2>2, <2>3, <2>4, LinkStep DEF LinkSteps
<1>5. CASE dec.type = "MPLS" /\ pbuf' = [pbuf EXCEPT !.mpls = Here]
  <2>1. /\ DOMAIN pbuf' = PbufFields /\ DOMAIN pbuf'.opt = Opts
        /\ pbuf'.mac # Stale /\ pbuf'.vlan # Stale
    BY <1>2, <1>5 DEF PbufFields
  <2>2. CASE Hdr.next = "MPLS" /\ dec' = Past(4, "MPLS", "shim")
    <3>1. /\ DOMAIN dec' = DecFields /\ dec'.pc = "shim" /\ dec'.frame = dec.frame
          /\ dec'.at = dec.at + 1 /\ dec'.pos = dec.pos + 4 /\ dec'.type = "MPLS"
      BY <1>2, <2>2, PastFields
    <3>2. IsAt(dec.at, dec.type)' /\ dec.at + 1 \in Nat \ {0}
      BY <1>3, <1>5, <2>2, <3>1 DEF IsAt, ShimTypes
    <3> QED BY <1>1, <2>1, <3>1, <3>2, LinkStep DEF LinkSteps
  <2>3. CASE VersionToType(4, dec.at + 1, "shim")
    <3>1. dec.at + 1 \in 1..Len(dec.frame.hdrs)
      BY <1>3, <1>5 DEF ShimTypes
    <3> QED BY <1>1, <2>1, <2>3, <3>1, VersionStep DEF LinkSteps
  <2>4. CASE dec' = Goto("rejected")
    BY <1>1, <1>2, <2>1, <2>4, RejectedInv
  <2> QED BY <1>1, <1>5, <2>2, <2>3, <2>4 DEF yfDecodeL2Shim, Reject, ShimTypes
<1>6. CASE dec.type = "PPPOE" /\ dec' = Past(6, "PPP", "ppp") /\ pbuf' = pbuf
  <2>1. /\ DOMAIN dec' = DecFields /\ dec'.pc = "ppp" /\ dec'.frame = dec.frame
        /\ dec'.at = dec.at + 1 /\ dec'.pos = dec.pos + 6
    BY <1>2, <1>6, PastFields
  <2>2. /\ dec'.at \in 1..Len(dec'.frame.hdrs) /\ Hdr'.h # "gre"
        /\ dec.at + 1 \in Nat \ {0}
    BY <1>3, <1>6, <2>1 DEF IsAt, Hdr, ShimTypes
  <2> QED BY <1>1, <1>2, <1>6, <2>1, <2>2, LinkStep DEF LinkSteps
<1>7. CASE pbuf' = pbuf /\ Reject("l2shim")
  BY <1>1, <1>2, <1>7, RejectedInv DEF Reject
<1>8. CASE /\ dec' = Goto("ip")
           /\ pbuf' = [pbuf EXCEPT !.l2hlen = dec.pos, !.vlanId = pbuf.vlan]
  <2>1. /\ DOMAIN dec' = DecFields /\ dec'.pc = "ip" /\ dec'.frame = dec.frame
        /\ dec'.at = dec.at /\ dec'.pos = dec.pos /\ dec'.type = dec.type
    BY <1>2, <1>8, GotoFields
  <2>2. /\ DOMAIN pbuf' = PbufFields /\ DOMAIN pbuf'.opt = Opts
        /\ pbuf'.mac = pbuf.mac /\ pbuf'.vlan = pbuf.vlan /\ pbuf'.vlanId = pbuf.vlan
        /\ pbuf'.l2hlen = dec.pos
    BY <1>2, <1>8 DEF PbufFields
  <2>3. DecodeShape'
    BY <1>1, <1>2, <2>1, <2>2 DEF DecodeShape, DecSteps, IpSteps
  <2>4. LinkRead'
    BY <1>2, <2>1, <2>2 DEF LinkRead
  <2>5. KindKnown'
    BY <1>2, <2>1 DEF KindKnown, Transports, IsAt, Hdr
  <2>6. PointerRight'
    BY <1>1, <1>2, <2>1, <2>2 DEF DecodeInv, PointerRight, IpSteps, UpperSteps, TunnelSteps,
                                  LinkSteps, Transports
  <2> QED BY <2>1, <2>3, <2>4, <2>5, <2>6, BelowInv DEF IpSteps
<1>9. CASE dec.type = "MPLS"
  <2>1. pbuf' = [pbuf EXCEPT !.mpls = Here] \/ (pbuf' = pbuf /\ Reject("l2shim"))
    BY <1>9 DEF yfDecodeL2Shim, ShimTypes
  <2> QED BY <1>5, <1>7, <1>9, <2>1
<1> QED BY <1>4, <1>6, <1>7, <1>8, <1>9 DEF yfDecodeL2Shim

(* What the actions of the IP layer start from.                            *)
LEMMA IpState ==
  ASSUME DecodeInv, dec.pc \in IpSteps
  PROVE  /\ DOMAIN pbuf = PbufFields /\ DOMAIN pbuf.opt = Opts
         /\ DOMAIN fraginfo = {"frag", "offset", "more"}
         /\ DOMAIN dec = DecFields /\ dec.frame \in Frames /\ dec.at \in Nat \ {0}
         /\ pbuf.mac # Stale /\ pbuf.vlan # Stale /\ pbuf.vlanId = pbuf.vlan
         /\ dec.pc # "idle" /\ KindKnown
         /\ NoTunnel(dec.frame) => dec.pos \in Nat /\ pbuf.l2hlen \in Nat /\ dec.pos = pbuf.l2hlen
BY DEF DecodeInv, DecodeShape, LinkRead, PointerRight, IpSteps, LinkSteps

LEMMA IPInv ==
  ASSUME DecodeInv, yfDecodeIP
  PROVE  DecodeInv'
<1>1. dec.pc = "ip" /\ fraginfo' = fraginfo /\ pbuf' = pbuf
  BY DEF yfDecodeIP
<1>2. /\ DOMAIN pbuf = PbufFields /\ DOMAIN pbuf.opt = Opts
      /\ DOMAIN fraginfo = {"frag", "offset", "more"}
      /\ DOMAIN dec = DecFields /\ dec.frame \in Frames /\ dec.at \in Nat \ {0}
      /\ pbuf.mac # Stale /\ pbuf.vlan # Stale /\ pbuf.vlanId = pbuf.vlan /\ dec.pc # "idle"
      /\ NoTunnel(dec.frame) => dec.pos \in Nat /\ pbuf.l2hlen \in Nat /\ dec.pos = pbuf.l2hlen
      /\ dec.type \in {"IPv4", "IPv6"} => IsAt(dec.at, dec.type)
  BY <1>1, IpState DEF IpSteps, KindKnown
<1>3. CASE dec' = Goto("rejected")
  BY <1>1, <1>2, <1>3, RejectedInv
<1>4. CASE dec.type \in {"IPv4", "IPv6"} /\ dec' = Goto(dec.type)
  <2>1. /\ DOMAIN dec' = DecFields /\ dec'.pc = dec.type /\ dec'.frame = dec.frame
        /\ dec'.at = dec.at /\ dec'.pos = dec.pos
    BY <1>2, <1>4, GotoFields
  <2>2. DecodeShape'
    BY <1>1, <1>2, <1>4, <2>1 DEF DecodeShape, DecSteps, IpSteps
  <2>3. LinkRead'
    BY <1>1, <1>2, <2>1 DEF LinkRead
  <2>4. IsAt(dec.at, dec.pc)'
    BY <1>2, <1>4, <2>1 DEF IsAt
  <2>5. KindKnown'
    BY <1>4, <2>1, <2>4 DEF KindKnown, Transports
  <2>6. PointerRight'
    BY <1>1, <1>2, <1>4, <2>1 DEF PointerRight, IpSteps, UpperSteps, TunnelSteps,
                                  LinkSteps, Transports
  <2> QED BY <1>4, <2>1, <2>2, <2>3, <2>5, <2>6, BelowInv DEF IpSteps
<1> QED BY <1>3, <1>4 DEF yfDecodeIP, Reject

(* After the address: the pointer is behind the header at ip, or at the    *)
(* one that comes next.                                                    *)
LEMMA AddressStep ==
  ASSUME DOMAIN pbuf' = PbufFields, DOMAIN pbuf'.opt = Opts,
         DOMAIN fraginfo' = {"frag", "offset", "more"},
         DOMAIN dec' = DecFields, dec'.frame \in Frames, dec'.at \in Nat \ {0},
         pbuf'.mac # Stale, pbuf'.vlan # Stale, pbuf'.vlanId = pbuf'.vlan,
         AddressRead',
         NoTunnel(dec'.frame) =>
           /\ dec'.pos \in Nat /\ pbuf'.l2hlen \in Nat
           /\ dec'.pos + IpLen(dec'.frame, dec'.at) = pbuf'.iplen + pbuf'.l2hlen,
         \/ /\ dec'.pc = "ext"
            /\ dec'.type \in {"HOP", "FRAG"} => IsAt(dec.at, dec.type)'
            /\ /\ dec'.type \in Transports \cup {"gre"}
               /\ ~(fraginfo'.frag /\ fraginfo'.offset)
               => IsAt(dec.at, dec.type)'
         \/ dec'.pc = "l4" /\ (pbuf'.proto \in Transports \cup {"gre"} => IsAt(dec.at, pbuf.proto)')
         \/ dec'.pc = "accepted" /\ fraginfo'.frag
  PROVE  DecodeInv'
<1>1. dec'.pc \in {"ext", "l4", "accepted"}
  OBVIOUS
<1>2. DecodeShape'
  BY <1>1 DEF DecodeShape, DecSteps, UpperSteps
<1>3. LinkRead'
  BY DEF LinkRead
<1>4. KindKnown'
  BY <1>1 DEF KindKnown, Transports
<1>5. OptionsRead' /\ TransportRead'
  BY <1>1 DEF OptionsRead, TransportRead
<1>6. PointerRight'
  BY <1>1 DEF PointerRight, IpSteps, UpperSteps, TunnelSteps, LinkSteps, Transports
<1> QED BY <1>1, <1>2, <1>3, <1>4, <1>5, <1>6 DEF DecodeInv

LEMMA IPv4Inv ==
  ASSUME DecodeInv, yfDecodeIPv4
  PROVE  DecodeInv'
<1>1. dec.pc = "IPv4"
  BY DEF yfDecodeIPv4
<1>2. /\ DOMAIN pbuf = PbufFields /\ DOMAIN pbuf.opt = Opts
      /\ DOMAIN fraginfo = {"frag", "offset", "more"}
      /\ DOMAIN dec = DecFields /\ dec.frame \in Frames /\ dec.at \in Nat \ {0}
      /\ pbuf.mac # Stale /\ pbuf.vlan # Stale /\ pbuf.vlanId = pbuf.vlan /\ dec.pc # "idle"
      /\ NoTunnel(dec.frame) => dec.pos \in Nat /\ pbuf.l2hlen \in Nat /\ dec.pos = pbuf.l2hlen
      /\ dec.at \in 1..Len(dec.frame.hdrs) /\ Hdr.h = "IPv4"
  BY <1>1, IpState DEF IpSteps, KindKnown, IsAt, Hdr
<1>3. Hdr.off \in BOOLEAN /\ Hdr.more \in BOOLEAN
  BY <1>2, FrameHeaders DEF Hdr
<1> DEFINE iplen == IpLen(dec.frame, dec.at)
           key == [pbuf EXCEPT !.addr = Here, !.proto = Hdr.next, !.iplen = iplen]
           frag == [frag |-> Hdr.off \/ Hdr.more, offset |-> Hdr.off, more |-> Hdr.more]
           b == [key EXCEPT !.ipinfo = Here]
           d == [Past(Hdr.len, Hdr.next, "l4") EXCEPT !.caplen = Capped(iplen) - Hdr.len]
<1>4. CASE dec' = Goto("rejected") /\ pbuf' \in {pbuf, key} /\ fraginfo' = fraginfo
  <2>1. DOMAIN pbuf' = PbufFields /\ DOMAIN pbuf'.opt = Opts
    BY <1>2, <1>4 DEF PbufFields
  <2> QED BY <1>2, <1>4, <2>1, RejectedInv
<1>5. CASE ToL4(b, d, frag) /\ fraginfo' = frag
  <2>1. (frag.frag /\ frag.offset) <=> Hdr.off
    BY <1>3
  <2>2. DOMAIN fraginfo' = {"frag", "offset", "more"} /\ (Hdr.off => fraginfo'.frag)
    BY <1>3, <1>5
  <2>3. /\ DOMAIN b = PbufFields /\ DOMAIN b.opt = Opts
        /\ b.mac = pbuf.mac /\ b.vlan = pbuf.vlan /\ b.vlanId = pbuf.vlanId
        /\ b.l2hlen = pbuf.l2hlen /\ b.addr = Here /\ b.ipinfo = Here /\ b.iplen = iplen
        /\ b.proto = Hdr.next
    <3> HIDE DEF iplen
    <3> QED BY <1>2 DEF PbufFields
  <2>4. /\ DOMAIN d = DecFields /\ d.frame = dec.frame /\ d.at = dec.at + 1
        /\ d.pos = dec.pos + Hdr.len
    <3> HIDE DEF iplen
    <3> QED BY <1>2 DEF Past, DecFields
  <2> HIDE DEF b, d, frag, key
  <2>5. /\ DOMAIN pbuf' = PbufFields /\ DOMAIN pbuf'.opt = Opts
        /\ pbuf'.mac = pbuf.mac /\ pbuf'.vlan = pbuf.vlan /\ pbuf'.vlanId = pbuf.vlanId
        /\ pbuf'.l2hlen = pbuf.l2hlen /\ pbuf'.addr = Here /\ pbuf'.ipinfo = Here
        /\ pbuf'.iplen = iplen /\ pbuf'.proto = Hdr.next
    BY <1>5, <2>3 DEF ToL4, PbufFields
  <2>6. /\ DOMAIN dec' = DecFields /\ dec'.frame = dec.frame /\ dec'.at = dec.at + 1
        /\ dec'.pos = dec.pos + Hdr.len
        /\ \/ dec'.pc = "accepted" /\ fraginfo'.frag
           \/ dec'.pc = "l4" /\ ~Hdr.off
    BY <1>5, <2>1, <2>2, <2>4 DEF ToL4, DecFields
  <2>7. /\ Hdr.len \in Nat /\ dec.at + 1 \in Nat \ {0}
        /\ ~Hdr.off /\ Hdr.next \in Transports \cup {"gre"} => IsAt(dec.at + 1, Hdr.next)
    BY <1>2, NextIsThere DEF LaterFragment
  <2>8. AddressRead'
    <3>1. dec.at \in 1..dec'.at - 1 /\ dec.at + 1..dec'.at - 1 = {}
      BY <1>2, <2>6
    <3>2. pbuf'.addr = <<"header", dec.at>> /\ pbuf'.ipinfo = pbuf'.addr
      BY <2>5 DEF Here
    <3> QED BY <2>5, <2>6, <3>1, <3>2 DEF AddressRead
  <2>9. ASSUME NoTunnel(dec'.frame)
        PROVE  /\ dec'.pos \in Nat /\ pbuf'.l2hlen \in Nat
               /\ dec'.pos + IpLen(dec'.frame, dec'.at) = pbuf'.iplen + pbuf'.l2hlen
    <3>1. iplen = Hdr.len + IpLen(dec.frame, dec.at + 1) /\ IpLen(dec.frame, dec.at + 1) \in Nat
      <4>1. dec.at + 1 \in 1..Len(dec.frame.hdrs) + 1
        BY <1>2
      <4> QED BY <1>2, <4>1, IpLenFrom DEF Hdr
    <3>2. dec.pos \in Nat /\ pbuf.l2hlen \in Nat /\ dec.pos = pbuf.l2hlen
      BY <1>2, <2>6, <2>9
    <3> HIDE DEF iplen
    <3> QED BY <2>5, <2>6, <2>7, <3>1, <3>2
  <2>10. /\ dec'.pc = "l4" /\ pbuf'.proto \in Transports \cup {"gre"} => IsAt(dec.at, pbuf.proto)'
    BY <2>5, <2>6, <2>7 DEF IsAt
  <2> QED BY <1>2, <2>2, <2>5, <2>6, <2>7, <2>8, <2>9, <2>10, AddressStep
<1>6. CASE dec.caplen < Hdr.len
  BY <1>4, <1>6 DEF yfDecodeIPv4, Reject
<1>7. CASE ~(dec.caplen < Hdr.len)
  <2>1. CASE ~ctx.defrag /\ (Hdr.off \/ Hdr.more)
    <3>1. dec' = Goto("rejected") /\ pbuf' = key /\ fraginfo' = fraginfo
      BY <1>7, <2>1 DEF yfDecodeIPv4, Reject
    <3> QED BY <1>4, <3>1
  <2>2. CASE ~(~ctx.defrag /\ (Hdr.off \/ Hdr.more))
    <3>1. ToL4(b, d, frag) /\ fraginfo' = frag
      BY <1>7, <2>2 DEF yfDecodeIPv4
    <3> QED BY <1>5, <3>1
  <2> QED BY <2>1, <2>2
<1> QED BY <1>6, <1>7

LEMMA IPv6Inv ==
  ASSUME DecodeInv, yfDecodeIPv6
  PROVE  DecodeInv'
<1>1. dec.pc = "IPv6"
  BY DEF yfDecodeIPv6
<1>2. /\ DOMAIN pbuf = PbufFields /\ DOMAIN pbuf.opt = Opts
      /\ DOMAIN fraginfo = {"frag", "offset", "more"}
      /\ DOMAIN dec = DecFields /\ dec.frame \in Frames /\ dec.at \in Nat \ {0}
      /\ pbuf.mac # Stale /\ pbuf.vlan # Stale /\ pbuf.vlanId = pbuf.vlan /\ dec.pc # "idle"
      /\ NoTunnel(dec.frame) => dec.pos \in Nat /\ pbuf.l2hlen \in Nat /\ dec.pos = pbuf.l2hlen
      /\ dec.at \in 1..Len(dec.frame.hdrs) /\ Hdr.h = "IPv6"
  BY <1>1, IpState DEF IpSteps, KindKnown, IsAt, Hdr
<1>3. Hdr.len = 40
  BY <1>2, FrameHeaders DEF Hdr
<1>4. CASE dec' = Goto("rejected") /\ pbuf' = pbuf /\ fraginfo' = fraginfo
  BY <1>2, <1>4, RejectedInv
<1>5. PICK iplen : iplen = IpLen(dec.frame, dec.at)
  OBVIOUS
<1>6. CASE /\ pbuf' = [pbuf EXCEPT !.addr = Here, !.iplen = iplen, !.ipinfo = Here]
           /\ fraginfo' = [fraginfo EXCEPT !.frag = FALSE]
           /\ dec' = [Past(40, Hdr.next, "ext") EXCEPT !.caplen = Capped(iplen) - 40]
  <2>1. /\ DOMAIN pbuf' = PbufFields /\ DOMAIN pbuf'.opt = Opts
        /\ pbuf'.mac = pbuf.mac /\ pbuf'.vlan = pbuf.vlan /\ pbuf'.vlanId = pbuf.vlanId
        /\ pbuf'.l2hlen = pbuf.l2hlen /\ pbuf'.addr = Here /\ pbuf'.ipinfo = Here
        /\ pbuf'.iplen = iplen
    BY <1>2, <1>6 DEF PbufFields
  <2>2. DOMAIN fraginfo' = {"frag", "offset", "more"}
    BY <1>2, <1>6
  <2>3. /\ DOMAIN dec' = DecFields /\ dec'.frame = dec.frame /\ dec'.at = dec.at + 1
        /\ dec'.pos = dec.pos + Hdr.len /\ dec'.pc = "ext" /\ dec'.type = Hdr.next
    BY <1>2, <1>3, <1>6 DEF Past, DecFields
  <2>4. /\ Hdr.len \in Nat /\ dec.at + 1 \in Nat \ {0}
        /\ Hdr.next \in {"HOP", "FRAG"} \cup Transports \cup {"gre"} =>
             IsAt(dec.at + 1, Hdr.next)
    BY <1>2, NextIsThere DEF LaterFragment
  <2>5. AddressRead'
    <3>1. dec.at \in 1..dec'.at - 1 /\ dec.at + 1..dec'.at - 1 = {}
      BY <1>2, <2>3
    <3>2. pbuf'.addr = <<"header", dec.at>> /\ pbuf'.ipinfo = pbuf'.addr
      BY <2>1 DEF Here
    <3> QED BY <1>5, <2>1, <2>3, <3>1, <3>2 DEF AddressRead
  <2>6. ASSUME NoTunnel(dec'.frame)
        PROVE  /\ dec'.pos \in Nat /\ pbuf'.l2hlen \in Nat
               /\ dec'.pos + IpLen(dec'.frame, dec'.at) = pbuf'.iplen + pbuf'.l2hlen
    <3>1. iplen = Hdr.len + IpLen(dec.frame, dec.at + 1) /\ IpLen(dec.frame, dec.at + 1) \in Nat
      <4>1. dec.at + 1 \in 1..Len(dec.frame.hdrs) + 1
        BY <1>2
      <4> QED BY <1>2, <1>5, <4>1, IpLenFrom DEF Hdr
    <3>2. dec.pos \in Nat /\ pbuf.l2hlen \in Nat /\ dec.pos = pbuf.l2hlen
      BY <1>2, <2>3, <2>6
    <3> QED BY <2>1, <2>3, <2>4, <3>1, <3>2
  <2>7. dec'.type \in {"HOP", "FRAG"} \cup Transports \cup {"gre"} => IsAt(dec.at, dec.type)'
    BY <2>3, <2>4 DEF IsAt
  <2> QED BY <1>2, <2>1, <2>2, <2>3, <2>4, <2>5, <2>6, <2>7, AddressStep
<1>7. CASE dec.caplen < 40
  BY <1>4, <1>7 DEF yfDecodeIPv6, Reject
<1>8. CASE ~(dec.caplen < 40)
  BY <1>5, <1>6, <1>8, Zenon DEF yfDecodeIPv6
<1> QED BY <1>7, <1>8

(* What the actions above the IP header start from.                        *)
LEMMA UpperState ==
  ASSUME DecodeInv, dec.pc \in UpperSteps \cup {"opt", "gre"}
  PROVE  /\ DOMAIN pbuf = PbufFields /\ DOMAIN pbuf.opt = Opts
         /\ DOMAIN fraginfo = {"frag", "offset", "more"}
         /\ DOMAIN dec = DecFields /\ dec.frame \in Frames /\ dec.at \in Nat \ {0}
         /\ pbuf.mac # Stale /\ pbuf.vlan # Stale /\ pbuf.vlanId = pbuf.vlan
         /\ dec.pc # "idle" /\ KindKnown /\ AddressRead /\ OptionsRead /\ PointerRight
         /\ NoTunnel(dec.frame) /\ dec.pc \in UpperSteps =>
              /\ dec.pos \in Nat /\ pbuf.l2hlen \in Nat
              /\ dec.pos + IpLen(dec.frame, dec.at) = pbuf.iplen + pbuf.l2hlen
BY DEF DecodeInv, DecodeShape, LinkRead, PointerRight, UpperSteps, LinkSteps, IpSteps, Transports

LEMMA AddressKept ==
  ASSUME AddressRead, dec.pc \in UpperSteps \cup {"opt", "accepted"},
         dec'.frame = dec.frame, dec'.at = dec.at, fraginfo' = fraginfo,
         pbuf'.addr = pbuf.addr, pbuf'.ipinfo = pbuf.ipinfo, pbuf'.iplen = pbuf.iplen
  PROVE  AddressRead'
<1>1. PICK ip \in 1..dec.at - 1 :
        /\ pbuf.addr = <<"header", ip>> /\ pbuf.ipinfo = pbuf.addr
        /\ pbuf.iplen = IpLen(dec.frame, ip)
        /\ \A k \in ip + 1..dec.at - 1 : Passed(dec.frame.hdrs[k])
  BY DEF AddressRead
<1>2. \A k \in ip + 1..dec'.at - 1 : Passed(dec.frame.hdrs[k])'
  BY <1>1 DEF Passed
<1> QED BY <1>1, <1>2 DEF AddressRead

(* An extension header is passed: the pointer stays right.                 *)
LEMMA ExtensionPassed ==
  ASSUME DecodeInv, dec.pc = "ext", IsAt(dec.at, dec.type), dec.type \in {"HOP", "FRAG"},
         pbuf' = pbuf, DOMAIN fraginfo' = {"frag", "offset", "more"},
         dec' = Past(Hdr.len, Hdr.next, "ext"),
         fraginfo.frag => fraginfo'.frag,
         LaterFragment(Hdr) => (fraginfo'.frag /\ fraginfo'.offset) \/ Misread(Hdr)
  PROVE  DecodeInv'
<1>1. /\ DOMAIN pbuf = PbufFields /\ DOMAIN pbuf.opt = Opts
      /\ DOMAIN dec = DecFields /\ dec.frame \in Frames
      /\ pbuf.mac # Stale /\ pbuf.vlan # Stale /\ pbuf.vlanId = pbuf.vlan /\ AddressRead
      /\ NoTunnel(dec.frame) =>
           /\ dec.pos \in Nat /\ pbuf.l2hlen \in Nat
           /\ dec.pos + IpLen(dec.frame, dec.at) = pbuf.iplen + pbuf.l2hlen
  BY UpperState DEF UpperSteps
<1>2. dec.at \in 1..Len(dec.frame.hdrs) /\ Hdr.h = dec.type /\ dec.at \in Nat
  BY <1>1, FrameHeaders DEF IsAt, Hdr
<1>3. /\ DOMAIN dec' = DecFields /\ dec'.pc = "ext" /\ dec'.frame = dec.frame
      /\ dec'.at = dec.at + 1 /\ dec'.pos = dec.pos + Hdr.len /\ dec'.type = Hdr.next
  BY <1>1, PastFields
<1>4. /\ Hdr.len \in Nat /\ dec.at + 1 \in Nat \ {0}
      /\ Hdr.next \in {"HOP", "FRAG"} => IsAt(dec.at + 1, Hdr.next)
      /\ Hdr.next \in Transports \cup {"gre"} /\ (LaterFragment(Hdr) => Misread(Hdr)) =>
           IsAt(dec.at + 1, Hdr.next)
  BY <1>1, <1>2, NextIsThere
<1>5. /\ dec'.type \in {"HOP", "FRAG"} => IsAt(dec.at, dec.type)'
      /\ /\ dec'.type \in Transports \cup {"gre"}
         /\ ~(fraginfo'.frag /\ fraginfo'.offset)
         => IsAt(dec.at, dec.type)'
  BY <1>3, <1>4 DEF IsAt
<1>6. AddressRead'
  <2>1. PICK ip \in 1..dec.at - 1 :
          /\ pbuf.addr = <<"header", ip>> /\ pbuf.ipinfo = pbuf.addr
          /\ pbuf.iplen = IpLen(dec.frame, ip)
          /\ \A k \in ip + 1..dec.at - 1 : Passed(dec.frame.hdrs[k])
    BY <1>1 DEF AddressRead, UpperSteps
  <2>2. ip \in 1..dec'.at - 1
    BY <1>2, <1>3
  <2>3. \A k \in ip + 1..dec'.at - 1 : Passed(dec.frame.hdrs[k])'
    <3> SUFFICES ASSUME NEW k \in ip + 1..dec'.at - 1
                 PROVE  Passed(dec.frame.hdrs[k])'
      OBVIOUS
    <3>1. k = dec.at \/ k \in ip + 1..dec.at - 1
      BY <1>2, <1>3
    <3>2. CASE k = dec.at
      <4>1. dec'.frame.hdrs[k] = Hdr
        BY <1>3, <3>2 DEF Hdr
      <4>2. Hdr.h \in {"HOP", "FRAG"} /\ (LaterFragment(Hdr) => fraginfo'.frag \/ Misread(Hdr))
        BY <1>2
      <4> QED BY <4>1, <4>2, Zenon DEF Passed
    <3>3. CASE k \in ip + 1..dec.at - 1
      <4>1. Passed(dec.frame.hdrs[k]) /\ dec'.frame.hdrs[k] = dec.frame.hdrs[k]
        BY <1>3, <2>1, <3>3, Zenon
      <4> QED BY <4>1, Zenon DEF Passed
    <3> QED BY <3>1, <3>2, <3>3
  <2> QED BY <1>3, <2>1, <2>2, <2>3 DEF AddressRead
<1>7. ASSUME NoTunnel(dec'.frame)
      PROVE  /\ dec'.pos \in Nat /\ pbuf'.l2hlen \in Nat
             /\ dec'.pos + IpLen(dec'.frame, dec'.at) = pbuf'.iplen + pbuf'.l2hlen
  <2>1. /\ IpLen(dec.frame, dec.at) = Hdr.len + IpLen(dec.frame, dec.at + 1)
        /\ IpLen(dec.frame, dec.at + 1) \in Nat
    <3>1. dec.at + 1 \in 1..Len(dec.frame.hdrs) + 1
      BY <1>2
    <3> QED BY <1>1, <1>2, <3>1, IpLenFrom DEF Hdr
  <2>2. /\ dec.pos \in Nat /\ pbuf.l2hlen \in Nat
        /\ dec.pos + IpLen(dec.frame, dec.at) = pbuf.iplen + pbuf.l2hlen
    BY <1>1, <1>3, <1>7
  <2> QED BY <1>3, <1>4, <2>1, <2>2
<1> QED BY <1>1, <1>3, <1>4, <1>5, <1>6, <1>7, AddressStep

LEMMA IPv6ExtInv ==
  ASSUME DecodeInv, yfDecodeIPv6Ext
  PROVE  DecodeInv'
<1>1. dec.pc = "ext"
  BY DEF yfDecodeIPv6Ext
<1>2. /\ DOMAIN pbuf = PbufFields /\ DOMAIN pbuf.opt = Opts
      /\ DOMAIN fraginfo = {"frag", "offset", "more"}
      /\ DOMAIN dec = DecFields /\ dec.frame \in Frames /\ dec.at \in Nat \ {0}
      /\ pbuf.mac # Stale /\ pbuf.vlan # Stale /\ pbuf.vlanId = pbuf.vlan
      /\ dec.pc # "idle" /\ AddressRead
      /\ NoTunnel(dec.frame) =>
           /\ dec.pos \in Nat /\ pbuf.l2hlen \in Nat
           /\ dec.pos + IpLen(dec.frame, dec.at) = pbuf.iplen + pbuf.l2hlen
      /\ dec.type \in {"HOP", "FRAG"} => IsAt(dec.at, dec.type)
      /\ /\ dec.type \in Transports \cup {"gre"}
         /\ ~(fraginfo.frag /\ fraginfo.offset)
         => IsAt(dec.at, dec.type)
  BY <1>1, UpperState DEF UpperSteps, KindKnown
<1>3. CASE dec' = Goto("rejected") /\ pbuf' = pbuf /\ fraginfo' = fraginfo
  BY <1>2, <1>3, RejectedInv
<1>4. CASE /\ dec.type = "FRAG"
           /\ IF ctx.defrag
              THEN /\ fraginfo' = [frag |-> TRUE, offset |-> Hdr.off, more |-> TRUE]
                   /\ dec' = Past(Hdr.len, Hdr.next, "ext")
              ELSE /\ IF (Hdr.off /\ ~Hdr.high) \/ Hdr.more THEN dec' = Goto("rejected")
                      ELSE dec' = Past(Hdr.len, Hdr.next, "ext")
                   /\ fraginfo' = fraginfo
           /\ pbuf' = pbuf
  <2>1. IsAt(dec.at, dec.type) /\ Hdr.h = "FRAG"
    BY <1>2, <1>4 DEF IsAt, Hdr
  <2>2. Hdr.off \in BOOLEAN /\ Hdr.more \in BOOLEAN /\ Hdr.high \in BOOLEAN
    BY <1>2, <2>1, FrameHeaders DEF Hdr, IsAt
  <2>3. CASE ctx.defrag
    <3>1. /\ fraginfo' = [frag |-> TRUE, offset |-> Hdr.off, more |-> TRUE]
          /\ dec' = Past(Hdr.len, Hdr.next, "ext") /\ pbuf' = pbuf
      BY <1>4, <2>3
    <3>2. /\ DOMAIN fraginfo' = {"frag", "offset", "more"} /\ fraginfo'.frag
          /\ Hdr.off => fraginfo'.frag /\ fraginfo'.offset
      BY <2>2, <3>1
    <3> QED BY <1>1, <1>4, <2>1, <3>1, <3>2, ExtensionPassed DEF LaterFragment
  <2>4. CASE ~ctx.defrag /\ ~((Hdr.off /\ ~Hdr.high) \/ Hdr.more)
    <3>1. fraginfo' = fraginfo /\ dec' = Past(Hdr.len, Hdr.next, "ext") /\ pbuf' = pbuf
      BY <1>4, <2>4
    <3>2. LaterFragment(Hdr) => Misread(Hdr)
      BY <2>1, <2>2, <2>4 DEF LaterFragment, Misread
    <3> QED BY <1>1, <1>2, <1>4, <2>1, <3>1, <3>2, ExtensionPassed
  <2>5. CASE ~ctx.defrag /\ ((Hdr.off /\ ~Hdr.high) \/ Hdr.more)
    <3>1. fraginfo' = fraginfo /\ dec' = Goto("rejected") /\ pbuf' = pbuf
      BY <1>4, <2>5
    <3> QED BY <1>3, <3>1
  <2> QED BY <2>3, <2>4, <2>5
<1>5. CASE /\ dec.type = "HOP" /\ dec' = Past(Hdr.len, Hdr.next, "ext")
           /\ pbuf' = pbuf /\ fraginfo' = fraginfo
  <2>1. IsAt(dec.at, dec.type) /\ Hdr.h = "HOP"
    BY <1>2, <1>5 DEF IsAt, Hdr
  <2> QED BY <1>1, <1>2, <1>5, <2>1, ExtensionPassed DEF LaterFragment
<1>6. CASE ToL4([pbuf EXCEPT !.proto = dec.type], dec, fraginfo) /\ fraginfo' = fraginfo
  <2> DEFINE b == [pbuf EXCEPT !.proto = dec.type]
  <2>1. ToL4(b, dec, fraginfo) /\ fraginfo' = fraginfo
    BY <1>6
  <2>2. /\ DOMAIN b = PbufFields /\ DOMAIN b.opt = Opts
        /\ b.mac = pbuf.mac /\ b.vlan = pbuf.vlan /\ b.vlanId = pbuf.vlanId
        /\ b.l2hlen = pbuf.l2hlen /\ b.addr = pbuf.addr /\ b.ipinfo = pbuf.ipinfo
        /\ b.iplen = pbuf.iplen /\ b.proto = dec.type
    BY <1>2 DEF PbufFields
  <2> HIDE DEF b
  <2>3. /\ DOMAIN pbuf' = PbufFields /\ DOMAIN pbuf'.opt = Opts
        /\ pbuf'.mac = pbuf.mac /\ pbuf'.vlan = pbuf.vlan /\ pbuf'.vlanId = pbuf.vlanId
        /\ pbuf'.l2hlen = pbuf.l2hlen /\ pbuf'.addr = pbuf.addr /\ pbuf'.ipinfo = pbuf.ipinfo
        /\ pbuf'.iplen = pbuf.iplen /\ pbuf'.proto = dec.type
    BY <2>1, <2>2 DEF ToL4, PbufFields
  <2>4. /\ DOMAIN dec' = DecFields /\ dec'.frame = dec.frame /\ dec'.at = dec.at
        /\ dec'.pos = dec.pos
        /\ \/ dec'.pc = "accepted" /\ fraginfo'.frag
           \/ dec'.pc = "l4" /\ ~(fraginfo.frag /\ fraginfo.offset)
    BY <1>2, <2>1 DEF ToL4, DecFields
  <2>5. AddressRead'
    BY <1>1, <1>2, <1>6, <2>3, <2>4, AddressKept DEF UpperSteps
  <2>6. /\ dec'.pc = "l4" /\ pbuf'.proto \in Transports \cup {"gre"} => IsAt(dec.at, pbuf.proto)'
    BY <1>2, <2>3, <2>4 DEF IsAt
  <2> QED BY <1>2, <2>1, <2>3, <2>4, <2>5, <2>6, AddressStep
<1> QED BY <1>3, <1>4, <1>5, <1>6 DEF yfDecodeIPv6Ext, Reject, RejectSilently

LEMMA OptionFieldKept ==
  ASSUME Hdr' = Hdr, dec'.at = dec.at, ctx' = ctx
  PROVE  \A o : OptionField(Hdr, dec.at, o)' = OptionField(Hdr, dec.at, o)
<1>1. Listed(Hdr)' = Listed(Hdr)
  BY Zenon DEF Listed
<1>2. OptionsOf(Hdr)' = OptionsOf(Hdr) /\ (ShortScale(Hdr)' <=> ShortScale(Hdr))
  BY <1>1, Zenon DEF OptionsOf, ShortScale
<1> QED BY <1>2 DEF OptionField, Zero

(* A packet is accepted with the buffer b and its headers up to pos.       *)
LEMMA AcceptedInv ==
  ASSUME DecodeInv, dec.pc \in UpperSteps \cup {"opt"}, NEW b, NEW pos, Accept(b, pos),
         fraginfo' = fraginfo, ctx' = ctx,
         DOMAIN b = PbufFields, DOMAIN b.opt = Opts,
         b.mac = pbuf.mac, b.vlan = pbuf.vlan, b.vlanId = pbuf.vlanId, b.l2hlen = pbuf.l2hlen,
         b.addr = pbuf.addr, b.ipinfo = pbuf.ipinfo, b.iplen = pbuf.iplen, b.proto = pbuf.proto,
         ~fraginfo.frag =>
           IF pbuf.proto \notin Transports THEN b.ports = Zero
           ELSE /\ IsAt(dec.at, pbuf.proto) /\ b.ports = Here
                /\ pbuf.proto = "tcp" =>
                     /\ b.tcpinfo = Here
                     /\ \A o \in Opts : b.opt[o] = OptionField(Hdr, dec.at, o),
         NoTunnel(dec.frame) => pbuf.l2hlen \in Nat,
         ~fraginfo.frag /\ pbuf.proto \in Transports /\ NoTunnel(dec.frame) =>
           pos \in Int /\ pbuf.iplen + pbuf.l2hlen = pos + dec.frame.pay
  PROVE  DecodeInv'
<1>1. /\ DOMAIN fraginfo = {"frag", "offset", "more"}
      /\ DOMAIN dec = DecFields /\ dec.frame \in Frames /\ dec.at \in Nat \ {0}
      /\ pbuf.mac # Stale /\ pbuf.vlan # Stale /\ pbuf.vlanId = pbuf.vlan /\ AddressRead
  BY UpperState
<1>2. /\ DOMAIN dec' = DecFields /\ dec'.pc = "accepted" /\ dec'.frame = dec.frame
      /\ dec'.at = dec.at
  <2>1. dec' = Goto("accepted")
    BY DEF Accept
  <2> QED BY <1>1, <2>1, GotoFields
<1>3. /\ DOMAIN pbuf' = PbufFields /\ DOMAIN pbuf'.opt = Opts /\ pbuf'.opt = b.opt
      /\ pbuf'.mac = pbuf.mac /\ pbuf'.vlan = pbuf.vlan /\ pbuf'.vlanId = pbuf.vlanId
      /\ pbuf'.l2hlen = pbuf.l2hlen /\ pbuf'.addr = pbuf.addr /\ pbuf'.ipinfo = pbuf.ipinfo
      /\ pbuf'.iplen = pbuf.iplen /\ pbuf'.proto = pbuf.proto
      /\ pbuf'.ports = b.ports /\ pbuf'.tcpinfo = b.tcpinfo /\ pbuf'.allHeaderLen = pos
  <2>1. pbuf' = [b EXCEPT !.ptime = dec.n, !.allHeaderLen = pos]
    BY DEF Accept
  <2> QED BY <2>1 DEF PbufFields
<1>4. DecodeShape'
  BY <1>1, <1>2, <1>3 DEF DecodeShape, DecSteps
<1>5. LinkRead' /\ KindKnown'
  BY <1>1, <1>2, <1>3 DEF LinkRead, KindKnown, Transports
<1>6. AddressRead' /\ OptionsRead'
  BY <1>1, <1>2, <1>3, AddressKept DEF OptionsRead
<1>7. TransportRead'
  <2>1. Hdr' = Hdr /\ Here' = Here
    BY <1>2 DEF Hdr, Here
  <2>2. IsAt(dec.at, pbuf.proto)' <=> IsAt(dec.at, pbuf.proto)
    BY <1>2, <1>3 DEF IsAt
  <2>3. \A o : OptionField(Hdr, dec.at, o)' = OptionField(Hdr, dec.at, o)
    BY <1>2, <2>1, OptionFieldKept, Zenon
  <2> QED BY <1>2, <1>3, <2>1, <2>2, <2>3 DEF TransportRead
<1>8. PointerRight'
  BY <1>2, <1>3 DEF PointerRight, NoTunnel, IpSteps, UpperSteps, TunnelSteps, LinkSteps,
                    Transports
<1> QED BY <1>4, <1>5, <1>6, <1>7, <1>8 DEF DecodeInv

LEMMA ChooseL4Inv ==
  ASSUME DecodeInv, ChooseL4
  PROVE  DecodeInv'
<1>1. dec.pc = "l4" /\ fraginfo' = fraginfo /\ ctx' = ctx
  BY DEF ChooseL4
<1>2. /\ DOMAIN pbuf = PbufFields /\ DOMAIN pbuf.opt = Opts
      /\ DOMAIN fraginfo = {"frag", "offset", "more"}
      /\ DOMAIN dec = DecFields /\ dec.frame \in Frames /\ dec.at \in Nat \ {0}
      /\ pbuf.mac # Stale /\ pbuf.vlan # Stale /\ pbuf.vlanId = pbuf.vlan /\ AddressRead
      /\ NoTunnel(dec.frame) =>
           /\ dec.pos \in Nat /\ pbuf.l2hlen \in Nat
           /\ dec.pos + IpLen(dec.frame, dec.at) = pbuf.iplen + pbuf.l2hlen
      /\ pbuf.proto \in Transports \cup {"gre"} => IsAt(dec.at, pbuf.proto)
  BY <1>1, UpperState DEF UpperSteps, KindKnown
<1>3. CASE /\ pbuf.proto \in Transports \cup {"gre"} /\ dec' = Goto(pbuf.proto)
           /\ pbuf' = pbuf
  <2>1. /\ DOMAIN dec' = DecFields /\ dec'.pc = pbuf.proto /\ dec'.frame = dec.frame
        /\ dec'.at = dec.at /\ dec'.pos = dec.pos
    BY <1>2, <1>3, GotoFields
  <2>2. DecodeShape'
    BY <1>1, <1>2, <1>3, <2>1 DEF DecodeShape, DecSteps, UpperSteps, TunnelSteps
  <2>3. LinkRead'
    BY <1>2, <1>3, <2>1 DEF LinkRead
  <2>4. IsAt(dec.at, dec.pc)'
    BY <1>2, <1>3, <2>1 DEF IsAt
  <2>5. KindKnown'
    BY <1>3, <2>1, <2>4 DEF KindKnown, Transports
  <2>6. AddressRead'
    BY <1>1, <1>2, <1>3, <2>1, AddressKept DEF UpperSteps
  <2>7. OptionsRead' /\ TransportRead'
    BY <1>3, <2>1 DEF OptionsRead, TransportRead, Transports
  <2>8. PointerRight'
    <3>1. dec'.pc = "gre" => ~NoTunnel(dec'.frame)
      BY <2>1, <2>4 DEF NoTunnel, IsAt
    <3> QED BY <1>1, <1>2, <1>3, <2>1, <3>1
            DEF PointerRight, NoTunnel, IpSteps, UpperSteps, TunnelSteps, LinkSteps, Transports
  <2> QED BY <2>2, <2>3, <2>5, <2>6, <2>7, <2>8 DEF DecodeInv
<1>4. CASE pbuf.proto \notin Transports /\ Accept([pbuf EXCEPT !.ports = Zero], dec.pos)
  <2> DEFINE b == [pbuf EXCEPT !.ports = Zero]
  <2>1. /\ DOMAIN b = PbufFields /\ DOMAIN b.opt = Opts
        /\ b.mac = pbuf.mac /\ b.vlan = pbuf.vlan /\ b.vlanId = pbuf.vlanId
        /\ b.l2hlen = pbuf.l2hlen /\ b.addr = pbuf.addr /\ b.ipinfo = pbuf.ipinfo
        /\ b.iplen = pbuf.iplen /\ b.proto = pbuf.proto /\ b.ports = Zero
    BY <1>2 DEF PbufFields
  <2>2. Accept(b, dec.pos)
    BY <1>4
  <2> HIDE DEF b
  <2> QED BY <1>1, <1>2, <1>4, <2>1, <2>2, AcceptedInv DEF UpperSteps
<1> QED BY <1>3, <1>4 DEF ChooseL4, Transports

LEMMA PortsInv ==
  ASSUME DecodeInv, NEW proto \in {"udp", "icmp"}, PortsFrom(proto)
  PROVE  DecodeInv'
<1>1. dec.pc = proto /\ fraginfo' = fraginfo /\ ctx' = ctx
  BY DEF PortsFrom
<1>2. /\ DOMAIN pbuf = PbufFields /\ DOMAIN pbuf.opt = Opts
      /\ DOMAIN fraginfo = {"frag", "offset", "more"}
      /\ DOMAIN dec = DecFields /\ dec.frame \in Frames /\ dec.pc # "idle"
      /\ NoTunnel(dec.frame) =>
           /\ dec.pos \in Nat /\ pbuf.l2hlen \in Nat
           /\ dec.pos + IpLen(dec.frame, dec.at) = pbuf.iplen + pbuf.l2hlen
      /\ pbuf.proto = proto /\ IsAt(dec.at, proto)
  BY <1>1, UpperState DEF UpperSteps, Transports, KindKnown
<1>3. CASE pbuf' = pbuf /\ RejectL4
  BY <1>1, <1>2, <1>3, RejectedInv DEF RejectL4
<1>4. CASE Accept([pbuf EXCEPT !.ports = Here], dec.pos + 8)
  <2> DEFINE b == [pbuf EXCEPT !.ports = Here]
  <2>1. /\ DOMAIN b = PbufFields /\ DOMAIN b.opt = Opts
        /\ b.mac = pbuf.mac /\ b.vlan = pbuf.vlan /\ b.vlanId = pbuf.vlanId
        /\ b.l2hlen = pbuf.l2hlen /\ b.addr = pbuf.addr /\ b.ipinfo = pbuf.ipinfo
        /\ b.iplen = pbuf.iplen /\ b.proto = pbuf.proto /\ b.ports = Here
    BY <1>2 DEF PbufFields
  <2>2. Accept(b, dec.pos + 8)
    BY <1>4
  <2>3. IpLen(dec.frame, dec.at) = 8 + dec.frame.pay /\ dec.frame.pay \in Nat
    <3>1. dec.at \in 1..Len(dec.frame.hdrs) /\ dec.frame.hdrs[dec.at].h = proto
      BY <1>2 DEF IsAt
    <3>2. dec.at = Len(dec.frame.hdrs) /\ dec.frame.hdrs[dec.at].len = 8
      BY <1>2, <3>1, FrameHeaders DEF Transports
    <3>3. /\ IpLen(dec.frame, dec.at) = dec.frame.hdrs[dec.at].len + IpLen(dec.frame, dec.at + 1)
          /\ IpLen(dec.frame, dec.at + 1) = dec.frame.pay
      BY <1>2, <3>1, <3>2, IpLenFrom
    <3>4. dec.frame.pay \in Nat
      BY <1>2, FrameHeaders
    <3> QED BY <3>2, <3>3, <3>4
  <2>4. NoTunnel(dec.frame) =>
          /\ dec.pos + 8 \in Nat
          /\ pbuf.iplen + pbuf.l2hlen = dec.pos + 8 + dec.frame.pay
    BY <1>2, <2>3
  <2>5. proto \in Transports /\ proto # "tcp" /\ dec.pc \in UpperSteps
    BY <1>1 DEF Transports, UpperSteps
  <2> HIDE DEF b
  <2> QED BY <1>1, <1>2, <2>1, <2>2, <2>4, <2>5, AcceptedInv
<1> QED BY <1>3, <1>4 DEF PortsFrom

(* Into a tunnel: nothing of the outer datagram is relied on.              *)
LEMMA TunnelStep ==
  ASSUME DecodeInv, dec.pc \in TunnelSteps, ~NoTunnel(dec.frame),
         pbuf' = pbuf, fraginfo' = fraginfo,
         DOMAIN dec' = DecFields, dec'.pc \in {"sre", "ip"}, dec'.frame = dec.frame,
         dec'.at = dec.at + 1,
         /\ dec'.pc = "ip" /\ dec'.type \in ShimTypes \cup {"IPv4", "IPv6"}
         => IsAt(dec.at, dec.type)',
         dec'.pc = "sre" =>
           \E g \in 1..dec'.at - 1 :
             /\ g \in 1..Len(dec'.frame.hdrs) /\ Routed(dec'.frame.hdrs[g])
             /\ dec'.type = dec'.frame.hdrs[g].next
             /\ \A i \in g + 1..dec'.at : IsAt(i, "SRE")'
  PROVE  DecodeInv'
<1>1. DecodeShape'
  BY DEF DecodeInv, DecodeShape, DecSteps, IpSteps, TunnelSteps
<1>2. LinkRead'
  BY DEF DecodeInv, LinkRead, TunnelSteps, LinkSteps
<1>3. KindKnown'
  BY DEF KindKnown, Transports
<1>4. PointerRight'
  BY DEF PointerRight
<1> QED BY <1>1, <1>2, <1>3, <1>4, BelowInv DEF IpSteps, TunnelSteps

LEMMA RoutedChain ==
  ASSUME dec.frame \in Frames, NEW g \in 1..Len(dec.frame.hdrs), Routed(dec.frame.hdrs[g]),
         NEW j \in g..Len(dec.frame.hdrs), \A i \in g + 1..j : IsAt(i, "SRE")
  PROVE  IsAt(j + 1, IF j = g \/ dec.frame.hdrs[j].next = "SRE" THEN "SRE"
                     ELSE dec.frame.hdrs[g].next)
<1>1. PICK hs : hs = dec.frame.hdrs
  OBVIOUS
<1>2. Chained(hs, g) /\ Len(hs) \in Nat
  BY <1>1, FrameHeaders
<1>3. \A l \in g..Len(hs) : (\A i \in g + 1..l : hs[i].h = "SRE") =>
        /\ l < Len(hs)
        /\ hs[l + 1].h = IF l = g \/ hs[l].next = "SRE" THEN "SRE" ELSE hs[g].next
  BY <1>1, <1>2, Zenon DEF Chained
<1>4. \A i \in g + 1..j : hs[i].h = "SRE"
  BY <1>1 DEF IsAt
<1>5. /\ j < Len(hs)
      /\ hs[j + 1].h = IF j = g \/ hs[j].next = "SRE" THEN "SRE" ELSE hs[g].next
  BY <1>1, <1>3, <1>4
<1>6. j + 1 \in 1..Len(hs)
  BY <1>1, <1>2, <1>5
<1> QED BY <1>1, <1>5, <1>6 DEF IsAt

LEMMA GREInv ==
  ASSUME DecodeInv, yfDecodeGRE
  PROVE  DecodeInv'
<1>1. dec.pc = "gre" /\ fraginfo' = fraginfo /\ pbuf' = pbuf
  BY DEF yfDecodeGRE
<1>2. /\ DOMAIN pbuf = PbufFields /\ DOMAIN pbuf.opt = Opts
      /\ DOMAIN fraginfo = {"frag", "offset", "more"}
      /\ DOMAIN dec = DecFields /\ dec.frame \in Frames /\ dec.pc # "idle"
      /\ dec.at \in 1..Len(dec.frame.hdrs) /\ Hdr.h = "gre"
  BY <1>1, UpperState DEF KindKnown, IsAt, Hdr
<1>3. CASE dec' = Goto("rejected")
  BY <1>1, <1>2, <1>3, RejectedInv
<1>4. CASE dec' = Past(Hdr.len, Hdr.next, IF Hdr.route THEN "sre" ELSE "ip")
  <2>1. /\ DOMAIN dec' = DecFields /\ dec'.frame = dec.frame
        /\ dec'.at = dec.at + 1 /\ dec'.type = Hdr.next
        /\ dec'.pc = IF Hdr.route THEN "sre" ELSE "ip"
    BY <1>2, <1>4, PastFields
  <2>2. ~NoTunnel(dec.frame)
    BY <1>2 DEF NoTunnel, Hdr
  <2>3. CASE Hdr.route
    <3>1. Routed(dec.frame.hdrs[dec.at]) /\ Hdr = dec.frame.hdrs[dec.at]
      BY <1>2, <2>3 DEF Routed, Hdr
    <3>2. dec.at \in dec.at..Len(dec.frame.hdrs) /\ dec.at + 1..dec.at = {}
      BY <1>2
    <3>3. IsAt(dec.at + 1, "SRE")
      BY <1>2, <3>1, <3>2, RoutedChain
    <3>4. \A i \in dec.at + 1..dec'.at : IsAt(i, "SRE")'
      <4> SUFFICES ASSUME NEW i \in dec.at + 1..dec'.at
                   PROVE  IsAt(i, "SRE")'
        OBVIOUS
      <4>1. i = dec.at + 1
        BY <1>2, <2>1
      <4> QED BY <2>1, <3>3, <4>1 DEF IsAt
    <3>5. dec.at \in 1..dec'.at - 1 /\ dec'.pc = "sre"
      BY <1>2, <2>1, <2>3
    <3> QED BY <1>1, <1>2, <2>1, <2>2, <3>1, <3>4, <3>5, TunnelStep DEF TunnelSteps
  <2>4. CASE ~Hdr.route
    <3>1. dec'.type \in ShimTypes \cup {"IPv4", "IPv6"} => IsAt(dec.at, dec.type)'
      <4>1. Hdr.next \in ShimTypes \cup {"IPv4", "IPv6"} => IsAt(dec.at + 1, Hdr.next)
        BY <1>2, <2>4, NextIsThere DEF Routed
      <4> QED BY <2>1, <4>1 DEF IsAt
    <3> QED BY <1>1, <2>1, <2>2, <2>4, <3>1, TunnelStep DEF TunnelSteps
  <2> QED BY <2>3, <2>4
<1> QED BY <1>3, <1>4 DEF yfDecodeGRE, Reject, RejectL4

LEMMA SREInv ==
  ASSUME DecodeInv, yfDecodeSRE
  PROVE  DecodeInv'
<1>1. dec.pc = "sre" /\ fraginfo' = fraginfo /\ pbuf' = pbuf
  BY DEF yfDecodeSRE
<1>2. /\ DOMAIN pbuf = PbufFields /\ DOMAIN pbuf.opt = Opts
      /\ DOMAIN fraginfo = {"frag", "offset", "more"}
      /\ DOMAIN dec = DecFields /\ dec.frame \in Frames /\ dec.at \in Nat \ {0}
      /\ dec.pc # "idle" /\ KindKnown
  BY <1>1 DEF DecodeInv, DecodeShape
<1>3. CASE dec' = Goto("rejected")
  BY <1>1, <1>2, <1>3, RejectedInv
<1>4. CASE dec' = Past(Hdr.len, dec.type, IF Hdr.next = "SRE" THEN "sre" ELSE "ip")
  <2>1. /\ DOMAIN dec' = DecFields /\ dec'.frame = dec.frame
        /\ dec'.at = dec.at + 1 /\ dec'.type = dec.type
        /\ dec'.pc = IF Hdr.next = "SRE" THEN "sre" ELSE "ip"
    BY <1>2, <1>4, PastFields
  <2>2. PICK g \in 1..dec.at - 1 :
          /\ g \in 1..Len(dec.frame.hdrs) /\ Routed(dec.frame.hdrs[g])
          /\ dec.type = dec.frame.hdrs[g].next
          /\ \A i \in g + 1..dec.at : IsAt(i, "SRE")
    BY <1>1, <1>2 DEF KindKnown
  <2>3. ~NoTunnel(dec.frame)
    BY <2>2 DEF NoTunnel, Routed
  <2>4. dec.at \in g..Len(dec.frame.hdrs) /\ dec.at # g
    <3>1. dec.at \in g + 1..dec.at /\ dec.at # g
      BY <1>2
    <3>2. dec.at \in 1..Len(dec.frame.hdrs)
      BY <2>2, <3>1 DEF IsAt
    <3> QED BY <1>2, <3>1, <3>2
  <2>5. IsAt(dec.at + 1, IF Hdr.next = "SRE" THEN "SRE" ELSE dec.type)
    BY <1>2, <2>2, <2>4, RoutedChain DEF Hdr
  <2>6. CASE Hdr.next = "SRE"
    <3>1. IsAt(dec.at + 1, "SRE")
      BY <2>5, <2>6
    <3>2. \A i \in g + 1..dec'.at : IsAt(i, "SRE")'
      <4> SUFFICES ASSUME NEW i \in g + 1..dec'.at
                   PROVE  IsAt(i, "SRE")'
        OBVIOUS
      <4>1. i = dec.at + 1 \/ i \in g + 1..dec.at
        BY <1>2, <2>1
      <4>2. IsAt(i, "SRE")
        BY <2>2, <3>1, <4>1
      <4> QED BY <2>1, <4>2 DEF IsAt
    <3>3. g \in 1..dec'.at - 1 /\ dec'.pc = "sre"
      BY <1>2, <2>1, <2>6
    <3> QED BY <1>1, <2>1, <2>2, <2>3, <3>2, <3>3, TunnelStep DEF TunnelSteps
  <2>7. CASE Hdr.next # "SRE"
    <3>1. IsAt(dec.at, dec.type)'
      BY <2>1, <2>5, <2>7 DEF IsAt
    <3> QED BY <1>1, <2>1, <2>3, <2>7, <3>1, TunnelStep DEF TunnelSteps
  <2> QED BY <2>6, <2>7
<1> QED BY <1>3, <1>4 DEF yfDecodeSRE, RejectL4

LEMMA TcpHeader ==
  ASSUME dec.frame \in Frames, IsAt(dec.at, "tcp")
  PROVE  /\ Hdr.opts \in Seq(ToSet(Hdr.opts)) /\ Len(Hdr.opts) \in Nat
         /\ Hdr.len \in Nat /\ dec.frame.pay \in Nat /\ Octets(Hdr.opts) \in Nat
         /\ SubSeq(Hdr.opts, 1, Len(Hdr.opts)) = Hdr.opts
         /\ IpLen(dec.frame, dec.at) = Hdr.len + dec.frame.pay
         /\ \A j \in 1..Len(Hdr.opts) :
              /\ Hdr.opts[j].len \in Nat
              /\ Hdr.len - 20 > Octets(Hdr.opts) - Octets(SubSeq(Hdr.opts, j, Len(Hdr.opts)))
<1>1. /\ dec.at \in 1..Len(dec.frame.hdrs) /\ Hdr = dec.frame.hdrs[dec.at] /\ Hdr.h = "tcp"
      /\ dec.frame.hdrs[dec.at].h = "tcp"
  BY DEF IsAt, Hdr
<1>2. /\ Hdr.len \in Nat /\ dec.frame.pay \in Nat /\ WithOptions(Hdr)
      /\ dec.at = Len(dec.frame.hdrs)
  BY <1>1, FrameHeaders DEF Transports
<1>3. /\ IpLen(dec.frame, dec.at) = dec.frame.hdrs[dec.at].len + IpLen(dec.frame, dec.at + 1)
      /\ IpLen(dec.frame, dec.at + 1) = dec.frame.pay
  BY <1>1, <1>2, IpLenFrom
<1>4. PICK opts : opts = Hdr.opts
  OBVIOUS
<1>5. /\ opts \in Seq(ToSet(opts))
      /\ \A j \in 1..Len(opts) :
           /\ opts[j].len \in Nat
           /\ Hdr.len - 20 > Octets(opts) - Octets(SubSeq(opts, j, Len(opts)))
  BY <1>2, <1>4, Zenon DEF WithOptions
<1>6. Octets(opts) \in Nat
  BY <1>5, OctetsFirst
<1>7. Len(opts) \in Nat /\ SubSeq(opts, 1, Len(opts)) = opts
  BY <1>5
<1> QED BY <1>1, <1>2, <1>3, <1>4, <1>5, <1>6, <1>7, Zenon

LEMMA TCPInv ==
  ASSUME DecodeInv, yfDecodeTCP
  PROVE  DecodeInv'
<1>1. dec.pc = "tcp" /\ fraginfo' = fraginfo /\ ctx' = ctx
  BY DEF yfDecodeTCP
<1>2. /\ DOMAIN pbuf = PbufFields /\ DOMAIN pbuf.opt = Opts
      /\ DOMAIN fraginfo = {"frag", "offset", "more"}
      /\ DOMAIN dec = DecFields /\ dec.frame \in Frames /\ dec.at \in Nat \ {0}
      /\ dec.pc # "idle" /\ AddressRead
      /\ pbuf.mac # Stale /\ pbuf.vlan # Stale /\ pbuf.vlanId = pbuf.vlan
      /\ NoTunnel(dec.frame) =>
           /\ dec.pos \in Nat /\ pbuf.l2hlen \in Nat
           /\ dec.pos + IpLen(dec.frame, dec.at) = pbuf.iplen + pbuf.l2hlen
      /\ pbuf.proto = "tcp" /\ IsAt(dec.at, "tcp")
  BY <1>1, UpperState DEF UpperSteps, Transports, KindKnown
<1>3. /\ SubSeq(Hdr.opts, 1, Len(Hdr.opts)) = Hdr.opts /\ Len(Hdr.opts) \in Nat
      /\ Hdr.len \in Nat /\ dec.frame.pay \in Nat /\ Octets(Hdr.opts) \in Nat
      /\ IpLen(dec.frame, dec.at) = Hdr.len + dec.frame.pay
  BY <1>2, TcpHeader
<1>4. PICK clear : clear = [pbuf EXCEPT !.tcpinfo = Zero, !.opt = [o \in Opts |-> Zero]]
  OBVIOUS
<1>5. PICK read : read = [clear EXCEPT !.ports = Here, !.tcpinfo = Here]
  OBVIOUS
<1>6. \A b \in {clear, read} :
        /\ DOMAIN b = PbufFields /\ DOMAIN b.opt = Opts
        /\ b.mac = pbuf.mac /\ b.vlan = pbuf.vlan /\ b.vlanId = pbuf.vlanId
        /\ b.l2hlen = pbuf.l2hlen /\ b.addr = pbuf.addr /\ b.ipinfo = pbuf.ipinfo
        /\ b.iplen = pbuf.iplen /\ b.proto = pbuf.proto
  <2>1. /\ DOMAIN clear = PbufFields /\ DOMAIN clear.opt = Opts
        /\ clear.mac = pbuf.mac /\ clear.vlan = pbuf.vlan /\ clear.vlanId = pbuf.vlanId
        /\ clear.l2hlen = pbuf.l2hlen /\ clear.addr = pbuf.addr /\ clear.ipinfo = pbuf.ipinfo
        /\ clear.iplen = pbuf.iplen /\ clear.proto = pbuf.proto
    BY <1>2, <1>4 DEF PbufFields
  <2>2. /\ DOMAIN read = PbufFields /\ DOMAIN read.opt = Opts
        /\ read.mac = clear.mac /\ read.vlan = clear.vlan /\ read.vlanId = clear.vlanId
        /\ read.l2hlen = clear.l2hlen /\ read.addr = clear.addr /\ read.ipinfo = clear.ipinfo
        /\ read.iplen = clear.iplen /\ read.proto = clear.proto
    BY <1>5, <2>1 DEF PbufFields
  <2> QED BY <2>1, <2>2
<1>7. /\ read.ports = Here /\ read.tcpinfo = Here
      /\ \A o \in Opts : read.opt[o] = Zero
  BY <1>2, <1>4, <1>5 DEF PbufFields
<1>8. CASE dec' = Goto("rejected") /\ pbuf' \in {clear, read}
  BY <1>1, <1>2, <1>6, <1>8, RejectedInv
<1>9. ASSUME NEW b \in {clear, read}, fraginfo.frag, Accept(b, dec.pos)
      PROVE  DecodeInv'
  BY <1>1, <1>2, <1>6, <1>9, AcceptedInv DEF UpperSteps, Transports
<1>10. CASE ~ctx.tomode /\ Accept(read, dec.pos + Hdr.len)
  <2>1. NoTunnel(dec.frame) =>
          /\ dec.pos + Hdr.len \in Int
          /\ pbuf.iplen + pbuf.l2hlen = dec.pos + Hdr.len + dec.frame.pay
    BY <1>2, <1>3
  <2>2. "tcp" \in Transports /\ dec.pc \in UpperSteps
    BY <1>1 DEF Transports, UpperSteps
  <2>3. \A o \in Opts : read.opt[o] = OptionField(Hdr, dec.at, o)
    BY <1>7, <1>10 DEF OptionField
  <2> QED BY <1>1, <1>2, <1>6, <1>7, <1>10, <2>1, <2>2, <2>3, AcceptedInv
<1>11. CASE /\ ctx.tomode /\ pbuf' = read
            /\ dec' = [dec EXCEPT !.pc = "opt", !.pos = @ + YF_TCP_HLEN,
                                  !.caplen = @ - Hdr.len, !.opts = Hdr.opts]
  <2>1. /\ DOMAIN dec' = DecFields /\ dec'.pc = "opt" /\ dec'.frame = dec.frame
        /\ dec'.at = dec.at /\ dec'.pos = dec.pos + 20 /\ dec'.opts = Hdr.opts
    BY <1>2, <1>11 DEF DecFields, YF_TCP_HLEN
  <2>2. Hdr' = Hdr /\ Here' = Here /\ IsAt(dec.at, "tcp")'
    BY <1>2, <2>1 DEF Hdr, Here, IsAt
  <2>3. DecodeShape'
    BY <1>1, <1>2, <1>6, <1>11, <2>1 DEF DecodeShape, DecSteps
  <2>4. LinkRead'
    BY <1>2, <1>6, <1>11, <2>1 DEF LinkRead
  <2>5. KindKnown'
    BY <1>2, <1>6, <1>11, <2>1, <2>2 DEF KindKnown, Transports
  <2>6. AddressRead'
    <3>1. /\ pbuf'.addr = pbuf.addr /\ pbuf'.ipinfo = pbuf.ipinfo /\ pbuf'.iplen = pbuf.iplen
          /\ dec.pc \in UpperSteps
      BY <1>1, <1>6, <1>11 DEF UpperSteps, Transports
    <3> QED BY <1>1, <1>2, <2>1, <3>1, AddressKept
  <2>7. OptionsRead'
    <3>1. 1 \in 1..Len(Hdr.opts) + 1 /\ OptionsBefore(Hdr.opts, 1) = {}
      BY <1>3 DEF OptionsBefore
    <3>4. \A o : FieldBefore(Hdr'.opts, 1, dec'.at, o) = Zero
      BY <2>2, <3>1 DEF FieldBefore
    <3>2. /\ ctx'.tomode /\ pbuf'.ports = Here' /\ pbuf'.tcpinfo = Here'
          /\ \A o \in Opts : pbuf'.opt[o] = Zero
      BY <1>1, <1>7, <1>11, <2>2
    <3>3. /\ dec'.opts = SubSeq(Hdr'.opts, 1, Len(Hdr'.opts)) /\ 1 \in 1..Len(Hdr'.opts) + 1
          /\ OptionsBefore(Hdr'.opts, 1) = {}
      BY <1>3, <2>1, <2>2, <3>1
    <3> QED BY <3>2, <3>3, <3>4 DEF OptionsRead
  <2>8. TransportRead'
    BY <2>1 DEF TransportRead
  <2>9. PointerRight'
    <3>1. NoTunnel(dec.frame) =>
            /\ dec'.pos \in Nat
            /\ dec'.pos + IpLen(dec.frame, dec.at)
                 = pbuf.iplen + pbuf.l2hlen + 20 + (Octets(Hdr.opts) - Octets(Hdr.opts))
      <4> SUFFICES ASSUME NoTunnel(dec.frame)
                   PROVE  /\ dec'.pos \in Nat
                          /\ dec'.pos + IpLen(dec.frame, dec.at)
                               = pbuf.iplen + pbuf.l2hlen + 20
                                   + (Octets(Hdr.opts) - Octets(Hdr.opts))
        OBVIOUS
      <4>1. pbuf.iplen + pbuf.l2hlen \in Nat /\ IpLen(dec.frame, dec.at) \in Nat
        BY <1>2, <1>3
      <4>2. Octets(Hdr.opts) - Octets(Hdr.opts) = 0
        BY <1>3
      <4> QED BY <1>2, <2>1, <4>1, <4>2
    <3>2. NoTunnel(dec.frame)' <=> NoTunnel(dec.frame)
      BY <2>1 DEF NoTunnel
    <3> QED BY <1>2, <1>6, <1>11, <2>1, <2>2, <3>1, <3>2
            DEF PointerRight, IpSteps, UpperSteps, TunnelSteps, LinkSteps, Transports
  <2> QED BY <2>3, <2>4, <2>5, <2>6, <2>7, <2>8, <2>9 DEF DecodeInv
<1>12. \/ dec' = Goto("rejected") /\ pbuf' \in {clear, read}
       \/ \E b \in {clear, read} : fraginfo.frag /\ Accept(b, dec.pos)
       \/ ~ctx.tomode /\ Accept(read, dec.pos + Hdr.len)
       \/ /\ ctx.tomode /\ pbuf' = read
          /\ dec' = [dec EXCEPT !.pc = "opt", !.pos = @ + YF_TCP_HLEN,
                                !.caplen = @ - Hdr.len, !.opts = Hdr.opts]
  <2>1. IF dec.caplen < YF_TCP_HLEN
        THEN IF fraginfo.frag THEN Accept(clear, dec.pos)
             ELSE Reject("l4hdr") /\ pbuf' = clear
        ELSE IF dec.caplen < Hdr.len
        THEN IF fraginfo.frag THEN Accept(read, dec.pos)
             ELSE Reject("l4hdr") /\ pbuf' = read
        ELSE IF ~ctx.tomode THEN Accept(read, dec.pos + Hdr.len)
        ELSE /\ pbuf' = read
             /\ dec' = [dec EXCEPT !.pc = "opt", !.pos = @ + YF_TCP_HLEN,
                                   !.caplen = @ - Hdr.len, !.opts = Hdr.opts]
             /\ UNCHANGED stats
    BY <1>4, <1>5, Zenon DEF yfDecodeTCP
  <2>2. clear \in {clear, read} /\ read \in {clear, read}
    OBVIOUS
  <2> QED BY <2>1, <2>2, Zenon DEF Reject
<1> QED BY <1>8, <1>9, <1>10, <1>11, <1>12

(* The options up to the end of the list are those before the j-th.        *)
LEMMA OptionsEnd ==
  ASSUME NEW h, Len(h.opts) \in Nat, NEW j \in 1..Len(h.opts) + 1,
         "eol" \notin OptionsBefore(h.opts, j),
         j # Len(h.opts) + 1 => h.opts[j].kind = "eol", ctx.tomode, NEW k
  PROVE  \A o : OptionField(h, k, o) = FieldBefore(h.opts, j, k, o)
<1>1. Listed(h) = 1..j - 1
  <2>1. \A e \in 1..j - 1 : h.opts[e].kind # "eol"
    BY DEF OptionsBefore
  <2>2. \A i \in 1..j - 1 : i \in 1..Len(h.opts) /\ \A e \in 1..i : e \in 1..j - 1
    OBVIOUS
  <2>3. \A i \in 1..Len(h.opts) : i \notin 1..j - 1 => j \in 1..i /\ j # Len(h.opts) + 1
    OBVIOUS
  <2> QED BY <2>1, <2>2, <2>3 DEF Listed
<1>2. OptionsOf(h) = OptionsBefore(h.opts, j) /\ (ShortScale(h) <=> ShortBefore(h.opts, j))
  BY <1>1, Zenon DEF OptionsOf, OptionsBefore, ShortScale, ShortBefore
<1> QED BY <1>2 DEF OptionField, FieldBefore

LEMMA OptionAdds ==
  ASSUME NEW opts, NEW j \in Nat \ {0}, NEW k
  PROVE  /\ OptionsBefore(opts, j + 1) = OptionsBefore(opts, j) \cup {opts[j].kind}
         /\ \A o : FieldBefore(opts, j + 1, k, o) =
                    IF o # opts[j].kind THEN FieldBefore(opts, j, k, o)
                    ELSE IF o = "ws" /\ opts[j].len < 3 THEN <<"after", k>> ELSE <<"header", k>>
<1>1. 1..(j + 1) - 1 = (1..j - 1) \cup {j} /\ j \notin 1..j - 1 /\ \A i \in 1..j - 1 : j > i /\ ~(i > j)
  OBVIOUS
<1>2. OptionsBefore(opts, j + 1) = OptionsBefore(opts, j) \cup {opts[j].kind}
  BY <1>1 DEF OptionsBefore
<1>3. CASE opts[j].kind = "ws"
  <2>1. ShortBefore(opts, j + 1) <=> opts[j].len < 3
    <3>1. ASSUME opts[j].len < 3
          PROVE  ShortBefore(opts, j + 1)
      <4>1. j \in 1..(j + 1) - 1 /\ \A m \in 1..(j + 1) - 1 : ~(m > j)
        OBVIOUS
      <4> QED BY <1>3, <3>1, <4>1, Zenon DEF ShortBefore
    <3>2. ASSUME ShortBefore(opts, j + 1)
          PROVE  opts[j].len < 3
      <4>1. PICK i \in 1..(j + 1) - 1 :
                   /\ opts[i].kind = "ws" /\ opts[i].len < 3
                   /\ \A m \in 1..(j + 1) - 1 : m > i => opts[m].kind # "ws"
        BY <3>2, Zenon DEF ShortBefore
      <4>2. j \in 1..(j + 1) - 1 /\ (i # j => j > i)
        OBVIOUS
      <4> QED BY <1>3, <4>1, <4>2, Zenon
    <3> QED BY <3>1, <3>2
  <2> QED BY <1>2, <1>3, <2>1 DEF FieldBefore
<1>4. CASE opts[j].kind # "ws"
  <2>1. ShortBefore(opts, j + 1) <=> ShortBefore(opts, j)
    BY <1>1, <1>4, Zenon DEF ShortBefore
  <2> QED BY <1>2, <1>4, <2>1 DEF FieldBefore
<1> QED BY <1>2, <1>3, <1>4

(* What is left of a header, and where its end is.                         *)
LEMMA LeftPositive ==
  ASSUME NEW len \in Nat, NEW a \in Nat, NEW b \in Nat
  PROVE  /\ len - 20 - (a - b) \in Int
         /\ len - 20 > a - b => len - 20 - (a - b) > 0
OBVIOUS

LEMMA HeaderEnd ==
  ASSUME NEW pos \in Nat, NEW len \in Nat, NEW pay \in Nat, NEW iplen \in Nat, NEW l2 \in Nat,
         NEW a \in Nat, NEW b \in Nat, pos + (len + pay) = iplen + l2 + 20 + (a - b)
  PROVE  /\ pos + (len - 20 - (a - b)) \in Int
         /\ iplen + l2 = pos + (len - 20 - (a - b)) + pay
OBVIOUS

LEMMA PointerMoves ==
  ASSUME NEW pos \in Nat, NEW rest \in Nat, NEW iplen \in Nat, NEW l2 \in Nat,
         NEW a \in Nat, NEW b \in Nat, NEW c \in Nat, NEW len \in Nat, b = len + c,
         pos + rest = iplen + l2 + 20 + (a - b)
  PROVE  pos + len \in Nat /\ pos + len + rest = iplen + l2 + 20 + (a - c)
OBVIOUS

LEMMA TCPOptionInv ==
  ASSUME DecodeInv, yfDecodeTCPOption
  PROVE  DecodeInv'
<1>1. dec.pc = "opt" /\ fraginfo' = fraginfo /\ ctx' = ctx
  BY DEF yfDecodeTCPOption
<1>2. /\ DOMAIN pbuf = PbufFields /\ DOMAIN pbuf.opt = Opts
      /\ DOMAIN fraginfo = {"frag", "offset", "more"}
      /\ DOMAIN dec = DecFields /\ dec.frame \in Frames /\ dec.at \in Nat \ {0}
      /\ dec.pc # "idle" /\ AddressRead /\ OptionsRead /\ PointerRight
      /\ pbuf.mac # Stale /\ pbuf.vlan # Stale /\ pbuf.vlanId = pbuf.vlan
      /\ pbuf.proto = "tcp" /\ IsAt(dec.at, "tcp")
  BY <1>1, UpperState DEF KindKnown
<1> DEFINE opts == Hdr.opts
           n == Len(opts)
           from(i) == SubSeq(opts, i, n)
           left == Hdr.len - YF_TCP_HLEN - (Octets(opts) - Octets(dec.opts))
           o == Head(dec.opts)
<1>3. /\ opts \in Seq(ToSet(opts)) /\ n \in Nat
      /\ Hdr.len \in Nat /\ dec.frame.pay \in Nat /\ Octets(opts) \in Nat
      /\ IpLen(dec.frame, dec.at) = Hdr.len + dec.frame.pay
      /\ \A j \in 1..n : opts[j].len \in Nat /\ Hdr.len - 20 > Octets(opts) - Octets(from(j))
  BY <1>2, TcpHeader, Zenon
<1>4. /\ ctx.tomode /\ pbuf.ports = Here /\ pbuf.tcpinfo = Here
      /\ \E j \in 1..n + 1 :
           /\ dec.opts = from(j) /\ "eol" \notin OptionsBefore(opts, j)
           /\ \A op \in Opts : pbuf.opt[op] = FieldBefore(opts, j, dec.at, op)
  BY <1>1, <1>2 DEF OptionsRead
<1>5. PICK j \in 1..n + 1 :
        /\ dec.opts = from(j) /\ "eol" \notin OptionsBefore(opts, j)
        /\ \A op \in Opts : pbuf.opt[op] = FieldBefore(opts, j, dec.at, op)
  BY <1>4
<1>6. /\ Octets(dec.opts) \in Nat
      /\ j # n + 1 =>
           /\ dec.opts # <<>> /\ o = opts[j] /\ Tail(dec.opts) = from(j + 1)
           /\ Octets(dec.opts) = opts[j].len + Octets(Tail(dec.opts))
           /\ Octets(Tail(dec.opts)) \in Nat /\ opts[j].len \in Nat /\ left > 0
  <2>1. \A k \in 1..Len(opts) : opts[k].len \in Nat
    BY <1>3
  <2>2. /\ Octets(from(j)) \in Nat
        /\ j # n + 1 =>
             /\ from(j) # <<>> /\ Head(from(j)) = opts[j] /\ Tail(from(j)) = from(j + 1)
             /\ Octets(from(j)) = opts[j].len + Octets(from(j + 1))
    BY <1>3, <2>1, OctetsFrom, Zenon
  <2>3. ASSUME j # n + 1
        PROVE  Octets(from(j + 1)) \in Nat /\ opts[j].len \in Nat /\ left > 0
    <3>1. j + 1 \in 1..Len(opts) + 1 /\ j \in 1..n
      BY <1>3, <2>3
    <3>2. Octets(from(j + 1)) \in Nat
      BY <1>3, <2>1, <3>1, OctetsFrom, Zenon
    <3>3. opts[j].len \in Nat /\ Hdr.len - 20 > Octets(opts) - Octets(dec.opts)
      BY <1>3, <1>5, <3>1, Zenon
    <3>4. Octets(dec.opts) \in Nat
      BY <1>5, <2>2, Zenon
    <3>5. left > 0
      BY <1>3, <3>3, <3>4, LeftPositive, Zenon DEF YF_TCP_HLEN
    <3> QED BY <3>2, <3>3, <3>5, Zenon
  <2> HIDE DEF opts, n, from, left
  <2> QED BY <1>5, <2>2, <2>3
<1>7. NoTunnel(dec.frame) =>
        /\ dec.pos \in Nat /\ pbuf.l2hlen \in Nat /\ pbuf.iplen \in Nat
        /\ dec.pos + IpLen(dec.frame, dec.at)
             = pbuf.iplen + pbuf.l2hlen + 20 + (Octets(opts) - Octets(dec.opts))
  <2>1. pbuf.iplen \in Nat
    <3>1. PICK ip \in 1..dec.at - 1 : pbuf.iplen = IpLen(dec.frame, ip)
      BY <1>1, <1>2 DEF AddressRead
    <3>2. ip \in 1..Len(dec.frame.hdrs) + 1
      <4>1. dec.at \in 1..Len(dec.frame.hdrs) /\ Len(dec.frame.hdrs) \in Nat
        BY <1>2, FrameHeaders DEF IsAt
      <4> QED BY <4>1
    <3> QED BY <1>2, <3>1, <3>2, IpLenFrom
  <2> QED BY <1>1, <1>2, <2>1 DEF PointerRight, LinkSteps
<1>8. ASSUME \A op : OptionField(Hdr, dec.at, op) = FieldBefore(opts, j, dec.at, op),
             Accept(pbuf, dec.pos + left)
      PROVE  DecodeInv'
  <2>1. NoTunnel(dec.frame) =>
          /\ dec.pos + left \in Int
          /\ pbuf.iplen + pbuf.l2hlen = dec.pos + left + dec.frame.pay
    <3> SUFFICES ASSUME NoTunnel(dec.frame)
                 PROVE  /\ dec.pos + left \in Int
                        /\ pbuf.iplen + pbuf.l2hlen = dec.pos + left + dec.frame.pay
      OBVIOUS
    <3>1. /\ dec.pos \in Nat /\ pbuf.l2hlen \in Nat /\ pbuf.iplen \in Nat
          /\ dec.pos + (Hdr.len + dec.frame.pay)
               = pbuf.iplen + pbuf.l2hlen + 20 + (Octets(opts) - Octets(dec.opts))
      BY <1>3, <1>7, Zenon
    <3>2. /\ Hdr.len \in Nat /\ dec.frame.pay \in Nat /\ Octets(opts) \in Nat
          /\ Octets(dec.opts) \in Nat
      BY <1>3, <1>6, Zenon
    <3> HIDE DEF opts
    <3>3. /\ dec.pos + (Hdr.len - 20 - (Octets(opts) - Octets(dec.opts))) \in Int
          /\ pbuf.iplen + pbuf.l2hlen
               = dec.pos + (Hdr.len - 20 - (Octets(opts) - Octets(dec.opts))) + dec.frame.pay
      <4>1. PICK pos \in Nat, len \in Nat, pay \in Nat, iplen \in Nat, l2 \in Nat,
                 a \in Nat, b \in Nat :
              /\ pos = dec.pos /\ len = Hdr.len /\ pay = dec.frame.pay /\ iplen = pbuf.iplen
              /\ l2 = pbuf.l2hlen /\ a = Octets(opts) /\ b = Octets(dec.opts)
        BY <3>1, <3>2, Zenon
      <4>2. pos + (len + pay) = iplen + l2 + 20 + (a - b)
        BY <3>1, <4>1, Zenon
      <4>3. /\ pos + (len - 20 - (a - b)) \in Int
            /\ iplen + l2 = pos + (len - 20 - (a - b)) + pay
        BY <4>2, HeaderEnd
      <4> QED BY <4>1, <4>3, Zenon
    <3> QED BY <3>3, Zenon DEF YF_TCP_HLEN
  <2>2. "tcp" \in Transports
    BY DEF Transports
  <2>3. \A op \in Opts : pbuf.opt[op] = OptionField(Hdr, dec.at, op)
    BY <1>5, <1>8, Zenon
  <2> HIDE DEF opts, left, n, from
  <2> QED BY <1>1, <1>2, <1>4, <1>7, <1>8, <2>1, <2>2, <2>3, AcceptedInv
<1>9. CASE dec.opts = <<>> /\ Accept(pbuf, dec.pos + left)
  <2>1. j = n + 1
    BY <1>6, <1>9
  <2> QED BY <1>3, <1>4, <1>5, <1>8, <1>9, <2>1, OptionsEnd
<1>10. CASE dec.opts # <<>> /\ o.kind = "eol" /\ Accept(pbuf, dec.pos + left)
  <2>1. j # n + 1 => opts[j].kind = "eol"
    BY <1>6, <1>10
  <2> QED BY <1>3, <1>4, <1>5, <1>8, <1>10, <2>1, OptionsEnd
<1>11. CASE pbuf' = pbuf /\ dec' = Goto("rejected")
  BY <1>1, <1>2, <1>11, RejectedInv
<1>12. CASE /\ dec.opts # <<>> /\ o.kind # "eol"
            /\ pbuf' = IF o.kind \in Opts THEN [pbuf EXCEPT !.opt[o.kind] = OptionRead(o)] ELSE pbuf
            /\ dec' = [dec EXCEPT !.pos = @ + o.len, !.opts = Tail(@)]
  <2>1. j # n + 1 /\ j \in Nat \ {0} /\ j + 1 \in 1..n + 1
    <3>1. j = n + 1 => dec.opts = <<>>
      <4>1. \A k \in 1..Len(opts) : opts[k].len \in Nat
        BY <1>3
      <4> QED BY <1>3, <1>5, <4>1, OctetsFrom, Zenon
    <3>2. n \in Nat /\ j # n + 1
      BY <1>3, <1>12, <3>1, Zenon
    <3> HIDE DEF n
    <3> QED BY <3>2
  <2>2. PICK kind, value : /\ kind = o.kind /\ kind = opts[j].kind
                           /\ value = OptionRead(o) /\ value = OptionRead(opts[j])
    BY <1>6, <2>1, Zenon
  <2>3. /\ DOMAIN pbuf' = PbufFields /\ DOMAIN pbuf'.opt = Opts
        /\ pbuf'.mac = pbuf.mac /\ pbuf'.vlan = pbuf.vlan /\ pbuf'.vlanId = pbuf.vlanId
        /\ pbuf'.l2hlen = pbuf.l2hlen /\ pbuf'.addr = pbuf.addr /\ pbuf'.ipinfo = pbuf.ipinfo
        /\ pbuf'.iplen = pbuf.iplen /\ pbuf'.proto = pbuf.proto
        /\ pbuf'.ports = pbuf.ports /\ pbuf'.tcpinfo = pbuf.tcpinfo
        /\ \A op \in Opts : pbuf'.opt[op] = IF op = kind THEN value ELSE pbuf.opt[op]
    <3>1. pbuf' = IF kind \in Opts THEN [pbuf EXCEPT !.opt[kind] = value] ELSE pbuf
      BY <1>12, <2>2
    <3> HIDE DEF o
    <3> QED BY <1>2, <3>1 DEF PbufFields
  <2>4. /\ DOMAIN dec' = DecFields /\ dec'.pc = "opt" /\ dec'.frame = dec.frame
        /\ dec'.at = dec.at /\ dec'.pos = dec.pos + opts[j].len /\ dec'.opts = from(j + 1)
    <3>1. dec' = [dec EXCEPT !.pos = @ + opts[j].len, !.opts = from(j + 1)]
      BY <1>6, <1>12, <2>1
    <3> HIDE DEF o, from, opts
    <3> QED BY <1>1, <1>2, <3>1 DEF DecFields
  <2>5. Hdr' = Hdr /\ Here' = Here /\ IsAt(dec.at, "tcp")'
    BY <1>2, <2>4 DEF Hdr, Here, IsAt
  <2>6. DecodeShape'
    BY <1>1, <1>2, <2>3, <2>4 DEF DecodeShape, DecSteps
  <2>7. LinkRead'
    BY <1>2, <2>3, <2>4 DEF LinkRead
  <2>8. KindKnown'
    BY <1>2, <2>3, <2>4, <2>5 DEF KindKnown, Transports
  <2>9. AddressRead'
    BY <1>1, <1>2, <2>3, <2>4, AddressKept
  <2>10. OptionsRead'
    <3>1. /\ OptionsBefore(opts, j + 1) = OptionsBefore(opts, j) \cup {kind}
          /\ \A op : FieldBefore(opts, j + 1, dec.at, op) =
                     IF op # kind THEN FieldBefore(opts, j, dec.at, op) ELSE value
      <4>1. value = IF kind = "ws" /\ opts[j].len < 3 THEN <<"after", dec.at>>
                    ELSE <<"header", dec.at>>
        BY <2>2 DEF OptionRead, Here
      <4> HIDE DEF opts, o
      <4>2. PICK op, k : op = opts /\ k = dec.at
        OBVIOUS
      <4>3. /\ OptionsBefore(op, j + 1) = OptionsBefore(op, j) \cup {op[j].kind}
            /\ \A x : FieldBefore(op, j + 1, k, x) =
                      IF x # op[j].kind THEN FieldBefore(op, j, k, x)
                      ELSE IF x = "ws" /\ op[j].len < 3 THEN <<"after", k>>
                      ELSE <<"header", k>>
        BY <2>1, OptionAdds, Zenon
      <4> QED BY <2>2, <4>1, <4>2, <4>3
    <3>2. "eol" \notin OptionsBefore(opts, j + 1)
      BY <1>5, <1>12, <2>2, <3>1
    <3>3. \A op \in Opts :
            pbuf'.opt[op] = FieldBefore(opts, j + 1, dec.at, op)
      <4> HIDE DEF opts, n, from
      <4> QED BY <1>5, <2>3, <3>1
    <3>4. /\ dec'.opts = SubSeq(Hdr'.opts, j + 1, Len(Hdr'.opts))
          /\ j + 1 \in 1..Len(Hdr'.opts) + 1
          /\ "eol" \notin OptionsBefore(Hdr'.opts, j + 1)
          /\ \A op \in Opts : pbuf'.opt[op] = FieldBefore(Hdr'.opts, j + 1, dec'.at, op)
      BY <2>1, <2>4, <2>5, <3>2, <3>3
    <3>5. ctx'.tomode /\ pbuf'.ports = Here' /\ pbuf'.tcpinfo = Here'
      BY <1>1, <1>4, <2>3, <2>5
    <3> QED BY <3>4, <3>5 DEF OptionsRead
  <2>11. TransportRead'
    BY <2>4 DEF TransportRead
  <2>12. PointerRight'
    <3>1. NoTunnel(dec.frame) =>
            /\ dec'.pos \in Nat
            /\ dec'.pos + IpLen(dec.frame, dec.at)
                 = pbuf.iplen + pbuf.l2hlen + 20 + (Octets(opts) - Octets(dec'.opts))
      <4>1. /\ Octets(dec.opts) = opts[j].len + Octets(dec'.opts)
            /\ Octets(dec'.opts) \in Nat /\ opts[j].len \in Nat
        BY <1>6, <2>1, <2>4
      <4> SUFFICES ASSUME NoTunnel(dec.frame)
                   PROVE  /\ dec'.pos \in Nat
                          /\ dec'.pos + IpLen(dec.frame, dec.at)
                               = pbuf.iplen + pbuf.l2hlen + 20
                                   + (Octets(opts) - Octets(dec'.opts))
        OBVIOUS
      <4>2. /\ dec.pos \in Nat /\ pbuf.l2hlen \in Nat /\ pbuf.iplen \in Nat
            /\ dec.pos + IpLen(dec.frame, dec.at)
                 = pbuf.iplen + pbuf.l2hlen + 20 + (Octets(opts) - Octets(dec.opts))
        BY <1>7, Zenon
      <4>3. IpLen(dec.frame, dec.at) \in Nat
        BY <1>3
      <4>4. Octets(opts) \in Nat /\ Octets(dec.opts) \in Nat /\ dec'.pos = dec.pos + opts[j].len
        BY <1>3, <1>6, <2>4, Zenon
      <4> HIDE DEF opts
      <4>5. PICK pos \in Nat, rest \in Nat, iplen \in Nat, l2 \in Nat,
                 a \in Nat, b \in Nat, c \in Nat, len \in Nat :
              /\ pos = dec.pos /\ rest = IpLen(dec.frame, dec.at) /\ iplen = pbuf.iplen
              /\ l2 = pbuf.l2hlen /\ a = Octets(opts) /\ b = Octets(dec.opts)
              /\ c = Octets(dec'.opts) /\ len = opts[j].len
        BY <4>1, <4>2, <4>3, <4>4, Zenon
      <4>6. b = len + c /\ pos + rest = iplen + l2 + 20 + (a - b)
        BY <4>1, <4>2, <4>5, Zenon
      <4>7. pos + len \in Nat /\ pos + len + rest = iplen + l2 + 20 + (a - c)
        BY <4>6, PointerMoves
      <4> QED BY <4>4, <4>5, <4>7, Zenon
    <3>2. NoTunnel(dec.frame)' <=> NoTunnel(dec.frame)
      BY <2>4 DEF NoTunnel
    <3> QED BY <1>7, <2>3, <2>4, <2>5, <3>1, <3>2
            DEF PointerRight, IpSteps, UpperSteps, TunnelSteps, LinkSteps, Transports
  <2> QED BY <2>6, <2>7, <2>8, <2>9, <2>10, <2>11, <2>12 DEF DecodeInv
<1>13. \/ dec.opts = <<>> /\ Accept(pbuf, dec.pos + left)
       \/ dec.opts # <<>> /\ o.kind = "eol" /\ Accept(pbuf, dec.pos + left)
       \/ pbuf' = pbuf /\ dec' = Goto("rejected")
       \/ /\ dec.opts # <<>> /\ o.kind # "eol"
          /\ pbuf' = IF o.kind \in Opts THEN [pbuf EXCEPT !.opt[o.kind] = OptionRead(o)] ELSE pbuf
          /\ dec' = [dec EXCEPT !.pos = @ + o.len, !.opts = Tail(@)]
  <2>1. IF dec.opts = <<>> \/ left <= 0 THEN Accept(pbuf, dec.pos + left)
        ELSE IF o.kind = "eol" THEN Accept(pbuf, dec.pos + left)
        ELSE IF o.kind # "nop" /\ (left < 2 \/ left < o.len \/ o.len < MinLen(o.kind))
        THEN Reject("l4hdr") /\ UNCHANGED pbuf
        ELSE /\ pbuf' = IF o.kind \in Opts THEN [pbuf EXCEPT !.opt[o.kind] = OptionRead(o)]
                        ELSE pbuf
             /\ dec' = [dec EXCEPT !.pos = @ + o.len, !.opts = Tail(@)]
             /\ UNCHANGED stats
    BY Zenon DEF yfDecodeTCPOption
  <2>2. dec.opts = <<>> \/ ~(left <= 0)
    <3>1. j = n + 1 => dec.opts = <<>>
      <4>1. \A k \in 1..Len(opts) : opts[k].len \in Nat
        BY <1>3
      <4> QED BY <1>3, <1>5, <4>1, OctetsFrom, Zenon
    <3>2. left \in Int
      <4> HIDE DEF opts
      <4> QED BY <1>3, <1>6 DEF YF_TCP_HLEN
    <3> HIDE DEF left
    <3> QED BY <1>6, <3>1, <3>2
  <2> HIDE DEF left, o
  <2> QED BY <2>1, <2>2, Zenon DEF Reject
<1> QED BY <1>9, <1>10, <1>11, <1>12, <1>13

LEMMA DecodeInvNext == DecodeInv /\ [DecodeNext]_decodeVars => DecodeInv'
<1> SUFFICES ASSUME DecodeInv, [DecodeNext]_decodeVars
             PROVE  DecodeInv'
  OBVIOUS
<1>1. ASSUME NEW f \in Frames, NEW cap \in CapLens(f), yfDecodeToPBuf(f, cap)
      PROVE  DecodeInv'
  BY <1>1, StartInv
<1>2. CASE yfDecodeL2 \/ yfDecodeL2PPP \/ yfDecodeL2Shim
  BY <1>2, L2Inv, L2PPPInv, L2ShimInv
<1>3. CASE yfDecodeIP \/ yfDecodeIPv4 \/ yfDecodeIPv6 \/ yfDecodeIPv6Ext
  BY <1>3, IPInv, IPv4Inv, IPv6Inv, IPv6ExtInv
<1>4. CASE ChooseL4 \/ yfDecodeTCP \/ yfDecodeTCPOption
  BY <1>4, ChooseL4Inv, TCPInv, TCPOptionInv
<1>5. CASE yfDecodeUDP \/ yfDecodeICMP
  BY <1>5, PortsInv DEF yfDecodeUDP, yfDecodeICMP
<1>6. CASE yfDecodeGRE \/ yfDecodeSRE
  BY <1>6, GREInv, SREInv
<1>7. CASE UNCHANGED decodeVars
  <2>1. /\ ctx' = ctx /\ stats' = stats /\ pbuf' = pbuf /\ fraginfo' = fraginfo
        /\ dec' = dec
    BY <1>7 DEF decodeVars
  <2>2. Hdr' = Hdr /\ Here' = Here
    BY <2>1 DEF Hdr, Here
  <2>3. DecodeShape' /\ LinkRead'
    BY <2>1 DEF DecodeInv, DecodeShape, LinkRead
  <2>4. ASSUME dec'.pc # "idle"
        PROVE  KindKnown' /\ AddressRead' /\ OptionsRead' /\ TransportRead' /\ PointerRight'
    <3>1. KindKnown /\ AddressRead /\ OptionsRead /\ TransportRead /\ PointerRight
      BY <2>1, <2>4 DEF DecodeInv
    <3>2. KindKnown' <=> KindKnown
      BY <2>1, <2>2 DEF KindKnown, IsAt
    <3>3. (AddressRead' <=> AddressRead) /\ (PointerRight' <=> PointerRight)
      BY <2>1, <2>2, Zenon DEF AddressRead, Passed, PointerRight, NoTunnel
    <3>4. OptionsRead' <=> OptionsRead
      BY <2>1, <2>2 DEF OptionsRead
    <3>5. TransportRead' <=> TransportRead
      <4>1. \A o : OptionField(Hdr, dec.at, o)' = OptionField(Hdr, dec.at, o)
        BY <2>1, <2>2, OptionFieldKept, Zenon
      <4> QED BY <2>1, <2>2, <4>1 DEF TransportRead, IsAt
    <3> QED BY <3>1, <3>2, <3>3, <3>4, <3>5
  <2> QED BY <2>3, <2>4 DEF DecodeInv
<1> QED BY <1>1, <1>2, <1>3, <1>4, <1>5, <1>6, <1>7 DEF DecodeNext

LEMMA DecodeInvariant == DecodeSpec => []DecodeInv
BY DecodeInvInit, DecodeInvNext, PTL DEF DecodeSpec

(* The structures of an accepted packet are valid, also in a buffer that   *)
(* is reused, through tunnels and for packets cut short, for every set of  *)
(* frames and every capture length (yfDecodeToPBuf).                       *)
THEOREM BuffersAlwaysValid == DecodeSpec => []BufferValid
<1>1. DecodeInv => BufferValid
  <2> SUFFICES ASSUME DecodeInv, dec.pc = "accepted", ~fraginfo.frag
               PROVE  LET ip == pbuf.addr[2]
                          l4 == pbuf.ports[2]
                          hs == dec.frame.hdrs
                      IN  /\ pbuf.addr[1] = "header" /\ pbuf.ipinfo = pbuf.addr
                          /\ pbuf.iplen = IpLen(dec.frame, ip)
                          /\ pbuf.mac # Stale /\ pbuf.vlanId = pbuf.vlan /\ pbuf.vlan # Stale
                          /\ IF pbuf.proto \notin {"tcp", "udp", "icmp"} THEN pbuf.ports = Zero
                             ELSE /\ pbuf.ports[1] = "header" /\ l4 > ip
                                  /\ hs[l4].h = pbuf.proto
                                  /\ \A k \in ip + 1..l4 - 1 :
                                       /\ hs[k].h \in {"HOP", "FRAG"}
                                       /\ LaterFragment(hs[k]) => Misread(hs[k])
                          /\ pbuf.proto = "tcp" =>
                               /\ pbuf.tcpinfo = pbuf.ports
                               /\ \A o \in Opts : pbuf.opt[o] = OptionField(hs[l4], l4, o)
    BY Zenon DEF BufferValid
  <2>1. /\ dec.at \in Nat /\ AddressRead /\ TransportRead
        /\ pbuf.mac # Stale /\ pbuf.vlan # Stale /\ pbuf.vlanId = pbuf.vlan
    BY DEF DecodeInv, DecodeShape, LinkRead, LinkSteps
  <2>2. PICK ip \in 1..dec.at - 1 :
          /\ pbuf.addr = <<"header", ip>> /\ pbuf.ipinfo = pbuf.addr
          /\ pbuf.iplen = IpLen(dec.frame, ip)
          /\ \A k \in ip + 1..dec.at - 1 :
               /\ dec.frame.hdrs[k].h \in {"HOP", "FRAG"}
               /\ LaterFragment(dec.frame.hdrs[k]) => Misread(dec.frame.hdrs[k])
    BY <2>1 DEF AddressRead, Passed
  <2>3. pbuf.addr[1] = "header" /\ pbuf.addr[2] = ip
    BY <2>2
  <2>4. CASE pbuf.proto \notin Transports
    BY <2>1, <2>2, <2>3, <2>4 DEF TransportRead, Transports
  <2>5. CASE pbuf.proto \in Transports
    <3>1. /\ IsAt(dec.at, pbuf.proto) /\ pbuf.ports = Here
          /\ pbuf.proto = "tcp" =>
               /\ pbuf.tcpinfo = Here
               /\ \A o \in Opts : pbuf.opt[o] = OptionField(Hdr, dec.at, o)
      BY <2>1, <2>5 DEF TransportRead
    <3>2. pbuf.ports[1] = "header" /\ pbuf.ports[2] = dec.at
      BY <3>1 DEF Here
    <3>3. dec.at > ip /\ dec.frame.hdrs[dec.at].h = pbuf.proto
      BY <2>1, <2>2, <3>1 DEF IsAt
    <3>4. Hdr = dec.frame.hdrs[dec.at]
      BY DEF Hdr
    <3> QED BY <2>1, <2>2, <2>3, <2>5, <3>1, <3>2, <3>3, <3>4 DEF Transports
  <2> QED BY <2>4, <2>5
<1> QED BY <1>1, DecodeInvariant, PTL

(* Outside of tunnels the length of the payload that the flow table takes  *)
(* from a packet is that of the payload, for every set of frames and every *)
(* capture length (yfFlowPBuf).                                            *)
THEOREM PayloadLengthsRight == DecodeSpec => []PayloadLength
<1>1. DecodeInv => PayloadLength
  <2> SUFFICES ASSUME DecodeInv, dec.pc = "accepted", ~fraginfo.frag,
                      pbuf.proto \in {"tcp", "udp", "icmp"}, NoTunnel(dec.frame)
               PROVE  pbuf.iplen - pbuf.allHeaderLen + pbuf.l2hlen = dec.frame.pay
    BY Zenon DEF PayloadLength, NoTunnel
  <2>1. /\ dec.frame \in Frames /\ dec.at \in Nat /\ AddressRead /\ TransportRead
        /\ pbuf.iplen + pbuf.l2hlen = pbuf.allHeaderLen + dec.frame.pay
        /\ pbuf.allHeaderLen \in Int /\ pbuf.l2hlen \in Nat
    BY DEF DecodeInv, DecodeShape, PointerRight, LinkSteps, Transports
  <2>2. pbuf.iplen \in Nat
    <3>1. PICK ip \in 1..dec.at - 1 : pbuf.iplen = IpLen(dec.frame, ip)
      BY <2>1 DEF AddressRead
    <3>2. dec.at \in 1..Len(dec.frame.hdrs) /\ Len(dec.frame.hdrs) \in Nat
      BY <2>1, FrameHeaders DEF TransportRead, IsAt, Transports
    <3>3. ip \in 1..Len(dec.frame.hdrs) + 1
      BY <3>2
    <3> QED BY <2>1, <3>1, <3>3, IpLenFrom
  <2>3. dec.frame.pay \in Nat
    BY <2>1, FrameHeaders
  <2> QED BY <2>1, <2>2, <2>3
<1> QED BY <1>1, DecodeInvariant, PTL

----------------------------------------------------------------------------
(***************************************************************************)
(* The gaps of SeqTrack                                                    *)
(***************************************************************************)
Half == SeqSpace \div 2

LEMMA HalfTheSpace ==
  SeqSpace \in Nat /\ SeqSpace > 1 /\ Half \in Nat /\ Half > 0 /\ SeqSpace = 2 * Half
BY SeqAssumption DEF Half

LEMMA DiffValue ==
  ASSUME NEW a \in 0..SeqSpace - 1, NEW b \in 0..SeqSpace - 1
  PROVE  Diff(a, b) = IF a >= b THEN a - b ELSE a - b + SeqSpace
<1>1. SeqSpace \in Nat /\ SeqSpace > 1
  BY HalfTheSpace
<1>2. a - b \in Int /\ (a - b + SeqSpace) % SeqSpace = (a - b) % SeqSpace
  BY <1>1
<1>3. \A x \in 0..SeqSpace - 1 : x % SeqSpace = x
  BY <1>1
<1>4. CASE a >= b
  <2>1. a - b \in 0..SeqSpace - 1
    BY <1>1, <1>4
  <2> QED BY <1>3, <1>4, <2>1 DEF Diff
<1>5. CASE ~(a >= b)
  <2>1. a - b + SeqSpace \in 0..SeqSpace - 1
    BY <1>1, <1>5
  <2> QED BY <1>2, <1>3, <1>5, <2>1 DEF Diff
<1> QED BY <1>4, <1>5

LEMMA RemainderNear ==
  ASSUME NEW S \in Nat, S > 1, NEW v \in -S..S + S - 1
  PROVE  v % S \in 0..S - 1 /\ v % S \in {v, v + S, v - S}
<1>1. v \in 0..S - 1 => v % S = v
  OBVIOUS
<1>2. ASSUME v \in S..S + S - 1
      PROVE  v % S = v - S
  BY <1>2
<1>3. ASSUME v \in -S..-1
      PROVE  v % S = v + S
  BY <1>3
<1>4. v \in 0..S - 1 \/ v \in S..S + S - 1 \/ v \in -S..-1
  OBVIOUS
<1> QED BY <1>1, <1>2, <1>3, <1>4

LEMMA SeqnoValue ==
  ASSUME qs.isn \in 0..SeqSpace - 1, NEW p \in -Half..Half
  PROVE  /\ Seqno(p) \in 0..SeqSpace - 1
         /\ Seqno(p) \in {qs.isn + p, qs.isn + p + SeqSpace, qs.isn + p - SeqSpace}
<1>1. SeqSpace \in Nat /\ SeqSpace > 1 /\ Half \in Nat /\ Half > 0 /\ SeqSpace = 2 * Half
  BY HalfTheSpace
<1>2. PICK n \in 0..SeqSpace - 1 : n = qs.isn
  OBVIOUS
<1>3. PICK v \in Int : v = n + p
  BY <1>1
<1>4. v \in -SeqSpace..SeqSpace + SeqSpace - 1
  BY <1>1, <1>3
<1>5. v % SeqSpace \in 0..SeqSpace - 1 /\ v % SeqSpace \in {v, v + SeqSpace, v - SeqSpace}
  BY <1>1, <1>4, RemainderNear
<1>6. Seqno(p) = v % SeqSpace
  BY <1>2, <1>3 DEF Seqno
<1>7. Seqno(p) \in {n + p, n + p + SeqSpace, n + p - SeqSpace}
  BY <1>1, <1>3, <1>5, <1>6
<1> QED BY <1>2, <1>5, <1>6, <1>7

(* Numbers of the stream less than half the space apart have sequence      *)
(* numbers that compare as they do.                                        *)
LEMMA SeqnosCompare ==
  ASSUME qs.isn \in 0..SeqSpace - 1,
         NEW p \in -Half..Half, NEW q \in -Half..Half, p - q < Half, q - p < Half
  PROVE  /\ Seqno(p) \in 0..SeqSpace - 1 /\ Seqno(q) \in 0..SeqSpace - 1
         /\ Seqno(p) = Seqno(q) <=> p = q
         /\ qfWrapCompare(Seqno(p), Seqno(q)) < 0 <=> p < q
         /\ qfWrapCompare(Seqno(p), Seqno(q)) > 0 <=> p > q
         /\ qfWrapCompare(Seqno(p), Seqno(q)) >= 0 <=> p >= q
         /\ p >= q => Diff(Seqno(p), Seqno(q)) = p - q
<1>1. /\ SeqSpace \in Nat /\ Half \in Nat /\ Half > 0 /\ SeqSpace = 2 * Half
  BY HalfTheSpace
<1>2. PICK a, b, d : a = Seqno(p) /\ b = Seqno(q) /\ d = Diff(a, b)
  OBVIOUS
<1>3. PICK half \in Nat : half = Half
  BY <1>1
<1>4. p \in Int /\ q \in Int /\ qs.isn \in Int
  BY <1>1
<1>5. p - q < half /\ q - p < half
  BY <1>3
<1>6. /\ a \in 0..SeqSpace - 1 /\ a \in {qs.isn + p, qs.isn + p + SeqSpace, qs.isn + p - SeqSpace}
      /\ b \in 0..SeqSpace - 1 /\ b \in {qs.isn + q, qs.isn + q + SeqSpace, qs.isn + q - SeqSpace}
  BY <1>2, SeqnoValue
<1>7. /\ a \in 0..SeqSpace - 1 /\ b \in 0..SeqSpace - 1
      /\ a - b \in {p - q, p - q + SeqSpace, p - q - SeqSpace}
  <2>1. PICK n \in Int : n = qs.isn
    BY <1>4
  <2> QED BY <1>1, <1>3, <1>4, <1>5, <1>6, <2>1
<1>8. d = IF a >= b THEN a - b ELSE a - b + SeqSpace
  BY <1>2, <1>7, DiffValue
<1>9. /\ a = b <=> p = q
      /\ a # b => (d >= half <=> p < q)
      /\ p >= q => d = p - q
  BY <1>1, <1>3, <1>4, <1>5, <1>7, <1>8
<1>10. PICK w : w = qfWrapCompare(a, b)
  OBVIOUS
<1>11. w = IF p = q THEN 0 ELSE IF p < q THEN -1 ELSE 1
  BY <1>2, <1>3, <1>9, <1>10 DEF qfWrapCompare, Half
<1>12. /\ w < 0 <=> p < q
       /\ w > 0 <=> p > q
       /\ w >= 0 <=> p >= q
  BY <1>4, <1>11
<1> QED BY <1>2, <1>7, <1>9, <1>10, <1>12

----------------------------------------------------------------------------
(* The gaps as numbers of the stream: the highest first, apart from each   *)
(* other, below t, and the cells after the last one unused.                *)
Stack(lo, hi, t) ==
  /\ lo \in [Cells -> Nat] /\ hi \in [Cells -> Nat]
  /\ \A c \in Cells : lo[c] <= hi[c] /\ (lo[c] < hi[c] => hi[c] < t)
  /\ \A c, e \in Cells : c < e /\ lo[e] < hi[e] => lo[c] < hi[c] /\ hi[e] < lo[c]

Held(lo, hi, o) == \E c \in Cells : lo[c] <= o /\ o < hi[c]

GapOf(lo, hi, c) ==
  IF lo[c] = hi[c] THEN Empty ELSE [a |-> Seqno(lo[c]), b |-> Seqno(hi[c])]

StandFor(g, lo, hi) == \A c \in Cells : g[c] = GapOf(lo, hi, c)

LEMMA CellsAre ==
  /\ Cells \subseteq Nat /\ LastCell \in Cells /\ 0 \in Cells /\ LastCell \in Nat
  /\ QF_SEQGAP_CT \in Nat /\ QF_SEQGAP_CT = LastCell + 1 /\ QF_SEQGAP_CT \notin Cells
  /\ \A c : c \in Cells <=> c \in Nat /\ c <= LastCell
  /\ \A c \in Cells : c \in 0..QF_SEQGAP_CT
BY SeqAssumption DEF Cells, LastCell

(* A new gap on top of the others.                                         *)
LEMMA StackPushed ==
  ASSUME NEW lo, NEW hi, NEW t \in Nat, Stack(lo, hi, t),
         NEW s \in Nat, NEW u \in Nat, t < s, s < u,
         NEW lo2 \in [Cells -> Nat], NEW hi2 \in [Cells -> Nat],
         lo2[0] = t /\ hi2[0] = s,
         \A c \in Cells : c > 0 => lo2[c] = lo[c - 1] /\ hi2[c] = hi[c - 1]
  PROVE  /\ Stack(lo2, hi2, u)
         /\ \A o \in Nat : Held(lo2, hi2, o) => Held(lo, hi, o) \/ (t <= o /\ o < s)
         /\ \A o \in Nat : t <= o /\ o < s => Held(lo2, hi2, o)
         /\ \A o \in Nat : Held(lo, hi, o) =>
              Held(lo2, hi2, o) \/ (lo[LastCell] <= o /\ o < hi[LastCell])
<1>1. /\ \A c : c \in Cells <=> c \in Nat /\ c <= LastCell
      /\ LastCell \in Nat /\ 0 \in Cells
  BY CellsAre
<1>2. \A c \in Cells : c > 0 => c - 1 \in Cells
  BY <1>1
<1>3. \A c \in Cells : c \in Nat /\ lo[c] \in Nat /\ hi[c] \in Nat /\ lo2[c] \in Nat /\ hi2[c] \in Nat
  BY <1>1 DEF Stack
<1>4. \A c \in Cells : lo2[c] <= hi2[c] /\ (lo2[c] < hi2[c] => hi2[c] < u)
  <2> SUFFICES ASSUME NEW c \in Cells
               PROVE  lo2[c] <= hi2[c] /\ (lo2[c] < hi2[c] => hi2[c] < u)
    OBVIOUS
  <2>1. CASE c = 0
    BY <2>1
  <2>2. CASE c > 0
    <3>1. PICK d \in Cells : d = c - 1
      BY <1>2, <2>2
    <3>2. /\ lo2[c] = lo[d] /\ hi2[c] = hi[d] /\ lo[d] <= hi[d]
          /\ lo[d] < hi[d] => hi[d] < t
      BY <2>2, <3>1 DEF Stack
    <3> QED BY <1>3, <3>2
  <2> QED BY <1>3, <2>1, <2>2
<1>5. ASSUME NEW c \in Cells, NEW e \in Cells, c < e, lo2[e] < hi2[e]
      PROVE  lo2[c] < hi2[c] /\ hi2[e] < lo2[c]
  <2>1. PICK f \in Cells : f = e - 1 /\ lo2[e] = lo[f] /\ hi2[e] = hi[f]
    BY <1>2, <1>3, <1>5
  <2>2. hi[f] < t
    BY <1>5, <2>1 DEF Stack
  <2>3. CASE c = 0
    BY <2>1, <2>2, <2>3
  <2>4. CASE c > 0
    <3>1. PICK d \in Cells : d = c - 1 /\ lo2[c] = lo[d] /\ hi2[c] = hi[d]
      BY <1>2, <2>4
    <3>2. d < f
      BY <1>3, <1>5, <2>1, <3>1
    <3> QED BY <1>5, <2>1, <3>1, <3>2 DEF Stack
  <2> QED BY <1>3, <2>3, <2>4
<1>6. Stack(lo2, hi2, u)
  BY <1>4, <1>5 DEF Stack
<1>7. ASSUME NEW o \in Nat, Held(lo2, hi2, o)
      PROVE  Held(lo, hi, o) \/ (t <= o /\ o < s)
  <2>1. PICK c \in Cells : lo2[c] <= o /\ o < hi2[c]
    BY <1>7 DEF Held
  <2>2. CASE c > 0
    BY <1>2, <2>1, <2>2 DEF Held
  <2>3. CASE c = 0
    BY <2>1, <2>3
  <2> QED BY <1>3, <2>2, <2>3
<1>8. ASSUME NEW o \in Nat, t <= o /\ o < s
      PROVE  Held(lo2, hi2, o)
  BY <1>1, <1>8 DEF Held
<1>9. ASSUME NEW o \in Nat, Held(lo, hi, o)
      PROVE  Held(lo2, hi2, o) \/ (lo[LastCell] <= o /\ o < hi[LastCell])
  <2>1. PICK c \in Cells : lo[c] <= o /\ o < hi[c]
    BY <1>9 DEF Held
  <2>2. CASE c = LastCell
    BY <2>1, <2>2
  <2>3. CASE c # LastCell
    <3>1. PICK e \in Cells : e = c + 1 /\ e > 0 /\ e - 1 = c
      BY <1>1, <2>3
    <3>2. lo2[e] = lo[c] /\ hi2[e] = hi[c]
      BY <3>1
    <3> QED BY <2>1, <3>2 DEF Held
  <2> QED BY <2>2, <2>3
<1> QED BY <1>6, <1>7, <1>8, <1>9

(* What is left when the numbers from a up to b, all in gap i, are filled. *)
FillsOf(lo, hi, lo2, hi2, a, b) ==
  /\ \A o \in Nat : Held(lo2, hi2, o) => Held(lo, hi, o) /\ ~(a <= o /\ o < b)
  /\ \A o \in Nat : Held(lo, hi, o) => Held(lo2, hi2, o) \/ (a <= o /\ o < b)

LEMMA StackShifted ==
  ASSUME NEW lo, NEW hi, NEW t \in Nat, Stack(lo, hi, t),
         NEW i \in Cells, lo[i] < hi[i],
         NEW lo2 \in [Cells -> Nat], NEW hi2 \in [Cells -> Nat],
         lo2[LastCell] = 0 /\ hi2[LastCell] = 0,
         \A c \in Cells : c # LastCell =>
           IF c >= i THEN lo2[c] = lo[c + 1] /\ hi2[c] = hi[c + 1]
           ELSE lo2[c] = lo[c] /\ hi2[c] = hi[c]
  PROVE  Stack(lo2, hi2, t) /\ FillsOf(lo, hi, lo2, hi2, lo[i], hi[i])
<1>1. /\ \A c : c \in Cells <=> c \in Nat /\ c <= LastCell
      /\ LastCell \in Nat /\ 0 \in Cells
  BY CellsAre
<1>2. \A c \in Cells : c # LastCell => c + 1 \in Cells
  BY <1>1
<1>3. \A c \in Cells : c \in Nat /\ lo[c] \in Nat /\ hi[c] \in Nat /\ lo2[c] \in Nat /\ hi2[c] \in Nat
  BY <1>1 DEF Stack
(* Every gap that is left was one, and another.                            *)
<1>4. \A c \in Cells : lo2[c] < hi2[c] =>
         \E d \in Cells : /\ d = IF c >= i THEN c + 1 ELSE c
                          /\ lo2[c] = lo[d] /\ hi2[c] = hi[d]
  BY <1>2, <1>3
<1>5. \A d \in Cells : d # i /\ lo[d] < hi[d] =>
         \E c \in Cells : c = (IF d > i THEN d - 1 ELSE d) /\ lo2[c] = lo[d] /\ hi2[c] = hi[d]
  <2> SUFFICES ASSUME NEW d \in Cells, d # i, lo[d] < hi[d]
               PROVE  \E c \in Cells : c = (IF d > i THEN d - 1 ELSE d) /\ lo2[c] = lo[d] /\ hi2[c] = hi[d]
    BY <1>1, <1>3
  <2>1. CASE d > i
    <3>1. PICK c \in Cells : c = d - 1 /\ c # LastCell /\ c >= i /\ c + 1 = d
      BY <1>1, <2>1
    <3> QED BY <2>1, <3>1
  <2>2. CASE ~(d > i)
    <3>1. d # LastCell /\ ~(d >= i)
      BY <1>1, <2>2
    <3> QED BY <2>2, <3>1
  <2> QED BY <2>1, <2>2
<1>6. \A c \in Cells : lo2[c] <= hi2[c] /\ (lo2[c] < hi2[c] => hi2[c] < t)
  <2> SUFFICES ASSUME NEW c \in Cells
               PROVE  lo2[c] <= hi2[c] /\ (lo2[c] < hi2[c] => hi2[c] < t)
    OBVIOUS
  <2>1. CASE c = LastCell
    BY <2>1
  <2>2. CASE c # LastCell
    <3>1. PICK d \in Cells : lo2[c] = lo[d] /\ hi2[c] = hi[d]
      BY <1>2, <2>2
    <3> QED BY <3>1 DEF Stack
  <2> QED BY <2>1, <2>2
<1>7. ASSUME NEW c \in Cells, NEW e \in Cells, c < e, lo2[e] < hi2[e]
      PROVE  lo2[c] < hi2[c] /\ hi2[e] < lo2[c]
  <2>1. PICK f \in Cells : f = (IF e >= i THEN e + 1 ELSE e) /\ lo2[e] = lo[f] /\ hi2[e] = hi[f]
    BY <1>4, <1>7
  <2>2. c # LastCell
    BY <1>1, <1>7
  <2>3. PICK d \in Cells : d = (IF c >= i THEN c + 1 ELSE c) /\ lo2[c] = lo[d] /\ hi2[c] = hi[d]
    BY <1>2, <2>2
  <2>4. d < f
    BY <1>3, <1>7, <2>1, <2>3
  <2> QED BY <1>7, <2>1, <2>3, <2>4 DEF Stack
<1>8. Stack(lo2, hi2, t)
  BY <1>6, <1>7 DEF Stack
<1>9. ASSUME NEW o \in Nat, Held(lo2, hi2, o)
      PROVE  Held(lo, hi, o) /\ ~(lo[i] <= o /\ o < hi[i])
  <2>1. PICK c \in Cells : lo2[c] <= o /\ o < hi2[c]
    BY <1>9 DEF Held
  <2>2. lo2[c] < hi2[c]
    BY <1>3, <2>1
  <2>3. PICK d \in Cells : d # i /\ lo2[c] = lo[d] /\ hi2[c] = hi[d]
    BY <1>3, <1>4, <2>2
  <2>4. d < i \/ i < d
    BY <1>3, <2>3
  <2>5. hi[d] < lo[i] \/ hi[i] < lo[d]
    BY <2>2, <2>3, <2>4 DEF Stack
  <2>6. ~(lo[i] <= o /\ o < hi[i])
    BY <1>3, <2>1, <2>3, <2>5
  <2> QED BY <2>1, <2>3, <2>6 DEF Held
<1>10. ASSUME NEW o \in Nat, Held(lo, hi, o)
       PROVE  Held(lo2, hi2, o) \/ (lo[i] <= o /\ o < hi[i])
  <2>1. PICK d \in Cells : lo[d] <= o /\ o < hi[d]
    BY <1>10 DEF Held
  <2>2. CASE d = i
    BY <2>1, <2>2
  <2>3. CASE d # i
    <3>1. lo[d] < hi[d]
      BY <1>3, <2>1
    <3>2. PICK c \in Cells : lo2[c] = lo[d] /\ hi2[c] = hi[d]
      BY <1>5, <2>3, <3>1
    <3> QED BY <2>1, <3>2 DEF Held
  <2> QED BY <2>2, <2>3
<1> QED BY <1>8, <1>9, <1>10 DEF FillsOf

LEMMA StackTrimmed ==
  ASSUME NEW lo, NEW hi, NEW t \in Nat, Stack(lo, hi, t),
         NEW i \in Cells, NEW a \in Nat, NEW b \in Nat, lo[i] <= a, a < b, b <= hi[i]
  PROVE  /\ b = hi[i] /\ lo[i] < a =>
              /\ Stack(lo, [hi EXCEPT ![i] = a], t)
              /\ FillsOf(lo, hi, lo, [hi EXCEPT ![i] = a], a, b)
         /\ a = lo[i] /\ b < hi[i] =>
              /\ Stack([lo EXCEPT ![i] = b], hi, t)
              /\ FillsOf(lo, hi, [lo EXCEPT ![i] = b], hi, a, b)
<1>1. /\ \A c : c \in Cells <=> c \in Nat /\ c <= LastCell
      /\ LastCell \in Nat
  BY CellsAre
<1>2. /\ lo \in [Cells -> Nat] /\ hi \in [Cells -> Nat]
      /\ \A c \in Cells : c \in Nat /\ lo[c] \in Nat /\ hi[c] \in Nat
  BY <1>1 DEF Stack
<1>3. /\ \A c \in Cells : lo[c] <= hi[c] /\ (lo[c] < hi[c] => hi[c] < t)
      /\ \A c, e \in Cells : c < e /\ lo[e] < hi[e] => lo[c] < hi[c] /\ hi[e] < lo[c]
  BY DEF Stack
<1>4. \A d \in Cells : d # i /\ lo[d] < hi[d] => hi[d] < lo[i] \/ hi[i] < lo[d]
  <2> SUFFICES ASSUME NEW d \in Cells, d # i, lo[d] < hi[d]
               PROVE  hi[d] < lo[i] \/ hi[i] < lo[d]
    OBVIOUS
  <2>1. d < i \/ i < d
    BY <1>2
  <2>2. lo[i] < hi[i]
    BY <1>2
  <2> QED BY <1>3, <2>1, <2>2
<1>5. ASSUME b = hi[i], lo[i] < a
      PROVE  /\ Stack(lo, [hi EXCEPT ![i] = a], t)
             /\ FillsOf(lo, hi, lo, [hi EXCEPT ![i] = a], a, b)
  <2>1. PICK hi2 : hi2 = [hi EXCEPT ![i] = a]
    OBVIOUS
  <2>2. hi2 \in [Cells -> Nat] /\ hi2[i] = a /\ \A c \in Cells : c # i => hi2[c] = hi[c]
    BY <1>2, <2>1
  <2>3. \A c \in Cells : lo[c] <= hi2[c] /\ (lo[c] < hi2[c] => hi2[c] < t)
    BY <1>2, <1>3, <1>5, <2>2
  <2>4. \A c, e \in Cells : c < e /\ lo[e] < hi2[e] => lo[c] < hi2[c] /\ hi2[e] < lo[c]
    BY <1>2, <1>3, <1>5, <2>2
  <2>5. Stack(lo, hi2, t)
    BY <1>2, <2>2, <2>3, <2>4 DEF Stack
  <2>6. ASSUME NEW o \in Nat, Held(lo, hi2, o)
        PROVE  Held(lo, hi, o) /\ ~(a <= o /\ o < b)
    <3>1. PICK c \in Cells : lo[c] <= o /\ o < hi2[c]
      BY <2>6 DEF Held
    <3>2. lo[c] <= o /\ o < hi[c] /\ ~(a <= o /\ o < b)
      BY <1>2, <1>4, <1>5, <2>2, <3>1
    <3> QED BY <3>2 DEF Held
  <2>7. ASSUME NEW o \in Nat, Held(lo, hi, o)
        PROVE  Held(lo, hi2, o) \/ (a <= o /\ o < b)
    BY <1>2, <1>5, <2>2, <2>7 DEF Held
  <2> QED BY <2>1, <2>5, <2>6, <2>7 DEF FillsOf
<1>6. ASSUME a = lo[i], b < hi[i]
      PROVE  /\ Stack([lo EXCEPT ![i] = b], hi, t)
             /\ FillsOf(lo, hi, [lo EXCEPT ![i] = b], hi, a, b)
  <2>1. PICK lo2 : lo2 = [lo EXCEPT ![i] = b]
    OBVIOUS
  <2>2. lo2 \in [Cells -> Nat] /\ lo2[i] = b /\ \A c \in Cells : c # i => lo2[c] = lo[c]
    BY <1>2, <2>1
  <2>3. \A c \in Cells : lo2[c] <= hi[c] /\ (lo2[c] < hi[c] => hi[c] < t)
    BY <1>2, <1>3, <1>6, <2>2
  <2>4. \A c, e \in Cells : c < e /\ lo2[e] < hi[e] => lo2[c] < hi[c] /\ hi[e] < lo2[c]
    BY <1>2, <1>3, <1>6, <2>2
  <2>5. Stack(lo2, hi, t)
    BY <1>2, <2>2, <2>3, <2>4 DEF Stack
  <2>6. ASSUME NEW o \in Nat, Held(lo2, hi, o)
        PROVE  Held(lo, hi, o) /\ ~(a <= o /\ o < b)
    <3>1. PICK c \in Cells : lo2[c] <= o /\ o < hi[c]
      BY <2>6 DEF Held
    <3>2. lo[c] <= o /\ o < hi[c] /\ ~(a <= o /\ o < b)
      BY <1>2, <1>4, <1>6, <2>2, <3>1
    <3> QED BY <3>2 DEF Held
  <2>7. ASSUME NEW o \in Nat, Held(lo, hi, o)
        PROVE  Held(lo2, hi, o) \/ (a <= o /\ o < b)
    BY <1>2, <1>6, <2>2, <2>7 DEF Held
  <2> QED BY <2>1, <2>5, <2>6, <2>7 DEF FillsOf
<1> QED BY <1>5, <1>6

(* A gap filled in its middle becomes two.                                 *)
LEMMA StackSplit ==
  ASSUME NEW lo, NEW hi, NEW t \in Nat, Stack(lo, hi, t),
         NEW i \in Cells, NEW a \in Nat, NEW b \in Nat, lo[i] < a, a < b, b < hi[i],
         NEW lo2 \in [Cells -> Nat], NEW hi2 \in [Cells -> Nat],
         lo2[i] = b /\ hi2[i] = hi[i],
         \A c \in Cells : c < i => lo2[c] = lo[c] /\ hi2[c] = hi[c],
         \A c \in Cells : c = i + 1 => lo2[c] = lo[i] /\ hi2[c] = a,
         \A c \in Cells : c > i + 1 => lo2[c] = lo[c - 1] /\ hi2[c] = hi[c - 1]
  PROVE  /\ Stack(lo2, hi2, t)
         /\ \A o \in Nat : Held(lo2, hi2, o) => Held(lo, hi, o) /\ ~(a <= o /\ o < b)
         /\ \A o \in Nat : Held(lo, hi, o) =>
              \/ Held(lo2, hi2, o) \/ (a <= o /\ o < b)
              \/ lo[LastCell] <= o /\ o < hi[LastCell]
<1>1. /\ \A c : c \in Cells <=> c \in Nat /\ c <= LastCell
      /\ LastCell \in Nat
  BY CellsAre
<1>2. /\ \A c \in Cells : c \in Nat /\ lo[c] \in Nat /\ hi[c] \in Nat /\ lo2[c] \in Nat /\ hi2[c] \in Nat
      /\ \A c \in Cells : c > i + 1 => c - 1 \in Cells
  <2>1. \A c \in Cells : c \in Nat /\ lo[c] \in Nat /\ hi[c] \in Nat /\ lo2[c] \in Nat /\ hi2[c] \in Nat
    BY <1>1 DEF Stack
  <2>2. \A c \in Cells : c > i + 1 => c - 1 \in Cells
    BY <1>1
  <2> QED BY <2>1, <2>2
<1>3. /\ \A c \in Cells : lo[c] <= hi[c] /\ (lo[c] < hi[c] => hi[c] < t)
      /\ \A c, e \in Cells : c < e /\ lo[e] < hi[e] => lo[c] < hi[c] /\ hi[e] < lo[c]
  BY DEF Stack
<1>4. \A d \in Cells : d # i /\ lo[d] < hi[d] => hi[d] < lo[i] \/ hi[i] < lo[d]
  <2> SUFFICES ASSUME NEW d \in Cells, d # i, lo[d] < hi[d]
               PROVE  hi[d] < lo[i] \/ hi[i] < lo[d]
    OBVIOUS
  <2>1. d < i \/ i < d
    BY <1>2
  <2>2. lo[i] < hi[i]
    BY <1>2
  <2> QED BY <1>3, <2>1, <2>2
(* Each of them is one of the gaps there were, or a part of gap i.         *)
<1>5. \A c \in Cells : \/ c < i \/ c = i \/ c = i + 1 \/ c > i + 1
  BY <1>2
<1>6. \A c \in Cells : lo2[c] <= hi2[c] /\ (lo2[c] < hi2[c] => hi2[c] < t)
  <2> SUFFICES ASSUME NEW c \in Cells
               PROVE  lo2[c] <= hi2[c] /\ (lo2[c] < hi2[c] => hi2[c] < t)
    OBVIOUS
  <2>1. CASE c < i
    BY <1>3, <2>1
  <2>2. CASE c = i \/ c = i + 1
    BY <1>2, <1>3, <2>2
  <2>3. CASE c > i + 1
    <3>1. PICK d \in Cells : lo2[c] = lo[d] /\ hi2[c] = hi[d]
      BY <1>2, <2>3
    <3> QED BY <1>3, <3>1
  <2> QED BY <1>5, <2>1, <2>2, <2>3
<1>7. ASSUME NEW c \in Cells, NEW e \in Cells, c < e, lo2[e] < hi2[e]
      PROVE  lo2[c] < hi2[c] /\ hi2[e] < lo2[c]
  <2>1. lo[i] < hi[i]
    BY <1>2
  <2>2. CASE e <= i
    <3>1. CASE e = i
      BY <1>2, <1>3, <1>7, <2>1, <3>1
    <3>2. CASE e < i
      BY <1>2, <1>3, <1>7, <3>2
    <3> QED BY <1>2, <2>2, <3>1, <3>2
  <2>3. CASE e = i + 1
    <3>1. CASE c = i
      BY <1>2, <2>3, <3>1
    <3>2. CASE c < i
      BY <1>2, <1>3, <2>1, <2>3, <3>2
    <3> QED BY <1>2, <1>7, <2>3, <3>1, <3>2
  <2>4. CASE e > i + 1
    <3>1. PICK f \in Cells : f = e - 1 /\ lo2[e] = lo[f] /\ hi2[e] = hi[f]
      BY <1>2, <2>4
    <3>2. f > i /\ hi[f] < lo[i]
      BY <1>2, <1>3, <1>7, <2>4, <3>1
    <3>3. CASE c = i \/ c = i + 1
      BY <1>2, <3>1, <3>2, <3>3
    <3>4. CASE c < i
      BY <1>2, <1>3, <1>7, <3>1, <3>2, <3>4
    <3>5. CASE c > i + 1
      <4>1. PICK d \in Cells : d = c - 1 /\ lo2[c] = lo[d] /\ hi2[c] = hi[d]
        BY <1>2, <3>5
      <4>2. d < f
        BY <1>2, <1>7, <3>1, <4>1
      <4> QED BY <1>3, <1>7, <3>1, <4>1, <4>2
    <3> QED BY <1>5, <3>3, <3>4, <3>5
  <2> QED BY <1>2, <2>2, <2>3, <2>4
<1>8. Stack(lo2, hi2, t)
  BY <1>6, <1>7 DEF Stack
<1>9. ASSUME NEW o \in Nat, Held(lo2, hi2, o)
      PROVE  Held(lo, hi, o) /\ ~(a <= o /\ o < b)
  <2>1. PICK c \in Cells : lo2[c] <= o /\ o < hi2[c]
    BY <1>9 DEF Held
  <2>2. CASE c = i \/ c = i + 1
    <3>1. lo[i] <= o /\ o < hi[i] /\ ~(a <= o /\ o < b)
      BY <1>2, <2>1, <2>2
    <3> QED BY <3>1 DEF Held
  <2>3. CASE c < i \/ c > i + 1
    <3>1. PICK d \in Cells : d # i /\ lo2[c] = lo[d] /\ hi2[c] = hi[d]
      <4>1. CASE c < i
        BY <1>2, <4>1
      <4>2. CASE c > i + 1
        <5>1. c - 1 \in Cells /\ c - 1 # i
          BY <1>2, <4>2
        <5> QED BY <4>2, <5>1
      <4> QED BY <2>3, <4>1, <4>2
    <3>2. hi[d] < lo[i] \/ hi[i] < lo[d]
      BY <1>2, <1>4, <2>1, <3>1
    <3>3. lo[d] <= o /\ o < hi[d] /\ ~(a <= o /\ o < b)
      BY <1>2, <2>1, <3>1, <3>2
    <3> QED BY <3>3 DEF Held
  <2> QED BY <1>5, <2>2, <2>3
<1>10. ASSUME NEW o \in Nat, Held(lo, hi, o)
       PROVE  \/ Held(lo2, hi2, o) \/ (a <= o /\ o < b)
              \/ lo[LastCell] <= o /\ o < hi[LastCell]
  <2>1. PICK d \in Cells : lo[d] <= o /\ o < hi[d]
    BY <1>10 DEF Held
  <2>2. CASE d = LastCell
    BY <2>1, <2>2
  <2>3. CASE d # LastCell /\ d < i
    <3>1. lo2[d] = lo[d] /\ hi2[d] = hi[d]
      BY <2>3
    <3> QED BY <2>1, <3>1 DEF Held
  <2>4. CASE d # LastCell /\ d = i
    <3>1. PICK c \in Cells : c = i + 1
      BY <1>1, <2>4
    <3>2. lo2[c] = lo[i] /\ hi2[c] = a
      BY <3>1
    <3>3. \/ lo2[c] <= o /\ o < hi2[c]
          \/ a <= o /\ o < b
          \/ lo2[i] <= o /\ o < hi2[i]
      BY <1>2, <2>1, <2>4, <3>2
    <3> QED BY <3>3 DEF Held
  <2>5. CASE d # LastCell /\ d > i
    <3>1. PICK c \in Cells : c = d + 1 /\ c > i + 1 /\ c - 1 = d
      BY <1>1, <2>5
    <3>2. lo2[c] = lo[d] /\ hi2[c] = hi[d]
      BY <3>1
    <3> QED BY <2>1, <3>2 DEF Held
  <2> QED BY <1>2, <2>2, <2>3, <2>4, <2>5
<1> QED BY <1>8, <1>9, <1>10

----------------------------------------------------------------------------
(***************************************************************************)
(* The operations of SeqTrack on gaps, as numbers of the stream            *)
(***************************************************************************)
SeqFields == {"gaps", "isn", "nsn", "wrapct", "rtx", "ooo", "maxooo", "seqlost",
              "lossct", "losslms", "advlms"}
Tracker(s) ==
  DOMAIN s = SeqFields /\ DOMAIN s.gaps = 0..QF_SEQGAP_CT /\ s.seqlost \in Nat

(* r is a tracker with the sequence numbers of s.                          *)
Numbers(r, s) == Tracker(r) /\ r.isn = s.isn /\ r.nsn = s.nsn /\ r.wrapct = s.wrapct

(* Gaps lo to hi became gaps lo2 to hi2 when a up to b was filled, and n   *)
(* numbers were given up, those of the last gap.                           *)
Filling(lo, hi, lo2, hi2, a, b, n) ==
  /\ \A o \in Nat : Held(lo2, hi2, o) => Held(lo, hi, o) /\ ~(a <= o /\ o < b)
  /\ \A o \in Nat : Held(lo, hi, o) =>
       \/ Held(lo2, hi2, o) \/ (a <= o /\ o < b)
       \/ n # 0 /\ lo[LastCell] <= o /\ o < hi[LastCell]
  /\ n \in {0, hi[LastCell] - lo[LastCell]}

(* Each gap has the sequence numbers and the size that it stands for.      *)
LEMMA GapsStand ==
  ASSUME qs.isn \in 0..SeqSpace - 1, NEW lo, NEW hi, NEW t \in Nat, t < Half,
         Stack(lo, hi, t), NEW g, StandFor(g, lo, hi)
  PROVE  /\ \A c \in Cells : g[c] # Empty <=> lo[c] < hi[c]
         /\ \A c \in Cells : lo[c] < hi[c] =>
              /\ g[c] = [a |-> Seqno(lo[c]), b |-> Seqno(hi[c])]
              /\ lo[c] \in -Half..Half /\ hi[c] \in -Half..Half
         /\ \A c \in Cells : /\ lo[c] \in Nat /\ hi[c] \in Nat /\ lo[c] <= hi[c]
                             /\ hi[c] - lo[c] \in Nat /\ Size(g[c]) = hi[c] - lo[c]
<1>1. \A c \in Cells : lo[c] \in Nat /\ hi[c] \in Nat /\ lo[c] <= hi[c] /\ hi[c] - lo[c] \in Nat
                       /\ (lo[c] < hi[c] => hi[c] < t)
  BY DEF Stack
<1>2. Half \in Nat /\ Half > 0 /\ SeqSpace \in Nat /\ SeqSpace > 1
  BY HalfTheSpace
<1> SUFFICES ASSUME NEW c \in Cells
             PROVE  /\ g[c] # Empty <=> lo[c] < hi[c]
                    /\ lo[c] < hi[c] =>
                         /\ g[c] = [a |-> Seqno(lo[c]), b |-> Seqno(hi[c])]
                         /\ lo[c] \in -Half..Half /\ hi[c] \in -Half..Half
                    /\ Size(g[c]) = hi[c] - lo[c]
  BY <1>1
<1>3. PICK p \in Nat, q \in Nat : p = lo[c] /\ q = hi[c] /\ p <= q /\ (p < q => q < t)
  BY <1>1
<1>4. g[c] = IF p = q THEN Empty ELSE [a |-> Seqno(p), b |-> Seqno(q)]
  BY <1>3 DEF StandFor, GapOf
<1>5. CASE p = q
  <2>1. 0 \in 0..SeqSpace - 1
    BY <1>2
  <2>2. Diff(0, 0) = 0
    BY <2>1, DiffValue
  <2> QED BY <1>3, <1>4, <1>5, <2>2 DEF Size, Empty
<1>6. CASE p < q
  <2>1. p \in -Half..Half /\ q \in -Half..Half /\ p - q < Half /\ q - p < Half
    BY <1>2, <1>3, <1>6
  <2>2. Seqno(p) # Seqno(q) /\ Diff(Seqno(q), Seqno(p)) = q - p
    BY <1>3, <1>6, <2>1, SeqnosCompare
  <2>3. g[c] = [a |-> Seqno(p), b |-> Seqno(q)] /\ g[c].a # g[c].b /\ Size(g[c]) = q - p
    BY <1>3, <1>4, <1>6, <2>2 DEF Size
  <2> QED BY <1>3, <1>6, <2>1, <2>3 DEF Empty
<1> QED BY <1>3, <1>5, <1>6

(* Filling part of a gap removes, trims or splits it, and a split may push *)
(* the last gap out.                                                       *)
LEMMA FilledStands ==
  ASSUME qs.isn \in 0..SeqSpace - 1, NEW lo, NEW hi, NEW t \in Nat, t < Half,
         Stack(lo, hi, t), NEW s, Tracker(s), StandFor(s.gaps, lo, hi),
         NEW i \in Cells, NEW a \in Nat, NEW b \in Nat, lo[i] <= a, b <= hi[i],
         a < b \/ (a = b /\ a = hi[i] /\ lo[i] < a),
         NEW r, r = Filled(s, i, Seqno(a), Seqno(b))
  PROVE  /\ Numbers(r, s)
         /\ \E lo2, hi2 : \E n \in Nat :
              /\ Stack(lo2, hi2, t) /\ StandFor(r.gaps, lo2, hi2)
              /\ r.seqlost = s.seqlost + n
              /\ Filling(lo, hi, lo2, hi2, a, b, n)
<1>1. /\ \A c : c \in Cells <=> c \in Nat /\ c <= LastCell
      /\ LastCell \in Nat /\ LastCell \in Cells /\ QF_SEQGAP_CT = LastCell + 1
      /\ \A c \in Cells : c \in 0..QF_SEQGAP_CT
  BY CellsAre
<1>2. /\ lo \in [Cells -> Nat] /\ hi \in [Cells -> Nat]
      /\ \A c \in Cells : c \in Nat /\ lo[c] \in Nat /\ hi[c] \in Nat
      /\ \A c \in Cells : lo[c] < hi[c] => hi[c] < t
  BY <1>1 DEF Stack
<1>3. Half \in Nat /\ Half > 0
  BY HalfTheSpace
<1>4. /\ \A c \in Cells : s.gaps[c] = GapOf(lo, hi, c)
      /\ lo[i] < hi[i] /\ s.gaps[i] = [a |-> Seqno(lo[i]), b |-> Seqno(hi[i])]
      /\ Size(s.gaps[LastCell]) = hi[LastCell] - lo[LastCell]
      /\ hi[LastCell] - lo[LastCell] \in Nat
  BY <1>1, <1>2, GapsStand DEF StandFor
<1>5. /\ Seqno(a) = Seqno(lo[i]) <=> a = lo[i]
      /\ Seqno(b) = Seqno(hi[i]) <=> b = hi[i]
  <2>1. PICK l \in Nat, h \in Nat : l = lo[i] /\ h = hi[i] /\ h < t
    BY <1>2, <1>4
  <2>2. /\ a \in -Half..Half /\ b \in -Half..Half /\ l \in -Half..Half /\ h \in -Half..Half
        /\ a - l < Half /\ l - a < Half /\ b - h < Half /\ h - b < Half
    BY <1>3, <2>1
  <2> QED BY <2>1, <2>2, SeqnosCompare
<1>6. PICK A, B : A = Seqno(a) /\ B = Seqno(b)
  OBVIOUS
<1>7. PICK g : g = s.gaps
  OBVIOUS
<1>8. /\ DOMAIN s = SeqFields /\ DOMAIN g = 0..QF_SEQGAP_CT /\ s.seqlost \in Nat
      /\ \A c \in Cells : g[c] = GapOf(lo, hi, c)
      /\ g[i].a = Seqno(lo[i]) /\ g[i].b = Seqno(hi[i])
      /\ g[i] = [a |-> Seqno(lo[i]), b |-> Seqno(hi[i])]
  BY <1>4, <1>7 DEF Tracker
<1>9. i \in DOMAIN g
  BY <1>1, <1>8
<1>10. CASE a = lo[i] /\ b = hi[i]
  <2>1. r = [s EXCEPT !.gaps = qfSeqGapShift(g, i)]
    BY <1>5, <1>7, <1>8, <1>10 DEF Filled
  <2>2. Numbers(r, s) /\ r.gaps = qfSeqGapShift(g, i) /\ r.seqlost = s.seqlost
    BY <1>7, <1>8, <2>1 DEF Numbers, Tracker, SeqFields, qfSeqGapShift
  <2> DEFINE lo2 == [c \in Cells |-> IF c = LastCell THEN 0 ELSE IF c >= i THEN lo[c + 1] ELSE lo[c]]
             hi2 == [c \in Cells |-> IF c = LastCell THEN 0 ELSE IF c >= i THEN hi[c + 1] ELSE hi[c]]
  <2>3. lo2 \in [Cells -> Nat] /\ hi2 \in [Cells -> Nat]
    BY <1>1, <1>2
  <2>4. /\ lo2[LastCell] = 0 /\ hi2[LastCell] = 0
        /\ \A c \in Cells : c # LastCell =>
             IF c >= i THEN lo2[c] = lo[c + 1] /\ hi2[c] = hi[c + 1]
             ELSE lo2[c] = lo[c] /\ hi2[c] = hi[c]
    BY <1>1
  <2> HIDE DEF lo2, hi2
  <2>5. Stack(lo2, hi2, t) /\ FillsOf(lo, hi, lo2, hi2, lo[i], hi[i])
    BY <1>4, <2>3, <2>4, StackShifted
  <2>6. StandFor(r.gaps, lo2, hi2)
    <3> SUFFICES ASSUME NEW c \in Cells
                 PROVE  r.gaps[c] = GapOf(lo2, hi2, c)
      BY DEF StandFor
    <3>1. c \in 0..QF_SEQGAP_CT /\ (c # LastCell => c + 1 \in Cells /\ c < LastCell)
      BY <1>1
    <3>2. CASE c = LastCell
      BY <2>2, <2>4, <3>1, <3>2 DEF qfSeqGapShift, GapOf
    <3>3. CASE c # LastCell /\ c >= i
      BY <1>8, <2>2, <2>4, <3>1, <3>3 DEF qfSeqGapShift, GapOf
    <3>4. CASE c # LastCell /\ ~(c >= i)
      BY <1>8, <2>2, <2>4, <3>1, <3>4 DEF qfSeqGapShift, GapOf
    <3> QED BY <3>2, <3>3, <3>4
  <2>7. Filling(lo, hi, lo2, hi2, a, b, 0)
    BY <1>10, <2>5 DEF Filling, FillsOf
  <2>8. r.seqlost = s.seqlost + 0
    BY <1>8, <2>2
  <2> QED BY <2>2, <2>5, <2>6, <2>7, <2>8
<1>11. CASE b = hi[i] /\ a # lo[i]
  <2>1. r = [s EXCEPT !.gaps[i].b = A]
    BY <1>5, <1>6, <1>7, <1>8, <1>11 DEF Filled
  <2>2. PICK h : h = [g EXCEPT ![i].b = A]
    OBVIOUS
  <2>3. r = [s EXCEPT !.gaps = h]
    BY <1>7, <2>1, <2>2
  <2>4. /\ DOMAIN h = 0..QF_SEQGAP_CT /\ h[i] = [a |-> Seqno(lo[i]), b |-> A]
        /\ \A c \in Cells : c # i => h[c] = g[c]
    BY <1>1, <1>8, <1>9, <2>2
  <2>5. Numbers(r, s) /\ r.gaps = h /\ r.seqlost = s.seqlost
    BY <1>8, <2>3, <2>4 DEF Numbers, Tracker, SeqFields
  <2>6. lo[i] < a
    BY <1>2, <1>11
  <2>7. CASE a < b
    <3>1. PICK hi2 : hi2 = [hi EXCEPT ![i] = a]
      OBVIOUS
    <3>2. hi2[i] = a /\ \A c \in Cells : c # i => hi2[c] = hi[c]
      BY <1>2, <3>1
    <3>3. Stack(lo, hi2, t) /\ FillsOf(lo, hi, lo, hi2, a, b)
      BY <1>11, <2>6, <2>7, <3>1, StackTrimmed
    <3>4. StandFor(r.gaps, lo, hi2)
      <4>1. h[i] = GapOf(lo, hi2, i)
        BY <1>2, <1>6, <2>4, <2>6, <3>2 DEF GapOf
      <4>2. \A c \in Cells : c # i => h[c] = GapOf(lo, hi2, c)
        BY <1>8, <2>4, <3>2 DEF GapOf
      <4> QED BY <2>5, <4>1, <4>2 DEF StandFor
    <3>5. Filling(lo, hi, lo, hi2, a, b, 0)
      BY <3>3 DEF Filling, FillsOf
    <3>6. r.seqlost = s.seqlost + 0
      BY <1>8, <2>5
    <3> QED BY <2>5, <3>3, <3>4, <3>5, <3>6
  <2>8. CASE a = b
    <3>1. StandFor(r.gaps, lo, hi)
      BY <1>2, <1>6, <1>8, <1>11, <2>4, <2>5, <2>6, <2>8 DEF StandFor, GapOf
    <3>2. Filling(lo, hi, lo, hi, a, b, 0)
      BY <2>8 DEF Filling
    <3>3. r.seqlost = s.seqlost + 0
      BY <1>8, <2>5
    <3> QED BY <2>5, <3>1, <3>2, <3>3
  <2> QED BY <2>7, <2>8
<1>12. CASE b # hi[i] /\ a = lo[i]
  <2>1. r = [s EXCEPT !.gaps[i].a = B]
    BY <1>5, <1>6, <1>7, <1>8, <1>12 DEF Filled
  <2>2. PICK h : h = [g EXCEPT ![i].a = B]
    OBVIOUS
  <2>3. r = [s EXCEPT !.gaps = h]
    BY <1>7, <2>1, <2>2
  <2>4. /\ DOMAIN h = 0..QF_SEQGAP_CT /\ h[i] = [a |-> B, b |-> Seqno(hi[i])]
        /\ \A c \in Cells : c # i => h[c] = g[c]
    BY <1>1, <1>8, <1>9, <2>2
  <2>5. Numbers(r, s) /\ r.gaps = h /\ r.seqlost = s.seqlost
    BY <1>8, <2>3, <2>4 DEF Numbers, Tracker, SeqFields
  <2>6. b < hi[i] /\ a < b
    BY <1>2, <1>12
  <2>7. PICK lo2 : lo2 = [lo EXCEPT ![i] = b]
    OBVIOUS
  <2>8. lo2[i] = b /\ \A c \in Cells : c # i => lo2[c] = lo[c]
    BY <1>2, <2>7
  <2>9. Stack(lo2, hi, t) /\ FillsOf(lo, hi, lo2, hi, a, b)
    BY <1>12, <2>6, <2>7, StackTrimmed
  <2>10. StandFor(r.gaps, lo2, hi)
    BY <1>2, <1>6, <1>8, <2>4, <2>5, <2>6, <2>8 DEF StandFor, GapOf
  <2>11. Filling(lo, hi, lo2, hi, a, b, 0)
    BY <2>9 DEF Filling, FillsOf
  <2>12. r.seqlost = s.seqlost + 0
    BY <1>8, <2>5
  <2> QED BY <2>5, <2>9, <2>10, <2>11, <2>12
<1>13. CASE b # hi[i] /\ a # lo[i]
  <2> DEFINE u == qfSeqGapUnshift(g, i)
             n == hi[LastCell] - lo[LastCell]
  <2>1. r = [s EXCEPT !.seqlost = s.seqlost + Size(g[LastCell]),
                      !.gaps = [u EXCEPT ![i].a = B, ![i + 1].b = A]]
    BY <1>5, <1>6, <1>7, <1>8, <1>13 DEF Filled
  <2>2. PICK h : h = [u EXCEPT ![i].a = B, ![i + 1].b = A]
    OBVIOUS
  <2>3. /\ DOMAIN u = 0..QF_SEQGAP_CT
        /\ \A c \in Cells : u[c] = IF c > i THEN g[c - 1] ELSE g[c]
    BY <1>1 DEF qfSeqGapUnshift
  <2> HIDE DEF u
  <2>4. /\ i \in DOMAIN u /\ i + 1 \in DOMAIN u /\ i # i + 1
    BY <1>1, <2>3
  <2>5. /\ DOMAIN h = 0..QF_SEQGAP_CT /\ h[i] = [u[i] EXCEPT !.a = B]
        /\ h[i + 1] = [u[i + 1] EXCEPT !.b = A]
        /\ \A c \in Cells : c # i /\ c # i + 1 => h[c] = u[c]
    BY <1>1, <2>2, <2>3, <2>4
  <2>6. h[i] = [a |-> B, b |-> Seqno(hi[i])]
    BY <1>1, <1>8, <2>3, <2>5
  <2>7. i + 1 \in Cells => h[i + 1] = [a |-> Seqno(lo[i]), b |-> A]
    BY <1>1, <1>8, <2>3, <2>5
  <2>8. /\ \A c \in Cells : c < i => h[c] = g[c]
        /\ \A c \in Cells : c > i + 1 => h[c] = g[c - 1]
    <3>1. i \in Nat /\ \A c \in Cells : c \in Nat
      BY <1>1
    <3>2. ASSUME NEW c \in Cells, c < i \/ c > i + 1
          PROVE  h[c] = u[c] /\ (c < i => ~(c > i)) /\ (c > i + 1 => c > i)
      BY <2>5, <3>1, <3>2
    <3>3. ASSUME NEW c \in Cells, c < i
          PROVE  h[c] = g[c]
      BY <2>3, <3>2, <3>3
    <3>4. ASSUME NEW c \in Cells, c > i + 1
          PROVE  h[c] = g[c - 1]
      BY <2>3, <3>2, <3>4
    <3> QED BY <3>3, <3>4
  <2>9. Numbers(r, s) /\ r.gaps = h /\ r.seqlost = s.seqlost + n
    BY <1>4, <1>7, <1>8, <2>1, <2>2, <2>5 DEF Numbers, Tracker, SeqFields
  <2>10. lo[i] < a /\ a < b /\ b < hi[i]
    BY <1>2, <1>13
  <2> DEFINE lo2 == [c \in Cells |-> IF c < i THEN lo[c] ELSE IF c = i THEN b ELSE lo[c - 1]]
             hi2 == [c \in Cells |-> IF c <= i THEN hi[c] ELSE IF c = i + 1 THEN a ELSE hi[c - 1]]
  <2>11. lo2 \in [Cells -> Nat] /\ hi2 \in [Cells -> Nat]
    <3>1. \A c \in Cells : c > i => c - 1 \in Cells
      BY <1>1
    <3>2. \A c \in Cells : c < i \/ c = i \/ c > i
      BY <1>2
    <3> QED BY <1>2, <3>1, <3>2
  <2>12. /\ lo2[i] = b /\ hi2[i] = hi[i]
         /\ \A c \in Cells : c < i => lo2[c] = lo[c] /\ hi2[c] = hi[c]
         /\ \A c \in Cells : c = i + 1 => lo2[c] = lo[i] /\ hi2[c] = a
         /\ \A c \in Cells : c > i + 1 => lo2[c] = lo[c - 1] /\ hi2[c] = hi[c - 1]
    BY <1>2
  <2> HIDE DEF lo2, hi2
  <2>13. /\ Stack(lo2, hi2, t)
         /\ \A o \in Nat : Held(lo2, hi2, o) => Held(lo, hi, o) /\ ~(a <= o /\ o < b)
         /\ \A o \in Nat : Held(lo, hi, o) =>
              \/ Held(lo2, hi2, o) \/ (a <= o /\ o < b)
              \/ lo[LastCell] <= o /\ o < hi[LastCell]
    BY <2>10, <2>11, <2>12, StackSplit, SMTT(30)
  <2>14. StandFor(r.gaps, lo2, hi2)
    <3> SUFFICES ASSUME NEW c \in Cells
                 PROVE  h[c] = GapOf(lo2, hi2, c)
      BY <2>9 DEF StandFor
    <3>1. c < i \/ c = i \/ c = i + 1 \/ c > i + 1
      BY <1>2
    <3>2. CASE c < i
      BY <1>8, <2>8, <2>12, <3>2 DEF GapOf
    <3>3. CASE c = i
      BY <1>2, <1>6, <2>6, <2>10, <2>12, <3>3 DEF GapOf
    <3>4. CASE c = i + 1
      BY <1>2, <1>6, <2>7, <2>10, <2>12, <3>4 DEF GapOf
    <3>5. CASE c > i + 1
      <4>1. c - 1 \in Cells
        BY <1>1, <3>5
      <4>2. h[c] = g[c - 1] /\ lo2[c] = lo[c - 1] /\ hi2[c] = hi[c - 1]
        BY <2>8, <2>12, <3>5
      <4>3. g[c - 1] = GapOf(lo, hi, c - 1)
        BY <1>8, <4>1
      <4> QED BY <4>2, <4>3 DEF GapOf
    <3> QED BY <3>1, <3>2, <3>3, <3>4, <3>5
  <2>15. Filling(lo, hi, lo2, hi2, a, b, n)
    <3>1. \A o \in Nat : lo[LastCell] <= o /\ o < hi[LastCell] => n # 0
      BY <1>1, <1>2
    <3> QED BY <2>13, <3>1 DEF Filling
  <2> QED BY <1>4, <2>9, <2>13, <2>14, <2>15
<1> QED BY <1>10, <1>11, <1>12, <1>13

(* Seek finds the first gap that begins at or below a, if there is one.    *)
LEMMA SeekFinds ==
  ASSUME qs.isn \in 0..SeqSpace - 1, NEW lo, NEW hi, NEW t \in Nat, t < Half,
         Stack(lo, hi, t), NEW g, StandFor(g, lo, hi),
         NEW a \in -Half..Half, a < t, t - a < Half,
         NEW i, i = Seek(g, Seqno(a))
  PROVE  \/ /\ i = QF_SEQGAP_CT \/ g[i] = Empty
            /\ \A c \in Cells : lo[c] < hi[c] => a < lo[c]
         \/ /\ i \in Cells /\ lo[i] < hi[i] /\ lo[i] <= a
            /\ \A c \in Cells : c < i => a < lo[c]
<1>1. /\ \A c : c \in Cells <=> c \in Nat /\ c <= LastCell
      /\ LastCell \in Nat /\ LastCell \in Cells /\ QF_SEQGAP_CT = LastCell + 1
      /\ QF_SEQGAP_CT \in Nat
  BY CellsAre
<1>2. /\ \A c \in Cells : c \in Nat /\ lo[c] \in Nat /\ hi[c] \in Nat
      /\ \A c \in Cells : lo[c] < hi[c] => hi[c] < t
  BY <1>1 DEF Stack
<1>3. Half \in Nat /\ Half > 0
  BY HalfTheSpace
<1>4. \A c \in Cells : g[c] # Empty <=> lo[c] < hi[c]
  BY GapsStand
<1>5. ASSUME NEW c \in Cells, lo[c] < hi[c]
      PROVE  /\ qfWrapCompare(Seqno(a), g[c].a) >= 0 <=> lo[c] <= a
             /\ qfWrapCompare(Seqno(a), g[c].a) < 0 <=> a < lo[c]
  <2>1. PICK l \in Nat : l = lo[c] /\ l < t
    BY <1>2, <1>5
  <2>2. l \in -Half..Half /\ a - l < Half /\ l - a < Half
    BY <1>3, <2>1
  <2>3. g[c] = [a |-> Seqno(l), b |-> Seqno(hi[c])] /\ g[c].a = Seqno(l)
    <3>1. g[c] = [a |-> Seqno(lo[c]), b |-> Seqno(hi[c])]
      BY <1>5, GapsStand
    <3> QED BY <2>1, <3>1
  <2> QED BY <2>1, <2>2, <2>3, SeqnosCompare
<1> DEFINE Stop(k) == k = QF_SEQGAP_CT \/ g[k] = Empty \/ qfWrapCompare(Seqno(a), g[k].a) >= 0
           Pass(k) == g[k] # Empty /\ qfWrapCompare(Seqno(a), g[k].a) < 0
           Stops == {k \in 0..QF_SEQGAP_CT : Stop(k)}
<1>6. Stops \in SUBSET Nat /\ QF_SEQGAP_CT \in Stops
  BY <1>1
<1>7. PICK m \in Stops : \A k \in Stops : m <= k
  BY <1>6, LeastNumber, Zenon
<1>8. m \in 0..QF_SEQGAP_CT /\ Stop(m)
  OBVIOUS
<1>9. ASSUME NEW c \in 0..m - 1
      PROVE  Pass(c)
  <2>1. c \in Cells /\ c \in 0..QF_SEQGAP_CT /\ ~(m <= c)
    BY <1>1, <1>8
  <2>2. ~Stop(c)
    BY <1>7, <2>1
  <2>3. lo[c] < hi[c] /\ ~(lo[c] <= a)
    BY <1>4, <1>5, <2>1, <2>2
  <2>4. a < lo[c]
    BY <1>2, <1>3, <2>1, <2>3
  <2> QED BY <1>4, <1>5, <2>1, <2>3, <2>4
<1>10. i \in 0..QF_SEQGAP_CT /\ Stop(i) /\ \A c \in 0..(i - 1) : Pass(c)
  <2> DEFINE P(k) == Stop(k) /\ \A c \in 0..(k - 1) : Pass(c)
  <2>1. m \in 0..QF_SEQGAP_CT /\ P(m)
    BY <1>8, <1>9
  <2>2. i = CHOOSE k \in 0..QF_SEQGAP_CT : P(k)
    BY DEF Seek
  <2> HIDE DEF P
  <2>3. i \in 0..QF_SEQGAP_CT /\ P(i)
    BY <2>1, <2>2
  <2> QED BY <2>3 DEF P
<1>11. \A c \in Cells : c < i => lo[c] < hi[c] /\ a < lo[c]
  <2> SUFFICES ASSUME NEW c \in Cells, c < i
               PROVE  lo[c] < hi[c] /\ a < lo[c]
    OBVIOUS
  <2>1. c \in 0..(i - 1)
    BY <1>1, <1>10
  <2>2. Pass(c)
    BY <1>10, <2>1
  <2> QED BY <1>4, <1>5, <2>2
<1>12. CASE i \in Cells /\ g[i] # Empty
  <2>1. i # QF_SEQGAP_CT
    BY <1>1, <1>12
  <2>2. lo[i] < hi[i] /\ lo[i] <= a
    BY <1>4, <1>5, <1>10, <1>12, <2>1
  <2> QED BY <1>11, <1>12, <2>2
<1>13. CASE ~(i \in Cells /\ g[i] # Empty)
  <2>1. i = QF_SEQGAP_CT \/ g[i] = Empty
    BY <1>1, <1>10, <1>13
  <2>2. ASSUME NEW c \in Cells, lo[c] < hi[c]
        PROVE  a < lo[c]
    <3>1. CASE c < i
      BY <1>11, <3>1
    <3>2. CASE ~(c < i)
      <4>1. i \in Cells /\ g[i] = Empty /\ ~(lo[i] < hi[i])
        BY <1>1, <1>4, <1>10, <1>13, <3>2
      <4>2. i < c
        BY <1>2, <2>2, <3>2, <4>1
      <4> QED BY <2>2, <4>1, <4>2 DEF Stack
    <3> QED BY <3>1, <3>2
  <2> QED BY <2>1, <2>2
<1> QED BY <1>12, <1>13

(* In r the gaps of s, which stood for lo to hi, are without the numbers   *)
(* from a that a segment up to b can fill.                                 *)
FilledFrom(r, s, lo, hi, t, a, b) ==
  \E lo2, hi2 : \E n \in Nat, e \in Int :
    /\ Stack(lo2, hi2, t) /\ StandFor(r.gaps, lo2, hi2)
    /\ r.seqlost = s.seqlost + n
    /\ e <= b /\ Filling(lo, hi, lo2, hi2, a, e, n)
    /\ \A c \in Cells : lo[c] <= a /\ a < hi[c] /\ b <= hi[c] => e = b

(* Filling a up to b fills the gap a is in, or no octets at all.           *)
LEMMA FillStands ==
  ASSUME qs.isn \in 0..SeqSpace - 1, NEW lo, NEW hi, NEW t \in Nat, t < Half,
         Stack(lo, hi, t), NEW s, Tracker(s), StandFor(s.gaps, lo, hi),
         NEW a \in -Half..Half, NEW b \in -Half..Half, a < b, b < Half, a < t, t - a < Half,
         NEW r, r = qfSeqGapFill(s, Seqno(a), Seqno(b))
  PROVE  Numbers(r, s) /\ FilledFrom(r, s, lo, hi, t, a, b)
<1>1. /\ \A c \in Cells : c \in Nat /\ lo[c] \in Nat /\ hi[c] \in Nat
      /\ \A c \in Cells : lo[c] < hi[c] => hi[c] < t
      /\ Half \in Nat /\ Half > 0 /\ QF_SEQGAP_CT \notin Cells
  BY CellsAre, HalfTheSpace DEF Stack
<1>2. PICK i : i = Seek(s.gaps, Seqno(a))
  OBVIOUS
<1>3. PICK A, B, g : A = Seqno(a) /\ B = Seqno(b) /\ g = s.gaps[i]
  OBVIOUS
<1> DEFINE pure == \/ i = QF_SEQGAP_CT
                   \/ g = Empty
                   \/ qfWrapCompare(B, g.b) > 0 /\ qfWrapCompare(A, g.b) > 0
           beyond == qfWrapCompare(B, g.b) > 0
           s1 == [s EXCEPT !.rtx = IF beyond THEN @ + 1 ELSE @]
<1>4. r = IF pure THEN [s EXCEPT !.rtx = @ + 1]
          ELSE Filled(s1, i, A, IF beyond THEN g.b ELSE B)
  BY <1>2, <1>3, Zenon DEF qfSeqGapFill
<1>5. /\ Numbers(s1, s) /\ s1.gaps = s.gaps /\ s1.seqlost = s.seqlost
  BY DEF Numbers, Tracker, SeqFields
<1>6. ASSUME pure, \A c \in Cells : ~(lo[c] <= a /\ a < hi[c] /\ b <= hi[c])
      PROVE  Numbers(r, s) /\ FilledFrom(r, s, lo, hi, t, a, b)
  <2>1. r = [s EXCEPT !.rtx = @ + 1]
    BY <1>4, <1>6
  <2>2. Numbers(r, s) /\ r.gaps = s.gaps /\ r.seqlost = s.seqlost + 0
    BY <2>1 DEF Numbers, Tracker, SeqFields
  <2>3. Filling(lo, hi, lo, hi, a, a, 0)
    BY DEF Filling
  <2>4. a \in Int /\ a <= b /\ StandFor(r.gaps, lo, hi)
    BY <1>1, <2>2
  <2> QED BY <1>6, <2>2, <2>3, <2>4 DEF FilledFrom
<1>7. CASE /\ i = QF_SEQGAP_CT \/ s.gaps[i] = Empty
           /\ \A c \in Cells : lo[c] < hi[c] => a < lo[c]
  <2>1. pure
    BY <1>3, <1>7
  <2>2. \A c \in Cells : ~(lo[c] <= a /\ a < hi[c] /\ b <= hi[c])
    BY <1>1, <1>7
  <2> QED BY <1>6, <2>1, <2>2
<1>8. CASE /\ i \in Cells /\ lo[i] < hi[i] /\ lo[i] <= a
           /\ \A c \in Cells : c < i => a < lo[c]
  <2>1. PICK l \in Nat, h \in Nat : l = lo[i] /\ h = hi[i] /\ h < t /\ l < h /\ l <= a
    BY <1>1, <1>8
  <2>2. a \in Nat /\ b \in Nat
    BY <1>1, <2>1
  <2>3. g = [a |-> Seqno(l), b |-> Seqno(h)] /\ g # Empty
    BY <1>3, <1>8, <2>1, GapsStand
  <2>4. /\ h \in -Half..Half /\ b - h < Half /\ h - b < Half /\ a - h < Half /\ h - a < Half
    BY <1>1, <2>1, <2>2
  <2>5. /\ qfWrapCompare(B, g.b) > 0 <=> b > h
        /\ qfWrapCompare(A, g.b) > 0 <=> a > h
    BY <1>3, <2>3, <2>4, SeqnosCompare
  <2>6. \A c \in Cells : lo[c] <= a /\ a < hi[c] => c = i
    <3> SUFFICES ASSUME NEW c \in Cells, lo[c] <= a, a < hi[c], c # i
                 PROVE  FALSE
      OBVIOUS
    <3>1. c < i \/ i < c
      BY <1>1, <1>8
    <3>2. lo[c] < hi[c]
      BY <1>1
    <3>3. CASE c < i
      BY <1>1, <1>8, <3>3
    <3>4. CASE i < c
      <4>1. hi[c] < lo[i]
        BY <1>8, <3>2, <3>4 DEF Stack
      <4> QED BY <1>1, <1>8, <4>1
    <3> QED BY <3>1, <3>3, <3>4
  <2>7. CASE b > h /\ a > h
    <3>1. pure
      BY <2>5, <2>7
    <3>2. \A c \in Cells : ~(lo[c] <= a /\ a < hi[c] /\ b <= hi[c])
      BY <1>1, <2>1, <2>6, <2>7
    <3> QED BY <1>6, <3>1, <3>2
  <2>8. CASE ~(b > h /\ a > h)
    <3>1. ~pure /\ (beyond <=> b > h)
      BY <1>1, <1>8, <2>3, <2>5, <2>8
    <3>2. PICK e \in Nat : e = IF b > h THEN h ELSE b
      BY <2>2
    <3>3. r = Filled(s1, i, Seqno(a), Seqno(e))
      <4>1. r = Filled(s1, i, A, IF beyond THEN g.b ELSE B)
        BY <1>4, <3>1
      <4>2. (IF beyond THEN g.b ELSE B) = Seqno(e)
        BY <1>3, <2>3, <3>1, <3>2
      <4> HIDE DEF s1, beyond
      <4> QED BY <1>3, <4>1, <4>2
    <3>4. e <= b /\ e <= hi[i] /\ lo[i] <= a /\ (a < e \/ (a = e /\ a = hi[i] /\ lo[i] < a))
      BY <1>1, <2>1, <2>2, <2>8, <3>2
    <3>5. Tracker(s1) /\ StandFor(s1.gaps, lo, hi)
      BY <1>5 DEF Numbers
    <3> HIDE DEF s1
    <3>6. /\ Numbers(r, s1)
          /\ \E lo2, hi2 : \E n \in Nat :
               /\ Stack(lo2, hi2, t) /\ StandFor(r.gaps, lo2, hi2)
               /\ r.seqlost = s1.seqlost + n
               /\ Filling(lo, hi, lo2, hi2, a, e, n)
      BY <1>8, <2>2, <3>3, <3>4, <3>5, FilledStands
    <3>7. Numbers(r, s)
      BY <1>5, <3>6 DEF Numbers
    <3>8. \A c \in Cells : lo[c] <= a /\ a < hi[c] /\ b <= hi[c] => e = b
      BY <1>1, <2>1, <2>6, <3>2
    <3>9. e \in Int
      OBVIOUS
    <3> QED BY <1>5, <3>4, <3>6, <3>7, <3>8, <3>9 DEF FilledFrom
  <2> QED BY <2>7, <2>8
<1>9. \/ /\ i = QF_SEQGAP_CT \/ s.gaps[i] = Empty
         /\ \A c \in Cells : lo[c] < hi[c] => a < lo[c]
      \/ /\ i \in Cells /\ lo[i] < hi[i] /\ lo[i] <= a
         /\ \A c \in Cells : c < i => a < lo[c]
  BY <1>2, SeekFinds
<1> QED BY <1>7, <1>8, <1>9

(* Gaps lo to hi became gaps lo2 to hi2 when t up to p was passed over.    *)
Pushing(lo, hi, lo2, hi2, t, p, n) ==
  /\ \A o \in Nat : Held(lo2, hi2, o) => Held(lo, hi, o) \/ (t <= o /\ o < p)
  /\ \A o \in Nat : t <= o /\ o < p => Held(lo2, hi2, o)
  /\ \A o \in Nat : Held(lo, hi, o) =>
       Held(lo2, hi2, o) \/ (n # 0 /\ lo[LastCell] <= o /\ o < hi[LastCell])
  /\ n = hi[LastCell] - lo[LastCell]

(* In r the gaps of s, which stood for lo to hi, have one of t up to p.     *)
PushedOn(r, s, lo, hi, t, p, u) ==
  \E lo2, hi2 : \E n \in Nat :
    /\ Stack(lo2, hi2, u) /\ StandFor(r.gaps, lo2, hi2)
    /\ r.seqlost = s.seqlost + n
    /\ Pushing(lo, hi, lo2, hi2, t, p, n)

(* A new gap goes on top of the others and may push the last one out.      *)
LEMMA PushStands ==
  ASSUME qs.isn \in 0..SeqSpace - 1, NEW lo, NEW hi, NEW t \in Nat, t < Half,
         Stack(lo, hi, t), NEW s, Tracker(s), StandFor(s.gaps, lo, hi),
         NEW p \in Nat, NEW u \in Nat, t < p, p < u,
         NEW r, r = qfSeqGapPush(s, Seqno(t), Seqno(p))
  PROVE  Numbers(r, s) /\ PushedOn(r, s, lo, hi, t, p, u)
<1>1. /\ \A c : c \in Cells <=> c \in Nat /\ c <= LastCell
      /\ LastCell \in Nat /\ LastCell \in Cells /\ QF_SEQGAP_CT = LastCell + 1
      /\ 0 \in Cells /\ \A c \in Cells : c \in 0..QF_SEQGAP_CT
  BY CellsAre
<1>2. /\ lo \in [Cells -> Nat] /\ hi \in [Cells -> Nat]
      /\ \A c \in Cells : c \in Nat /\ lo[c] \in Nat /\ hi[c] \in Nat
      /\ \A c \in Cells : lo[c] < hi[c] => hi[c] < t
  BY <1>1 DEF Stack
<1>3. Half \in Nat /\ Half > 0
  BY HalfTheSpace
<1>4. /\ \A c \in Cells : s.gaps[c] = GapOf(lo, hi, c)
      /\ Size(s.gaps[LastCell]) = hi[LastCell] - lo[LastCell]
      /\ hi[LastCell] - lo[LastCell] \in Nat
  BY <1>1, <1>2, GapsStand DEF StandFor
(* The top gap never begins at the next number, which would extend it.     *)
<1>5. ~(s.gaps[0] # Empty /\ Seqno(t) = s.gaps[0].a)
  <2> SUFFICES ASSUME s.gaps[0] # Empty
               PROVE  Seqno(t) # s.gaps[0].a
    OBVIOUS
  <2>1. lo[0] < hi[0]
    BY <1>1, GapsStand
  <2>2. s.gaps[0] = [a |-> Seqno(lo[0]), b |-> Seqno(hi[0])]
    BY <1>1, <2>1, GapsStand
  <2>3. PICK l \in Nat : l = lo[0] /\ l < t
    BY <1>1, <1>2, <2>1
  <2>4. l \in -Half..Half /\ t \in -Half..Half /\ t - l < Half /\ l - t < Half /\ t # l
    BY <1>3, <2>3
  <2>5. Seqno(t) # Seqno(l)
    BY <2>4, SeqnosCompare
  <2> QED BY <2>2, <2>3, <2>5
<1>6. PICK A, B, g : A = Seqno(t) /\ B = Seqno(p) /\ g = s.gaps
  OBVIOUS
<1>7. /\ DOMAIN s = SeqFields /\ DOMAIN g = 0..QF_SEQGAP_CT /\ s.seqlost \in Nat
      /\ \A c \in Cells : g[c] = GapOf(lo, hi, c)
  BY <1>4, <1>6 DEF Tracker
<1> DEFINE v == qfSeqGapUnshift(g, 0)
           n == hi[LastCell] - lo[LastCell]
<1>8. r = [s EXCEPT !.ooo = @ + (Diff(B, A) \div (Mss + 1)) + 1,
                    !.gaps = [v EXCEPT ![0] = [a |-> A, b |-> B]],
                    !.seqlost = @ + Size(g[LastCell])]
  <2>1. ~(g[0] # Empty /\ A = g[0].a)
    BY <1>5, <1>6
  <2>2. r = LET extends == g[0] # Empty /\ A = g[0].a
            IN  [s EXCEPT !.ooo = @ + (Diff(B, A) \div (Mss + 1)) + 1,
                          !.gaps = IF extends THEN [@ EXCEPT ![0].b = B]
                                   ELSE [qfSeqGapUnshift(@, 0) EXCEPT ![0] = [a |-> A, b |-> B]],
                          !.seqlost = IF extends THEN @ ELSE @ + Size(g[LastCell])]
    BY <1>6, Zenon DEF qfSeqGapPush
  <2> QED BY <1>6, <2>1, <2>2
<1>9. /\ DOMAIN v = 0..QF_SEQGAP_CT
      /\ \A c \in Cells : c > 0 => v[c] = g[c - 1]
  BY <1>1, <1>2 DEF qfSeqGapUnshift
<1> HIDE DEF v
<1>10. PICK h : h = [v EXCEPT ![0] = [a |-> A, b |-> B]]
  OBVIOUS
<1>11. /\ DOMAIN h = 0..QF_SEQGAP_CT /\ h[0] = [a |-> A, b |-> B]
       /\ \A c \in Cells : c > 0 => h[c] = g[c - 1]
  BY <1>1, <1>2, <1>9, <1>10
<1>12. Numbers(r, s) /\ r.gaps = h /\ r.seqlost = s.seqlost + n
  BY <1>4, <1>6, <1>7, <1>8, <1>10, <1>11 DEF Numbers, Tracker, SeqFields
<1> DEFINE lo2 == [c \in Cells |-> IF c = 0 THEN t ELSE lo[c - 1]]
           hi2 == [c \in Cells |-> IF c = 0 THEN p ELSE hi[c - 1]]
<1>13. lo2 \in [Cells -> Nat] /\ hi2 \in [Cells -> Nat]
  <2>1. \A c \in Cells : c # 0 => c - 1 \in Cells
    BY <1>1
  <2> QED BY <1>2, <2>1
<1>14. /\ lo2[0] = t /\ hi2[0] = p
       /\ \A c \in Cells : c > 0 => lo2[c] = lo[c - 1] /\ hi2[c] = hi[c - 1]
  BY <1>1
<1> HIDE DEF lo2, hi2
<1>15. /\ Stack(lo2, hi2, u)
       /\ \A o \in Nat : Held(lo2, hi2, o) => Held(lo, hi, o) \/ (t <= o /\ o < p)
       /\ \A o \in Nat : t <= o /\ o < p => Held(lo2, hi2, o)
       /\ \A o \in Nat : Held(lo, hi, o) =>
            Held(lo2, hi2, o) \/ (lo[LastCell] <= o /\ o < hi[LastCell])
  BY <1>13, <1>14, StackPushed
<1>16. StandFor(r.gaps, lo2, hi2)
  <2> SUFFICES ASSUME NEW c \in Cells
               PROVE  h[c] = GapOf(lo2, hi2, c)
    BY <1>12 DEF StandFor
  <2>1. CASE c = 0
    BY <1>6, <1>11, <1>14, <2>1 DEF GapOf
  <2>2. CASE c > 0
    <3>1. c - 1 \in Cells
      BY <1>1, <2>2
    <3> QED BY <1>7, <1>11, <1>14, <2>2, <3>1 DEF GapOf
  <2> QED BY <1>2, <2>1, <2>2
<1>17. Pushing(lo, hi, lo2, hi2, t, p, n)
  <2>1. \A o \in Nat : lo[LastCell] <= o /\ o < hi[LastCell] => n # 0
    BY <1>1, <1>2
  <2> QED BY <1>15, <2>1 DEF Pushing
<1> QED BY <1>4, <1>12, <1>15, <1>16, <1>17 DEF PushedOn

----------------------------------------------------------------------------
(***************************************************************************)
(* What the gaps of SeqTrack account for                                   *)
(***************************************************************************)
(* What was not seen is in a gap or one of at most k numbers given up.     *)
Missed(lo, hi, t, sn, k) ==
  \E D : /\ IsFiniteSet(D) /\ Cardinality(D) <= k
         /\ \A o \in Nat : o < t /\ o \notin sn => Held(lo, hi, o) \/ o \in D

(* What was seen is below t and in no gap.                                 *)
Exact(lo, hi, t, sn) == \A o \in sn : o < t /\ (o \in Nat => ~Held(lo, hi, o))

(* Numbers that are given up are added to those lost before.               *)
LEMMA LostGrow ==
  ASSUME NEW D, IsFiniteSet(D), NEW k \in Nat, Cardinality(D) <= k,
         NEW l \in Nat, NEW h \in Nat, l <= h, NEW n \in {0, h - l}
  PROVE  \E E : /\ IsFiniteSet(E) /\ Cardinality(E) <= k + n
                /\ D \subseteq E
                /\ \A o \in Nat : n # 0 /\ l <= o /\ o < h => o \in E
<1>1. CASE n = 0
  BY <1>1
<1>2. CASE n # 0
  <2>1. n = h - l /\ n \in Nat /\ l <= h - 1 /\ h - 1 \in Int /\ l \in Int
    BY <1>2
  <2>2. IsFiniteSet(l..h - 1) /\ Cardinality(l..h - 1) = h - l
    <3>1. PICK j \in Int : j = h - 1
      BY <2>1
    <3>2. IsFiniteSet(l..j) /\ Cardinality(l..j) = j - l + 1
      BY <2>1, <3>1, FS_Interval
    <3> QED BY <2>1, <3>1, <3>2
  <2>3. /\ IsFiniteSet(D \cup (l..h - 1))
        /\ Cardinality(D \cup (l..h - 1)) = Cardinality(D) + (h - l) - Cardinality(D \cap (l..h - 1))
    BY <2>2, FS_Union
  <2>4. Cardinality(D \cap (l..h - 1)) \in Nat /\ Cardinality(D) \in Nat
    BY <2>2, FS_Intersection, FS_CardinalityType
  <2>5. Cardinality(D \cup (l..h - 1)) <= k + n
    BY <2>1, <2>3, <2>4
  <2>6. \A o \in Nat : l <= o /\ o < h => o \in l..h - 1
    OBVIOUS
  <2> QED BY <2>3, <2>5, <2>6
<1> QED BY <1>1, <1>2

(* After a fill every number not seen is still accounted for.              *)
LEMMA FillAccounted ==
  ASSUME NEW lo, NEW hi, NEW t \in Nat, Stack(lo, hi, t),
         NEW lo2, NEW hi2, NEW k \in Nat, NEW n \in Nat, NEW sn \in SUBSET Int,
         NEW a \in Int, NEW b \in Int, NEW e \in Int, a < b, e <= b, a < t, a < 0 => b <= 0,
         Filling(lo, hi, lo2, hi2, a, e, n),
         \A c \in Cells : lo[c] <= a /\ a < hi[c] /\ b <= hi[c] => e = b,
         Missed(lo, hi, t, sn, k), t > 0 => t - 1 \in sn
  PROVE  /\ Missed(lo2, hi2, t, sn \cup (a..b - 1), k + n)
         /\ /\ k = 0 /\ n = 0 /\ Exact(lo, hi, t, sn)
            /\ (a..b - 1) \cap sn = {} \/ (a..b - 1) \subseteq sn
            => Exact(lo2, hi2, t, sn \cup (a..b - 1))
<1>1. /\ LastCell \in Cells
      /\ \A c \in Cells : c \in Nat /\ lo[c] \in Nat /\ hi[c] \in Nat /\ lo[c] <= hi[c]
      /\ \A c, f \in Cells : c < f /\ lo[f] < hi[f] => lo[c] < hi[c] /\ hi[f] < lo[c]
  BY CellsAre DEF Stack
<1>2. PICK D : /\ IsFiniteSet(D) /\ Cardinality(D) <= k
               /\ \A o \in Nat : o < t /\ o \notin sn => Held(lo, hi, o) \/ o \in D
  BY DEF Missed
<1>3. Missed(lo2, hi2, t, sn \cup (a..b - 1), k + n)
  <2>1. PICK l \in Nat, h \in Nat : l = lo[LastCell] /\ h = hi[LastCell] /\ l <= h
    BY <1>1
  <2>2. n \in {0, h - l}
    BY <2>1 DEF Filling
  <2>3. PICK E : /\ IsFiniteSet(E) /\ Cardinality(E) <= k + n
                 /\ D \subseteq E
                 /\ \A o \in Nat : n # 0 /\ l <= o /\ o < h => o \in E
    BY <1>2, <2>1, <2>2, LostGrow
  <2>4. ASSUME NEW o \in Nat, o < t, o \notin sn \cup (a..b - 1)
        PROVE  Held(lo2, hi2, o) \/ o \in E
    <3>1. ~(a <= o /\ o < e)
      BY <2>4
    <3>2. Held(lo, hi, o) \/ o \in D
      BY <1>2, <2>4
    <3> QED BY <2>1, <2>3, <3>1, <3>2 DEF Filling
  <2> QED BY <2>3, <2>4 DEF Missed
<1>4. ASSUME k = 0, n = 0, Exact(lo, hi, t, sn),
             (a..b - 1) \cap sn = {} \/ (a..b - 1) \subseteq sn
      PROVE  Exact(lo2, hi2, t, sn \cup (a..b - 1))
  <2>1. \A o \in Nat : Held(lo2, hi2, o) => Held(lo, hi, o) /\ ~(a <= o /\ o < e)
    BY DEF Filling
  <2>2. CASE (a..b - 1) \subseteq sn
    <3>1. sn \cup (a..b - 1) = sn
      BY <2>2
    <3> QED BY <1>4, <2>1, <3>1 DEF Exact
  <2>3. CASE (a..b - 1) \cap sn = {} /\ a < 0
    <3>1. \A o \in a..b - 1 : o < t /\ o \notin Nat
      BY <2>3
    <3> QED BY <1>4, <2>1, <3>1 DEF Exact
  <2>4. CASE (a..b - 1) \cap sn = {} /\ a >= 0
    <3>1. b <= t
      <4> SUFFICES ASSUME b > t
                   PROVE  FALSE
        OBVIOUS
      <4>1. t - 1 \in a..b - 1 /\ t > 0
        BY <2>4
      <4> QED BY <2>4, <4>1
    <3>2. D = {}
      <4>1. Cardinality(D) \in Nat /\ Cardinality(D) = 0
        BY <1>2, <1>4, FS_CardinalityType
      <4> QED BY <1>2, <4>1, FS_EmptySet
    <3>3. \A o \in a..b - 1 : o \in Nat /\ o < t /\ Held(lo, hi, o)
      <4> SUFFICES ASSUME NEW o \in a..b - 1
                   PROVE  o \in Nat /\ o < t /\ Held(lo, hi, o)
        OBVIOUS
      <4>1. o \in Nat /\ o < t /\ o \notin sn
        BY <2>4, <3>1
      <4> QED BY <1>2, <3>2, <4>1
    <3>4. a \in a..b - 1
      OBVIOUS
    <3>5. PICK i \in Cells : lo[i] <= a /\ a < hi[i]
      BY <3>3, <3>4 DEF Held
    <3>6. b <= hi[i]
      <4> SUFFICES ASSUME b > hi[i]
                   PROVE  FALSE
        BY <1>1
      <4>1. hi[i] \in a..b - 1
        BY <1>1, <3>5
      <4>2. PICK c \in Cells : lo[c] <= hi[i] /\ hi[i] < hi[c]
        BY <3>3, <4>1 DEF Held
      <4>3. c < i \/ c = i \/ i < c
        BY <1>1
      <4> QED BY <1>1, <3>5, <4>2, <4>3
    <3>7. e = b
      BY <3>5, <3>6
    <3>8. ASSUME NEW o \in a..b - 1
          PROVE  ~Held(lo2, hi2, o)
      BY <2>1, <3>3, <3>7, <3>8
    <3> QED BY <1>4, <2>1, <3>3, <3>8 DEF Exact
  <2> QED BY <1>4, <2>2, <2>3, <2>4
<1> QED BY <1>3, <1>4

(* After a push every number not seen is still accounted for.              *)
LEMMA PushAccounted ==
  ASSUME NEW lo, NEW hi, NEW t \in Nat, Stack(lo, hi, t),
         NEW lo2, NEW hi2, NEW k \in Nat, NEW n \in Nat, NEW sn \in SUBSET Int,
         NEW p \in Nat, NEW u \in Nat, t < p, p < u,
         Pushing(lo, hi, lo2, hi2, t, p, n), Missed(lo, hi, t, sn, k)
  PROVE  /\ Missed(lo2, hi2, u, sn \cup (p..u - 1), k + n)
         /\ Exact(lo, hi, t, sn) => Exact(lo2, hi2, u, sn \cup (p..u - 1))
<1>1. /\ LastCell \in Cells
      /\ \A c \in Cells : c \in Nat /\ lo[c] \in Nat /\ hi[c] \in Nat /\ lo[c] <= hi[c]
      /\ \A c \in Cells : lo[c] < hi[c] => hi[c] < t
  BY CellsAre DEF Stack
<1>2. PICK D : /\ IsFiniteSet(D) /\ Cardinality(D) <= k
               /\ \A o \in Nat : o < t /\ o \notin sn => Held(lo, hi, o) \/ o \in D
  BY DEF Missed
<1>3. Missed(lo2, hi2, u, sn \cup (p..u - 1), k + n)
  <2>1. PICK l \in Nat, h \in Nat : l = lo[LastCell] /\ h = hi[LastCell] /\ l <= h
    BY <1>1
  <2>2. n \in {0, h - l}
    BY <2>1 DEF Pushing
  <2>3. PICK E : /\ IsFiniteSet(E) /\ Cardinality(E) <= k + n
                 /\ D \subseteq E
                 /\ \A o \in Nat : n # 0 /\ l <= o /\ o < h => o \in E
    BY <1>2, <2>1, <2>2, LostGrow
  <2>4. ASSUME NEW o \in Nat, o < u, o \notin sn \cup (p..u - 1)
        PROVE  Held(lo2, hi2, o) \/ o \in E
    <3>1. o < p
      BY <2>4
    <3>2. CASE t <= o
      BY <3>1, <3>2 DEF Pushing
    <3>3. CASE o < t
      <4>1. Held(lo, hi, o) \/ o \in D
        BY <1>2, <2>4, <3>3
      <4> QED BY <2>1, <2>3, <4>1 DEF Pushing
    <3> QED BY <3>2, <3>3
  <2> QED BY <2>3, <2>4 DEF Missed
<1>4. ASSUME Exact(lo, hi, t, sn)
      PROVE  Exact(lo2, hi2, u, sn \cup (p..u - 1))
  <2>1. \A o \in Nat : Held(lo2, hi2, o) => o < p /\ (Held(lo, hi, o) \/ t <= o)
    <3> SUFFICES ASSUME NEW o \in Nat, Held(lo2, hi2, o)
                 PROVE  o < p /\ (Held(lo, hi, o) \/ t <= o)
      OBVIOUS
    <3>1. Held(lo, hi, o) \/ (t <= o /\ o < p)
      BY DEF Pushing
    <3>2. Held(lo, hi, o) => o < t
      BY <1>1 DEF Held
    <3> QED BY <3>1, <3>2
  <2>2. \A o \in p..u - 1 : o < u /\ ~(o < p)
    OBVIOUS
  <2>3. \A o \in sn : o < t /\ o \in Int /\ (o \in Nat => ~Held(lo, hi, o))
    BY <1>4 DEF Exact
  <2>4. \A o \in sn : o < u /\ ~(t <= o)
    BY <2>3
  <2> QED BY <2>1, <2>2, <2>3, <2>4 DEF Exact
<1> QED BY <1>3, <1>4

(* Adding octets to a sequence number goes on in the stream.               *)
LEMMA SeqnoAdds ==
  ASSUME qs.isn \in 0..SeqSpace - 1, NEW a \in -Half..Half, NEW b \in -Half..Half,
         a < b, b - a < SeqSpace
  PROVE  (Seqno(a) + (b - a)) % SeqSpace = Seqno(b)
<1>1. SeqSpace \in Nat /\ SeqSpace > 1 /\ Half \in Nat
  BY HalfTheSpace
<1>2. PICK n, u, w : n = qs.isn /\ u = Seqno(a) /\ w = Seqno(b) /\ n \in Int
  BY <1>1
<1>3. /\ u \in 0..SeqSpace - 1 /\ u \in {n + a, n + a + SeqSpace, n + a - SeqSpace}
      /\ w \in 0..SeqSpace - 1 /\ w \in {n + b, n + b + SeqSpace, n + b - SeqSpace}
  BY <1>2, SeqnoValue
<1>4. PICK v \in Int : v = u + (b - a)
  BY <1>1, <1>3
<1>5. v \in -SeqSpace..SeqSpace + SeqSpace - 1
  BY <1>1, <1>3, <1>4
<1>6. PICK z : z = v % SeqSpace /\ z \in 0..SeqSpace - 1 /\ z \in {v, v + SeqSpace, v - SeqSpace}
  BY <1>1, <1>5, RemainderNear
<1>7. z = w
  BY <1>1, <1>2, <1>3, <1>4, <1>6
<1> QED BY <1>2, <1>4, <1>6, <1>7

(* The tracker after any number of segments: nsn is a number of the        *)
(* stream, the last octet below it was seen, and the gaps stand for        *)
(* numbers of the stream that account for what was not seen.               *)
SeqInv ==
  /\ qs.isn \in 0..SeqSpace - 1 /\ Tracker(qs)
  /\ top \in Nat /\ top < Half /\ qs.nsn = Seqno(top)
  /\ \A x \in Segments : top - x.off < Half
  /\ seen \in SUBSET Int /\ (top > 0 => top - 1 \in seen)
  /\ mixed \in BOOLEAN
  /\ \E lo, hi : /\ Stack(lo, hi, top) /\ StandFor(qs.gaps, lo, hi)
                 /\ Missed(lo, hi, top, seen, qs.seqlost)
                 /\ qs.seqlost = 0 /\ ~mixed => Exact(lo, hi, top, seen)

(* The ends of segments, in a short stream.                                *)
LEMMA SegmentsAre ==
  ASSUME ShortStream, NEW x \in Segments
  PROVE  /\ x.off \in Int /\ x.oct \in Nat /\ x.off + x.oct \in Int
         /\ x.off + x.oct < Half /\ x.off \in -Half..Half
         /\ x.off < 0 => x.off + x.oct <= 0
         /\ \A y \in Segments : y.off + y.oct - x.off < Half
<1>1. x.off \in Int /\ x.oct \in Nat /\ Half \in Nat /\ Half > 0
  BY SeqAssumption, HalfTheSpace
<1>2. /\ x.off + x.oct < Half /\ (x.off < 0 => x.off + x.oct <= 0)
      /\ \A y \in Segments : y.off + y.oct - x.off < Half
      /\ 0 - x.off < Half
  <2> DEFINE ends == {0} \cup FirstOcts \cup {y.off + y.oct : y \in Segments}
  <2>1. \A end \in ends : end < Half /\ end - x.off < Half
    BY Zenon DEF ShortStream, Half
  <2>2. 0 \in ends /\ \A y \in Segments : y.off + y.oct \in ends
    OBVIOUS
  <2>3. x.off < 0 => x.off + x.oct <= 0
    BY Zenon DEF ShortStream
  <2> HIDE DEF ends
  <2>4. x.off + x.oct < Half
    BY <2>1, <2>2, Zenon
  <2>6. 0 - x.off < Half
    BY <2>1, <2>2, Zenon
  <2>5. ASSUME NEW y \in Segments
        PROVE  y.off + y.oct - x.off < Half
    <3>1. PICK end \in ends : end = y.off + y.oct
      BY <2>2
    <3>2. end - x.off < Half
      BY <2>1
    <3>3. y.off \in Int /\ y.oct \in Int
      BY SeqAssumption
    <3> QED BY <1>1, <3>1, <3>2, <3>3
  <2> QED BY <2>3, <2>4, <2>5, <2>6
<1> QED BY <1>1, <1>2

LEMMA SeqInvInit == ShortStream /\ qfSeqFirstSegment => SeqInv
<1> SUFFICES ASSUME ShortStream, qfSeqFirstSegment
             PROVE  SeqInv
  OBVIOUS
<1>1. PICK isn \in Isns, oct \in FirstOcts :
        /\ qs = [gaps |-> [c \in 0..QF_SEQGAP_CT |-> Empty], isn |-> isn,
                 nsn |-> (isn + oct) % SeqSpace, wrapct |-> 0, rtx |-> 0, ooo |-> 0,
                 maxooo |-> 0, seqlost |-> 0, lossct |-> 0, losslms |-> 0, advlms |-> 1]
        /\ seen = 0..(oct - 1) /\ mixed = FALSE /\ top = oct
  BY DEF qfSeqFirstSegment
<1>2. isn \in 0..SeqSpace - 1 /\ oct \in Nat
  BY SeqAssumption
<1>3. /\ qs.isn = isn /\ qs.nsn = Seqno(oct) /\ qs.seqlost = 0
      /\ qs.gaps = [c \in 0..QF_SEQGAP_CT |-> Empty] /\ DOMAIN qs = SeqFields
  BY <1>1 DEF Seqno, SeqFields
<1>4. Tracker(qs)
  BY <1>3 DEF Tracker
<1>5. oct < Half /\ \A x \in Segments : oct - x.off < Half
  BY DEF ShortStream, Half
<1> DEFINE zero == [c \in Cells |-> 0]
<1>6. Stack(zero, zero, oct)
  BY <1>2 DEF Stack
<1>7. StandFor(qs.gaps, zero, zero)
  BY <1>3, CellsAre DEF StandFor, GapOf
<1>8. Missed(zero, zero, oct, 0..(oct - 1), 0)
  <2>1. IsFiniteSet({}) /\ Cardinality({}) <= 0
    BY FS_EmptySet
  <2>2. \A o \in Nat : o < oct => o \in 0..(oct - 1)
    BY <1>2
  <2> QED BY <2>1, <2>2 DEF Missed
<1>9. Exact(zero, zero, oct, 0..(oct - 1))
  BY <1>2 DEF Exact, Held
<1>10. 0..(oct - 1) \in SUBSET Int /\ (oct > 0 => oct - 1 \in 0..(oct - 1))
  BY <1>2
<1> QED BY <1>1, <1>2, <1>3, <1>4, <1>5, <1>6, <1>7, <1>8, <1>9, <1>10 DEF SeqInv

(* Segment x has the octets from a up to b.                                *)
Spans(x, a, b) == a = x.off /\ b = x.off + x.oct

(* A segment that begins below the next number expected.                   *)
LEMMA RetreatStands ==
  ASSUME SeqInv, ShortStream, NEW x \in Segments, NEW a \in Int, NEW b \in Int,
         Spans(x, a, b), a < b, a < top,
         NEW lo, NEW hi, Stack(lo, hi, top), StandFor(qs.gaps, lo, hi),
         NEW est, NEW ms, NEW r, r = qfSeqSegment(qs, Seqno(a), x.oct, est, ms)
  PROVE  Numbers(r, qs) /\ FilledFrom(r, qs, lo, hi, top, a, b)
<1>1. /\ qs.isn \in 0..SeqSpace - 1 /\ Tracker(qs) /\ top \in Nat /\ top < Half
      /\ qs.nsn = Seqno(top) /\ top - x.off < Half
  BY DEF SeqInv
<1>2. Half \in Nat /\ Half > 0 /\ SeqSpace \in Nat /\ SeqSpace > 1
  BY HalfTheSpace
<1>3. b < Half /\ a \in -Half..Half /\ x.oct > 0 /\ b - a = x.oct /\ x.off = a
  <2>1. PICK n \in Nat : n = x.oct
    BY SegmentsAre
  <2>2. a = x.off /\ b = x.off + x.oct
    BY DEF Spans
  <2> QED BY <2>1, <2>2, SegmentsAre
<1>4. b \in -Half..Half /\ top \in -Half..Half
  BY <1>1, <1>2, <1>3
<1>5. qfWrapCompare(Seqno(a), qs.nsn) < 0
  <2>1. a - top < Half /\ top - a < Half /\ a < top
    BY <1>1, <1>2, <1>3
  <2> QED BY <1>1, <1>3, <1>4, <2>1, SeqnosCompare
<1>6. (Seqno(a) + x.oct) % SeqSpace = Seqno(b)
  <2>1. b - a = x.oct /\ b \in -Half..Half /\ b - a < SeqSpace
    BY <1>2, <1>3, HalfTheSpace
  <2> QED BY <1>1, <1>3, <2>1, SeqnoAdds
<1>7. PICK s : s = TrackJump(qs, Seqno(a))
  OBVIOUS
<1>8. Numbers(s, qs) /\ s.gaps = qs.gaps /\ s.seqlost = qs.seqlost
  BY <1>1, <1>7 DEF TrackJump, Numbers, Tracker, SeqFields
<1>9. PICK f : f = qfSeqGapFill(s, Seqno(a), Seqno(b))
  OBVIOUS
<1>10. r = IF f.rtx # qs.rtx THEN qfCountLoss(f, est, ms) ELSE f
  <2>1. r = Retreat(qs, Seqno(a), x.oct, est, ms)
    <3>1. ~(x.oct = 0)
      BY <1>3
    <3> QED BY <1>3, <1>5, <3>1 DEF qfSeqSegment
  <2> QED BY <1>6, <1>7, <1>9, <2>1, Zenon DEF Retreat
<1>11. Numbers(f, s) /\ FilledFrom(f, s, lo, hi, top, a, b)
  <2>1. Tracker(s) /\ StandFor(s.gaps, lo, hi) /\ a < top /\ top - a < Half
    BY <1>1, <1>3, <1>8 DEF Numbers
  <2> QED BY <1>1, <1>3, <1>4, <1>9, <2>1, FillStands
<1>12. Numbers(r, f) /\ r.gaps = f.gaps /\ r.seqlost = f.seqlost
  BY <1>10, <1>11 DEF qfCountLoss, Numbers, Tracker, SeqFields
<1>13. Numbers(r, qs)
  BY <1>8, <1>11, <1>12 DEF Numbers
<1> QED BY <1>8, <1>11, <1>12, <1>13 DEF FilledFrom

(* A segment that begins at or above the next number expected.             *)
LEMMA AdvanceStands ==
  ASSUME SeqInv, ShortStream, NEW x \in Segments, NEW a \in Int, NEW b \in Int,
         Spans(x, a, b), a < b, a >= top,
         NEW lo, NEW hi, Stack(lo, hi, top), StandFor(qs.gaps, lo, hi),
         NEW est, NEW ms, NEW r, r = qfSeqSegment(qs, Seqno(a), x.oct, est, ms)
  PROVE  /\ Tracker(r) /\ r.isn = qs.isn /\ r.nsn = Seqno(b)
         /\ a = top => r.gaps = qs.gaps /\ r.seqlost = qs.seqlost
         /\ a > top => PushedOn(r, qs, lo, hi, top, a, b)
<1>1. /\ qs.isn \in 0..SeqSpace - 1 /\ Tracker(qs) /\ top \in Nat /\ top < Half
      /\ qs.nsn = Seqno(top)
  BY DEF SeqInv
<1>2. Half \in Nat /\ Half > 0 /\ SeqSpace \in Nat /\ SeqSpace > 1
  BY HalfTheSpace
<1>3. b < Half /\ a \in -Half..Half /\ x.oct > 0 /\ b - a = x.oct /\ x.off = a
  <2>1. PICK n \in Nat : n = x.oct
    BY SegmentsAre
  <2>2. a = x.off /\ b = x.off + x.oct
    BY DEF Spans
  <2> QED BY <2>1, <2>2, SegmentsAre
<1>4. /\ top \in -Half..Half /\ a - top < Half /\ top - a < Half /\ a >= top
      /\ a \in Nat /\ b \in Nat
  BY <1>1, <1>2, <1>3
<1>5. ~(qfWrapCompare(Seqno(a), qs.nsn) < 0) /\ (Seqno(a) = qs.nsn <=> a = top)
  BY <1>1, <1>3, <1>4, SeqnosCompare
<1>6. (Seqno(a) + x.oct) % SeqSpace = Seqno(b)
  <2>1. b - a = x.oct /\ b \in -Half..Half /\ b - a < SeqSpace
    BY <1>2, <1>3, HalfTheSpace
  <2> QED BY <1>1, <1>3, <2>1, SeqnoAdds
<1>7. PICK f : f = IF Seqno(a) = qs.nsn THEN qs
                   ELSE TrackJump(qfCountLoss(qfSeqGapPush(qs, qs.nsn, Seqno(a)), est, ms), Seqno(a))
  OBVIOUS
<1>8. PICK w : r = [f EXCEPT !.wrapct = w, !.nsn = Seqno(b), !.advlms = ms]
  <2>1. r = Advance(qs, Seqno(a), x.oct, est, ms)
    <3>1. ~(x.oct = 0)
      BY <1>3
    <3> QED BY <1>3, <1>5, <3>1 DEF qfSeqSegment
  <2>2. r = [f EXCEPT !.wrapct = IF Seqno(b) < qs.nsn THEN @ + 1 ELSE @,
                      !.nsn = Seqno(b), !.advlms = ms]
    BY <1>6, <1>7, <2>1, Zenon DEF Advance
  <2> QED BY <2>2
<1>9. ASSUME Tracker(f), f.isn = qs.isn
      PROVE  /\ Tracker(r) /\ r.isn = qs.isn /\ r.nsn = Seqno(b)
             /\ r.gaps = f.gaps /\ r.seqlost = f.seqlost
  BY <1>8, <1>9 DEF Tracker, SeqFields
<1>10. CASE a = top
  <2>1. f = qs
    BY <1>5, <1>7, <1>10
  <2> QED BY <1>1, <1>3, <1>9, <1>10, <2>1
<1>11. CASE a > top
  <2>1. f = TrackJump(qfCountLoss(qfSeqGapPush(qs, qs.nsn, Seqno(a)), est, ms), Seqno(a))
    BY <1>5, <1>7, <1>11
  <2>2. PICK s : s = qfSeqGapPush(qs, Seqno(top), Seqno(a))
    OBVIOUS
  <2>3. Numbers(s, qs) /\ PushedOn(s, qs, lo, hi, top, a, b)
    BY <1>1, <1>3, <1>4, <1>11, <2>2, PushStands
  <2>4. PICK q : q = qfCountLoss(s, est, ms)
    OBVIOUS
  <2>5. Tracker(q) /\ q.isn = s.isn /\ q.gaps = s.gaps /\ q.seqlost = s.seqlost
    BY <2>3, <2>4 DEF qfCountLoss, Numbers, Tracker, SeqFields
  <2>6. f = TrackJump(q, Seqno(a))
    BY <1>1, <2>1, <2>2, <2>4
  <2>7. Tracker(f) /\ f.isn = q.isn /\ f.gaps = q.gaps /\ f.seqlost = q.seqlost
    BY <2>5, <2>6 DEF TrackJump, Tracker, SeqFields
  <2>8. f.isn = qs.isn
    BY <2>3, <2>5, <2>7 DEF Numbers
  <2> QED BY <1>3, <1>9, <1>11, <2>3, <2>5, <2>7, <2>8 DEF PushedOn
<1> QED BY <1>3, <1>4, <1>10, <1>11

(* The invariant after a step, from what the step leaves.                  *)
LEMMA SeqInvFrom ==
  ASSUME SeqInv, NEW r, Tracker(r), qs' = r, r.isn = qs.isn,
         NEW u \in Nat, top' = u, u < Half, r.nsn = Seqno(u),
         \A x \in Segments : u - x.off < Half,
         NEW sn \in SUBSET Int, seen' = sn, u > 0 => u - 1 \in sn,
         NEW m \in BOOLEAN, mixed' = m,
         NEW lo, NEW hi, Stack(lo, hi, u), StandFor(r.gaps, lo, hi),
         Missed(lo, hi, u, sn, r.seqlost),
         r.seqlost = 0 /\ ~m => Exact(lo, hi, u, sn)
  PROVE  SeqInv'
<1>1. \A o : Seqno(o)' = Seqno(o)
  BY DEF Seqno
<1>2. StandFor(qs.gaps, lo, hi)'
  <2>1. \A c : GapOf(lo, hi, c)' = GapOf(lo, hi, c)
    BY <1>1 DEF GapOf
  <2> QED BY <2>1 DEF StandFor
<1>3. qs'.isn \in 0..SeqSpace - 1
  BY DEF SeqInv
<1>4. /\ Tracker(qs)' /\ top' \in Nat /\ (top < Half)' /\ \A x \in Segments : (top - x.off < Half)'
      /\ qs'.nsn = Seqno(top)'
  <2>1. Tracker(qs)' /\ qs'.nsn = Seqno(top)'
    BY DEF Tracker, Seqno
  <2>2. Half' = Half
    BY DEF Half
  <2> QED BY <2>1, <2>2
<1>5. /\ seen' \in SUBSET Int /\ (top' > 0 => top' - 1 \in seen') /\ mixed' \in BOOLEAN
  OBVIOUS
<1>6. /\ Stack(lo, hi, top)'
      /\ Missed(lo, hi, top, seen, qs.seqlost)'
      /\ (qs.seqlost = 0 /\ ~mixed => Exact(lo, hi, top, seen))'
  <2>1. Stack(lo, hi, top)' <=> Stack(lo, hi, u)
    BY DEF Stack
  <2>2. Missed(lo, hi, top, seen, qs.seqlost)' <=> Missed(lo, hi, u, sn, r.seqlost)
    BY DEF Missed
  <2>3. Exact(lo, hi, top, seen)' <=> Exact(lo, hi, u, sn)
    BY DEF Exact
  <2> QED BY <2>1, <2>2, <2>3
<1> QED BY <1>2, <1>3, <1>4, <1>5, <1>6 DEF SeqInv

(* Every segment keeps the invariant.                                      *)
LEMMA SeqInvStep ==
  ASSUME SeqInv, ShortStream, NEW x \in Segments, NEW est, NEW ms, Segment(x, est, ms)
  PROVE  SeqInv'
<1>1. /\ Tracker(qs) /\ top \in Nat /\ top < Half /\ seen \in SUBSET Int /\ mixed \in BOOLEAN
      /\ qs.nsn = Seqno(top) /\ \A y \in Segments : top - y.off < Half
      /\ top > 0 => top - 1 \in seen
  BY DEF SeqInv
<1>2. PICK lo, hi : /\ Stack(lo, hi, top) /\ StandFor(qs.gaps, lo, hi)
                    /\ Missed(lo, hi, top, seen, qs.seqlost)
                    /\ qs.seqlost = 0 /\ ~mixed => Exact(lo, hi, top, seen)
  BY DEF SeqInv
<1>3. PICK a \in Int, b \in Int : /\ a = x.off /\ b = x.off + x.oct /\ b < Half
                                  /\ x.oct \in Nat /\ (x.oct > 0 <=> a < b) /\ (x.oct = 0 <=> a = b)
                                  /\ (a < 0 => b <= 0)
  <2>1. PICK a \in Int, n \in Nat : a = x.off /\ n = x.oct
    BY SegmentsAre
  <2>2. a + n < Half /\ (a < 0 => a + n <= 0)
    BY <2>1, SegmentsAre
  <2> QED BY <2>1, <2>2
<1>4. /\ qs' = qfSeqSegment(qs, Seqno(x.off), x.oct, est, ms)
      /\ seen' = seen \cup (a..b - 1)
      /\ mixed' = (mixed \/ ((a..b - 1) \cap seen # {} /\ ~((a..b - 1) \subseteq seen)))
      /\ top' = IF x.oct > 0 /\ a >= top THEN b ELSE top
  <2>1. x.off..(x.off + x.oct - 1) = a..b - 1
    <3>1. x.off + x.oct - 1 = b - 1
      BY <1>3
    <3> QED BY <1>3, <3>1
  <2> QED BY <1>3, <2>1 DEF Segment
<1>5. PICK r, sn, m : /\ r = qfSeqSegment(qs, Seqno(x.off), x.oct, est, ms)
                      /\ sn = seen \cup (a..b - 1)
                      /\ m = (mixed \/ ((a..b - 1) \cap seen # {} /\ ~((a..b - 1) \subseteq seen)))
  OBVIOUS
<1>6. qs' = r /\ seen' = sn /\ mixed' = m /\ sn \in SUBSET Int /\ m \in BOOLEAN
  BY <1>1, <1>4, <1>5
<1>7. PICK k \in Nat : k = qs.seqlost
  BY <1>1 DEF Tracker
<1>8. ~m => ~mixed /\ ((a..b - 1) \cap seen = {} \/ (a..b - 1) \subseteq seen)
  BY <1>1, <1>5
<1>9. CASE x.oct = 0
  <2>1. r = qs /\ sn = seen /\ top' = top
    <3>1. a..b - 1 = {}
      BY <1>3, <1>9
    <3> QED BY <1>3, <1>4, <1>5, <1>9, <3>1 DEF qfSeqSegment
  <2>2. top > 0 => top - 1 \in sn
    BY <1>1, <2>1
  <2>3. Missed(lo, hi, top, sn, r.seqlost) /\ (r.seqlost = 0 /\ ~m => Exact(lo, hi, top, sn))
    BY <1>2, <1>8, <2>1
  <2> QED BY <1>1, <1>2, <1>6, <2>1, <2>2, <2>3, SeqInvFrom
<1>10. CASE x.oct > 0 /\ a < top
  <2>1. top' = top
    BY <1>1, <1>3, <1>4, <1>10
  <2>2. Numbers(r, qs) /\ FilledFrom(r, qs, lo, hi, top, a, b)
    <3>1. a < b /\ r = qfSeqSegment(qs, Seqno(a), x.oct, est, ms)
      BY <1>3, <1>5, <1>10
    <3>2. Spans(x, a, b)
      BY <1>3 DEF Spans
    <3> QED BY <1>2, <1>10, <3>1, <3>2, RetreatStands
  <2>9. PICK lo2, hi2 : \E n \in Nat, e \in Int :
             /\ Stack(lo2, hi2, top) /\ StandFor(r.gaps, lo2, hi2)
             /\ r.seqlost = qs.seqlost + n
             /\ e <= b /\ Filling(lo, hi, lo2, hi2, a, e, n)
             /\ \A c \in Cells : lo[c] <= a /\ a < hi[c] /\ b <= hi[c] => e = b
    BY <2>2 DEF FilledFrom
  <2>3. PICK n \in Nat, e \in Int :
             /\ Stack(lo2, hi2, top) /\ StandFor(r.gaps, lo2, hi2)
             /\ r.seqlost = qs.seqlost + n
             /\ e <= b /\ Filling(lo, hi, lo2, hi2, a, e, n)
             /\ \A c \in Cells : lo[c] <= a /\ a < hi[c] /\ b <= hi[c] => e = b
    BY <2>9
  <2>8. r.seqlost = k + n
    BY <1>7, <2>3
  <2>4. /\ Missed(lo2, hi2, top, sn, k + n)
        /\ /\ k = 0 /\ n = 0 /\ Exact(lo, hi, top, seen)
           /\ (a..b - 1) \cap seen = {} \/ (a..b - 1) \subseteq seen
           => Exact(lo2, hi2, top, sn)
    <3>1. a < b /\ (a < 0 => b <= 0) /\ Missed(lo, hi, top, seen, k)
      BY <1>2, <1>3, <1>7, <1>10
    <3> QED BY <1>1, <1>2, <1>5, <1>10, <2>3, <3>1, FillAccounted
  <2>5. r.seqlost = 0 /\ ~m => Exact(lo2, hi2, top, sn)
    <3>1. r.seqlost = 0 => k = 0 /\ n = 0
      BY <2>8
    <3> QED BY <1>2, <1>7, <1>8, <2>4, <3>1
  <2>6. Tracker(r) /\ r.isn = qs.isn /\ r.nsn = Seqno(top) /\ (top > 0 => top - 1 \in sn)
    BY <1>1, <1>5, <2>2 DEF Numbers
  <2>7. Missed(lo2, hi2, top, sn, r.seqlost)
    BY <2>4, <2>8
  <2> QED BY <1>1, <1>6, <2>1, <2>3, <2>5, <2>6, <2>7, SeqInvFrom
<1>11. CASE x.oct > 0 /\ a >= top
  <2>1. top' = b /\ a \in Nat /\ b \in Nat /\ b > 0 /\ b - 1 \in sn
    BY <1>1, <1>3, <1>4, <1>5, <1>11
  <2>2. \A y \in Segments : b - y.off < Half
    BY <1>3, SegmentsAre
  <2>3. /\ Tracker(r) /\ r.isn = qs.isn /\ r.nsn = Seqno(b)
        /\ a = top => r.gaps = qs.gaps /\ r.seqlost = qs.seqlost
        /\ a > top => PushedOn(r, qs, lo, hi, top, a, b)
    <3>1. a < b /\ r = qfSeqSegment(qs, Seqno(a), x.oct, est, ms)
      BY <1>3, <1>5, <1>11
    <3>2. Spans(x, a, b)
      BY <1>3 DEF Spans
    <3> QED BY <1>2, <1>11, <3>1, <3>2, AdvanceStands
  <2>4. CASE a = top
    <3>1. Stack(lo, hi, b)
      <4>1. \A c \in Cells : hi[c] \in Nat /\ (lo[c] < hi[c] => hi[c] < top)
        BY <1>2 DEF Stack
      <4>2. \A c \in Cells : lo[c] < hi[c] => hi[c] < b
        BY <1>1, <1>3, <1>11, <2>1, <4>1
      <4> QED BY <1>2, <4>2 DEF Stack
    <3>2. Missed(lo, hi, b, sn, k)
      <4>1. PICK D : /\ IsFiniteSet(D) /\ Cardinality(D) <= k
                     /\ \A o \in Nat : o < top /\ o \notin seen => Held(lo, hi, o) \/ o \in D
        BY <1>2, <1>7 DEF Missed
      <4>2. \A o \in Nat : o < b /\ o \notin sn => o < top /\ o \notin seen
        BY <1>1, <1>5, <2>1, <2>4
      <4> QED BY <4>1, <4>2 DEF Missed
    <3>3. ASSUME Exact(lo, hi, top, seen)
          PROVE  Exact(lo, hi, b, sn)
      <4>1. \A o \in Nat : Held(lo, hi, o) => o < top
        <5> SUFFICES ASSUME NEW o \in Nat, NEW c \in Cells, lo[c] <= o, o < hi[c]
                     PROVE  o < top
          BY DEF Held
        <5>1. lo[c] \in Nat /\ hi[c] \in Nat /\ (lo[c] < hi[c] => hi[c] < top)
          BY <1>2 DEF Stack
        <5> QED BY <1>1, <5>1
      <4>2. \A o \in a..b - 1 : o < b /\ ~(o < top)
        BY <1>1, <2>1, <2>4
      <4>3. \A o \in seen : o < b /\ (o \in Nat => ~Held(lo, hi, o))
        BY <1>1, <1>3, <1>11, <2>4, <3>3 DEF Exact
      <4> QED BY <1>5, <4>1, <4>2, <4>3 DEF Exact
    <3>4. r.seqlost = 0 /\ ~m => Exact(lo, hi, b, sn)
      BY <1>2, <1>8, <2>3, <2>4, <3>3
    <3>5. Missed(lo, hi, b, sn, r.seqlost) /\ StandFor(r.gaps, lo, hi)
      BY <1>2, <1>7, <2>3, <2>4, <3>2
    <3> QED BY <1>3, <1>6, <2>1, <2>2, <2>3, <3>1, <3>4, <3>5, SeqInvFrom
  <2>5. CASE a > top
    <3>6. PICK lo2, hi2 : \E n \in Nat :
               /\ Stack(lo2, hi2, b) /\ StandFor(r.gaps, lo2, hi2)
               /\ r.seqlost = qs.seqlost + n
               /\ Pushing(lo, hi, lo2, hi2, top, a, n)
      BY <2>3, <2>5 DEF PushedOn
    <3>1. PICK n \in Nat :
               /\ Stack(lo2, hi2, b) /\ StandFor(r.gaps, lo2, hi2)
               /\ r.seqlost = qs.seqlost + n
               /\ Pushing(lo, hi, lo2, hi2, top, a, n)
      BY <3>6
    <3>5. r.seqlost = k + n
      BY <1>7, <3>1
    <3>2. /\ Missed(lo2, hi2, b, sn, k + n)
          /\ Exact(lo, hi, top, seen) => Exact(lo2, hi2, b, sn)
      BY <1>1, <1>2, <1>3, <1>5, <1>7, <1>11, <2>1, <2>5, <3>1, PushAccounted
    <3>3. r.seqlost = 0 /\ ~m => Exact(lo2, hi2, b, sn)
      <4>1. r.seqlost = 0 => k = 0
        BY <3>5
      <4> QED BY <1>2, <1>7, <1>8, <3>2, <4>1
    <3>4. Missed(lo2, hi2, b, sn, r.seqlost)
      BY <3>2, <3>5
    <3> QED BY <1>3, <1>6, <2>1, <2>2, <2>3, <3>1, <3>3, <3>4, SeqInvFrom
  <2> QED BY <1>1, <1>11, <2>4, <2>5
<1> QED BY <1>1, <1>3, <1>9, <1>10, <1>11

----------------------------------------------------------------------------
(* The sizes of the gaps add up to how many numbers they hold.             *)
LostStep(g, f, c) ==
  IF c = -1 THEN 0
  ELSE f[c - 1] + IF \A e \in 0..c : g[e] # Empty THEN Size(g[c]) ELSE 0

LostSums(g, f) == f = [c \in -1..LastCell |-> LostStep(g, f, c)]

LEMMA LostSumsAt ==
  ASSUME NEW g, NEW f, LostSums(g, f), NEW c \in -1..LastCell
  PROVE  f[c] = LostStep(g, f, c)
<1> DEFINE h == [d \in -1..LastCell |-> LostStep(g, f, d)]
<1>1. f = h
  BY DEF LostSums
<1>2. h[c] = LostStep(g, f, c)
  OBVIOUS
<1> HIDE DEF h
<1> QED BY <1>1, <1>2

LEMMA LostSumsUnique ==
  ASSUME NEW g, NEW f, LostSums(g, f), NEW w, LostSums(g, w)
  PROVE  f[LastCell] = w[LastCell]
<1> DEFINE Bad == {c \in 0..LastCell : f[c] # w[c]}
<1>1. LastCell \in Nat
  BY CellsAre
<1> SUFFICES ASSUME f[LastCell] # w[LastCell]
             PROVE  FALSE
  OBVIOUS
<1>2. Bad \in SUBSET Nat /\ LastCell \in Bad
  BY <1>1
<1>3. PICK c \in Bad : \A d \in Bad : c <= d
  BY <1>2, LeastNumber, Zenon
<1>4. c \in 0..LastCell /\ c \in -1..LastCell /\ c - 1 \in -1..LastCell /\ c # -1
  BY <1>1
<1>5. f[c - 1] = w[c - 1]
  <2>1. CASE c = 0
    <3>1. c - 1 = -1 /\ -1 \in -1..LastCell
      BY <1>1, <2>1
    <3> QED BY <3>1, LostSumsAt DEF LostStep
  <2>2. CASE c # 0
    <3>1. c - 1 \in 0..LastCell /\ ~(c <= c - 1)
      BY <1>4, <2>2
    <3>2. c - 1 \notin Bad
      BY <1>3, <3>1
    <3> QED BY <3>1, <3>2
  <2> QED BY <2>1, <2>2
<1>6. f[c] = LostStep(g, f, c) /\ w[c] = LostStep(g, w, c)
  BY <1>4, LostSumsAt
<1>7. f[c] = w[c]
  BY <1>4, <1>5, <1>6 DEF LostStep
<1> QED BY <1>7

(* What is reported lost is what was given up and what is in the gaps.     *)
LEMMA GapsAddUp ==
  ASSUME SeqInv, NEW lo, NEW hi, Stack(lo, hi, top), StandFor(qs.gaps, lo, hi)
  PROVE  qfSeqCountLost(qs) = qs.seqlost + Cardinality({o \in 0..(top - 1) : Held(lo, hi, o)})
<1> DEFINE g == qs.gaps
           upTo(c) == {o \in 0..(top - 1) : \E e \in Cells : e <= c /\ lo[e] <= o /\ o < hi[e]}
           w == [c \in -1..LastCell |-> Cardinality(upTo(c))]
<1>1. /\ qs.isn \in 0..SeqSpace - 1 /\ top \in Nat /\ top < Half /\ qs.seqlost \in Nat
  BY DEF SeqInv, Tracker
<1>2. /\ \A c : c \in Cells <=> c \in Nat /\ c <= LastCell
      /\ LastCell \in Nat /\ LastCell \in Cells
  BY CellsAre
<1>3. /\ \A c \in Cells : /\ c \in Nat /\ lo[c] \in Nat /\ hi[c] \in Nat /\ lo[c] <= hi[c]
                          /\ lo[c] < hi[c] => hi[c] < top
      /\ \A c, e \in Cells : c < e /\ lo[e] < hi[e] => lo[c] < hi[c] /\ hi[e] < lo[c]
  BY <1>2 DEF Stack
<1>4. \A c \in Cells : (g[c] # Empty <=> lo[c] < hi[c]) /\ Size(g[c]) = hi[c] - lo[c]
  BY <1>1, GapsStand
<1>5. \A c : IsFiniteSet(upTo(c)) /\ Cardinality(upTo(c)) \in Nat
  <2> SUFFICES ASSUME NEW c
               PROVE  IsFiniteSet(upTo(c)) /\ Cardinality(upTo(c)) \in Nat
    OBVIOUS
  <2>1. IsFiniteSet(0..(top - 1))
    <3>1. 0 \in Int /\ top - 1 \in Int
      BY <1>1
    <3> QED BY <3>1, FS_Interval
  <2>2. upTo(c) \in SUBSET (0..(top - 1))
    OBVIOUS
  <2> HIDE DEF upTo
  <2> QED BY <2>1, <2>2, FS_Subset, FS_CardinalityType
<1>6. ASSUME NEW c \in Cells
      PROVE  Cardinality(upTo(c)) = Cardinality(upTo(c - 1)) + (hi[c] - lo[c])
  <2> DEFINE X == {o \in Nat : lo[c] <= o /\ o < hi[c]}
  <2>1. IsFiniteSet(X) /\ Cardinality(X) = hi[c] - lo[c]
    <3>1. PICK l \in Nat, h \in Nat, j \in Int : l = lo[c] /\ h = hi[c] /\ j = h - 1 /\ l <= h
      BY <1>3
    <3>2. X = l..j
      BY <3>1
    <3>3. IsFiniteSet(l..j) /\ Cardinality(l..j) = IF l <= j THEN j - l + 1 ELSE 0
      <4>1. l \in Int
        OBVIOUS
      <4> HIDE DEF X
      <4> QED BY <4>1, FS_Interval
    <3>4. (IF l <= j THEN j - l + 1 ELSE 0) = h - l
      BY <3>1
    <3> HIDE DEF X
    <3> QED BY <3>1, <3>2, <3>3, <3>4
  <2>2. upTo(c) = upTo(c - 1) \cup X
    <3>1. \A e \in Cells : e <= c <=> e <= c - 1 \/ e = c
      BY <1>3
    <3>2. \A o \in X : o \in 0..(top - 1)
      BY <1>1, <1>3
    <3> QED BY <1>1, <1>3, <3>1, <3>2
  <2>3. upTo(c - 1) \cap X = {}
    <3> SUFFICES ASSUME NEW o \in Nat, lo[c] <= o, o < hi[c],
                        NEW e \in Cells, e <= c - 1, lo[e] <= o, o < hi[e]
                 PROVE  FALSE
      OBVIOUS
    <3>1. e < c /\ lo[c] < hi[c]
      BY <1>3
    <3>2. hi[c] < lo[e]
      BY <1>3, <3>1
    <3> QED BY <1>3, <3>2
  <2> HIDE DEF X
  <2>4. PICK U : U = upTo(c - 1)
    OBVIOUS
  <2>5. IsFiniteSet(U) /\ Cardinality(U) \in Nat
    BY <1>5, <2>4
  <2> HIDE DEF upTo
  <2>6. U \cap X = {} /\ upTo(c) = U \cup X
    BY <2>2, <2>3, <2>4
  <2>7. Cardinality(U \cup X) = Cardinality(U) + Cardinality(X) - Cardinality(U \cap X)
    BY <2>1, <2>5, FS_Union
  <2>8. Cardinality(U \cap X) = 0
    BY <2>6, FS_EmptySet
  <2>9. hi[c] - lo[c] \in Nat
    BY <1>3
  <2> QED BY <2>1, <2>4, <2>5, <2>6, <2>7, <2>8, <2>9
<1>7. LostSums(g, w)
  <2> SUFFICES ASSUME NEW c \in -1..LastCell
               PROVE  Cardinality(upTo(c)) = LostStep(g, w, c)
    BY DEF LostSums
  <2>1. CASE c = -1
    <3>1. upTo(c) = {}
      BY <1>2, <2>1
    <3> QED BY <2>1, <3>1, FS_EmptySet DEF LostStep
  <2>2. CASE c # -1
    <3>1. c \in Cells /\ c - 1 \in -1..LastCell
      BY <1>2, <2>2
    <3>2. w[c - 1] = Cardinality(upTo(c - 1))
      BY <3>1
    <3> HIDE DEF upTo, w
    <3>3. (\A e \in 0..c : g[e] # Empty) <=> lo[c] < hi[c]
      <4>1. \A e \in 0..c : e \in Cells /\ (e = c \/ e < c)
        BY <1>2, <3>1
      <4>2. c \in 0..c
        BY <1>2, <3>1
      <4> QED BY <1>3, <1>4, <3>1, <4>1, <4>2
    <3>4. Size(g[c]) = hi[c] - lo[c] /\ (~(lo[c] < hi[c]) => hi[c] - lo[c] = 0)
      BY <1>3, <1>4, <3>1
    <3>5. Cardinality(upTo(c)) = Cardinality(upTo(c - 1)) + (hi[c] - lo[c])
      BY <1>6, <3>1
    <3> HIDE DEF g
    <3>6. LostStep(g, w, c) = w[c - 1] + (hi[c] - lo[c])
      BY <2>2, <3>3, <3>4 DEF LostStep
    <3> QED BY <3>2, <3>5, <3>6
  <2> QED BY <2>1, <2>2
<1>8. PICK sum : sum = CHOOSE f : LostSums(g, f)
  OBVIOUS
<1>9. LostSums(g, sum)
  BY <1>7, <1>8
<1>10. qfSeqCountLost(qs) = qs.seqlost + sum[LastCell]
  <2> DEFINE full == {c \in Cells : \A e \in 0..c : g[e] # Empty}
             Sum(f) == [c \in -1..LastCell |->
                          IF c = -1 THEN 0 ELSE f[c - 1] + IF c \in full THEN Size(g[c]) ELSE 0]
  <2>1. qfSeqCountLost(qs) = qs.seqlost + (CHOOSE f : f = Sum(f))[LastCell]
    BY Zenon DEF qfSeqCountLost
  <2>2. ASSUME NEW f
        PROVE  Sum(f) = [c \in -1..LastCell |-> LostStep(g, f, c)]
    <3>1. \A c \in -1..LastCell : c = -1 \/ c \in Cells
      BY <1>2
    <3>2. \A c \in -1..LastCell :
            (IF c = -1 THEN 0 ELSE f[c - 1] + IF c \in full THEN Size(g[c]) ELSE 0) = LostStep(g, f, c)
      BY <3>1 DEF LostStep
    <3> HIDE DEF full
    <3> QED BY <3>2
  <2> HIDE DEF Sum
  <2>3. \A f : f = Sum(f) <=> LostSums(g, f)
    BY <2>2 DEF LostSums
  <2>4. (CHOOSE f : f = Sum(f)) = CHOOSE f : LostSums(g, f)
    BY <2>3, Zenon
  <2> QED BY <1>8, <2>1, <2>4
<1>11. w[LastCell] = Cardinality({o \in 0..(top - 1) : Held(lo, hi, o)})
  <2>1. upTo(LastCell) = {o \in 0..(top - 1) : Held(lo, hi, o)}
    BY <1>2 DEF Held
  <2>2. w[LastCell] = Cardinality(upTo(LastCell))
    BY <1>2
  <2> QED BY <2>1, <2>2
<1>12. sum[LastCell] = w[LastCell]
  <2> HIDE DEF w
  <2> QED BY <1>7, <1>9, LostSumsUnique
<1> QED BY <1>10, <1>11, <1>12

(* What the invariant says of the stream, said of sequence numbers.        *)
LEMMA SeqInvImplies == SeqInv => GapsMatchStream
<1> SUFFICES ASSUME SeqInv
             PROVE  GapsMatchStream
  OBVIOUS
<1>1. PICK lo, hi : /\ Stack(lo, hi, top) /\ StandFor(qs.gaps, lo, hi)
                    /\ Missed(lo, hi, top, seen, qs.seqlost)
                    /\ qs.seqlost = 0 /\ ~mixed => Exact(lo, hi, top, seen)
  BY DEF SeqInv
<1>2. /\ qs.isn \in 0..SeqSpace - 1 /\ top \in Nat /\ top < Half /\ qs.nsn = Seqno(top)
      /\ qs.seqlost \in Nat /\ Half \in Nat
  BY HalfTheSpace DEF SeqInv, Tracker
<1>3. /\ \A c \in Cells : c \in Nat /\ lo[c] \in Nat /\ hi[c] \in Nat /\ lo[c] <= hi[c]
                          /\ (lo[c] < hi[c] => hi[c] < top)
      /\ \A c, e \in Cells : c < e /\ lo[e] < hi[e] => lo[c] < hi[c] /\ hi[e] < lo[c]
  BY <1>1, CellsAre DEF Stack
<1>4. /\ Used \subseteq Cells
      /\ \A c \in Cells : c \in Used <=> lo[c] < hi[c]
      /\ \A c \in Used : qs.gaps[c].a = Seqno(lo[c]) /\ qs.gaps[c].b = Seqno(hi[c])
  <2>1. PICK g, t : g = qs.gaps /\ t = top
    OBVIOUS
  <2>2. Used = {c \in Cells : g[c] # Empty}
    BY <2>1 DEF Used
  <2>3. t \in Nat /\ t < Half /\ Stack(lo, hi, t) /\ StandFor(g, lo, hi)
    BY <1>1, <1>2, <2>1
  <2>4. /\ \A c \in Cells : g[c] # Empty <=> lo[c] < hi[c]
        /\ \A c \in Cells : lo[c] < hi[c] => g[c] = [a |-> Seqno(lo[c]), b |-> Seqno(hi[c])]
    BY <1>2, <2>3, GapsStand
  <2>5. ASSUME NEW c \in Used
        PROVE  g[c].a = Seqno(lo[c]) /\ g[c].b = Seqno(hi[c])
    <3>1. g[c] = [a |-> Seqno(lo[c]), b |-> Seqno(hi[c])]
      BY <2>2, <2>4
    <3> QED BY <3>1
  <2> QED BY <2>1, <2>2, <2>4, <2>5
<1>5. ASSUME NEW p \in 0..top, NEW q \in 0..top
      PROVE  /\ qfWrapCompare(Seqno(p), Seqno(q)) > 0 <=> p > q
             /\ qfWrapCompare(Seqno(p), Seqno(q)) < 0 <=> p < q
             /\ qfWrapCompare(Seqno(p), Seqno(q)) >= 0 <=> p >= q
             /\ p >= q => Diff(Seqno(p), Seqno(q)) = p - q
  <2>1. p \in -Half..Half /\ q \in -Half..Half /\ p - q < Half /\ q - p < Half
    BY <1>2
  <2> QED BY <1>2, <2>1, SeqnosCompare
<1>6. \A c \in Used : lo[c] \in 0..top /\ hi[c] \in 0..top
  BY <1>2, <1>3, <1>4
<1>7. GapsOrdered
  <2>1. ASSUME NEW c \in Used, NEW e \in 0..c
        PROVE  e \in Used
    <3>1. c \in Cells /\ c \in Nat /\ e \in Cells /\ (e = c \/ e < c)
      <4>1. c \in Cells /\ c \in Nat /\ c <= LastCell /\ LastCell \in Nat
        BY <1>4, CellsAre
      <4>2. e \in Nat /\ e <= c
        BY <4>1
      <4> QED BY <4>1, <4>2, CellsAre
    <3> QED BY <1>3, <1>4, <3>1
  <2>2. ASSUME NEW c \in Used
        PROVE  qfWrapCompare(qs.gaps[c].b, qs.gaps[c].a) > 0
    <3>1. lo[c] \in 0..top /\ hi[c] \in 0..top /\ hi[c] > lo[c]
      BY <1>3, <1>4, <1>6
    <3> QED BY <1>4, <1>5, <3>1
  <2>3. ASSUME NEW c \in Used
        PROVE  qfWrapCompare(IF c = 0 THEN qs.nsn ELSE qs.gaps[c - 1].a, qs.gaps[c].b) > 0
    <3>1. c \in Cells /\ hi[c] \in 0..top /\ qs.gaps[c].b = Seqno(hi[c]) /\ hi[c] < top
      BY <1>3, <1>4, <1>6
    <3>2. CASE c = 0
      BY <1>2, <1>5, <3>1, <3>2
    <3>3. CASE c # 0
      <4>1. PICK d \in Cells : d = c - 1 /\ d < c
        BY <3>1, <3>3, CellsAre
      <4>2. d \in Used /\ hi[c] < lo[d]
        BY <1>3, <1>4, <3>1, <4>1
      <4>3. qs.gaps[d].a = Seqno(lo[d]) /\ lo[d] \in 0..top
        BY <1>4, <1>6, <4>2
      <4> QED BY <1>3, <1>5, <3>1, <3>3, <4>1, <4>2, <4>3
    <3> QED BY <3>2, <3>3
  <2> QED BY <2>1, <2>2, <2>3 DEF GapsOrdered
<1>8. qs.wrapct = 0 => qfSeqCount(qs, {}) = IF top > 0 THEN top - 1 ELSE 0
  <2> SUFFICES ASSUME qs.wrapct = 0
               PROVE  qfSeqCount(qs, {}) = IF top > 0 THEN top - 1 ELSE 0
    OBVIOUS
  <2>1. Seqno(0) = qs.isn
    <3>1. PICK n \in 0..SeqSpace - 1 : n = qs.isn
      BY <1>2
    <3>2. (n + 0) % SeqSpace = n
      BY HalfTheSpace
    <3> QED BY <3>1, <3>2 DEF Seqno
  <2>2. Diff(qs.nsn, qs.isn) = top
    <3>1. 0 \in 0..top /\ top \in 0..top /\ top >= 0
      BY <1>2
    <3>2. Diff(Seqno(top), Seqno(0)) = top - 0
      BY <1>5, <3>1
    <3> QED BY <1>2, <2>1, <3>2
  <2>3. SeqSpace * qs.wrapct = 0
    BY HalfTheSpace
  <2>4. PICK all \in Nat : all = Diff(qs.nsn, qs.isn) + SeqSpace * qs.wrapct /\ all = top
    BY <1>2, <2>2, <2>3
  <2>5. qfSeqCount(qs, {}) =
          LET one == IF all > 0 THEN all - 1 ELSE 0
              syn == IF "SYN" \in {} /\ (one \div 2) % 2 = 1 THEN one - 1 ELSE one
          IN  IF "FIN" \in {} /\ syn % 2 = 1 THEN syn - 1 ELSE syn
    BY <2>4, Zenon DEF qfSeqCount
  <2> QED BY <2>4, <2>5
<1>9. PICK D : /\ IsFiniteSet(D) /\ Cardinality(D) <= qs.seqlost
               /\ \A o \in Nat : o < top /\ o \notin seen => Held(lo, hi, o) \/ o \in D
  BY <1>1 DEF Missed
<1> DEFINE inGaps == {o \in 0..(top - 1) : Held(lo, hi, o)}
<1>10. /\ IsFiniteSet(inGaps) /\ Cardinality(inGaps) \in Nat
       /\ \A o : o \in 0..(top - 1) <=> o \in Nat /\ o < top
  <2>1. 0 \in Int /\ top - 1 \in Int
    BY <1>2
  <2>2. inGaps \in SUBSET (0..(top - 1))
    OBVIOUS
  <2>3. \A o : o \in 0..(top - 1) <=> o \in Nat /\ o < top
    BY <1>2
  <2> HIDE DEF inGaps
  <2>4. IsFiniteSet(0..(top - 1))
    BY <2>1, FS_Interval
  <2> QED BY <2>2, <2>3, <2>4, FS_Subset, FS_CardinalityType
<1>11. Unseen \subseteq inGaps \cup D
  BY <1>9, <1>10 DEF Unseen
<1>12. Cardinality(Unseen) <= qfSeqCountLost(qs)
  <2>1. qfSeqCountLost(qs) = qs.seqlost + Cardinality(inGaps)
    BY <1>1, GapsAddUp
  <2> HIDE DEF inGaps
  <2>2. /\ IsFiniteSet(inGaps \cup D)
        /\ Cardinality(inGaps \cup D) =
             Cardinality(inGaps) + Cardinality(D) - Cardinality(inGaps \cap D)
    BY <1>9, <1>10, FS_Union
  <2>3. Cardinality(Unseen) <= Cardinality(inGaps \cup D) /\ Cardinality(Unseen) \in Nat
    BY <1>11, <2>2, FS_Subset, FS_CardinalityType
  <2>4. Cardinality(inGaps \cap D) \in Nat /\ Cardinality(D) \in Nat
    BY <1>9, FS_Intersection, FS_CardinalityType
  <2> QED BY <1>2, <1>9, <1>10, <2>1, <2>2, <2>3, <2>4
<1>13. ASSUME qs.seqlost = 0, ~mixed
       PROVE  GapOctets = Unseen
  <2>1. Exact(lo, hi, top, seen)
    BY <1>1, <1>13
  <2>2. D = {}
    <3>1. Cardinality(D) \in Nat /\ Cardinality(D) = 0
      BY <1>9, <1>13, FS_CardinalityType
    <3> QED BY <1>9, <3>1, FS_EmptySet
  <2>3. ASSUME NEW o \in 0..(top - 1)
        PROVE  InGap(o) <=> Held(lo, hi, o)
    <3>1. o \in 0..top /\ o \in Nat
      BY <1>2
    <3>2. ASSUME NEW c \in Used
          PROVE  /\ qfWrapCompare(Seqno(o), qs.gaps[c].a) >= 0 <=> lo[c] <= o
                 /\ qfWrapCompare(Seqno(o), qs.gaps[c].b) < 0 <=> o < hi[c]
      <4>1. /\ qs.gaps[c].a = Seqno(lo[c]) /\ qs.gaps[c].b = Seqno(hi[c])
            /\ lo[c] \in 0..top /\ hi[c] \in 0..top
        BY <1>4, <1>6
      <4>2. PICK l \in 0..top, h \in 0..top : l = lo[c] /\ h = hi[c]
        BY <4>1
      <4> QED BY <1>5, <3>1, <4>1, <4>2
    <3>3. \A c \in Cells : lo[c] <= o /\ o < hi[c] => c \in Used
      BY <1>3, <1>4, <3>1
    <3> QED BY <1>4, <3>2, <3>3 DEF InGap, Held
  <2>4. \A o \in 0..(top - 1) : Held(lo, hi, o) <=> o \notin seen
    BY <1>9, <1>10, <2>1, <2>2 DEF Exact
  <2> QED BY <2>3, <2>4 DEF GapOctets, Unseen
<1> QED BY <1>7, <1>8, <1>12, <1>13 DEF GapsMatchStream

(* The gaps of a tracker stand for the octets not seen (qfSeqGapPush,      *)
(* qfSeqGapFill): they are ordered, what is reported lost is never too     *)
(* low, and as long as no gap was given up and no segment was seen in part *)
(* they are exactly what was not seen, for every isn, also across the wrap *)
(* of sequence numbers, as long as the stream is shorter than half of the  *)
(* sequence number space, within which numbers can be compared.            *)
THEOREM GapsAlwaysMatchStream == ASSUME ShortStream PROVE Spec => []GapsMatchStream
<1>1. qfSeqFirstSegment => SeqInv
  BY SeqInvInit
<1>2. SeqInv /\ [Next]_vars => SeqInv'
  <2>1. ASSUME SeqInv, Next
        PROVE  SeqInv'
    BY <2>1, SeqInvStep DEF Next
  <2>2. ASSUME SeqInv, UNCHANGED vars
        PROVE  SeqInv'
    <3>1. PICK lo, hi : /\ Stack(lo, hi, top) /\ StandFor(qs.gaps, lo, hi)
                        /\ Missed(lo, hi, top, seen, qs.seqlost)
                        /\ qs.seqlost = 0 /\ ~mixed => Exact(lo, hi, top, seen)
      BY <2>2 DEF SeqInv
    <3>2. PICK r, u, sn, m : r = qs /\ u = top /\ sn = seen /\ m = mixed
      OBVIOUS
    <3>3. /\ Tracker(r) /\ r.isn = qs.isn /\ u \in Nat /\ u < Half /\ r.nsn = Seqno(u)
          /\ \A x \in Segments : u - x.off < Half
          /\ sn \in SUBSET Int /\ (u > 0 => u - 1 \in sn) /\ m \in BOOLEAN
      BY <2>2, <3>2 DEF SeqInv
    <3>4. qs' = r /\ top' = u /\ seen' = sn /\ mixed' = m
      BY <2>2, <3>2 DEF vars
    <3>5. /\ Stack(lo, hi, u) /\ StandFor(r.gaps, lo, hi) /\ Missed(lo, hi, u, sn, r.seqlost)
          /\ r.seqlost = 0 /\ ~m => Exact(lo, hi, u, sn)
      BY <3>1, <3>2
    <3> QED BY <2>2, <3>3, <3>4, <3>5, SeqInvFrom
  <2> QED BY <2>1, <2>2
<1> QED BY <1>1, <1>2, SeqInvImplies, PTL DEF Spec

=============================================================================
