------------------------------ MODULE AddrMaps ------------------------------
(***************************************************************************)
(* The interface map and the list of source networks (src/src/qofifmap.c)  *)
(* and the list of source MAC addresses (src/src/qofmaclist.c): arrays     *)
(* kept sorted by insertion and searched by halving.  Addresses are        *)
(* numbers of AddrBits bits.  Each IP version has maps of its own, so one  *)
(* behaviour has the addresses of one version, which is chosen at start.   *)
(*                                                                         *)
(* Entries are shifted with memcpy although source and target overlap if   *)
(* there is more than one: the copy may come out as a move, or repeat the  *)
(* first entry.  In the list of MAC addresses, bytes are passed to memcpy  *)
(* as pointers: shifting ends the program.                                 *)
(***************************************************************************)
EXTENDS Integers, Sequences, FiniteSets

CONSTANTS
  AddrBits,    \* width of an address
  NetPrefixes, \* prefixes to add: address and prefix length
  Ifs,         \* pairs of ingress and egress interface, 0 for none
  Macs,        \* MAC addresses
  MaxAdds      \* bound: entries

ASSUME AddrAssumption ==
  /\ AddrBits \in Nat /\ MaxAdds \in Nat /\ Macs \subseteq Nat
  /\ NetPrefixes \subseteq (0..2^AddrBits - 1) \X (0..AddrBits)
  /\ Ifs \subseteq Nat \X Nat

(* Masks are not empty: arithmetic, which the proofs take from here.       *)
ASSUME MaskAssumption == \A k \in 0..AddrBits : 2^k > 0

VARIABLES
  version,  \* of the addresses
  maps,     \* qfIfMap_t and qfNetList_t: the arrays of src, dst and net
  macs,     \* qfMacList_t
  added,    \* history: prefixes added to each array, and MAC addresses
  failed    \* history: "copy" repeated entries, or "crash"
addrVars == <<version, maps, macs, added, failed>>

Addrs == 0..2^AddrBits - 1
Arrays == {"src", "dst", "net"}

(* The range of a prefix: the bits after it are cleared and set.           *)
qfPrefixMask(p) == 2^(AddrBits - p[2])
From(p) == p[1] - (p[1] % qfPrefixMask(p))
To(p) == From(p) + qfPrefixMask(p) - 1

qfIfMapInit ==
  /\ version \in {4, 6}
  /\ maps = [m \in Arrays |-> <<>>] /\ macs = <<>>
  /\ added = [m \in Arrays \cup {"mac"} |-> {}] /\ failed = {}

----------------------------------------------------------------------------
(* Fault: entries are not inserted between others.                         *)
PositionFirst(map, addr) ==
  IF map = <<>> \/ addr < map[1].a THEN 1 ELSE Len(map) + 1

(* Where the linear search of an insertion ends: in front, at the end, in  *)
(* a gap, or, if the address is in a range already, at the end.            *)
Position(map, addr) ==
  LET n == Len(map)
      gaps == {i \in 2..n : map[i - 1].b < addr /\ addr < map[i].a}
  IN  IF n = 0 \/ addr < map[1].a THEN 1
      ELSE IF addr > map[n].b \/ gaps = {} THEN n + 1
      ELSE CHOOSE i \in gaps : \A j \in gaps : i <= j

(* The two outcomes of shifting the entries from i up by one.              *)
Moved(map, i) == SubSeq(map, 1, i) \o SubSeq(map, i, Len(map))
Repeated(map, i) == [j \in 1..Len(map) + 1 |-> IF j <= i THEN map[j] ELSE map[i]]

(* qfMapInsert4 and qfMapInsert6, with one of the outcomes of the shift.   *)
qfMapInsert(map, p, ifnum, repeats) ==
  LET i == Position(map, p[1])
      room == IF i > Len(map) THEN Append(map, 0)
              ELSE IF repeats THEN Repeated(map, i) ELSE Moved(map, i)
  IN  [room EXCEPT ![i] = [a |-> From(p), b |-> To(p), ifnum |-> ifnum]]

(* p is added to the arrays that ifnum gives an interface.                 *)
AddTo(p, ifnum) ==
  LET used == {m \in Arrays : ifnum[m] # 0}
      inserted(repeats) ==
        [m \in Arrays |-> IF m \in used THEN qfMapInsert(maps[m], p, ifnum[m], repeats)
                          ELSE maps[m]]
  IN  /\ "crash" \notin failed
      /\ added' = [m \in DOMAIN added |->
                     IF m \in used THEN added[m] \cup {<<p, ifnum[m]>>} ELSE added[m]]
      /\ \/ maps' = inserted(FALSE) /\ UNCHANGED failed
         \/ /\ inserted(TRUE) # inserted(FALSE)
            /\ maps' = inserted(TRUE) /\ failed' = failed \cup {"copy"}
      /\ UNCHANGED <<version, macs>>

qfIfMapAddMapping(p, ingress, egress) ==
  AddTo(p, [m \in Arrays |-> CASE m = "src" -> ingress [] m = "dst" -> egress [] OTHER -> 0])

qfNetListAdd(p) == AddTo(p, [m \in Arrays |-> IF m = "net" THEN 1 ELSE 0])

(* Only an address equal to the first gets past it, and is appended.       *)
qfMacListAdd(mac) ==
  /\ "crash" \notin failed
  /\ IF macs = <<>> \/ mac = macs[1]
     THEN macs' = Append(macs, mac) /\ UNCHANGED failed
     ELSE failed' = failed \cup {"crash"} /\ UNCHANGED macs
  /\ added' = [added EXCEPT !["mac"] = @ \cup {mac}]
  /\ UNCHANGED <<version, maps>>

AddrNext ==
  /\ Len(maps["src"]) + Len(maps["dst"]) + Len(maps["net"]) + Len(macs) < MaxAdds
  /\ \/ \E p \in NetPrefixes, i \in Ifs : qfIfMapAddMapping(p, i[1], i[2])
     \/ \E p \in NetPrefixes : qfNetListAdd(p)
     \/ \E mac \in Macs : qfMacListAdd(mac)

AddrSpec == qfIfMapInit /\ [][AddrNext]_addrVars

----------------------------------------------------------------------------
(* The binary search over n entries, counted from 0: the entry, or -1.     *)
(* side tells where what is sought is from an entry: here, above or below. *)
Halve(n, side) ==
  LET find[r \in (0..n) \X (-1..n - 1)] ==
        LET i == (r[1] + r[2]) \div 2
        IN  IF r[1] > r[2] THEN -1
            ELSE IF side[i] = "here" THEN i
            ELSE IF side[i] = "above" THEN find[<<i + 1, r[2]>>] ELSE find[<<r[1], i - 1>>]
  IN  find[<<0, n - 1>>]

(* qfMapSearch4 and qfMapSearch6 differ in which end they compare.         *)
qfMapSearch(map, addr) ==
  LET side == [j \in 0..Len(map) - 1 |->
                 LET e == map[j + 1]
                 IN  IF e.a <= addr /\ addr <= e.b THEN "here"
                     ELSE IF (IF version = 4 THEN e.b ELSE e.a) < addr THEN "above"
                     ELSE "below"]
      i == Halve(Len(map), side)
  IN  IF i = -1 THEN 0 ELSE map[i + 1].ifnum

(* Ingress from the source, egress from the destination.                   *)
qfIfMapAddresses(sip, dip) ==
  <<qfMapSearch(maps["src"], sip), qfMapSearch(maps["dst"], dip)>>

qfFlowDirection(sip, dip) ==
  LET ss == qfMapSearch(maps["net"], sip) # 0
      ds == qfMapSearch(maps["net"], dip) # 0
  IN  IF ss /\ ds THEN "INT" ELSE IF ss THEN "IN" ELSE IF ds THEN "OUT" ELSE "EXT"

qfMacListContains(mac) ==
  Halve(Len(macs), [j \in 0..Len(macs) - 1 |->
                      CASE macs[j + 1] = mac -> "here" [] macs[j + 1] < mac -> "above"
                        [] OTHER -> "below"]) # -1

----------------------------------------------------------------------------
(* The prefixes in an array do not overlap, nor was one added twice.       *)
Disjoint(m) ==
  /\ Cardinality(added[m]) = Len(maps[m])
  /\ \A q, r \in added[m] : q # r => To(q[1]) < From(r[1]) \/ To(r[1]) < From(q[1])

(* The interface of addr, or 0, by the prefixes added.                     *)
Wanted(m, addr) ==
  LET hits == {q \in added[m] : From(q[1]) <= addr /\ addr <= To(q[1])}
  IN  IF hits = {} THEN 0 ELSE (CHOOSE q \in hits : TRUE)[2]

(* Once one was added, every address finds the interface of its prefix,    *)
(* each way, and a flow has the direction that the source networks give it,*)
(* in whatever order prefixes were added, as long as they do not overlap   *)
(* and entries were shifted as intended; so for MAC addresses              *)
(* (qfMapSearch4, qfMapSearch6 on the arrays built by qfMapInsert4 and     *)
(* qfMapInsert6).                                                          *)
LookupsFindAdded ==
  failed = {} /\ (\E m \in DOMAIN added : added[m] # {}) =>
    /\ Disjoint("src") /\ Disjoint("dst") =>
         \A s, d \in Addrs : qfIfMapAddresses(s, d) = <<Wanted("src", s), Wanted("dst", d)>>
    /\ Disjoint("net") =>
         \A s, d \in Addrs :
           qfFlowDirection(s, d) =
             CASE Wanted("net", s) = 1 /\ Wanted("net", d) = 1 -> "INT"
               [] Wanted("net", s) = 1 /\ Wanted("net", d) = 0 -> "IN"
               [] Wanted("net", s) = 0 /\ Wanted("net", d) = 1 -> "OUT"
               [] OTHER -> "EXT"
    /\ \A mac \in Macs : qfMacListContains(mac) <=> mac \in added["mac"]

=============================================================================
