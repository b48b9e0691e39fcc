------------------------------- MODULE Decode -------------------------------
(***************************************************************************)
(* The packet decoder (src/src/decode.c): yfDecodeToPBuf and the functions *)
(* it calls, one action for each, as a walk over the headers of one frame  *)
(* after the other into a packet buffer that is reused.                    *)
(*                                                                         *)
(* A frame is a sequence of headers, captured up to some octet.  A header  *)
(* has a kind h, a length len and the kind of what follows it, next.  The  *)
(* contents of a field of the buffer are abstracted to where they come     *)
(* from: Here, the place in the frame being decoded, Zero if they were     *)
(* cleared, Stale if they are left from a frame before.                    *)
(***************************************************************************)
EXTENDS Integers, Sequences, SequencesExt, FiniteSetsExt

CONSTANTS
  Frames,     \* the frames: [link, hdrs, pay], pay the octets of payload
  Reqtypes,   \* the required IP types, "IPANY" for no restriction
  MaxFrames   \* bound: frames decoded

ShimTypes == {"8021Q", "MPLS", "PPPOE"}
Transports == {"tcp", "udp", "icmp"}

(* A fragment that is not the first of its datagram, a tunnel with source  *)
(* routing.                                                                *)
LaterFragment(h) == h.h \in {"IPv4", "FRAG"} /\ h.off
Routed(h) == h.h = "gre" /\ h.route

(* Without a fragment table IPv6 fragments are told by the masks of IPv4,  *)
(* which miss the two highest bits of the offset: a last fragment with no  *)
(* others is high, and its data are taken for a header of the kind next.   *)
(* They stand in a frame as that header.                                   *)
Misread(h) == h.h = "FRAG" /\ h.high

Octets(hs) == FoldSeq(LAMBDA h, n : h.len + n, 0, hs)

(* What follows a header is of the kind that it says, if it is decoded;    *)
(* behind a routed tunnel the route entries come first.                    *)
Follows(hs, k) == k < Len(hs) /\ hs[k + 1].h = hs[k].next
Chained(hs, k) ==
  /\ hs[k].h \in {"hdlc", "PPPOE"} => hs[k].next = "PPP" /\ Follows(hs, k)
  /\ hs[k].h = "MPLS" => k < Len(hs)
  /\ hs[k].next \in ShimTypes \cup {"IPv4", "IPv6"} /\ ~Routed(hs[k]) => Follows(hs, k)
  /\ hs[k].next \in {"HOP", "FRAG"} => Follows(hs, k)
  /\ hs[k].next \in Transports \cup {"gre"} /\ (LaterFragment(hs[k]) => Misread(hs[k]))
     => Follows(hs, k)
  /\ Routed(hs[k]) =>
       \A j \in k..Len(hs) : (\A i \in k + 1..j : hs[i].h = "SRE") =>
         /\ j < Len(hs)
         /\ hs[j + 1].h = IF j = k \/ hs[j].next = "SRE" THEN "SRE" ELSE hs[k].next

(* A TCP header with its options, each of which begins inside of it.       *)
WithOptions(h) ==
  /\ h.opts \in Seq(ToSet(h.opts))
  /\ \A j \in 1..Len(h.opts) :
       /\ h.opts[j].len \in Nat
       /\ h.len - 20 > Octets(h.opts) - Octets(SubSeq(h.opts, j, Len(h.opts)))

(* The octets of a frame as the headers that they are.                     *)
IsFrame(f) ==
  LET hs == f.hdrs
  IN  /\ f.pay \in Nat /\ hs \in Seq(ToSet(hs)) /\ hs # <<>>
      /\ f.link # "NONE" => hs[1].h # "gre"
      /\ \A k \in 1..Len(hs) :
           /\ hs[k].len \in Nat /\ Chained(hs, k)
           /\ hs[k].h \in {"IPv4", "FRAG"} => hs[k].off \in BOOLEAN /\ hs[k].more \in BOOLEAN
           /\ hs[k].h = "FRAG" => hs[k].high \in BOOLEAN /\ (hs[k].high => hs[k].off)
           /\ hs[k].h = "IPv6" => hs[k].len = 40
           /\ hs[k].h \in {"udp", "icmp"} => hs[k].len = 8
           /\ hs[k].h = "tcp" => WithOptions(hs[k])
           /\ hs[k].h \in Transports => k = Len(hs)

ASSUME DecodeAssumption == (\A f \in Frames : IsFrame(f)) /\ MaxFrames \in Nat

VARIABLES
  ctx,       \* configuration: reqtype, tomode, gremode; defrag: a fragment table
  stats,     \* the counters of the context
  pbuf,      \* yfPBuf_t
  fraginfo,  \* yfIPFragInfo_t: frag, offset (is not zero), more
  dec        \* the walk: pc, the frame, header at, pointer pos, caplen, type
decodeVars == <<ctx, stats, pbuf, fraginfo, dec>>

Zero == <<"zero">>
Stale == <<"stale">>
Here == <<"header", dec.at>>

Snap == {"l2hdr", "l2shim", "ip4hdr", "ip6hdr", "ip6ext", "l4hdr"}
Sup == {"l3type", "ip4frag", "ip6frag", "grevers", "arptype"}
Opts == {"mss", "ws", "ts", "sack"}

(* The headers, of their kinds and with what the decoder looks at.         *)
yfHdr(h, len, next) == [h |-> h, len |-> len, next |-> next]
yfHdrEn10Mb(next) == yfHdr("eth", 14, next)
yfHdrIPv4(next, off, more) ==
  [h |-> "IPv4", len |-> 20, next |-> next, off |-> off, more |-> more]
yfHdrIPv6(next) == yfHdr("IPv6", 40, next)
yfHdrIPv6Frag(next, off, more, high) ==
  [h |-> "FRAG", len |-> 8, next |-> next, off |-> off, more |-> more, high |-> high]
yfHdrTcp(len, opts) == [h |-> "tcp", len |-> len, next |-> "data", opts |-> opts]
yfHdrUdp == yfHdr("udp", 8, "data")
yfHdrIcmp == yfHdr("icmp", 8, "data")
yfHdrGre(len, vers, route, next) ==
  [h |-> "gre", len |-> len, next |-> next, vers |-> vers, route |-> route]

(* The header at the pointer.                                              *)
Hdr == dec.frame.hdrs[dec.at]

(* What the IP header at k says of the length of its datagram.             *)
IpLen(f, k) == Octets(SubSeq(f.hdrs, k, Len(f.hdrs))) + f.pay

(* Capture lengths: up to a header's end, one octet less, or everything.   *)
CapLens(f) ==
  {IpLen(f, 1)} \cup
  {Octets(SubSeq(f.hdrs, 1, k)) - c : k \in 1..Len(f.hdrs), c \in {0, 1}}

yfDecodeCtxAlloc ==
  /\ ctx \in [reqtype : Reqtypes, tomode : BOOLEAN, gremode : BOOLEAN,
              defrag : BOOLEAN]
  /\ stats = [c \in Snap \cup Sup \cup {"l4frag"} |-> 0]
  /\ pbuf = [ptime |-> 0, addr |-> Stale, iplen |-> 0, ipinfo |-> Stale,
             proto |-> "udp", ports |-> Stale, tcpinfo |-> Stale,
             opt |-> [o \in Opts |-> Stale], mac |-> Stale, vlan |-> Stale,
             vlanId |-> Stale, mpls |-> Stale, l2hlen |-> 0, allHeaderLen |-> 0]
  /\ fraginfo = [frag |-> FALSE, offset |-> FALSE, more |-> FALSE]
  /\ dec = [pc |-> "idle", n |-> 0]

----------------------------------------------------------------------------
(* Ways to go on: to another function, past len octets, or out.            *)
Goto(pc) == [dec EXCEPT !.pc = pc]
Past(len, type, pc) ==
  [dec EXCEPT !.pc = pc, !.at = @ + 1, !.pos = @ + len, !.caplen = @ - len,
              !.type = type]

Count(c) == stats' = [stats EXCEPT ![c] = @ + 1]

(* return NULL, after counting it ...                                      *)
Reject(c) == Count(c) /\ dec' = Goto("rejected")

(* ... without counting it ...                                             *)
RejectSilently == dec' = Goto("rejected") /\ UNCHANGED stats

(* ... and in layer 4, where fragments are counted once more.              *)
RejectL4 ==
  /\ stats' = [stats EXCEPT !["l4hdr"] = @ + 1,
                            !["l4frag"] = IF fraginfo.frag THEN @ + 1 ELSE @]
  /\ dec' = Goto("rejected")

(* The last lines of yfDecodeToPBuf, for a packet buffer b.                *)
Accept(b, pos) ==
  /\ pbuf' = [b EXCEPT !.ptime = dec.n, !.allHeaderLen = pos]
  /\ dec' = Goto("accepted")
  /\ UNCHANGED stats

(* Age marks what the buffer holds as left from an earlier frame.          *)
Age(b) ==
  LET old(v) == IF v = Zero THEN Zero ELSE Stale
  IN  [b EXCEPT !.addr = old(@), !.ipinfo = old(@), !.ports = old(@),
                !.tcpinfo = old(@), !.vlanId = old(@),
                !.opt = [o \in Opts |-> old(@[o])],
                !.mac = Zero, !.vlan = Zero, !.mpls = Zero]

(* yfDecodeToPBuf: the buffer is not valid yet, and yfDecodeL2 clears      *)
(* l2info.                                                                 *)
yfDecodeToPBuf(f, cap) ==
  /\ dec.pc \in {"idle", "accepted", "rejected"} /\ dec.n < MaxFrames
  /\ pbuf' = [Age(pbuf) EXCEPT !.ptime = 0]
  /\ dec' = [pc |-> "l2", n |-> dec.n + 1, frame |-> f, at |-> 1, pos |-> 0,
             caplen |-> cap, type |-> f.link, opts |-> <<>>]
  /\ UNCHANGED <<ctx, stats, fraginfo>>

(* YF_IP_VERSION_TO_TYPE after skipping len octets.                        *)
VersionToType(len, k, pc) ==
  IF dec.caplen - len >= 1 /\ dec.frame.hdrs[k].h \in {"IPv4", "IPv6"}
  THEN /\ dec' = [dec EXCEPT !.pc = pc, !.at = k, !.pos = @ + len,
                             !.caplen = @ - len, !.type = dec.frame.hdrs[k].h]
       /\ UNCHANGED stats
  ELSE RejectSilently

yfDecodeL2 ==
  /\ dec.pc = "l2"
  /\ CASE dec.type \in {"ETH", "LINUX_SLL", "HDLC_POS"} ->
            IF dec.caplen < Hdr.len THEN Reject("l2hdr") /\ UNCHANGED pbuf
            ELSE /\ dec' = Past(Hdr.len, Hdr.next, "shim")
                 /\ pbuf' = IF dec.type = "ETH" THEN [pbuf EXCEPT !.mac = Here]
                            ELSE pbuf
                 /\ UNCHANGED stats
       [] dec.type = "NONE" -> VersionToType(0, 1, "shim") /\ UNCHANGED pbuf
       [] dec.type = "PPP" ->
            /\ IF dec.caplen < 2 THEN Reject("l2hdr")
               ELSE /\ dec' = IF Hdr.h = "hdlc" THEN Past(2, Hdr.next, "ppp")
                              ELSE Goto("ppp")
                    /\ UNCHANGED stats
            /\ UNCHANGED pbuf
       [] OTHER -> RejectSilently /\ UNCHANGED pbuf
  /\ UNCHANGED <<ctx, fraginfo>>

yfDecodeL2PPP ==
  /\ dec.pc = "ppp"
  /\ IF dec.caplen < 2 THEN Reject("l2hdr")
     ELSE IF Hdr.next \in {"IPv4", "IPv6", "MPLS"}
     THEN dec' = Past(2, Hdr.next, "shim") /\ UNCHANGED stats
     ELSE RejectSilently
  /\ UNCHANGED <<ctx, pbuf, fraginfo>>

(* One turn of the loop over shim headers; after the last, yfDecodeToPBuf  *)
(* notes the length of layer 2 and the VLAN.                               *)
yfDecodeL2Shim ==
  /\ dec.pc = "shim"
  /\ \/ /\ dec.type = "8021Q" /\ dec.caplen >= 4
        /\ dec' = Past(4, Hdr.next, "shim")
        /\ pbuf' = [pbuf EXCEPT !.vlan = Here]
        /\ UNCHANGED stats
     \/ /\ dec.type = "MPLS" /\ dec.caplen >= 4
        /\ pbuf' = [pbuf EXCEPT !.mpls = Here]
        /\ IF Hdr.next = "MPLS"
           THEN dec' = Past(4, "MPLS", "shim") /\ UNCHANGED stats
           ELSE VersionToType(4, dec.at + 1, "shim")
     \/ /\ dec.type = "PPPOE" /\ dec.caplen >= 6
        /\ dec' = Past(6, "PPP", "ppp")
        /\ UNCHANGED <<pbuf, stats>>
     \/ /\ dec.type \in ShimTypes /\ dec.caplen < Hdr.len
        /\ Reject("l2shim") /\ UNCHANGED pbuf
     \/ /\ dec.type \notin ShimTypes
        /\ dec' = Goto("ip")
        /\ pbuf' = [pbuf EXCEPT !.l2hlen = dec.pos, !.vlanId = pbuf.vlan]
        /\ UNCHANGED stats
  /\ UNCHANGED <<ctx, fraginfo>>

----------------------------------------------------------------------------
(* yfDecodeIP: the required type, and which header this is.                *)
yfDecodeIP ==
  /\ dec.pc = "ip"
  /\ IF ctx.reqtype \notin {"IPANY", dec.type} THEN Reject("l3type")
     ELSE IF dec.type = "ARP" THEN Reject("arptype")
     ELSE IF dec.type \notin {"IPv4", "IPv6"} THEN Reject("l3type")
     ELSE dec' = Goto(dec.type) /\ UNCHANGED stats
  /\ UNCHANGED <<ctx, pbuf, fraginfo>>

Capped(len) == IF dec.caplen > len THEN len ELSE dec.caplen

(* Layer 4 is decoded unless this is a fragment that is not the first.     *)
ToL4(b, d, frag) ==
  IF frag.frag /\ frag.offset
  THEN /\ pbuf' = [b EXCEPT !.ptime = d.n, !.allHeaderLen = d.pos]
       /\ dec' = [d EXCEPT !.pc = "accepted"]
  ELSE pbuf' = b /\ dec' = [d EXCEPT !.pc = "l4"]

yfDecodeIPv4 ==
  /\ dec.pc = "IPv4"
  /\ IF dec.caplen < Hdr.len THEN Reject("ip4hdr") /\ UNCHANGED <<pbuf, fraginfo>>
     ELSE LET iplen == IpLen(dec.frame, dec.at)
              key == [pbuf EXCEPT !.addr = Here, !.proto = Hdr.next, !.iplen = iplen]
              frag == [frag |-> Hdr.off \/ Hdr.more, offset |-> Hdr.off,
                       more |-> Hdr.more]
          IN  IF ~ctx.defrag /\ frag.frag
              THEN Reject("ip4frag") /\ pbuf' = key /\ UNCHANGED fraginfo
              ELSE /\ fraginfo' = frag
                   /\ ToL4([key EXCEPT !.ipinfo = Here],
                           [Past(Hdr.len, Hdr.next, "l4") EXCEPT
                              !.caplen = Capped(iplen) - Hdr.len], frag)
                   /\ UNCHANGED stats
  /\ UNCHANGED ctx

yfDecodeIPv6 ==
  /\ dec.pc = "IPv6"
  /\ IF dec.caplen < 40 THEN Reject("ip6hdr") /\ UNCHANGED <<pbuf, fraginfo>>
     ELSE LET iplen == IpLen(dec.frame, dec.at)
          IN  /\ pbuf' = [pbuf EXCEPT !.addr = Here, !.iplen = iplen, !.ipinfo = Here]
              /\ fraginfo' = [fraginfo EXCEPT !.frag = FALSE]
              /\ dec' = [Past(40, Hdr.next, "ext") EXCEPT !.caplen = Capped(iplen) - 40]
              /\ UNCHANGED stats
  /\ UNCHANGED ctx

(* One turn of the loop over IPv6 extension headers.  Fragments that need  *)
(* a fragment table are refused without one, but for the misread ones.     *)
yfDecodeIPv6Ext ==
  /\ dec.pc = "ext"
  /\ \/ /\ dec.type = "NONEXT"
        /\ RejectSilently /\ UNCHANGED <<pbuf, fraginfo>>
     \/ /\ dec.type \in {"FRAG", "HOP"} /\ dec.caplen < Hdr.len
        /\ Reject("ip6ext") /\ UNCHANGED <<pbuf, fraginfo>>
     \/ /\ dec.type = "FRAG" /\ dec.caplen >= Hdr.len
        /\ IF ctx.defrag
           THEN /\ fraginfo' = [frag |-> TRUE, offset |-> Hdr.off, more |-> TRUE]
                /\ dec' = Past(Hdr.len, Hdr.next, "ext") /\ UNCHANGED stats
           ELSE /\ IF (Hdr.off /\ ~Hdr.high) \/ Hdr.more THEN Reject("ip6frag")
                   ELSE dec' = Past(Hdr.len, Hdr.next, "ext") /\ UNCHANGED stats
                /\ UNCHANGED fraginfo
        /\ UNCHANGED pbuf
     \/ /\ dec.type = "HOP" /\ dec.caplen >= Hdr.len
        /\ dec' = Past(Hdr.len, Hdr.next, "ext")
        /\ UNCHANGED <<stats, pbuf, fraginfo>>
     \/ /\ dec.type \notin {"NONEXT", "FRAG", "HOP"}
        /\ ToL4([pbuf EXCEPT !.proto = dec.type], dec, fraginfo)
        /\ UNCHANGED <<stats, fraginfo>>
  /\ UNCHANGED ctx

----------------------------------------------------------------------------
(* yfDecodeIP again: which layer 4 header; ports are cleared if none.      *)
ChooseL4 ==
  /\ dec.pc = "l4"
  /\ IF pbuf.proto \in {"tcp", "udp", "icmp"} \cup (IF ctx.gremode THEN {"gre"} ELSE {})
     THEN dec' = Goto(pbuf.proto) /\ UNCHANGED <<pbuf, stats>>
     ELSE Accept([pbuf EXCEPT !.ports = Zero], dec.pos)
  /\ UNCHANGED <<ctx, fraginfo>>

YF_TCP_HLEN == 20

(* Fault: the TCP fields of the packet before are not cleared.             *)
TCPNotCleared ==
  /\ dec.pc = "tcp"
  /\ LET read == [pbuf EXCEPT !.ports = Here, !.tcpinfo = Here]
     IN  IF dec.caplen < Hdr.len
         THEN IF fraginfo.frag THEN Accept(pbuf, dec.pos)
              ELSE Reject("l4hdr") /\ UNCHANGED pbuf
         ELSE IF ~ctx.tomode THEN Accept(read, dec.pos + Hdr.len)
         ELSE /\ pbuf' = read
              /\ dec' = [dec EXCEPT !.pc = "opt", !.pos = @ + YF_TCP_HLEN,
                                    !.caplen = @ - Hdr.len, !.opts = Hdr.opts]
              /\ UNCHANGED stats
  /\ UNCHANGED <<ctx, fraginfo>>

(* A fragment's TCP header that is cut is left for reassembly.             *)
yfDecodeTCP ==
  /\ dec.pc = "tcp"
  /\ LET clear == [pbuf EXCEPT !.tcpinfo = Zero, !.opt = [o \in Opts |-> Zero]]
         read == [clear EXCEPT !.ports = Here, !.tcpinfo = Here]
     IN  IF dec.caplen < YF_TCP_HLEN
         THEN IF fraginfo.frag THEN Accept(clear, dec.pos)
              ELSE Reject("l4hdr") /\ pbuf' = clear
         ELSE IF dec.caplen < Hdr.len
         THEN IF fraginfo.frag THEN Accept(read, dec.pos)
              ELSE Reject("l4hdr") /\ pbuf' = read
         ELSE IF ~ctx.tomode THEN Accept(read, dec.pos + Hdr.len)
         ELSE /\ pbuf' = read
              /\ dec' = [dec EXCEPT !.pc = "opt", !.pos = @ + YF_TCP_HLEN,
                                    !.caplen = @ - Hdr.len, !.opts = Hdr.opts]
              /\ UNCHANGED stats
  /\ UNCHANGED <<ctx, fraginfo>>

(* The length an option is checked for.  The check of a window scale of    *)
(* less than three octets never fails, so the octet taken for the value of *)
(* a short one is whatever comes after the option.                         *)
MinLen(kind) == CASE kind = "mss" -> 4 [] kind \in {"ts", "sack"} -> 10 [] OTHER -> 2
OptionRead(o) == IF o.kind = "ws" /\ o.len < 3 THEN <<"after", dec.at>> ELSE Here

(* Fault: the end of the option list is taken for the end of the header.   *)
TCPOptionEnds ==
  /\ dec.pc = "opt"
  /\ LET left == Hdr.len - YF_TCP_HLEN - (Octets(Hdr.opts) - Octets(dec.opts))
         o == Head(dec.opts)
     IN  IF dec.opts = <<>> \/ left <= 0 \/ o.kind = "eol" THEN Accept(pbuf, dec.pos)
         ELSE IF o.kind # "nop" /\ (left < 2 \/ left < o.len \/ o.len < MinLen(o.kind))
         THEN Reject("l4hdr") /\ UNCHANGED pbuf
         ELSE /\ pbuf' = IF o.kind \in Opts THEN [pbuf EXCEPT !.opt[o.kind] = OptionRead(o)]
                         ELSE pbuf
              /\ dec' = [dec EXCEPT !.pos = @ + o.len, !.opts = Tail(@)]
              /\ UNCHANGED stats
  /\ UNCHANGED <<ctx, fraginfo>>

(* One turn of the loop over TCP options.  left is what the header has     *)
(* left; an option that claims more is an error.                           *)
yfDecodeTCPOption ==
  /\ dec.pc = "opt"
  /\ LET left == Hdr.len - YF_TCP_HLEN - (Octets(Hdr.opts) - Octets(dec.opts))
         o == Head(dec.opts)
     IN  IF dec.opts = <<>> \/ left <= 0 THEN Accept(pbuf, dec.pos + left)
         ELSE IF o.kind = "eol" THEN Accept(pbuf, dec.pos + left)
         ELSE IF o.kind # "nop" /\ (left < 2 \/ left < o.len \/ o.len < MinLen(o.kind))
         THEN Reject("l4hdr") /\ UNCHANGED pbuf
         ELSE /\ pbuf' = IF o.kind \in Opts THEN [pbuf EXCEPT !.opt[o.kind] = OptionRead(o)]
                         ELSE pbuf
              /\ dec' = [dec EXCEPT !.pos = @ + o.len, !.opts = Tail(@)]
              /\ UNCHANGED stats
  /\ UNCHANGED <<ctx, fraginfo>>

(* Eight octets; for ICMP, type and code are the destination port.         *)
PortsFrom(proto) ==
  /\ dec.pc = proto
  /\ IF dec.caplen < 8 THEN RejectL4 /\ UNCHANGED pbuf
     ELSE Accept([pbuf EXCEPT !.ports = Here], dec.pos + 8)
  /\ UNCHANGED <<ctx, fraginfo>>
yfDecodeUDP == PortsFrom("udp")
yfDecodeICMP == PortsFrom("icmp")

(* A header with routing is followed by source route entries.              *)
yfDecodeGRE ==
  /\ dec.pc = "gre"
  /\ IF dec.caplen < 4 THEN RejectL4
     ELSE IF Hdr.vers # 0 THEN Reject("grevers")
     ELSE IF dec.caplen < Hdr.len THEN RejectL4
     ELSE dec' = Past(Hdr.len, Hdr.next, IF Hdr.route THEN "sre" ELSE "ip") /\ UNCHANGED stats
  /\ UNCHANGED <<ctx, pbuf, fraginfo>>

yfDecodeSRE ==
  /\ dec.pc = "sre"
  /\ IF dec.caplen < Hdr.len THEN RejectL4
     ELSE /\ dec' = Past(Hdr.len, dec.type, IF Hdr.next = "SRE" THEN "sre" ELSE "ip")
          /\ UNCHANGED stats
  /\ UNCHANGED <<ctx, pbuf, fraginfo>>

DecodeNext ==
  \/ \E f \in Frames : \E cap \in CapLens(f) : yfDecodeToPBuf(f, cap)
  \/ yfDecodeL2 \/ yfDecodeL2PPP \/ yfDecodeL2Shim \/ yfDecodeIP \/ yfDecodeIPv4
  \/ yfDecodeIPv6 \/ yfDecodeIPv6Ext \/ ChooseL4 \/ yfDecodeTCP
  \/ yfDecodeTCPOption \/ yfDecodeUDP \/ yfDecodeICMP \/ yfDecodeGRE \/ yfDecodeSRE

DecodeSpec == yfDecodeCtxAlloc /\ [][DecodeNext]_decodeVars

----------------------------------------------------------------------------
(***************************************************************************)
(* Properties                                                              *)
(***************************************************************************)

(* The options of a TCP header up to the end of the list, and whether the  *)
(* last window scale there is too short to hold its value.                 *)
Listed(h) == {k \in 1..Len(h.opts) : \A e \in 1..k : h.opts[e].kind # "eol"}
OptionsOf(h) == {h.opts[k].kind : k \in Listed(h)}
ShortScale(h) ==
  \E k \in Listed(h) :
    /\ h.opts[k].kind = "ws" /\ h.opts[k].len < 3
    /\ \A m \in Listed(h) : m > k => h.opts[m].kind # "ws"

(* Where the value of option o of the TCP header h at k is to come from.   *)
OptionField(h, k, o) ==
  IF ~ctx.tomode \/ o \notin OptionsOf(h) THEN Zero
  ELSE IF o = "ws" /\ ShortScale(h) THEN <<"after", k>> ELSE <<"header", k>>

(* The structures of an accepted packet are valid (yfDecodeToPBuf), also   *)
(* in a reused buffer, through tunnels and for packets cut short: address, *)
(* length and TTL are of one IP header of this frame, ports are of the     *)
(* transport header that follows it, or zero, and the TCP fields are of    *)
(* that header, each option there exactly if the header has it.  Fragments *)
(* are completed by the fragment table.  Two things are read that are not  *)
(* there, and no others: the transport header of a misread IPv6 fragment   *)
(* and the value of a window scale option without one.                     *)
BufferValid ==
  dec.pc = "accepted" /\ ~fraginfo.frag =>
    LET ip == pbuf.addr[2]
        l4 == pbuf.ports[2]
        hs == dec.frame.hdrs
    IN  /\ pbuf.addr[1] = "header" /\ pbuf.ipinfo = pbuf.addr
        /\ pbuf.iplen = IpLen(dec.frame, ip)
        /\ pbuf.mac # Stale /\ pbuf.vlanId = pbuf.vlan /\ pbuf.vlan # Stale
        /\ IF pbuf.proto \notin {"tcp", "udp", "icmp"} THEN pbuf.ports = Zero
           ELSE /\ pbuf.ports[1] = "header" /\ l4 > ip /\ hs[l4].h = pbuf.proto
                /\ \A k \in ip + 1..l4 - 1 :
                     /\ hs[k].h \in {"HOP", "FRAG"}
                     /\ LaterFragment(hs[k]) => Misread(hs[k])
        /\ pbuf.proto = "tcp" =>
             /\ pbuf.tcpinfo = pbuf.ports
             /\ \A o \in Opts : pbuf.opt[o] = OptionField(hs[l4], l4, o)

(* Outside of tunnels the flow table's computation of the payload length   *)
(* from an accepted packet (yfFlowPBuf: iplen - allHeaderLen + l2hlen)     *)
(* gives the octets of payload, whatever headers were skipped and wherever *)
(* the capture ended.  What a misread fragment has for payload is not to   *)
(* be told.                                                                *)
PayloadLength ==
  /\ dec.pc = "accepted" /\ ~fraginfo.frag
  /\ pbuf.proto \in {"tcp", "udp", "icmp"}
  /\ \A k \in 1..Len(dec.frame.hdrs) :
       dec.frame.hdrs[k].h # "gre" /\ ~Misread(dec.frame.hdrs[k])
  => pbuf.iplen - pbuf.allHeaderLen + pbuf.l2hlen = dec.frame.pay

=============================================================================
