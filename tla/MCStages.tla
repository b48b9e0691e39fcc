------------------------------ MODULE MCStages ------------------------------
(***************************************************************************)
(* Small instances of the stages a packet passes besides the tables: the   *)
(* decoder, the detuner, the trackers of a TCP flow and the statistics.    *)
(* They share nothing: each behaviour is one of one of them.               *)
(***************************************************************************)
EXTENDS SeqTrack, TcpTrack, Decode, Detune, Stat

VARIABLE part   \* which of them

----------------------------------------------------------------------------
Seg(off, oct) == [off |-> off, oct |-> oct]

(* Any octets, also one before the first, and a segment without any.       *)
AnySegments == {Seg(off, oct) : off \in 0..7, oct \in 1..3} \cup {Seg(-1, 1), Seg(2, 0)}

ASSUME ShortStreams == ShortStream

Info(seq, ack, tsval, tsecr, sack, rwin, ws, oct) ==
  [seq |-> seq, ack |-> ack, tsval |-> tsval, tsecr |-> tsecr, sack |-> sack,
   rwin |-> rwin, ws |-> ws, oct |-> oct, ackflag |-> ack # 0]

(* Across the wrap of sequence numbers: a SYN, segments with and without   *)
(* timestamps, a closed window and a selective acknowledgement.            *)
AnyInfos ==
  {Info(6, 0, 1, 0, 0, 2, 1, 0), Info(7, 7, 2, 1, 0, 1, 0, 1),
   Info(1, 1, 0, 0, 0, 0, 0, 0), Info(7, 6, 3, 2, 1, 1, 0, 0),
   Info(1, 7, 2, 2, 0, 1, 0, 1), Info(6, 1, 0, 0, 0, 1, 0, 1)}

----------------------------------------------------------------------------
(* Frames: every link type, shims, both IP versions with and without       *)
(* extensions and fragmentation, each transport, and tunnels.              *)
Opt(kind, len) == [kind |-> kind, len |-> len]
Syn == yfHdrTcp(40, <<Opt("mss", 4), Opt("ts", 10), Opt("nop", 1), Opt("ws", 3), Opt("eol", 1)>>)
Ack == yfHdrTcp(32, <<Opt("nop", 1), Opt("sack", 10)>>)
Late == yfHdrTcp(32, <<Opt("eol", 1), Opt("ts", 10)>>)
ShortWs(opts) == yfHdrTcp(24, opts)
Bad == yfHdrTcp(24, <<Opt("nop", 1), Opt("ts", 10)>>)

SomeFrames ==
  {[link |-> l[1], hdrs |-> l[2] \o t, pay |-> 5] :
     l \in {<<"ETH", <<yfHdrEn10Mb("IPv4")>>>>,
           <<"ETH", <<yfHdrEn10Mb("8021Q"), yfHdr("8021Q", 4, "IPv4")>>>>,
           <<"ETH", <<yfHdrEn10Mb("MPLS"), yfHdr("MPLS", 4, "MPLS"), yfHdr("MPLS", 4, "IP")>>>>,
           <<"ETH", <<yfHdrEn10Mb("PPPOE"), yfHdr("PPPOE", 6, "PPP"), yfHdr("PPP", 2, "IPv4")>>>>,
           <<"LINUX_SLL", <<yfHdr("sll", 16, "IPv4")>>>>,
           <<"HDLC_POS", <<yfHdr("chdlc", 4, "IPv4")>>>>,
           <<"PPP", <<yfHdr("hdlc", 2, "PPP"), yfHdr("PPP", 2, "IPv4")>>>>,
           <<"NONE", <<>>>>},
     t \in {<<yfHdrIPv4("tcp", FALSE, FALSE), Syn>>, <<yfHdrIPv4("udp", FALSE, FALSE), yfHdrUdp>>,
           <<yfHdrIPv4("esp", FALSE, FALSE)>>}}
  \cup
  {[link |-> "ETH", hdrs |-> <<yfHdrEn10Mb("IPv4")>> \o t, pay |-> 5] :
     t \in {<<yfHdrIPv4("tcp", FALSE, FALSE), Ack>>, <<yfHdrIPv4("tcp", FALSE, FALSE), Late>>,
           <<yfHdrIPv4("tcp", FALSE, FALSE), Bad>>,
           <<yfHdrIPv4("tcp", FALSE, FALSE), ShortWs(<<Opt("nop", 1), Opt("nop", 1), Opt("ws", 2)>>)>>,
           <<yfHdrIPv4("tcp", FALSE, FALSE), ShortWs(<<Opt("ws", 2), Opt("nop", 1), Opt("eol", 1)>>)>>,
           <<yfHdrIPv4("tcp", FALSE, FALSE), yfHdrTcp(28, <<Opt("ws", 2), Opt("ws", 3), Opt("ws", 3)>>)>>,
           <<yfHdrIPv4("icmp", FALSE, FALSE), yfHdrIcmp>>,
           <<yfHdrIPv4("tcp", FALSE, TRUE), Ack>>, <<yfHdrIPv4("udp", FALSE, TRUE), yfHdrUdp>>,
           <<yfHdrIPv4("tcp", TRUE, FALSE)>>,
           <<yfHdrIPv4("gre", FALSE, FALSE), yfHdrGre(4, 0, FALSE, "IPv4"), yfHdrIPv4("tcp", FALSE, FALSE), Ack>>,
           <<yfHdrIPv4("gre", FALSE, TRUE), yfHdrGre(8, 0, FALSE, "IPv6"), yfHdrIPv6("udp"), yfHdrUdp>>,
           <<yfHdrIPv4("gre", FALSE, FALSE), yfHdrGre(8, 0, TRUE, "IPv4"), yfHdr("SRE", 12, "SRE"),
             yfHdr("SRE", 4, "IPv4"), yfHdrIPv4("udp", FALSE, TRUE), yfHdrUdp>>,
           <<yfHdrIPv4("gre", FALSE, FALSE), yfHdrGre(8, 1, FALSE, "PPP")>>}}
  \cup
  {[link |-> "ETH", hdrs |-> <<yfHdrEn10Mb("IPv6")>> \o t, pay |-> 5] :
     t \in {<<yfHdrIPv6("tcp"), Ack>>, <<yfHdrIPv6("NONEXT")>>,
           <<yfHdrIPv6("HOP"), yfHdr("HOP", 16, "icmp"), yfHdrIcmp>>,
           <<yfHdrIPv6("FRAG"), yfHdrIPv6Frag("udp", FALSE, FALSE, FALSE), yfHdrUdp>>,
           <<yfHdrIPv6("FRAG"), yfHdrIPv6Frag("udp", TRUE, FALSE, TRUE), yfHdrUdp>>,
           <<yfHdrIPv6("HOP"), yfHdr("HOP", 8, "FRAG"), yfHdrIPv6Frag("udp", TRUE, TRUE, FALSE)>>}}
  \cup
  {[link |-> "ETH", hdrs |-> <<yfHdrEn10Mb("ARP")>>, pay |-> 28],
   [link |-> "ETH", hdrs |-> <<yfHdrEn10Mb("IPX")>>, pay |-> 5],
   [link |-> "PPP", hdrs |-> <<yfHdr("PPP", 2, "IPX")>>, pay |-> 5],
   [link |-> "NONE", hdrs |-> <<yfHdr("CLNP", 5, "data")>>, pay |-> 5],
   [link |-> "METADATA", hdrs |-> <<yfHdr("wdcap", 5, "data")>>, pay |-> 5]}

----------------------------------------------------------------------------
StagesInit ==
  /\ part \in {"seq", "tcp", "decode", "detune", "stat"}
  /\ qfSeqFirstSegment /\ TcpInit /\ yfDecodeCtxAlloc /\ qfDetuneAlloc /\ yfStatInit
  /\ part # "decode" => ctx.reqtype = "IPANY" /\ ctx.tomode /\ ctx.gremode /\ ctx.defrag

StagesNext ==
  /\ UNCHANGED part
  /\ \/ part = "seq" /\ Next /\ UNCHANGED <<tcpVars, decodeVars, detuneVars, statVars>>
     \/ part = "tcp" /\ TcpNext /\ UNCHANGED <<vars, decodeVars, detuneVars, statVars>>
     \/ part = "decode" /\ DecodeNext /\ UNCHANGED <<vars, tcpVars, detuneVars, statVars>>
     \/ part = "detune" /\ DetuneNext /\ UNCHANGED <<vars, tcpVars, decodeVars, statVars>>
     \/ part = "stat" /\ StatNext /\ UNCHANGED <<vars, tcpVars, decodeVars, detuneVars>>

StagesSpec ==
  StagesInit /\ [][StagesNext]_<<part, vars, tcpVars, decodeVars, detuneVars, statVars>>

=============================================================================
