---------------------------- MODULE MCFlowTable ----------------------------
(* Small instances of FlowTable: two hosts (1 and 2), keys chosen so that  *)
(* each instance has both directions of a conversation and another flow.   *)
EXTENDS FlowTable

K(s, d, sp, dp, proto) == [sip |-> s, dip |-> d, sp |-> sp, dp |-> dp, proto |-> proto]

(* A UDP conversation, an ICMP conversation (same ports both ways) and a   *)
(* UDP flow from a port to itself, its own reversal; a TCP connection.     *)
UdpIcmpKeys == {K(1, 2, 5, 9, "UDP"), K(2, 1, 9, 5, "UDP"), K(1, 1, 7, 7, "UDP"),
                K(1, 2, 8, 0, "ICMP"), K(2, 1, 8, 0, "ICMP")}
TcpKeys == {K(1, 2, 5, 9, "TCP"), K(2, 1, 9, 5, "TCP")}

NoFlags == {{}}
TcpFlagSets == {{"ACK"}, {"FIN", "ACK"}, {"RST"}}
=============================================================================
