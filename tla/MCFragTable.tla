---------------------------- MODULE MCFragTable -----------------------------
(***************************************************************************)
(* Instances of the fragment table for TLC.                                *)
(***************************************************************************)
EXTENDS FragTable

Frag(off, len, more) == [off |-> off, len |-> len, more |-> more, hdr |-> len >= 3]
Dgram(version, proto, ports, frags) ==
  [version |-> version, proto |-> proto, ports |-> ports, frags |-> frags]

Two == {Frag(0, 3, TRUE), Frag(3, 1, FALSE)}
Three == {Frag(0, 3, TRUE), Frag(3, 3, TRUE), Frag(6, 1, FALSE)}

(* Datagrams whose first fragment holds the layer 4 header, if they have   *)
(* one.                                                                    *)
Ordinary == {Dgram(4, "UDP", 1, Three), Dgram(4, "TCP", 1, Two), Dgram(4, "other", 0, Two)}

ASSUME OrdinaryAssumption == \A d \in Ordinary : Pieces(d) /\ HeaderCaptured(d)

OneOther == {Dgram(4, "other", 0, Two)}

OneIPv6 == {Dgram(6, "UDP", 1, Two)}

=============================================================================
