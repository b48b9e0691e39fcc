------------------------------ MODULE MCMeter ------------------------------
(* A small instance of Meter: one flow of a port to itself, groups of two. *)
EXTENDS Meter

OneKey == {[sip |-> 1, dip |-> 1, sp |-> 7, dp |-> 7, proto |-> "UDP"]}
NoFlags == {{}}
=============================================================================
