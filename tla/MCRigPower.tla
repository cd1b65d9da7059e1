----------------------------- MODULE MCRigPower -----------------------------
(* Two polled commands: the frequency, in a class of its own, and a meter. *)
EXTENDS RigPower

CONSTANTS freq, meter
MCTable == [c \in {freq, meter} |-> IF c = freq THEN 7 ELSE 2]
=============================================================================
