----------------------------- MODULE MCLocalPV -----------------------------
(* Instances of LocalPV for TLC: all devices have one volume name. *)
EXTENDS LocalPV

CONSTANT n1

OneName == [d \in Devices |-> n1]
SelectAll == [c \in Configs |-> Devices]
=============================================================================
