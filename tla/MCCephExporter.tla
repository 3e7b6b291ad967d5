--------------------------- MODULE MCCephExporter ---------------------------
(* Two rules, the second of which the flags turn on or off. *)
EXTENDS CephExporter

TwoTargets == [r \in Rules |-> IF r = "osd" THEN "" ELSE "rgw"]
TwoMetrics == [r \in Rules |-> IF r = "osd" THEN {"size", "weight"} ELSE {"bucket"}]
=============================================================================
