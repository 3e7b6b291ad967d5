------------------------ MODULE MCMachinesEndpoints ------------------------
(* An instance of MachinesEndpoints for TLC. *)
EXTENDS MachinesEndpoints

CONSTANTS a, b

Sound(slot) == [slot |-> slot, retired |-> FALSE, ip |-> "good", bmc |-> TRUE]

\* The first machine may take either slot, the second has all defects in its own.
ManyShapes == [m \in Serials |->
    IF m = 1 THEN {Sound(a), Sound(b)}
    ELSE {Sound(b), [Sound(b) EXCEPT !.retired = TRUE], [Sound(b) EXCEPT !.ip = "bad"],
          [Sound(b) EXCEPT !.ip = "none"], [Sound(b) EXCEPT !.bmc = FALSE]}]

\* The second machine alone: the first one is sorted before it.
SecondOnly == [m \in Serials |-> IF m = 2 THEN Sound(b) ELSE Absent]
=============================================================================
