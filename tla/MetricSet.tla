----------------------------- MODULE MetricSet -----------------------------
(***************************************************************************)
(* What a scrape of an exporter may find registered, whatever happens      *)
(* inside.  At rest that is, for each collector, its last report.  A new   *)
(* report replaces it one counter at a time: what is new appears at zero   *)
(* and gets its value, what both reports have changes its value in place,  *)
(* and only when the whole of the new report is there what it lacks goes.  *)
(* The next report begins after that.                                      *)
(***************************************************************************)
EXTENDS Naturals

CONSTANTS Collectors, Reports

VARIABLES
    shown,      \* the time series of each collector that are registered
    report      \* the last report of each collector

ShownNames(c) == {s.name : s \in shown[c]}

Init ==
    /\ shown = [c \in Collectors |-> {}]
    /\ report = [c \in Collectors |-> {}]

\* A new report of c, only after a complete earlier one.
Begin(c) ==
    /\ shown[c] = report[c]
    /\ report'[c] \in Reports
    /\ report' = [report EXCEPT ![c] = report'[c]]
    /\ UNCHANGED shown

\* A name of the report that is not shown appears.
Appear(c, s) ==
    /\ s.name \notin ShownNames(c)
    /\ shown' = [shown EXCEPT ![c] = @ \cup {[name |-> s.name, value |-> 0]}]
    /\ UNCHANGED report

\* A name of the report that is shown gets the value reported.
Adopt(c, s) ==
    /\ s.name \in ShownNames(c)
    /\ shown' = [shown EXCEPT ![c] = {t \in @ : t.name # s.name} \cup {s}]
    /\ UNCHANGED report

\* What the report does not have goes, once all it has is shown.
Vanish(c, n) ==
    /\ report[c] \subseteq shown[c]
    /\ \A s \in report[c] : s.name # n
    /\ shown' = [shown EXCEPT ![c] = {t \in @ : t.name # n}]
    /\ UNCHANGED report

\* The process ends; the next one begins with nothing.
Forget ==
    /\ shown' = [c \in Collectors |-> {}]
    /\ report' = [c \in Collectors |-> {}]

Next ==
    \/ \E c \in Collectors :
          \/ Begin(c)
          \/ \E s \in report[c] : Appear(c, s) \/ Adopt(c, s)
          \/ \E n \in ShownNames(c) : Vanish(c, n)
    \/ Forget

Spec == Init /\ [][Next]_<<shown, report>>
=============================================================================
