------------------------------ MODULE Exporter ------------------------------
(***************************************************************************)
(* neco-exporter's collection loop, Exporter.Run, and the life of the      *)
(* process around it, Exporter.Start.  In every round each collector runs  *)
(* in a goroutine of its own that gets and sets a counter for each metric  *)
(* it collected and then unregisters, one by one, what is left of its      *)
(* previous round.  A scrape reads the registry at any moment, between any *)
(* two of these calls too.                                                 *)
(*                                                                         *)
(* What Collect returns is left open here; NecoExporter fills it in.       *)
(***************************************************************************)
EXTENDS Naturals

CONSTANTS
    Collectors,     \* the registry of collectors
    CommandLines,   \* the choices of --collectors that are looked at
    LeaderMetrics,  \* those whose IsLeaderMetrics is true
    Names, Values,  \* metric names with their labels, and values
    MaxRestarts     \* bound: how often the process is ended

ASSUME CollectorAssumption ==
    /\ LeaderMetrics \subseteq Collectors
    /\ CommandLines \subseteq SUBSET Collectors

ASSUME RestartAssumption == MaxRestarts \in Nat

\* A counter begins at zero.
ASSUME ValueAssumption == 0 \in Values

Series == [name: Names, value: Values]

NamesOf(series) == {s.name : s \in series}

\* What Collect may return: each name once.
Reports == {r \in SUBSET Series : \A s, t \in r : s.name = t.name => s = t}

VARIABLES
    active,     \* the collectors that runMain chose and set up
    elected,    \* mgr.Elected() is closed
    isLeader, stage, report, setting, next, prev, health,   \* locals of Run
    registry,   \* the metrics registered, by collector
    healthGauge, leaderGauge,
    restarts    \* bound

runVars == <<isLeader, stage, report, setting, next, prev, health>>
gaugeVars == <<healthGauge, leaderGauge>>
exporterVars == <<active, elected, runVars, registry, gaugeVars, restarts>>

\* wait: before Collect returns; update: after it, in one loop or the other of
\* its goroutine; done: the goroutine ended; idle: between rounds.
Stages == {"idle", "wait", "update", "done"}

Gauge == {"none", "zero", "one"}

TypeOK ==
    /\ active \subseteq Collectors
    /\ elected \in BOOLEAN
    /\ isLeader \in BOOLEAN
    /\ stage \in [Collectors -> Stages]
    /\ report \in [Collectors -> Reports]          \* r
    /\ setting \in [Collectors -> SUBSET Series]   \* m, its counter not yet set
    /\ next \in [Collectors -> SUBSET Names]
    /\ prev \in [Collectors -> SUBSET Names]
    /\ health \in [Collectors -> BOOLEAN]
    /\ registry \in [Collectors -> SUBSET Series]
    /\ healthGauge \in [Collectors -> Gauge]
    /\ leaderGauge \in Gauge
    /\ restarts \in 0..MaxRestarts

\* The same value for every collector.
Each(v) == [c \in Collectors |-> v]

ExporterInit ==
    /\ active \in CommandLines
    /\ elected = FALSE
    /\ isLeader = FALSE
    /\ stage = Each("idle")
    /\ report = Each({}) /\ setting = Each({})
    /\ next = Each({}) /\ prev = Each({})
    /\ health = Each(FALSE)
    /\ registry = Each({})
    /\ healthGauge = Each("none") /\ leaderGauge = "none"
    /\ restarts = MaxRestarts
-----------------------------------------------------------------------------
\* controller-runtime elects this replica; that is for the rest of its life.
Elect ==
    /\ ~elected
    /\ elected' = TRUE
    /\ UNCHANGED <<active, runVars, registry, gaugeVars, restarts>>

\* Mutant of Leads: leadership is looked at in the first round only.
LeadsFromTheStart == IF leaderGauge = "none" THEN elected ELSE isLeader

Leads == elected

\* The ticker fires: the leadership of the round is decided once.
StartRound ==
    /\ \A c \in active : stage[c] = "idle"
    /\ isLeader' = Leads
    /\ stage' = [c \in Collectors |-> IF c \in active THEN "wait" ELSE "idle"]
    /\ UNCHANGED <<active, elected, report, setting, next, prev, health, registry,
                   gaugeVars, restarts>>

\* Mutant of Collects: leadership does not matter.
CollectsAlways(c) == TRUE

\* Whether the collector runs at all in this round.
Collects(c) == isLeader \/ c \notin LeaderMetrics

\* A collector that is left out has no metrics in this round.
LeaveOut(c) ==
    /\ stage[c] = "wait"
    /\ ~Collects(c)
    /\ stage' = [stage EXCEPT ![c] = "update"]
    /\ UNCHANGED <<active, elected, isLeader, report, setting, next, prev, health,
                   registry, gaugeVars, restarts>>

\* Collect returned a report.
CollectReturns(c, r) ==
    /\ stage[c] = "wait"
    /\ Collects(c)
    /\ health' = [health EXCEPT ![c] = TRUE]
    /\ report' = [report EXCEPT ![c] = r]
    /\ stage' = [stage EXCEPT ![c] = "update"]
    /\ UNCHANGED <<active, elected, isLeader, setting, next, prev, registry, gaugeVars,
                   restarts>>

\* Collect returned an error, which is logged: the round has no metrics of c.
CollectFails(c) ==
    /\ stage[c] = "wait"
    /\ Collects(c)
    /\ health' = [health EXCEPT ![c] = FALSE]
    /\ stage' = [stage EXCEPT ![c] = "update"]
    /\ UNCHANGED <<active, elected, isLeader, report, setting, next, prev, registry,
                   gaugeVars, restarts>>

\* The next metric of the report: its counter is there or is made, with value 0.
GetOrCreate(c, m) ==
    /\ stage[c] = "update"
    /\ setting[c] = {}
    /\ m \in report[c] /\ m.name \notin next[c]
    /\ setting' = [setting EXCEPT ![c] = {m}]
    /\ registry' = [registry EXCEPT ![c] =
                       IF m.name \in NamesOf(@) THEN @
                       ELSE @ \cup {[name |-> m.name, value |-> 0]}]
    /\ UNCHANGED <<active, elected, isLeader, stage, report, next, prev, health,
                   gaugeVars, restarts>>

\* The counter is set, whatever it was.
Set(c, m) ==
    /\ m \in setting[c]
    /\ registry' = [registry EXCEPT ![c] = {s \in @ : s.name # m.name} \cup {m}]
    /\ setting' = [setting EXCEPT ![c] = {}]
    /\ prev' = [prev EXCEPT ![c] = @ \ {m.name}]
    /\ next' = [next EXCEPT ![c] = @ \cup {m.name}]
    /\ UNCHANGED <<active, elected, isLeader, stage, report, health, gaugeVars, restarts>>

\* Mutant of AllSet: stale metrics are removed before all of the report is set.
AnySet(c) == stage[c] = "update" /\ setting[c] = {}

\* The loop over the report has ended.
AllSet(c) == stage[c] = "update" /\ next[c] = NamesOf(report[c])

\* Mutant of Stale: stale metrics are removed only after a successful round.
StaleIfHealthy(c) == IF health[c] THEN prev[c] ELSE {}

\* The names to unregister.
Stale(c) == prev[c]

\* One turn of the range over prev, which keeps here what is still to come.
Unregister(c, n) ==
    /\ AllSet(c)
    /\ n \in Stale(c)
    /\ registry' = [registry EXCEPT ![c] = {s \in @ : s.name # n}]
    /\ prev' = [prev EXCEPT ![c] = @ \ {n}]
    /\ UNCHANGED <<active, elected, isLeader, stage, report, setting, next, health,
                   gaugeVars, restarts>>

\* The end of the goroutine: its names are prev of the next round.
EndUpdate(c) ==
    /\ AllSet(c)
    /\ Stale(c) = {}
    /\ prev' = [prev EXCEPT ![c] = next[c]]
    /\ report' = [report EXCEPT ![c] = {}] /\ next' = [next EXCEPT ![c] = {}]
    /\ stage' = [stage EXCEPT ![c] = "done"]
    /\ UNCHANGED <<active, elected, isLeader, setting, health, registry, gaugeVars,
                   restarts>>

\* What a goroutine does once Collect has returned.
Update(c) ==
    \/ \E m \in report[c] : GetOrCreate(c, m) \/ Set(c, m)
    \/ \E n \in prev[c] : Unregister(c, n)
    \/ EndUpdate(c)

Bit(b) == IF b THEN "one" ELSE "zero"

\* After wg.Wait: the exporter's own gauges.
Report ==
    /\ \A c \in active : stage[c] = "done"
    /\ leaderGauge' = Bit(isLeader)
    /\ healthGauge' = [c \in Collectors |->
                          IF c \in active /\ Collects(c) THEN Bit(health[c])
                                                         ELSE healthGauge[c]]
    /\ stage' = Each("idle")
    /\ UNCHANGED <<active, elected, isLeader, report, setting, next, prev, health,
                   registry, restarts>>

\* A signal, a lost lease or a failing server cancels the context: Start
\* returns, wherever Run is, and the pod's next container starts anew.
Restart ==
    /\ restarts > 0
    /\ restarts' = restarts - 1
    /\ elected' = FALSE
    /\ isLeader' = FALSE
    /\ stage' = Each("idle")
    /\ report' = Each({}) /\ setting' = Each({})
    /\ next' = Each({}) /\ prev' = Each({})
    /\ health' = Each(FALSE)
    /\ registry' = Each({})
    /\ healthGauge' = Each("none") /\ leaderGauge' = "none"
    /\ UNCHANGED active

RunStep ==
    \/ StartRound
    \/ \E c \in Collectors :
          \/ LeaveOut(c)
          \/ \E r \in Reports : CollectReturns(c, r)
          \/ CollectFails(c)
          \/ Update(c)
    \/ Report

ExporterNext == Elect \/ RunStep \/ Restart

ExporterSpec == ExporterInit /\ [][ExporterNext]_exporterVars
-----------------------------------------------------------------------------
(***************************************************************************)
(* Properties.                                                             *)
(***************************************************************************)
\* The report that the registry shows, or is on its way to while the goroutine
\* of the collector works on it.
LastReport == [c \in Collectors |-> IF stage[c] = "update" THEN report[c]
                                                          ELSE registry[c]]

Scrape == INSTANCE MetricSet WITH shown <- registry, report <- LastReport

\* The registry that scrapes read, through failing rounds, missing leadership
\* and restarts: it goes from one report to the next counter by counter, a new
\* one beginning at zero; a series that both have is there all the time, with
\* its old or its new value; one the next report lacks stays until that report
\* is complete and is gone before the round after.
ScrapesSeeReports == Scrape!Spec

\* A replica that is not elected shows no metric of a leader collector
\* ("Metrics are collected only when it is elected").
OnlyLeaderReports ==
    ~elected => \A c \in LeaderMetrics : registry[c] = {} /\ healthGauge[c] = "none"

\* Between rounds a collector whose health gauge is zero shows nothing: a
\* failing collector's old values are never taken for current ones.
UnhealthyShowsNothing ==
    \A c \in Collectors :
        stage[c] = "idle" /\ healthGauge[c] = "zero" => registry[c] = {}
=============================================================================
