------------------------- MODULE NecoExporterProofs -------------------------
(***************************************************************************)
(* Proofs about neco-exporter.  The collection loop, for any collectors,   *)
(* any reports and any number of restarts: the registry refines MetricSet, *)
(* and the two invariants of Exporter hold.  The watchers, for any cluster *)
(* and any order of its changes, notifications and lists: what they keep   *)
(* is what their stores have once they are idle.  And the composition: the *)
(* collectors that read the watchers drive that loop.                      *)
(***************************************************************************)
EXTENDS NecoExporter, FiniteSetTheorems, TLAPS

\* The goroutine of c half way: the names it is done with show the report, what
\* else is registered is stale or being set, and no name is both done and stale.
\* Outside, every registered name is one the next round has to account for.
Progress(c) ==
    /\ stage[c] = "update" =>
          /\ next[c] \subseteq NamesOf(report[c])
          /\ setting[c] \subseteq report[c]
          /\ \A m, k \in setting[c] : m = k
          /\ \A m \in setting[c] : m.name \notin next[c] /\ m.name \in NamesOf(registry[c])
          /\ \A s \in Series : s.name \in next[c] => (s \in registry[c] <=> s \in report[c])
          /\ \A s \in registry[c] : s.name \in prev[c] \cup next[c] \cup NamesOf(setting[c])
          /\ prev[c] \cap next[c] = {}
    /\ stage[c] # "update" =>
          /\ report[c] = {} /\ setting[c] = {} /\ next[c] = {}
          /\ \A s \in registry[c] : s.name \in prev[c]

\* A round that does not collect, or whose Collect fails, ends with nothing.
FailureIsEmpty(c) ==
    /\ stage[c] = "update" /\ ~(Collects(c) /\ health[c]) => report[c] = {}
    /\ stage[c] = "done" /\ ~(Collects(c) /\ health[c]) => registry[c] = {}
    /\ stage[c] = "idle" /\ healthGauge[c] = "zero" => registry[c] = {}

\* Before the election no round is a leader's.
NotElected ==
    ~elected => /\ ~isLeader
                /\ \A c \in LeaderMetrics : registry[c] = {} /\ healthGauge[c] = "none"

IInv ==
    /\ TypeOK
    /\ \A c \in Collectors \ active : stage[c] = "idle"
    /\ \A c \in Collectors : Progress(c)
    /\ \A c \in Collectors : FailureIsEmpty(c)
    /\ NotElected
-----------------------------------------------------------------------------
LEMMA NoReportIsOne == {} \in Reports
BY DEF Reports

\* Where the goroutine of c has set all that was reported, the report is shown.
LEMMA SetIsShown ==
    ASSUME NEW c \in Collectors, TypeOK, Progress(c), AllSet(c)
    PROVE  report[c] \subseteq registry[c] /\ setting[c] = {}
<1>1. report[c] \subseteq Series /\ \A s \in report[c] : s.name \in next[c]
    BY DEF TypeOK, Reports, AllSet, NamesOf
<1> QED BY <1>1 DEF Progress, AllSet, NamesOf

\* At the end of its goroutine nothing but the report is shown.
LEMMA UpdatedIsReport ==
    ASSUME NEW c \in Collectors, TypeOK, Progress(c), EndUpdate(c)
    PROVE  registry[c] = report[c] /\ setting[c] = {}
<1>1. AllSet(c) /\ prev[c] = {}
    BY DEF EndUpdate, Stale
<1>2. report[c] \subseteq registry[c] /\ setting[c] = {}
    BY <1>1, SetIsShown
<1>3. registry[c] \subseteq report[c]
  <2>1. registry[c] \subseteq Series
      BY DEF TypeOK
  <2>2. \A s \in registry[c] : s.name \in next[c]
      BY <1>1, <1>2 DEF Progress, AllSet, NamesOf
  <2> QED BY <1>1, <2>1, <2>2 DEF Progress, AllSet
<1> QED BY <1>2, <1>3

\* Exporter.Start begins with an empty registry and no previous round.
LEMMA InitIsGood == ExporterInit => IInv
<1> SUFFICES ASSUME ExporterInit PROVE IInv
    OBVIOUS
<1> USE DEF ExporterInit, Each
<1>1. TypeOK
  <2>1. active \subseteq Collectors
      BY CollectorAssumption
  <2>2. health \in [Collectors -> BOOLEAN] /\ elected \in BOOLEAN /\ isLeader \in BOOLEAN
      BY Zenon
  <2>3. /\ setting \in [Collectors -> SUBSET Series] /\ registry \in [Collectors -> SUBSET Series]
        /\ next \in [Collectors -> SUBSET Names] /\ prev \in [Collectors -> SUBSET Names]
      BY Zenon
  <2>4. report \in [Collectors -> Reports]
      BY NoReportIsOne
  <2>5. /\ stage \in [Collectors -> Stages]
        /\ healthGauge \in [Collectors -> Gauge] /\ leaderGauge \in Gauge
      BY DEF Stages, Gauge
  <2>6. restarts \in 0..MaxRestarts
      BY RestartAssumption
  <2> QED BY <2>1, <2>2, <2>3, <2>4, <2>5, <2>6, Zenon DEF TypeOK
<1>2. \A c \in Collectors : /\ stage[c] = "idle" /\ registry[c] = {} /\ prev[c] = {}
                            /\ report[c] = {} /\ setting[c] = {} /\ next[c] = {}
    OBVIOUS
<1>3. \A c \in Collectors : Progress(c) /\ FailureIsEmpty(c)
    BY <1>2 DEF Progress, FailureIsEmpty
<1>4. NotElected
    BY CollectorAssumption DEF NotElected
<1> QED BY <1>1, <1>2, <1>3, <1>4 DEF IInv

\* Types are kept by every step of the loop.
LEMMA TypeStep == TypeOK /\ [ExporterNext]_exporterVars => TypeOK'
<1> SUFFICES ASSUME TypeOK, [ExporterNext]_exporterVars PROVE TypeOK'
    OBVIOUS
<1> USE CollectorAssumption, RestartAssumption, NoReportIsOne DEF TypeOK, Stages, Gauge
<1>1. CASE Elect
    BY <1>1 DEF Elect, runVars, gaugeVars
<1>2. CASE StartRound
    BY <1>2 DEF StartRound, Leads, gaugeVars
<1>3. ASSUME NEW c \in Collectors, LeaveOut(c) PROVE TypeOK'
    BY <1>3 DEF LeaveOut, gaugeVars
<1>4. ASSUME NEW c \in Collectors, NEW r \in Reports, CollectReturns(c, r) PROVE TypeOK'
    BY <1>4 DEF CollectReturns, gaugeVars
<1>5. ASSUME NEW c \in Collectors, CollectFails(c) PROVE TypeOK'
    BY <1>5 DEF CollectFails, gaugeVars
<1>6. ASSUME NEW c \in Collectors, NEW m \in report[c], GetOrCreate(c, m) PROVE TypeOK'
  <2>1. m \in Series /\ [name |-> m.name, value |-> 0] \in Series
      BY ValueAssumption DEF Reports, Series
  <2>2. registry' \in [Collectors -> SUBSET Series]
      BY <1>6, <2>1 DEF GetOrCreate
  <2> QED BY <1>6, <2>1, <2>2 DEF GetOrCreate, gaugeVars
<1>7. ASSUME NEW c \in Collectors, NEW m \in report[c], Set(c, m) PROVE TypeOK'
  <2>1. m \in Series /\ m.name \in Names
      BY DEF Reports, Series
  <2>2. registry' \in [Collectors -> SUBSET Series]
      BY <1>7, <2>1 DEF Set
  <2>3. prev' \in [Collectors -> SUBSET Names] /\ next' \in [Collectors -> SUBSET Names]
      BY <1>7, <2>1 DEF Set
  <2> QED BY <1>7, <2>2, <2>3 DEF Set, gaugeVars
<1>8. ASSUME NEW c \in Collectors, NEW n \in prev[c], Unregister(c, n) PROVE TypeOK'
  <2>1. registry' \in [Collectors -> SUBSET Series]
      BY <1>8 DEF Unregister
  <2> QED BY <1>8, <2>1 DEF Unregister, gaugeVars
<1>9. ASSUME NEW c \in Collectors, EndUpdate(c) PROVE TypeOK'
    BY <1>9 DEF EndUpdate, gaugeVars
<1>10. CASE Report
    BY <1>10 DEF Report, Each, Bit
<1>11. CASE Restart
  <2> USE <1>11 DEF Restart, Each
  <2>1. active' \subseteq Collectors
      OBVIOUS
  <2>2. health' \in [Collectors -> BOOLEAN] /\ elected' \in BOOLEAN /\ isLeader' \in BOOLEAN
      BY Zenon
  <2>3. /\ setting' \in [Collectors -> SUBSET Series] /\ registry' \in [Collectors -> SUBSET Series]
        /\ next' \in [Collectors -> SUBSET Names] /\ prev' \in [Collectors -> SUBSET Names]
      BY Zenon
  <2>4. report' \in [Collectors -> Reports]
      OBVIOUS
  <2>5. /\ stage' \in [Collectors -> Stages]
        /\ healthGauge' \in [Collectors -> Gauge] /\ leaderGauge' \in Gauge
      OBVIOUS
  <2>6. restarts' \in 0..MaxRestarts
      OBVIOUS
  <2> QED BY <2>1, <2>2, <2>3, <2>4, <2>5, <2>6, Zenon
<1>12. CASE UNCHANGED exporterVars
    BY <1>12 DEF exporterVars, runVars, gaugeVars
<1> QED BY <1>1, <1>2, <1>3, <1>4, <1>5, <1>6, <1>7, <1>8, <1>9, <1>10, <1>11, <1>12
        DEF ExporterNext, RunStep, Update

\* What the goroutine of one collector does leaves the others alone.
Alone(d) ==
    /\ stage'[d] = stage[d] /\ report'[d] = report[d] /\ setting'[d] = setting[d]
    /\ next'[d] = next[d] /\ prev'[d] = prev[d] /\ health'[d] = health[d]
    /\ registry'[d] = registry[d] /\ healthGauge'[d] = healthGauge[d]

LEMMA OthersKept ==
    ASSUME NEW d \in Collectors, Progress(d), FailureIsEmpty(d), Alone(d), isLeader' = isLeader
    PROVE  Progress(d)' /\ FailureIsEmpty(d)'
<1>1. Progress(d)'
    BY DEF Progress, Alone
<1>2. FailureIsEmpty(d)'
    BY DEF FailureIsEmpty, Alone, Collects
<1> QED BY <1>1, <1>2

\* A step of the goroutine of c, for which only c itself is to be looked at.
LEMMA OneCollector ==
    ASSUME IInv, TypeOK', NEW c \in Collectors,
           stage[c] # "idle",
           UNCHANGED <<active, elected, isLeader, healthGauge>>,
           \A d \in Collectors \ {c} : Alone(d),
           Progress(c)', FailureIsEmpty(c)',
           ~elected /\ c \in LeaderMetrics => registry'[c] = {}
    PROVE  IInv'
<1>1. \A d \in Collectors : Progress(d)' /\ FailureIsEmpty(d)'
    BY OthersKept DEF IInv
<1>2. c \in active
    BY DEF IInv
<1>3. \A d \in (Collectors \ active)' : stage'[d] = "idle"
    BY <1>2 DEF IInv, Alone
<1>4. NotElected'
    BY CollectorAssumption DEF IInv, NotElected, Alone
<1> QED BY <1>1, <1>3, <1>4 DEF IInv

\* Every step of Exporter.Run and of the process keeps the invariant.
LEMMA StepIsGood == IInv /\ [ExporterNext]_exporterVars => IInv'
<1> SUFFICES ASSUME IInv, [ExporterNext]_exporterVars PROVE IInv'
    OBVIOUS
<1>0. TypeOK /\ TypeOK'
    BY TypeStep DEF IInv
<1> USE <1>0, CollectorAssumption
<1>1. CASE Elect
    BY <1>1 DEF Elect, runVars, gaugeVars, IInv, Progress, FailureIsEmpty,
                NotElected, Collects
<1>2. CASE StartRound
  <2>1. /\ stage' = [c \in Collectors |-> IF c \in active THEN "wait" ELSE "idle"]
        /\ \A c \in Collectors : stage[c] = "idle"
        /\ isLeader' = elected
        /\ UNCHANGED <<active, elected, report, setting, next, prev, health, registry,
                       healthGauge>>
      BY <1>2 DEF StartRound, Leads, gaugeVars, IInv
  <2>2. \A c \in Collectors : Progress(c)'
      BY <2>1 DEF IInv, Progress
  <2>3. \A c \in Collectors : FailureIsEmpty(c)'
      BY <2>1 DEF IInv, FailureIsEmpty
  <2> QED BY <2>1, <2>2, <2>3 DEF IInv, NotElected
<1>3. ASSUME NEW c \in Collectors, LeaveOut(c) \/ CollectFails(c) PROVE IInv'
  <2>1. /\ stage[c] = "wait" /\ stage' = [stage EXCEPT ![c] = "update"]
        /\ UNCHANGED <<active, elected, isLeader, report, setting, next, prev, registry,
                       healthGauge>>
        /\ \A d \in Collectors \ {c} : health'[d] = health[d]
      BY <1>3 DEF LeaveOut, CollectFails, gaugeVars, TypeOK
  <2>2. stage'[c] = "update" /\ \A d \in Collectors \ {c} : Alone(d)
      BY <2>1 DEF Alone, TypeOK
  <2>3. report[c] = {} /\ setting[c] = {} /\ next[c] = {} /\ \A s \in registry[c] : s.name \in prev[c]
      BY <2>1 DEF IInv, Progress
  <2>4. Progress(c)' /\ FailureIsEmpty(c)'
      BY <2>1, <2>2, <2>3 DEF Progress, FailureIsEmpty
  <2>5. ~elected /\ c \in LeaderMetrics => registry'[c] = {}
      BY <2>1 DEF IInv, NotElected
  <2> QED BY <2>1, <2>2, <2>4, <2>5, OneCollector
<1>4. ASSUME NEW c \in Collectors, NEW r \in Reports, CollectReturns(c, r) PROVE IInv'
  <2>1. /\ stage[c] = "wait" /\ stage' = [stage EXCEPT ![c] = "update"]
        /\ Collects(c)
        /\ report' = [report EXCEPT ![c] = r]
        /\ health' = [health EXCEPT ![c] = TRUE]
        /\ UNCHANGED <<active, elected, isLeader, setting, next, prev, registry, healthGauge>>
      BY <1>4 DEF CollectReturns, gaugeVars
  <2>2. stage'[c] = "update" /\ \A d \in Collectors \ {c} : Alone(d)
      BY <2>1 DEF Alone, TypeOK
  <2>3. setting[c] = {} /\ next[c] = {} /\ \A s \in registry[c] : s.name \in prev[c]
      BY <2>1 DEF IInv, Progress
  <2>4. Progress(c)'
      BY <2>1, <2>2, <2>3 DEF Progress
  <2>5. health'[c] /\ Collects(c)'
      BY <2>1, Zenon DEF TypeOK, Collects
  <2>6. FailureIsEmpty(c)'
      BY <2>2, <2>5 DEF FailureIsEmpty
  <2>7. ~elected /\ c \in LeaderMetrics => registry'[c] = {}
      BY <2>1 DEF IInv, NotElected
  <2> QED BY <2>1, <2>2, <2>4, <2>6, <2>7, OneCollector
<1>5. ASSUME NEW c \in Collectors, NEW m \in report[c], GetOrCreate(c, m) PROVE IInv'
  <2> DEFINE zero == [name |-> m.name, value |-> 0]
  <2>1. /\ stage[c] = "update" /\ setting[c] = {} /\ m.name \notin next[c]
        /\ setting'[c] = {m}
        /\ registry'[c] = IF m.name \in NamesOf(registry[c]) THEN registry[c]
                                                            ELSE registry[c] \cup {zero}
        /\ \A d \in Collectors \ {c} : setting'[d] = setting[d] /\ registry'[d] = registry[d]
        /\ UNCHANGED <<active, elected, isLeader, stage, report, next, prev, health, healthGauge>>
      BY <1>5 DEF GetOrCreate, gaugeVars, TypeOK
  <2>2. \A d \in Collectors \ {c} : Alone(d)
      BY <2>1 DEF Alone
  <2>3. \A s \in registry'[c] : s \in registry[c] \/ s = zero
      BY <2>1
  <2>4. registry[c] \subseteq registry'[c] /\ m.name \in NamesOf(registry'[c])
    <3>1. zero.name = m.name
        OBVIOUS
    <3> HIDE DEF zero
    <3> QED BY <2>1, <3>1 DEF NamesOf
  <2>5. zero.name = m.name
      OBVIOUS
  <2> HIDE DEF zero
  <2>6. Progress(c)'
    <3>1. Progress(c)
        BY DEF IInv
    <3>2. \A s \in Series : s.name \in next[c] => (s \in registry'[c] <=> s \in report[c])
        BY <2>1, <2>3, <2>4, <2>5, <3>1 DEF Progress
    <3>3. \A s \in registry'[c] : s.name \in prev[c] \cup next[c] \cup NamesOf({m})
        BY <2>1, <2>3, <2>5, <3>1 DEF Progress, NamesOf
    <3> QED BY <2>1, <2>4, <3>1, <3>2, <3>3 DEF Progress
  <2>7. FailureIsEmpty(c)'
      BY <2>1 DEF IInv, FailureIsEmpty, Collects
  <2>8. ~elected /\ c \in LeaderMetrics => registry'[c] = {}
      BY <2>1 DEF IInv, NotElected, FailureIsEmpty, Collects
  <2> QED BY <2>1, <2>2, <2>6, <2>7, <2>8, OneCollector
<1>6. ASSUME NEW c \in Collectors, NEW m \in report[c], Set(c, m) PROVE IInv'
  <2>1. /\ m \in setting[c] /\ setting'[c] = {}
        /\ registry'[c] = {s \in registry[c] : s.name # m.name} \cup {m}
        /\ prev'[c] = prev[c] \ {m.name}
        /\ next'[c] = next[c] \cup {m.name}
        /\ UNCHANGED <<active, elected, isLeader, stage, report, health, healthGauge>>
      BY <1>6 DEF Set, gaugeVars, TypeOK
  <2>2. \A d \in Collectors \ {c} : Alone(d)
      BY <1>6 DEF Set, Alone, gaugeVars, TypeOK
  <2>3. stage[c] = "update" /\ Progress(c)
      BY <2>1 DEF IInv, Progress
  <2>4. \A s \in report[c] : s.name = m.name => s = m
      BY DEF TypeOK, Reports
  <2>5. \A s \in Series : s.name \in next'[c] => (s \in registry'[c] <=> s \in report[c])
      BY <2>1, <2>3, <2>4 DEF Progress
  <2>6. \A s \in registry'[c] : s.name \in prev'[c] \cup next'[c]
      BY <2>1, <2>3 DEF Progress, NamesOf
  <2>7. Progress(c)'
      BY <2>1, <2>3, <2>5, <2>6 DEF Progress, NamesOf
  <2>8. FailureIsEmpty(c)'
      BY <2>1, <2>3 DEF IInv, FailureIsEmpty, Collects
  <2>9. ~elected /\ c \in LeaderMetrics => registry'[c] = {}
      BY <2>1, <2>3 DEF IInv, NotElected, FailureIsEmpty, Collects
  <2> QED BY <2>1, <2>2, <2>3, <2>7, <2>8, <2>9, OneCollector
<1>7. ASSUME NEW c \in Collectors, NEW n \in prev[c], Unregister(c, n) PROVE IInv'
  <2>1. /\ stage[c] = "update"
        /\ registry'[c] = {s \in registry[c] : s.name # n}
        /\ prev'[c] = prev[c] \ {n}
        /\ next[c] = NamesOf(report[c])
        /\ UNCHANGED <<active, elected, isLeader, stage, report, setting, next, health,
                       healthGauge>>
      BY <1>7 DEF Unregister, AllSet, gaugeVars, TypeOK
  <2>2. \A d \in Collectors \ {c} : Alone(d)
      BY <1>7 DEF Unregister, Alone, gaugeVars, TypeOK
  <2>3. Progress(c) /\ setting[c] = {} /\ n \notin next[c]
      BY <2>1 DEF IInv, Progress, NamesOf
  <2>4. Progress(c)'
    <3>1. \A s \in Series : s.name \in next[c] => (s \in registry'[c] <=> s \in report[c])
        BY <2>1, <2>3 DEF Progress
    <3>2. \A s \in registry'[c] : s.name \in prev'[c] \cup next[c] \cup NamesOf(setting[c])
        BY <2>1, <2>3 DEF Progress
    <3> QED BY <2>1, <2>3, <3>1, <3>2 DEF Progress
  <2>5. FailureIsEmpty(c)'
      BY <2>1 DEF IInv, FailureIsEmpty, Collects
  <2>6. ~elected /\ c \in LeaderMetrics => registry'[c] = {}
      BY <2>1 DEF IInv, NotElected
  <2> QED BY <2>1, <2>2, <2>4, <2>5, <2>6, OneCollector
<1>8. ASSUME NEW c \in Collectors, EndUpdate(c) PROVE IInv'
  <2>1. /\ stage[c] = "update" /\ stage'[c] = "done"
        /\ prev'[c] = NamesOf(report[c]) /\ report'[c] = {} /\ next'[c] = {}
        /\ UNCHANGED <<active, elected, isLeader, setting, health, registry, healthGauge>>
      BY <1>8 DEF EndUpdate, AllSet, gaugeVars, TypeOK
  <2>2. \A d \in Collectors \ {c} : Alone(d)
      BY <1>8 DEF EndUpdate, Alone, gaugeVars, TypeOK
  <2>3. registry[c] = report[c] /\ setting[c] = {}
      BY <1>8, UpdatedIsReport DEF IInv
  <2>4. Progress(c)'
      BY <2>1, <2>3 DEF Progress, NamesOf
  <2>5. FailureIsEmpty(c)'
      BY <2>1, <2>3 DEF IInv, FailureIsEmpty, Collects
  <2>6. ~elected /\ c \in LeaderMetrics => registry'[c] = {}
      BY <2>1 DEF IInv, NotElected
  <2> QED BY <2>1, <2>2, <2>4, <2>5, <2>6, OneCollector
<1>9. CASE Report
  <2>1. /\ stage' = [c \in Collectors |-> "idle"]
        /\ \A c \in active : stage[c] = "done"
        /\ \A c \in Collectors : stage[c] # "update"
        /\ UNCHANGED <<active, elected, isLeader, report, setting, next, prev, health, registry>>
      BY <1>9 DEF Report, Each, IInv
  <2>2. \A c \in Collectors :
           healthGauge'[c] = IF c \in active /\ Collects(c) THEN Bit(health[c])
                                                            ELSE healthGauge[c]
      BY <1>9 DEF Report
  <2>3. \A c \in Collectors : Progress(c)'
      BY <2>1 DEF IInv, Progress
  <2>4. \A c \in Collectors : FailureIsEmpty(c)'
      BY <2>1, <2>2 DEF IInv, FailureIsEmpty, Bit, TypeOK
  <2>5. NotElected'
      BY <2>1, <2>2 DEF IInv, NotElected, Collects
  <2> QED BY <2>1, <2>3, <2>4, <2>5 DEF IInv
<1>10. CASE Restart
  <2>1. \A c \in Collectors : /\ stage'[c] = "idle" /\ registry'[c] = {}
                              /\ report'[c] = {} /\ setting'[c] = {} /\ next'[c] = {}
                              /\ healthGauge'[c] = "none"
      BY <1>10 DEF Restart, Each
  <2>2. \A c \in Collectors : Progress(c)' /\ FailureIsEmpty(c)'
      BY <2>1 DEF Progress, FailureIsEmpty
  <2> QED BY <1>10, <2>1, <2>2 DEF Restart, IInv, NotElected
<1>11. CASE UNCHANGED exporterVars
    BY <1>11 DEF exporterVars, runVars, gaugeVars, IInv, Progress, FailureIsEmpty,
                NotElected, Collects
<1> QED BY <1>1, <1>2, <1>3, <1>4, <1>5, <1>6, <1>7, <1>8, <1>9, <1>10, <1>11
        DEF ExporterNext, RunStep, Update

\* The inductive invariant holds in every state of every behaviour.
LEMMA Inductive == ExporterSpec => []IInv
BY InitIsGood, StepIsGood, PTL DEF ExporterSpec

\* A replica that is not elected shows no metric of a leader collector, though
\* leadership is decided only once in a round (exporter.go:113).
THEOREM LeadershipIsRespected == ExporterSpec => []OnlyLeaderReports
<1>1. IInv => OnlyLeaderReports
    BY DEF IInv, NotElected, OnlyLeaderReports
<1> QED BY <1>1, Inductive, PTL

\* Between rounds a collector with health zero shows nothing: its goroutine has
\* removed all that the failed round did not bring back (exporter.go:155).
THEOREM FailuresLeaveNothing == ExporterSpec => []UnhealthyShowsNothing
<1>1. IInv => UnhealthyShowsNothing
    BY DEF IInv, FailureIsEmpty, UnhealthyShowsNothing
<1> QED BY <1>1, Inductive, PTL
-----------------------------------------------------------------------------
\* The report of c is replaced where its goroutine begins, and nowhere else.
LEMMA BeginRefines ==
    ASSUME NEW c \in Collectors, TypeOK, NEW r \in Reports,
           stage[c] = "wait", stage' = [stage EXCEPT ![c] = "update"],
           report' = [report EXCEPT ![c] = r], UNCHANGED registry
    PROVE  Scrape!Next
<1>1. LastReport[c] = registry[c] /\ LastReport'[c] = r
    BY DEF LastReport, TypeOK
<1>2. \A d \in Collectors \ {c} : LastReport'[d] = LastReport[d]
    BY DEF LastReport, TypeOK
<1>3. LastReport' = [LastReport EXCEPT ![c] = LastReport'[c]]
  <2>1. PICK old, new : old = LastReport /\ new = LastReport'
      OBVIOUS
  <2>2. old = [d \in Collectors |-> old[d]] /\ new = [d \in Collectors |-> new[d]]
      BY <2>1 DEF LastReport
  <2>3. \A d \in Collectors \ {c} : new[d] = old[d]
      BY <1>2, <2>1
  <2>4. new = [old EXCEPT ![c] = new[c]]
      BY <2>2, <2>3
  <2> QED BY <2>1, <2>4
<1>4. Scrape!Begin(c)
    BY <1>1, <1>3 DEF Scrape!Begin
<1> QED BY <1>4 DEF Scrape!Next

\* Every step of the loop is one of MetricSet, or none.
LEMMA StepRefines ==
    IInv /\ [ExporterNext]_exporterVars =>
        [Scrape!Next]_<<registry, LastReport>>
<1> SUFFICES ASSUME IInv, [ExporterNext]_exporterVars
             PROVE  Scrape!Next \/ UNCHANGED <<registry, LastReport>>
    OBVIOUS
<1>0. TypeOK /\ TypeOK'
    BY TypeStep DEF IInv
<1> USE <1>0, CollectorAssumption
<1>1. CASE Elect
    BY <1>1 DEF Elect, runVars, LastReport
<1>2. CASE StartRound \/ Report
  <2>1. \A c \in Collectors : stage[c] # "update" /\ stage'[c] # "update"
      BY <1>2 DEF StartRound, Report, Each, IInv
  <2>2. UNCHANGED registry
      BY <1>2 DEF StartRound, Report
  <2> QED BY <2>1, <2>2 DEF LastReport
<1>3. ASSUME NEW c \in Collectors, LeaveOut(c) \/ CollectFails(c) PROVE Scrape!Next
  <2>1. /\ stage[c] = "wait" /\ stage' = [stage EXCEPT ![c] = "update"]
        /\ UNCHANGED <<registry, report>>
      BY <1>3 DEF LeaveOut, CollectFails
  <2>2. report[c] = {}
      BY <2>1 DEF IInv, Progress
  <2>3. report' = [report EXCEPT ![c] = {}]
      BY <2>1, <2>2 DEF TypeOK
  <2> QED BY <2>1, <2>3, NoReportIsOne, BeginRefines
<1>4. ASSUME NEW c \in Collectors, NEW r \in Reports, CollectReturns(c, r)
      PROVE  Scrape!Next
    BY <1>4, BeginRefines DEF CollectReturns
<1>5. ASSUME NEW c \in Collectors, NEW m \in report[c], GetOrCreate(c, m)
      PROVE  Scrape!Next \/ UNCHANGED <<registry, LastReport>>
  <2>1. /\ stage[c] = "update"
        /\ registry' = [registry EXCEPT ![c] =
                          IF m.name \in NamesOf(registry[c]) THEN registry[c]
                          ELSE registry[c] \cup {[name |-> m.name, value |-> 0]}]
        /\ UNCHANGED <<stage, report>>
      BY <1>5 DEF GetOrCreate
  <2>2. m \in LastReport[c]
      BY <2>1 DEF LastReport
  <2>3. UNCHANGED LastReport
    <3>1. \A d \in Collectors : stage[d] # "update" => registry'[d] = registry[d]
        BY <2>1 DEF TypeOK
    <3> QED BY <2>1, <3>1 DEF LastReport
  <2>4. CASE m.name \in NamesOf(registry[c])
      BY <2>1, <2>3, <2>4 DEF TypeOK
  <2>5. CASE m.name \notin NamesOf(registry[c])
    <3>1. Scrape!Appear(c, m)
        BY <2>1, <2>3, <2>5 DEF Scrape!Appear, Scrape!ShownNames, NamesOf
    <3> QED BY <2>2, <3>1 DEF Scrape!Next
  <2> QED BY <2>4, <2>5
<1>6. ASSUME NEW c \in Collectors, NEW m \in report[c], Set(c, m) PROVE Scrape!Next
  <2>1. /\ m \in setting[c]
        /\ registry' = [registry EXCEPT ![c] = {s \in registry[c] : s.name # m.name} \cup {m}]
        /\ UNCHANGED <<stage, report>>
      BY <1>6 DEF Set
  <2>2. stage[c] = "update" /\ m.name \in NamesOf(registry[c])
      BY <2>1 DEF IInv, Progress
  <2>3. UNCHANGED LastReport
    <3>1. \A d \in Collectors : stage[d] # "update" => registry'[d] = registry[d]
        BY <2>1, <2>2 DEF TypeOK
    <3> QED BY <2>1, <3>1 DEF LastReport
  <2>4. m \in LastReport[c]
      BY <2>2 DEF LastReport
  <2>5. Scrape!Adopt(c, m)
      BY <2>1, <2>2, <2>3 DEF Scrape!Adopt, Scrape!ShownNames, NamesOf
  <2> QED BY <2>4, <2>5 DEF Scrape!Next
<1>7. ASSUME NEW c \in Collectors, NEW n \in prev[c], Unregister(c, n)
      PROVE  Scrape!Next \/ UNCHANGED <<registry, LastReport>>
  <2>1. /\ AllSet(c) /\ stage[c] = "update"
        /\ registry' = [registry EXCEPT ![c] = {s \in registry[c] : s.name # n}]
        /\ UNCHANGED <<stage, report>>
      BY <1>7 DEF Unregister, AllSet
  <2>2. UNCHANGED LastReport
    <3>1. \A d \in Collectors : stage[d] # "update" => registry'[d] = registry[d]
        BY <2>1 DEF TypeOK
    <3> QED BY <2>1, <3>1 DEF LastReport
  <2>3. LastReport[c] = report[c]
      BY <2>1 DEF LastReport
  <2>4. report[c] \subseteq registry[c] /\ n \notin NamesOf(report[c])
      BY <2>1, SetIsShown DEF IInv, Progress, AllSet
  <2>5. Scrape!Vanish(c, n)
      BY <2>1, <2>2, <2>3, <2>4 DEF Scrape!Vanish, NamesOf
  <2>6. CASE n \in Scrape!ShownNames(c)
      BY <2>5, <2>6 DEF Scrape!Next
  <2>7. CASE n \notin Scrape!ShownNames(c)
    <3>1. {s \in registry[c] : s.name # n} = registry[c]
        BY <2>7 DEF Scrape!ShownNames
    <3> QED BY <2>1, <2>2, <3>1 DEF TypeOK
  <2> QED BY <2>6, <2>7
<1>8. ASSUME NEW c \in Collectors, EndUpdate(c) PROVE UNCHANGED <<registry, LastReport>>
  <2>1. /\ stage[c] = "update" /\ stage' = [stage EXCEPT ![c] = "done"]
        /\ \A d \in Collectors \ {c} : report'[d] = report[d]
        /\ UNCHANGED registry
      BY <1>8 DEF EndUpdate, AllSet, TypeOK
  <2>2. registry[c] = report[c]
      BY <1>8, UpdatedIsReport DEF IInv
  <2>3. \A d \in Collectors : LastReport'[d] = LastReport[d]
      BY <2>1, <2>2 DEF LastReport, TypeOK
  <2> QED BY <2>1, <2>3 DEF LastReport
<1>9. CASE Restart
  <2>1. LastReport' = [c \in Collectors |-> {}]
      BY <1>9 DEF Restart, Each, LastReport
  <2> QED BY <2>1, <1>9 DEF Restart, Each, Scrape!Next, Scrape!Forget
<1>10. CASE UNCHANGED exporterVars
    BY <1>10 DEF exporterVars, runVars, LastReport
<1> QED BY <1>1, <1>2, <1>3, <1>4, <1>5, <1>6, <1>7, <1>8, <1>9, <1>10
        DEF ExporterNext, RunStep, Update

\* The loop implements MetricSet for any collectors and reports: between any two
\* calls that make, set or unregister a counter (exporter.go:143-157) the registry
\* is a report, or the next one being put in its place without a gap.
THEOREM ScrapesRefineMetricSet == ExporterSpec => ScrapesSeeReports
<1>1. ExporterInit => Scrape!Init
    BY DEF ExporterInit, Each, Scrape!Init, LastReport
<1> QED BY <1>1, Inductive, StepRefines, PTL DEF ExporterSpec, ScrapesSeeReports, Scrape!Spec
-----------------------------------------------------------------------------
(***************************************************************************)
(* What the informers hand to the handlers.                                *)
(***************************************************************************)
IdentityEvent == [name: Identities, obj: Identity, deleted: BOOLEAN, tombstone: BOOLEAN]
SecretEvent == [name: Secrets, obj: Secret, deleted: BOOLEAN, tombstone: BOOLEAN]

LEMMA AbsentIsNoObject == Absent \notin Identity /\ Absent \notin Secret
BY DEF Absent, Identity, Secret

LEMMA NoEventIsNone == NoEvent \notin IdentityEvent
BY AbsentIsNoObject DEF NoEvent, IdentityEvent, Event

LEMMA SetToSeqsCovers ==
    ASSUME NEW S, IsFiniteSet(S), NEW f \in SetToSeqs(S)
    PROVE  /\ f \in Seq(S) /\ Len(f) = Cardinality(S)
           /\ \A j, k \in 1..Len(f) : j # k => f[j] # f[k]
           /\ \A x \in S : \E k \in 1..Len(f) : f[k] = x
<1>1. Cardinality(S) \in Nat
    BY FS_CardinalityType
<1>2. /\ f \in [1..Cardinality(S) -> S]
      /\ \A j, k \in 1..Cardinality(S) : j # k => f[j] # f[k]
    BY DEF SetToSeqs
<1>3. f \in Seq(S) /\ Len(f) = Cardinality(S)
    BY <1>1, <1>2
<1>4. ASSUME NEW x \in S, \A k \in 1..Cardinality(S) : f[k] # x PROVE FALSE
  <2>1. IsFiniteSet(S \ {x}) /\ Cardinality(S \ {x}) = Cardinality(S) - 1
      BY FS_RemoveElement
  <2>2. IsFiniteSet(1..Cardinality(S)) /\ Cardinality(1..Cardinality(S)) = Cardinality(S)
    <3>1. 1 \in Int /\ Cardinality(S) \in Int
        BY <1>1
    <3>2. Cardinality(1..Cardinality(S)) =
             IF 1 > Cardinality(S) THEN 0 ELSE Cardinality(S) - 1 + 1
        BY <3>1, FS_Interval
    <3>3. IsFiniteSet(1..Cardinality(S))
        BY <3>1, FS_Interval
    <3> QED BY <1>1, <3>2, <3>3
  <2>3. f \in [1..Cardinality(S) -> S \ {x}]
      BY <1>2, <1>4
  <2>4. \E j, k \in 1..Cardinality(S) : j # k /\ f[j] = f[k]
    <3> DEFINE D == 1..Cardinality(S)  T == S \ {x}
    <3>1. Cardinality(T) < Cardinality(D)
        BY <1>1, <2>1, <2>2
    <3>2. IsFiniteSet(D) /\ IsFiniteSet(T) /\ f \in [D -> T]
        BY <2>1, <2>2, <2>3
    <3> HIDE DEF D, T
    <3>3. \E j, k \in D : j # k /\ f[j] = f[k]
        BY <3>1, <3>2, FS_PigeonHole
    <3> QED BY <3>3 DEF D
  <2> QED BY <1>2, <2>4
<1> QED BY <1>2, <1>3, <1>4

\* A queue with every object of a store, as it is.
ShowsAll(evs, N, Obj, objects) ==
    /\ evs \in Seq([name: N, obj: Obj, deleted: BOOLEAN, tombstone: BOOLEAN])
    /\ \A k \in 1..Len(evs) : /\ evs[k].obj = objects[evs[k].name]
                              /\ ~evs[k].deleted /\ ~evs[k].tombstone
    /\ \A n \in N : Here(objects[n]) => \E k \in 1..Len(evs) : evs[k].name = n

\* The relist and the resync show every object of a store.
LEMMA AddsShowAll ==
    ASSUME NEW N, IsFiniteSet(N), NEW Obj, Absent \notin Obj,
           NEW objects, objects \in [N -> Obj \cup {Absent}], NEW evs, evs \in Adds(objects)
    PROVE  ShowsAll(evs, N, Obj, objects)
<1> DEFINE H == {m \in N : Here(objects[m])}
           g == [n \in H |-> Event(n, objects[n], FALSE, FALSE)]
           S == {Event(n, objects[n], FALSE, FALSE) : n \in H}
<1>1. evs \in SetToSeqs(S)
  <2>1. DOMAIN objects = N
      OBVIOUS
  <2> QED BY <2>1 DEF Adds
<1>2. IsFiniteSet(S)
  <2>1. IsFiniteSet(H)
      BY FS_Subset
  <2>2. S = {g[n] : n \in H}
      OBVIOUS
  <2>3. g \in [H -> S] /\ \A y \in S : \E n \in H : g[n] = y
      OBVIOUS
  <2> HIDE DEF H, S, g
  <2>4. g \in Surjection(H, S)
      BY <2>3 DEF Surjection
  <2> QED BY <2>1, <2>4, FS_Surjection
<1>3. /\ evs \in Seq(S)
      /\ \A x \in S : \E k \in 1..Len(evs) : evs[k] = x
  <2> HIDE DEF S
  <2> QED BY <1>1, <1>2, SetToSeqsCovers
<1>4. \A e \in S : /\ e \in [name: N, obj: Obj, deleted: BOOLEAN, tombstone: BOOLEAN]
                   /\ e.obj = objects[e.name]
                   /\ ~e.deleted /\ ~e.tombstone
  <2>1. SUFFICES ASSUME NEW n \in H
                 PROVE  LET e == Event(n, objects[n], FALSE, FALSE) IN
                          /\ e \in [name: N, obj: Obj, deleted: BOOLEAN, tombstone: BOOLEAN]
                          /\ e.obj = objects[e.name]
                          /\ ~e.deleted /\ ~e.tombstone
      BY Zenon
  <2>2. objects[n] \in Obj
      BY DEF Here
  <2> QED BY <2>2 DEF Event
<1>5. \A k \in 1..Len(evs) : evs[k] \in S
  <2> HIDE DEF S
  <2> QED BY <1>3
<1>6. evs \in Seq([name: N, obj: Obj, deleted: BOOLEAN, tombstone: BOOLEAN])
  <2> DEFINE E == [name: N, obj: Obj, deleted: BOOLEAN, tombstone: BOOLEAN]
  <2>1. \A k \in 1..Len(evs) : evs[k] \in E
      BY <1>4, <1>5
  <2> HIDE DEF S, E
  <2>2. Len(evs) \in Nat /\ evs \in [1..Len(evs) -> E]
      BY <1>3, <2>1
  <2>3. evs \in Seq(E)
      BY <2>2
  <2> QED BY <2>3 DEF E
<1>7. ASSUME NEW n \in N, Here(objects[n]) PROVE \E k \in 1..Len(evs) : evs[k].name = n
  <2>1. Event(n, objects[n], FALSE, FALSE) \in S
      BY <1>7
  <2>2. Event(n, objects[n], FALSE, FALSE).name = n
      BY DEF Event
  <2> HIDE DEF S
  <2> QED BY <1>3, <2>1, <2>2
<1> HIDE DEF S
<1> QED BY <1>4, <1>5, <1>6, <1>7 DEF ShowsAll
-----------------------------------------------------------------------------
(***************************************************************************)
(* A queue of notifications lags behind its store, and never contradicts   *)
(* it: the last one that waits for an object shows the object as it is.    *)
(***************************************************************************)
Waiting(evs, n) == \E k \in 1..Len(evs) : evs[k].name = n

Reflects(e, obj) == IF e.deleted THEN obj = Absent ELSE obj = e.obj

UpToDate(evs, objects) ==
    \A k \in 1..Len(evs) :
        (\A j \in 1..Len(evs) : j > k => evs[j].name # evs[k].name) =>
            Reflects(evs[k], objects[evs[k].name])

\* Types of what the handlers keep and are given.
WatchersTyped ==
    /\ WatchersTypeOK
    /\ events \in Seq(IdentityEvent)
    /\ secretEvents \in Seq(SecretEvent)
    /\ \A k \in 1..Len(secretEvents) : secretEvents[k].tombstone => secretEvents[k].deleted
    /\ updating \in IdentityEvent \cup {NoEvent}
    /\ updating # NoEvent => updating.obj.labels # "badNamespace"
    /\ identityCount \in [Namespaces -> 0..Cardinality(Identities)]
    /\ listed \in 0..Cardinality(Identities)

\* What identities has for an object.
Shown(obj) == IF Here(obj) /\ obj.labels = "ok" THEN obj.ns ELSE None

Busy(i) == updating # NoEvent /\ updating.name = i

IdentitiesFollow ==
    /\ UpToDate(events, store)
    /\ \A i \in Identities : Busy(i) /\ ~Waiting(events, i) => Reflects(updating, store[i])
    /\ \A i \in Identities \ unheard :
          ~Waiting(events, i) /\ ~Busy(i) => identities[i] = Shown(store[i])

\* A namespace is counted right, or will be counted again, or its count is
\* about to be stored.
CountKnown(ns) ==
    \/ \E k \in 1..Len(events) : events[k].obj.ns = ns
    \/ IF updating # NoEvent /\ updating.obj.ns = ns
         THEN listed = Cardinality(InNamespace(ns))
         ELSE identityCount[ns] = Cardinality(InNamespace(ns))

CountsFollow == \A ns \in Namespaces \ uncounted : CountKnown(ns)

\* What expiration has for an object.
NotAfter(obj) == IF Here(obj) THEN obj.notAfter ELSE 0

SecretsFollow ==
    /\ UpToDate(secretEvents, secretStore)
    /\ \A s \in Secrets \ unheard :
          ~Waiting(secretEvents, s) => expiration[s] = NotAfter(secretStore[s])

WInv == WatchersTyped /\ IdentitiesFollow /\ CountsFollow /\ SecretsFollow

\* The handler takes the first notification.
LEMMA TakeFirst ==
    ASSUME NEW E, NEW evs \in Seq(E), evs # <<>>, NEW objects, UpToDate(evs, objects)
    PROVE  /\ Head(evs) \in E /\ Tail(evs) \in Seq(E)
           /\ UpToDate(Tail(evs), objects)
           /\ \A n : Waiting(evs, n) <=> n = Head(evs).name \/ Waiting(Tail(evs), n)
           /\ ~Waiting(Tail(evs), Head(evs).name) =>
                 Reflects(Head(evs), objects[Head(evs).name])
<1>1. /\ Len(evs) \in Nat /\ Len(evs) >= 1 /\ Head(evs) = evs[1] /\ Head(evs) \in E
      /\ Tail(evs) \in Seq(E) /\ Len(Tail(evs)) = Len(evs) - 1
      /\ \A k \in 1..Len(Tail(evs)) : Tail(evs)[k] = evs[k + 1]
    OBVIOUS
<1> DEFINE t == Tail(evs)  h == Head(evs)
<1> HIDE DEF t, h
<1>2. /\ Len(evs) \in Nat /\ Len(evs) >= 1 /\ h = evs[1] /\ Len(t) = Len(evs) - 1
      /\ \A k \in 1..Len(t) : t[k] = evs[k + 1]
    BY <1>1 DEF t, h
<1>3. ASSUME NEW k \in 1..Len(t), \A j \in 1..Len(t) : j > k => t[j].name # t[k].name
      PROVE  Reflects(t[k], objects[t[k].name])
  <2>1. k + 1 \in 1..Len(evs) /\ t[k] = evs[k + 1]
      BY <1>2
  <2>2. ASSUME NEW j \in 1..Len(evs), j > k + 1 PROVE evs[j].name # evs[k + 1].name
    <3>1. j - 1 \in 1..Len(t) /\ j - 1 > k /\ t[j - 1] = evs[(j - 1) + 1] /\ (j - 1) + 1 = j
        BY <1>2, <2>1, <2>2
    <3>2. t[j - 1].name # t[k].name
        BY <1>3, <3>1
    <3> QED BY <2>1, <3>1, <3>2
  <2> QED BY <2>1, <2>2 DEF UpToDate
<1>4. UpToDate(t, objects)
    BY <1>3 DEF UpToDate
<1>5. ASSUME NEW n PROVE Waiting(evs, n) <=> n = h.name \/ Waiting(t, n)
  <2>1. ASSUME NEW k \in 1..Len(evs), evs[k].name = n PROVE n = h.name \/ Waiting(t, n)
    <3>1. CASE k = 1
        BY <1>2, <2>1, <3>1
    <3>2. CASE k > 1
      <4>1. k - 1 \in 1..Len(t) /\ t[k - 1] = evs[(k - 1) + 1] /\ (k - 1) + 1 = k
          BY <1>2, <3>2
      <4> QED BY <2>1, <4>1 DEF Waiting
    <3> QED BY <1>2, <2>1, <3>1, <3>2
  <2>2. ASSUME NEW k \in 1..Len(t), t[k].name = n PROVE Waiting(evs, n)
    <3>1. k + 1 \in 1..Len(evs) /\ t[k] = evs[k + 1]
        BY <1>2
    <3> QED BY <2>2, <3>1 DEF Waiting
  <2>3. n = h.name => Waiting(evs, n)
    <3>1. 1 \in 1..Len(evs)
        BY <1>2
    <3> QED BY <1>2, <3>1 DEF Waiting
  <2> QED BY <2>1, <2>2, <2>3 DEF Waiting
<1>6. ASSUME ~Waiting(t, h.name) PROVE Reflects(h, objects[h.name])
  <2>1. 1 \in 1..Len(evs)
      BY <1>2
  <2>2. ASSUME NEW j \in 1..Len(evs), j > 1 PROVE evs[j].name # evs[1].name
    <3>1. j - 1 \in 1..Len(t) /\ t[j - 1] = evs[(j - 1) + 1] /\ (j - 1) + 1 = j
        BY <1>2, <2>2
    <3> QED BY <1>2, <1>6, <3>1 DEF Waiting
  <2>3. Reflects(evs[1], objects[evs[1].name])
      BY <2>1, <2>2 DEF UpToDate
  <2> QED BY <1>2, <2>3
<1> QED BY <1>1, <1>4, <1>5, <1>6 DEF t, h

\* The informer changes its store and notifies.
LEMMA Notify ==
    ASSUME NEW E, NEW evs \in Seq(E), NEW N, NEW O, NEW objects \in [N -> O],
           UpToDate(evs, objects), \A x \in E : x.name \in N,
           NEW e \in E, NEW obj, Reflects(e, obj)
    PROVE  /\ Append(evs, e) \in Seq(E)
           /\ UpToDate(Append(evs, e), [objects EXCEPT ![e.name] = obj])
           /\ \A n : Waiting(Append(evs, e), n) <=> n = e.name \/ Waiting(evs, n)
<1> DEFINE a == Append(evs, e)  new == [objects EXCEPT ![e.name] = obj]
<1>1. /\ Len(evs) \in Nat /\ a \in Seq(E) /\ Len(a) = Len(evs) + 1 /\ a[Len(a)] = e
      /\ \A k \in 1..Len(evs) : a[k] = evs[k] /\ evs[k] \in E
    OBVIOUS
<1>2. new[e.name] = obj /\ \A n \in N : n # e.name => new[n] = objects[n]
    OBVIOUS
<1> HIDE DEF a, new
<1>3. ASSUME NEW k \in 1..Len(a), \A j \in 1..Len(a) : j > k => a[j].name # a[k].name
      PROVE  Reflects(a[k], new[a[k].name])
  <2>1. CASE k = Len(a)
      BY <1>1, <1>2, <2>1
  <2>2. CASE k # Len(a)
    <3>1. k \in 1..Len(evs) /\ a[k] = evs[k] /\ Len(a) \in 1..Len(a) /\ Len(a) > k
        BY <1>1, <2>2
    <3>2. a[k].name # e.name /\ a[k].name \in N
        BY <1>1, <1>3, <3>1
    <3>3. ASSUME NEW j \in 1..Len(evs), j > k PROVE evs[j].name # evs[k].name
      <4>1. j \in 1..Len(a) /\ a[j] = evs[j]
          BY <1>1
      <4> QED BY <1>3, <3>1, <3>3, <4>1
    <3>4. Reflects(evs[k], objects[evs[k].name])
        BY <3>1, <3>3 DEF UpToDate
    <3> QED BY <1>2, <3>1, <3>2, <3>4
  <2> QED BY <2>1, <2>2
<1>4. UpToDate(a, new)
    BY <1>3 DEF UpToDate
<1>5. ASSUME NEW n PROVE Waiting(a, n) <=> n = e.name \/ Waiting(evs, n)
  <2>1. ASSUME NEW k \in 1..Len(a), a[k].name = n PROVE n = e.name \/ Waiting(evs, n)
    <3>1. CASE k = Len(a)
        BY <1>1, <2>1, <3>1
    <3>2. CASE k # Len(a)
      <4>1. k \in 1..Len(evs) /\ a[k] = evs[k]
          BY <1>1, <3>2
      <4> QED BY <2>1, <4>1 DEF Waiting
    <3> QED BY <3>1, <3>2
  <2>2. ASSUME NEW k \in 1..Len(evs), evs[k].name = n PROVE Waiting(a, n)
    <3>1. k \in 1..Len(a) /\ a[k] = evs[k]
        BY <1>1
    <3> QED BY <2>2, <3>1 DEF Waiting
  <2>3. n = e.name => Waiting(a, n)
    <3>1. Len(a) \in 1..Len(a)
        BY <1>1
    <3> QED BY <1>1, <3>1 DEF Waiting
  <2> QED BY <2>1, <2>2, <2>3 DEF Waiting
<1> QED BY <1>1, <1>4, <1>5 DEF a, new

\* The list of a store does not contradict it.
LEMMA ShownIsUpToDate ==
    ASSUME NEW evs, NEW N, NEW Obj, NEW objects, ShowsAll(evs, N, Obj, objects)
    PROVE  UpToDate(evs, objects)
BY DEF ShowsAll, UpToDate, Reflects
-----------------------------------------------------------------------------
\* Which notifications wait, one step later.
LEMMA TailKeeps ==
    ASSUME NEW E, NEW evs \in Seq(E), evs # <<>>
    PROVE  /\ \A k \in 1..Len(evs) :
                evs[k] = Head(evs) \/ \E j \in 1..Len(Tail(evs)) : Tail(evs)[j] = evs[k]
           /\ \A j \in 1..Len(Tail(evs)) : \E k \in 1..Len(evs) : evs[k] = Tail(evs)[j]
<1>1. ASSUME NEW k \in 1..Len(evs)
      PROVE  evs[k] = Head(evs) \/ \E j \in 1..Len(Tail(evs)) : Tail(evs)[j] = evs[k]
  <2>1. CASE k = 1
      BY <2>1
  <2>2. CASE k # 1
    <3>1. k - 1 \in 1..Len(Tail(evs)) /\ Tail(evs)[k - 1] = evs[k]
        BY <2>2
    <3> QED BY <3>1
  <2> QED BY <2>1, <2>2
<1>2. ASSUME NEW j \in 1..Len(Tail(evs))
      PROVE  \E k \in 1..Len(evs) : evs[k] = Tail(evs)[j]
  <2>1. j + 1 \in 1..Len(evs) /\ Tail(evs)[j] = evs[j + 1]
      OBVIOUS
  <2> QED BY <2>1
<1> QED BY <1>1, <1>2

LEMMA AppendKeeps ==
    ASSUME NEW E, NEW evs \in Seq(E), NEW e \in E, NEW new, new = Append(evs, e)
    PROVE  /\ \A k \in 1..Len(evs) : \E j \in 1..Len(new) : new[j] = evs[k]
           /\ \E j \in 1..Len(new) : new[j] = e
           /\ \A j \in 1..Len(new) : new[j] = e \/ \E k \in 1..Len(evs) : new[j] = evs[k]
<1>1. /\ \A k \in 1..Len(evs) : k \in 1..Len(new) /\ new[k] = evs[k]
      /\ Len(evs) + 1 \in 1..Len(new) /\ new[Len(evs) + 1] = e
      /\ \A j \in 1..Len(new) : j \in 1..Len(evs) \/ j = Len(evs) + 1
    OBVIOUS
<1> QED BY <1>1

\* What an identity's notification says of its namespace.
LEMMA NamespaceOf ==
    \A obj \in Identity : IF obj.labels = "badNamespace" THEN obj.ns = None
                                                         ELSE obj.ns \in Namespaces
BY DEF Identity

LEMMA EventFields ==
    /\ \A e \in IdentityEvent : /\ e.name \in Identities /\ e.obj \in Identity
                                /\ Here(e.obj) /\ e # NoEvent
    /\ \A e \in SecretEvent : e.name \in Secrets /\ e.obj \in Secret /\ Here(e.obj)
<1>1. \A e \in IdentityEvent : e.name \in Identities /\ e.obj \in Identity
    BY DEF IdentityEvent
<1>2. \A e \in SecretEvent : e.name \in Secrets /\ e.obj \in Secret
    BY DEF SecretEvent
<1> QED BY <1>1, <1>2, AbsentIsNoObject, NoEventIsNone DEF Here

LEMMA EventType ==
    ASSUME NEW t \in BOOLEAN, NEW d \in BOOLEAN
    PROVE  /\ \A i \in Identities, obj \in Identity :
                 /\ Event(i, obj, d, t) \in IdentityEvent
                 /\ Event(i, obj, d, t).name = i /\ Event(i, obj, d, t).obj = obj
                 /\ Event(i, obj, d, t).deleted = d
           /\ \A s \in Secrets, obj \in Secret :
                 /\ Event(s, obj, d, t) \in SecretEvent
                 /\ Event(s, obj, d, t).name = s /\ Event(s, obj, d, t).obj = obj
                 /\ Event(s, obj, d, t).deleted = d /\ Event(s, obj, d, t).tombstone = t
BY DEF Event, IdentityEvent, SecretEvent

\* A namespace cannot have more identities than there are.
LEMMA CountBound ==
    ASSUME NEW ns
    PROVE  Cardinality(InNamespace(ns)) \in 0..Cardinality(Identities)
<1>1. InNamespace(ns) \subseteq Identities
    BY DEF InNamespace
<1>2. IsFiniteSet(Identities)
    BY WatcherAssumption
<1>3. /\ IsFiniteSet(InNamespace(ns))
      /\ Cardinality(InNamespace(ns)) <= Cardinality(Identities)
    BY <1>1, <1>2, FS_Subset
<1> QED BY <1>2, <1>3, FS_CardinalityType
-----------------------------------------------------------------------------
(***************************************************************************)
(* Each action of the cluster, the informers and the handlers keeps the    *)
(* invariant.                                                              *)
(***************************************************************************)
LEMMA WatchersInitGood == WatchersInit => WInv
<1> SUFFICES ASSUME WatchersInit PROVE WInv
    OBVIOUS
<1> USE DEF WatchersInit
<1>1. /\ WatchersTypeOK
      /\ identityCount \in [Namespaces -> 0..Cardinality(Identities)]
      /\ listed \in 0..Cardinality(Identities)
  <2>1. Cardinality(Identities) \in Nat
      BY WatcherAssumption, FS_CardinalityType
  <2> QED BY <2>1 DEF WatchersTypeOK
<1>2. WatchersTyped
    BY <1>1, AbsentIsNoObject DEF WatchersTyped
<1>3. IdentitiesFollow
  <2>1. UpToDate(events, store)
      BY DEF UpToDate
  <2>2. \A i \in Identities : ~Busy(i) /\ identities[i] = None /\ Shown(store[i]) = None
      BY DEF Shown, Here, Busy
  <2> QED BY <2>1, <2>2 DEF IdentitiesFollow
<1>4. CountsFollow
  <2>1. \A ns \in Namespaces : InNamespace(ns) = {}
      BY DEF InNamespace, Here
  <2>2. \A ns \in Namespaces : Cardinality(InNamespace(ns)) = 0
      BY <2>1, FS_EmptySet
  <2> QED BY <2>2 DEF CountsFollow, CountKnown
<1>5. SecretsFollow
    BY DEF SecretsFollow, UpToDate, NotAfter, Here
<1> QED BY <1>2, <1>3, <1>4, <1>5 DEF WInv

\* What the invariant rests on.
wVars == <<store, secretStore, events, secretEvents, updating, listed,
           identityCount, identities, expiration, uncounted, unheard>>

LEMMA WatchersFrame ==
    ASSUME WInv, UNCHANGED wVars,
           api' \in [Identities -> Identity \cup {Absent}],
           secretApi' \in [Secrets -> Secret \cup {Absent}]
    PROVE  WInv'
<1> USE DEF wVars
<1>1. WatchersTyped'
    BY DEF WInv, WatchersTyped, WatchersTypeOK
<1>2. IdentitiesFollow' /\ SecretsFollow'
    BY DEF WInv, IdentitiesFollow, SecretsFollow, UpToDate, Waiting, Busy
<1>3. CountsFollow'
    BY DEF WInv, CountsFollow, CountKnown, InNamespace
<1> QED BY <1>1, <1>2, <1>3 DEF WInv

LEMMA ChangeGood ==
    ASSUME WInv
    PROVE  /\ \A i \in Identities : ChangeIdentity(i) => WInv'
           /\ \A s \in Secrets : ChangeSecret(s) => WInv'
<1>1. ASSUME NEW i \in Identities, ChangeIdentity(i) PROVE WInv'
  <2>1. UNCHANGED wVars /\ UNCHANGED secretApi
      BY <1>1 DEF ChangeIdentity, wVars, identityVars, secretVars
  <2>2. PICK obj \in Shapes[i] \cup {Absent} : api' = [api EXCEPT ![i] = obj]
      BY <1>1 DEF ChangeIdentity
  <2>3. obj \in Identity \cup {Absent}
      BY WatcherAssumption
  <2>4. api' \in [Identities -> Identity \cup {Absent}]
      BY <2>2, <2>3 DEF WInv, WatchersTyped, WatchersTypeOK
  <2>5. secretApi' \in [Secrets -> Secret \cup {Absent}]
      BY <2>1 DEF WInv, WatchersTyped, WatchersTypeOK
  <2> QED BY <2>1, <2>4, <2>5, WatchersFrame
<1>2. ASSUME NEW s \in Secrets, ChangeSecret(s) PROVE WInv'
  <2>1. UNCHANGED wVars /\ UNCHANGED api
      BY <1>2 DEF ChangeSecret, wVars, identityVars, secretVars
  <2>2. PICK obj \in Secret \cup {Absent} : secretApi' = [secretApi EXCEPT ![s] = obj]
      BY <1>2 DEF ChangeSecret
  <2>3. secretApi' \in [Secrets -> Secret \cup {Absent}]
      BY <2>2 DEF WInv, WatchersTyped, WatchersTypeOK
  <2>4. api' \in [Identities -> Identity \cup {Absent}]
      BY <2>1 DEF WInv, WatchersTyped, WatchersTypeOK
  <2> QED BY <2>1, <2>3, <2>4, WatchersFrame
<1> QED BY <1>1, <1>2

\* Informers append what they show to the queue.
LEMMA SyncIdentityGood ==
    ASSUME WInv, NEW i \in Identities, SyncIdentity(i)
    PROVE  WInv'
<1>1. WatchersTyped /\ WatchersTypeOK
    BY DEF WInv, WatchersTyped
<1>2. /\ UNCHANGED <<api, secretApi, secretStore, changes, updating, listed>>
      /\ UNCHANGED <<identityCount, identities, expiration, secretEvents, unheard>>
      /\ store' = [store EXCEPT ![i] = api[i]]
      /\ uncounted' = uncounted \cup Left(store[i], api[i])
    BY DEF SyncIdentity, secretVars
<1>3. PICK e \in IdentityEvent :
        /\ events' = Append(events, e)
        /\ e.name = i /\ Reflects(e, api[i])
        /\ IF e.deleted THEN e.obj = store[i] ELSE e.obj = api[i]
  <2>1. CASE Here(api[i])
    <3>1. api[i] \in Identity
        BY <1>1, <2>1 DEF WatchersTypeOK, Here
    <3>2. events' = Append(events, Event(i, api[i], FALSE, FALSE))
        BY <2>1 DEF SyncIdentity
    <3> DEFINE x == Event(i, api[i], FALSE, FALSE)
    <3>3. /\ x \in IdentityEvent /\ x.name = i /\ x.obj = api[i] /\ x.deleted = FALSE
        BY <3>1 DEF Event, IdentityEvent
    <3> HIDE DEF x
    <3>4. events' = Append(events, x)
        BY <3>2 DEF x
    <3> QED BY <3>3, <3>4 DEF Reflects
  <2>2. CASE ~Here(api[i])
    <3>1. api[i] = Absent /\ store[i] \in Identity
        BY <1>1, <2>2 DEF WatchersTypeOK, Here, SyncIdentity
    <3>2. PICK t \in BOOLEAN : events' = Append(events, Event(i, store[i], TRUE, t))
        BY <2>2 DEF SyncIdentity
    <3> DEFINE x == Event(i, store[i], TRUE, t)
    <3>3. /\ x \in IdentityEvent /\ x.name = i /\ x.obj = store[i] /\ x.deleted = TRUE
        BY <3>1 DEF Event, IdentityEvent
    <3> HIDE DEF x
    <3>4. events' = Append(events, x)
        BY <3>2 DEF x
    <3> QED BY <3>1, <3>3, <3>4 DEF Reflects
  <2> QED BY <2>1, <2>2
<1>4. events \in Seq(IdentityEvent) /\ store \in [Identities -> Identity \cup {Absent}]
    BY <1>1 DEF WatchersTyped, WatchersTypeOK
<1>5. /\ events' \in Seq(IdentityEvent)
      /\ UpToDate(events', store')
      /\ \A n : Waiting(events', n) <=> n = i \/ Waiting(events, n)
  <2>1. UpToDate(events, store) /\ \A x \in IdentityEvent : x.name \in Identities
      BY EventFields DEF WInv, IdentitiesFollow
  <2>2. store' = [store EXCEPT ![e.name] = api[i]]
      BY <1>2, <1>3
  <2> QED BY <1>3, <1>4, <2>1, <2>2, Notify
<1>6. WatchersTyped'
  <2>1. WatchersTypeOK'
    <3>1. store' \in [Identities -> Identity \cup {Absent}]
        BY <1>1, <1>2 DEF WatchersTypeOK
    <3>2. uncounted' \subseteq Namespaces
        BY <1>1, <1>2 DEF WatchersTypeOK, Left
    <3> QED BY <1>1, <1>2, <3>1, <3>2 DEF WatchersTypeOK
  <2> QED BY <1>1, <1>2, <1>5, <2>1 DEF WatchersTyped
<1>7. IdentitiesFollow'
  <2>1. \A j \in Identities : ~Waiting(events', j) => j # i /\ ~Waiting(events, j)
      BY <1>5
  <2>2. \A j \in Identities : j # i => store'[j] = store[j]
      BY <1>2, <1>4
  <2>3. \A j \in Identities : Busy(j)' <=> Busy(j)
      BY <1>2 DEF Busy
  <2> QED BY <1>2, <1>5, <2>1, <2>2, <2>3 DEF WInv, IdentitiesFollow
<1>8. CountsFollow'
  <2>1. SUFFICES ASSUME NEW ns \in Namespaces, ns \notin uncounted',
                        \A k \in 1..Len(events') : events'[k].obj.ns # ns
                 PROVE  CountKnown(ns)'
      BY DEF CountsFollow, CountKnown
  <2>2. /\ \A k \in 1..Len(events) : events[k].obj.ns # ns
        /\ e.obj.ns # ns
    <3>1. /\ \A k \in 1..Len(events) : \E j \in 1..Len(events') : events'[j] = events[k]
          /\ \E j \in 1..Len(events') : events'[j] = e
        BY <1>3, <1>4, AppendKeeps
    <3> QED BY <2>1, <3>1
  <2>3. CountKnown(ns)
      BY <1>2, <2>1 DEF WInv, CountsFollow
  <2>4. InNamespace(ns)' = InNamespace(ns)
    <3>1. Here(api[i]) => api[i].ns # ns
        BY <1>3, <2>2 DEF Reflects, Here
    <3>2. Here(store[i]) => store[i].ns # ns
      <4>1. CASE e.deleted
          BY <1>3, <2>2, <4>1
      <4>2. CASE ~e.deleted
        <5>1. e.obj = api[i] /\ Here(api[i])
            BY <1>3, <4>2, EventFields
        <5> QED BY <1>2, <2>1, <2>2, <5>1 DEF Left
      <4> QED BY <4>1, <4>2
    <3> QED BY <1>2, <1>4, <3>1, <3>2 DEF InNamespace
  <2>5. IF updating # NoEvent /\ updating.obj.ns = ns
          THEN listed = Cardinality(InNamespace(ns))
          ELSE identityCount[ns] = Cardinality(InNamespace(ns))
      BY <2>2, <2>3 DEF CountKnown
  <2> QED BY <1>2, <2>4, <2>5 DEF CountKnown
<1>9. SecretsFollow'
    BY <1>2 DEF WInv, SecretsFollow, UpToDate, Waiting
<1> QED BY <1>6, <1>7, <1>8, <1>9 DEF WInv

LEMMA SyncSecretGood ==
    ASSUME WInv, NEW s \in Secrets, SyncSecret(s)
    PROVE  WInv'
<1>1. WatchersTyped /\ WatchersTypeOK
    BY DEF WInv, WatchersTyped
<1>2. /\ UNCHANGED <<api, secretApi, store, changes, events, updating, listed>>
      /\ UNCHANGED <<identityCount, identities, uncounted, expiration, unheard>>
      /\ secretStore' = [secretStore EXCEPT ![s] = secretApi[s]]
    BY DEF SyncSecret, identityVars
<1>3. PICK e \in SecretEvent :
        /\ secretEvents' = Append(secretEvents, e)
        /\ e.name = s /\ Reflects(e, secretApi[s])
        /\ e.tombstone => e.deleted
  <2>1. CASE Here(secretApi[s])
    <3>1. secretApi[s] \in Secret
        BY <1>1, <2>1 DEF WatchersTypeOK, Here
    <3>2. secretEvents' = Append(secretEvents, Event(s, secretApi[s], FALSE, FALSE))
        BY <2>1 DEF SyncSecret
    <3> QED BY <3>1, <3>2, EventType DEF Reflects
  <2>2. CASE ~Here(secretApi[s])
    <3>1. secretApi[s] = Absent /\ secretStore[s] \in Secret
        BY <1>1, <2>2 DEF WatchersTypeOK, Here, SyncSecret
    <3>2. PICK t \in BOOLEAN :
            secretEvents' = Append(secretEvents, Event(s, secretStore[s], TRUE, t))
        BY <2>2 DEF SyncSecret
    <3> QED BY <3>1, <3>2, EventType DEF Reflects
  <2> QED BY <2>1, <2>2
<1>4. /\ secretEvents \in Seq(SecretEvent)
      /\ secretStore \in [Secrets -> Secret \cup {Absent}]
    BY <1>1 DEF WatchersTyped, WatchersTypeOK
<1>5. /\ secretEvents' \in Seq(SecretEvent)
      /\ UpToDate(secretEvents', secretStore')
      /\ \A n : Waiting(secretEvents', n) <=> n = s \/ Waiting(secretEvents, n)
  <2>1. UpToDate(secretEvents, secretStore) /\ \A x \in SecretEvent : x.name \in Secrets
      BY EventFields DEF WInv, SecretsFollow
  <2>2. secretStore' = [secretStore EXCEPT ![e.name] = secretApi[s]]
      BY <1>2, <1>3
  <2> QED BY <1>3, <1>4, <2>1, <2>2, Notify
<1>6. WatchersTyped'
  <2>1. WatchersTypeOK'
    <3>1. secretStore' \in [Secrets -> Secret \cup {Absent}]
        BY <1>1, <1>2 DEF WatchersTypeOK
    <3> QED BY <1>1, <1>2, <3>1 DEF WatchersTypeOK
  <2>2. \A k \in 1..Len(secretEvents') :
           secretEvents'[k].tombstone => secretEvents'[k].deleted
    <3>1. \A k \in 1..Len(secretEvents') :
             secretEvents'[k] = e \/ \E j \in 1..Len(secretEvents) :
                                        secretEvents'[k] = secretEvents[j]
        BY <1>3, <1>4, AppendKeeps
    <3>2. \A j \in 1..Len(secretEvents) :
             secretEvents[j].tombstone => secretEvents[j].deleted
        BY <1>1 DEF WatchersTyped
    <3> QED BY <1>3, <3>1, <3>2
  <2> QED BY <1>1, <1>2, <1>5, <2>1, <2>2 DEF WatchersTyped
<1>7. IdentitiesFollow' /\ CountsFollow'
    BY <1>2 DEF WInv, IdentitiesFollow, CountsFollow, UpToDate, Waiting, Busy,
                CountKnown, InNamespace
<1>8. SecretsFollow'
  <2>1. \A j \in Secrets : ~Waiting(secretEvents', j) => j # s /\ ~Waiting(secretEvents, j)
      BY <1>5
  <2>2. \A j \in Secrets : j # s => secretStore'[j] = secretStore[j]
      BY <1>2, <1>4
  <2> QED BY <1>2, <1>5, <2>1, <2>2 DEF WInv, SecretsFollow
<1> QED BY <1>6, <1>7, <1>8 DEF WInv

\* A resync, to idle handlers.
LEMMA ResyncGood ==
    ASSUME WInv, Resync
    PROVE  WInv'
<1>1. WatchersTyped /\ WatchersTypeOK
    BY DEF WInv, WatchersTyped
<1>2. /\ UNCHANGED <<api, secretApi, store, secretStore, updating, listed>>
      /\ UNCHANGED <<identityCount, identities, uncounted, expiration, unheard>>
      /\ events = <<>> /\ secretEvents = <<>>
    BY DEF Resync, storeVars
<1>3. ShowsAll(events', Identities, Identity, store)
  <2>1. store \in [Identities -> Identity \cup {Absent}]
      BY <1>1 DEF WatchersTypeOK
  <2>2. events' \in Adds(store)
      BY DEF Resync
  <2> QED BY <2>1, <2>2, AddsShowAll, AbsentIsNoObject, WatcherAssumption, Zenon
<1>4. ShowsAll(secretEvents', Secrets, Secret, secretStore)
  <2>1. secretStore \in [Secrets -> Secret \cup {Absent}]
      BY <1>1 DEF WatchersTypeOK
  <2>2. secretEvents' \in Adds(secretStore)
      BY DEF Resync
  <2> QED BY <2>1, <2>2, AddsShowAll, AbsentIsNoObject, WatcherAssumption, Zenon
<1>5. WatchersTyped'
  <2>1. WatchersTypeOK'
      BY <1>1, <1>2 DEF WatchersTypeOK
  <2>2. /\ events' \in Seq(IdentityEvent) /\ secretEvents' \in Seq(SecretEvent)
        /\ \A k \in 1..Len(secretEvents') : ~secretEvents'[k].tombstone
      BY <1>3, <1>4 DEF ShowsAll, IdentityEvent, SecretEvent
  <2> QED BY <1>1, <1>2, <2>1, <2>2 DEF WatchersTyped
<1>6. UpToDate(events', store') /\ UpToDate(secretEvents', secretStore')
    BY <1>2, <1>3, <1>4, ShownIsUpToDate
<1>7. \A n : ~Waiting(events, n) /\ ~Waiting(secretEvents, n)
    BY <1>2 DEF Waiting
<1>8. IdentitiesFollow'
    BY <1>2, <1>6, <1>7 DEF WInv, IdentitiesFollow, Busy
<1>9. CountsFollow'
    BY <1>2 DEF WInv, CountsFollow, CountKnown, InNamespace
<1>10. SecretsFollow'
    BY <1>2, <1>6, <1>7 DEF WInv, SecretsFollow
<1> QED BY <1>5, <1>8, <1>9, <1>10 DEF WInv

\* A new process: every object there is waits to be counted and shown.
LEMMA RestartGood ==
    ASSUME WInv, RestartWatchers
    PROVE  WInv'
<1>1. WatchersTyped /\ WatchersTypeOK
    BY DEF WInv, WatchersTyped
<1>2. /\ UNCHANGED <<api, secretApi>> /\ store' = api /\ secretStore' = secretApi
      /\ updating' = NoEvent /\ listed' = 0
      /\ identityCount' = [ns \in Namespaces |-> 0]
      /\ identities' = [i \in Identities |-> None]
      /\ expiration' = [s \in Secrets |-> 0]
      /\ uncounted' = {} /\ unheard' = {}
    BY DEF RestartWatchers
<1>3. ShowsAll(events', Identities, Identity, api)
  <2>1. api \in [Identities -> Identity \cup {Absent}]
      BY <1>1 DEF WatchersTypeOK
  <2>2. events' \in Adds(api)
      BY DEF RestartWatchers
  <2> QED BY <2>1, <2>2, AddsShowAll, AbsentIsNoObject, WatcherAssumption, Zenon
<1>4. ShowsAll(secretEvents', Secrets, Secret, secretApi)
  <2>1. secretApi \in [Secrets -> Secret \cup {Absent}]
      BY <1>1 DEF WatchersTypeOK
  <2>2. secretEvents' \in Adds(secretApi)
      BY DEF RestartWatchers
  <2> QED BY <2>1, <2>2, AddsShowAll, AbsentIsNoObject, WatcherAssumption, Zenon
<1>5. WatchersTyped'
  <2>1. Cardinality(Identities) \in Nat
      BY WatcherAssumption, FS_CardinalityType
  <2>2. WatchersTypeOK'
      BY <1>1, <1>2 DEF WatchersTypeOK
  <2>3. /\ events' \in Seq(IdentityEvent) /\ secretEvents' \in Seq(SecretEvent)
        /\ \A k \in 1..Len(secretEvents') : ~secretEvents'[k].tombstone
      BY <1>3, <1>4 DEF ShowsAll, IdentityEvent, SecretEvent
  <2>4. /\ identityCount' \in [Namespaces -> 0..Cardinality(Identities)]
        /\ listed' \in 0..Cardinality(Identities)
      BY <1>2, <2>1
  <2> QED BY <1>2, <2>2, <2>3, <2>4 DEF WatchersTyped
<1>6. UpToDate(events', store') /\ UpToDate(secretEvents', secretStore')
    BY <1>2, <1>3, <1>4, ShownIsUpToDate
<1>7. IdentitiesFollow'
  <2>1. \A i \in Identities : ~Waiting(events', i) => ~Here(api[i])
      BY <1>3 DEF ShowsAll, Waiting
  <2>2. \A i \in Identities : ~Busy(i)'
      BY <1>2 DEF Busy
  <2>3. \A i \in Identities : identities'[i] = None
      BY <1>2
  <2>4. \A i \in Identities : ~Waiting(events', i) => Shown(store[i])' = None
      BY <1>2, <2>1 DEF Shown
  <2> QED BY <1>6, <2>2, <2>3, <2>4 DEF IdentitiesFollow
<1>8. CountsFollow'
  <2>1. SUFFICES ASSUME NEW ns \in Namespaces,
                        \A k \in 1..Len(events') : events'[k].obj.ns # ns
                 PROVE  identityCount'[ns] = Cardinality(InNamespace(ns)')
      BY <1>2 DEF CountsFollow, CountKnown
  <2>2. \A i \in Identities : ~(Here(api[i]) /\ api[i].ns = ns)
      BY <1>3, <2>1 DEF ShowsAll
  <2>3. InNamespace(ns)' = {}
      BY <1>2, <2>2 DEF InNamespace
  <2> QED BY <1>2, <2>3, FS_EmptySet
<1>9. SecretsFollow'
  <2>1. \A s \in Secrets : ~Waiting(secretEvents', s) => ~Here(secretApi[s])
      BY <1>4 DEF ShowsAll, Waiting
  <2> QED BY <1>2, <1>6, <2>1 DEF SecretsFollow, NotAfter
<1> QED BY <1>5, <1>7, <1>8, <1>9 DEF WInv

\* The first notification, for the identityWatcher's handler.
LEMMA FirstIdentityEvent ==
    ASSUME WInv, events # <<>>
    PROVE  LET e == Head(events) IN
           /\ e \in IdentityEvent /\ Tail(events) \in Seq(IdentityEvent)
           /\ UpToDate(Tail(events), store)
           /\ \A n : Waiting(events, n) <=> n = e.name \/ Waiting(Tail(events), n)
           /\ ~Waiting(Tail(events), e.name) => Reflects(e, store[e.name])
           /\ \A k \in 1..Len(events) :
                 events[k] = e \/ \E j \in 1..Len(Tail(events)) : Tail(events)[j] = events[k]
<1>1. events \in Seq(IdentityEvent) /\ UpToDate(events, store)
    BY DEF WInv, WatchersTyped, IdentitiesFollow
<1>2. \A k \in 1..Len(events) :
         events[k] = Head(events)
           \/ \E j \in 1..Len(Tail(events)) : Tail(events)[j] = events[k]
    BY <1>1, TailKeeps
<1> QED BY <1>1, <1>2, TakeFirst

\* An identity without a readable namespace is passed over.
LEMMA UpdateReturnsGood ==
    ASSUME WInv, UpdateReturns
    PROVE  WInv'
<1> DEFINE e == Head(events)
<1>1. WatchersTyped /\ WatchersTypeOK
    BY DEF WInv, WatchersTyped
<1>2. /\ UNCHANGED <<api, secretApi, store, secretStore, updating, listed>>
      /\ UNCHANGED <<identityCount, identities, uncounted, expiration, secretEvents>>
      /\ events # <<>> /\ updating = NoEvent /\ events' = Tail(events)
      /\ e.obj.labels = "badNamespace"
      /\ unheard' = IF identities[e.name] = None THEN unheard ELSE unheard \cup {e.name}
    BY DEF UpdateReturns, storeVars, secretVars
<1>3. /\ e \in IdentityEvent /\ events' \in Seq(IdentityEvent)
      /\ UpToDate(events', store)
      /\ \A n : Waiting(events, n) <=> n = e.name \/ Waiting(events', n)
      /\ ~Waiting(events', e.name) => Reflects(e, store[e.name])
      /\ \A k \in 1..Len(events) :
            events[k] = e \/ \E j \in 1..Len(events') : events'[j] = events[k]
    BY <1>2, FirstIdentityEvent
<1> HIDE DEF e
<1>4. e.name \in Identities /\ e.obj \in Identity /\ e.name \notin Secrets
    BY <1>3, EventFields, WatcherAssumption
<1>5. WatchersTyped'
  <2>1. unheard' \subseteq Identities \cup Secrets
      BY <1>1, <1>2, <1>4 DEF WatchersTypeOK
  <2>2. WatchersTypeOK'
      BY <1>1, <1>2, <2>1 DEF WatchersTypeOK
  <2> QED BY <1>1, <1>2, <1>3, <2>2 DEF WatchersTyped
<1>6. IdentitiesFollow'
  <2>1. \A i \in Identities : ~Busy(i) /\ ~Busy(i)'
      BY <1>2 DEF Busy
  <2>2. ASSUME NEW i \in Identities, i \notin unheard', ~Waiting(events', i)
        PROVE  identities[i] = Shown(store[i])
    <3>1. CASE i = e.name
      <4>1. identities[i] = None
          BY <1>2, <2>2, <3>1
      <4>2. Reflects(e, store[i])
          BY <1>3, <2>2, <3>1
      <4>3. Shown(store[i]) = None
          BY <1>2, <4>2 DEF Reflects, Shown, Here
      <4> QED BY <4>1, <4>3
    <3>2. CASE i # e.name
      <4>1. ~Waiting(events, i) /\ i \notin unheard
          BY <1>2, <1>3, <2>2, <3>2
      <4> QED BY <2>1, <4>1 DEF WInv, IdentitiesFollow
    <3> QED BY <3>1, <3>2
  <2> QED BY <1>2, <1>3, <2>1, <2>2 DEF IdentitiesFollow
<1>7. CountsFollow'
  <2>1. SUFFICES ASSUME NEW ns \in Namespaces, ns \notin uncounted,
                        \A k \in 1..Len(events') : events'[k].obj.ns # ns
                 PROVE  CountKnown(ns)'
      BY <1>2 DEF CountsFollow, CountKnown
  <2>2. e.obj.ns # ns
      BY <1>2, <1>4, NamespaceOf, WatcherAssumption
  <2>3. \A k \in 1..Len(events) : events[k].obj.ns # ns
      BY <1>3, <2>1, <2>2
  <2>4. CountKnown(ns)
      BY <2>1 DEF WInv, CountsFollow
  <2> QED BY <1>2, <2>3, <2>4 DEF CountKnown, InNamespace
<1>8. SecretsFollow'
  <2>1. \A s \in Secrets : s \in unheard' <=> s \in unheard
      BY <1>2, <1>4
  <2> QED BY <1>2, <2>1 DEF WInv, SecretsFollow, UpToDate, Waiting
<1> QED BY <1>5, <1>6, <1>7, <1>8 DEF WInv

\* The list is of the store as it is; a failing one leaves its namespace out.
LEMMA UpdateListsGood ==
    ASSUME WInv, UpdateLists
    PROVE  WInv'
<1> DEFINE e == Head(events)
<1>1. WatchersTyped /\ WatchersTypeOK
    BY DEF WInv, WatchersTyped
<1>2. /\ UNCHANGED <<api, secretApi, store, secretStore>>
      /\ UNCHANGED <<identityCount, identities, expiration, secretEvents, unheard>>
      /\ events # <<>> /\ updating = NoEvent /\ events' = Tail(events)
      /\ e.obj.labels # "badNamespace" /\ updating' = e
      /\ \/ listed' = Cardinality(InNamespace(e.obj.ns)) /\ uncounted' = uncounted \ {e.obj.ns}
         \/ listed' = 0 /\ uncounted' = uncounted \cup {e.obj.ns}
    BY DEF UpdateLists, storeVars, secretVars, Count
<1>3. /\ e \in IdentityEvent /\ events' \in Seq(IdentityEvent)
      /\ UpToDate(events', store)
      /\ \A n : Waiting(events, n) <=> n = e.name \/ Waiting(events', n)
      /\ ~Waiting(events', e.name) => Reflects(e, store[e.name])
      /\ \A k \in 1..Len(events) :
            events[k] = e \/ \E j \in 1..Len(events') : events'[j] = events[k]
    BY <1>2, FirstIdentityEvent
<1> HIDE DEF e
<1>4. e.name \in Identities /\ e.obj.ns \in Namespaces /\ e # NoEvent
    BY <1>2, <1>3, EventFields, NamespaceOf
<1>5. WatchersTyped'
  <2>1. listed' \in 0..Cardinality(Identities)
    <3>1. /\ Cardinality(InNamespace(e.obj.ns)) \in 0..Cardinality(Identities)
          /\ Cardinality(Identities) \in Nat
        BY CountBound, WatcherAssumption, FS_CardinalityType
    <3> QED BY <1>2, <3>1
  <2>2. listed' \in Nat
      BY <2>1
  <2>3. uncounted' \subseteq Namespaces
      BY <1>1, <1>2, <1>4 DEF WatchersTypeOK
  <2>4. WatchersTypeOK'
      BY <1>1, <1>2, <2>2, <2>3 DEF WatchersTypeOK
  <2> QED BY <1>1, <1>2, <1>3, <2>1, <2>4 DEF WatchersTyped
<1>6. IdentitiesFollow'
  <2>1. \A i \in Identities : ~Busy(i) /\ (Busy(i)' <=> i = e.name)
      BY <1>2, <1>4 DEF Busy
  <2>2. ASSUME NEW i \in Identities, i \notin unheard', ~Waiting(events', i), i # e.name
        PROVE  identities[i] = Shown(store[i])
    <3>1. ~Waiting(events, i) /\ i \notin unheard
        BY <1>2, <1>3, <2>2
    <3> QED BY <2>1, <3>1 DEF WInv, IdentitiesFollow
  <2> QED BY <1>2, <1>3, <2>1, <2>2 DEF IdentitiesFollow
<1>7. CountsFollow'
  <2>1. SUFFICES ASSUME NEW ns \in Namespaces, ns \notin uncounted',
                        \A k \in 1..Len(events') : events'[k].obj.ns # ns
                 PROVE  CountKnown(ns)'
      BY DEF CountsFollow, CountKnown
  <2>2. InNamespace(ns)' = InNamespace(ns)
      BY <1>2 DEF InNamespace
  <2>3. CASE e.obj.ns = ns
    <3>1. listed' = Cardinality(InNamespace(ns))
        BY <1>2, <2>1, <2>3
    <3> QED BY <1>2, <1>4, <2>2, <2>3, <3>1 DEF CountKnown
  <2>4. CASE e.obj.ns # ns
    <3>1. ns \notin uncounted
        BY <1>2, <2>1, <2>4
    <3>2. \A k \in 1..Len(events) : events[k].obj.ns # ns
        BY <1>3, <2>1, <2>4
    <3>3. CountKnown(ns)
        BY <3>1 DEF WInv, CountsFollow
    <3>4. identityCount[ns] = Cardinality(InNamespace(ns))
        BY <1>2, <3>2, <3>3 DEF CountKnown
    <3> QED BY <1>2, <2>2, <2>4, <3>4 DEF CountKnown
  <2> QED BY <2>3, <2>4
<1>8. SecretsFollow'
    BY <1>2 DEF WInv, SecretsFollow, UpToDate, Waiting
<1> QED BY <1>5, <1>6, <1>7, <1>8 DEF WInv

\* What was listed is stored: the store may have changed since, and then its
\* notification waits.
LEMMA UpdateStoresGood ==
    ASSUME WInv, UpdateStores
    PROVE  WInv'
<1> DEFINE id == updating.name
           ns == updating.obj.ns
           known == ~updating.deleted /\ updating.obj.labels = "ok"
<1>1. WatchersTyped /\ WatchersTypeOK
    BY DEF WInv, WatchersTyped
<1>2. /\ UNCHANGED <<api, secretApi, store, secretStore>>
      /\ UNCHANGED <<events, uncounted, expiration, secretEvents>>
      /\ updating # NoEvent /\ updating' = NoEvent /\ listed' = 0
      /\ identityCount' = [identityCount EXCEPT ![ns] = listed]
      /\ identities' = [identities EXCEPT ![id] = IF known THEN ns ELSE None]
      /\ unheard' = unheard \ {id}
    BY DEF UpdateStores, storeVars, secretVars
<1>3. /\ updating \in IdentityEvent /\ id \in Identities /\ id \notin Secrets
      /\ updating.obj \in Identity /\ Here(updating.obj) /\ ns \in Namespaces
    BY <1>1, <1>2, EventFields, NamespaceOf, WatcherAssumption DEF WatchersTyped
<1>4. WatchersTyped'
  <2>1. Cardinality(Identities) \in Nat
      BY WatcherAssumption, FS_CardinalityType
  <2>2. identityCount' \in [Namespaces -> 0..Cardinality(Identities)]
      BY <1>1, <1>2 DEF WatchersTyped
  <2>3. identityCount' \in [Namespaces -> Nat]
      BY <1>1, <1>2 DEF WatchersTypeOK
  <2>4. identities' \in [Identities -> Namespaces \cup {None}]
      BY <1>1, <1>2, <1>3 DEF WatchersTypeOK
  <2>5. WatchersTypeOK'
      BY <1>1, <1>2, <2>3, <2>4 DEF WatchersTypeOK
  <2> QED BY <1>1, <1>2, <2>1, <2>2, <2>5 DEF WatchersTyped
<1>5. IdentitiesFollow'
  <2>1. \A i \in Identities : (Busy(i) <=> i = id) /\ ~Busy(i)'
      BY <1>2 DEF Busy
  <2>2. ASSUME NEW i \in Identities, i \notin unheard', ~Waiting(events, i)
        PROVE  identities'[i] = Shown(store[i])
    <3>1. CASE i = id
      <4>1. Reflects(updating, store[i])
          BY <2>1, <2>2, <3>1 DEF WInv, IdentitiesFollow
      <4>2. identities'[i] = IF known THEN ns ELSE None
          BY <1>1, <1>2, <3>1 DEF WatchersTypeOK
      <4> QED BY <1>3, <4>1, <4>2 DEF Reflects, Shown, Here
    <3>2. CASE i # id
      <4>1. identities'[i] = identities[i] /\ i \notin unheard
          BY <1>1, <1>2, <2>2, <3>2 DEF WatchersTypeOK
      <4> QED BY <2>1, <2>2, <3>2, <4>1 DEF WInv, IdentitiesFollow
    <3> QED BY <3>1, <3>2
  <2>3. UpToDate(events, store)
      BY DEF WInv, IdentitiesFollow
  <2> QED BY <1>2, <2>1, <2>2, <2>3 DEF IdentitiesFollow
<1>6. CountsFollow'
  <2>1. SUFFICES ASSUME NEW m \in Namespaces, m \notin uncounted,
                        \A k \in 1..Len(events) : events[k].obj.ns # m
                 PROVE  identityCount'[m] = Cardinality(InNamespace(m)')
      BY <1>2 DEF CountsFollow, CountKnown
  <2>2. InNamespace(m)' = InNamespace(m)
      BY <1>2 DEF InNamespace
  <2>3. CountKnown(m)
      BY <2>1 DEF WInv, CountsFollow
  <2>4. IF ns = m THEN listed = Cardinality(InNamespace(m))
                  ELSE identityCount[m] = Cardinality(InNamespace(m))
      BY <1>2, <2>1, <2>3 DEF CountKnown
  <2> QED BY <1>1, <1>2, <2>2, <2>4 DEF WatchersTypeOK
<1>7. SecretsFollow'
  <2>1. \A s \in Secrets : s \in unheard' <=> s \in unheard
      BY <1>2, <1>3
  <2> QED BY <1>2, <2>1 DEF WInv, SecretsFollow, UpToDate, Waiting
<1> QED BY <1>4, <1>5, <1>6, <1>7 DEF WInv

\* What a Secret's notification says of its expiration.
LEMMA ExpirationOf ==
    \A obj \in Secret : /\ obj.kind \in {"cert", "unreadable", "ignored"}
                        /\ IF obj.kind = "cert" THEN obj.notAfter \in Expirations
                                                ELSE obj.notAfter = 0
BY DEF Secret

\* A Secret's last notification leaves its expiration, or was passed over.
LEMMA HandleSecretGood ==
    ASSUME WInv, HandleSecret
    PROVE  WInv'
<1> DEFINE e == Head(secretEvents)
           value == IF e.deleted THEN 0 ELSE e.obj.notAfter
<1>1. WatchersTyped /\ WatchersTypeOK
    BY DEF WInv, WatchersTyped
<1>2. /\ UNCHANGED <<api, secretApi, store, secretStore>>
      /\ UNCHANGED <<events, updating, listed, identityCount, identities, uncounted>>
      /\ secretEvents # <<>> /\ secretEvents' = Tail(secretEvents)
      /\ expiration' = IF Handled(e) /\ (e.deleted \/ e.obj.kind = "cert")
                         THEN [expiration EXCEPT ![e.name] = value] ELSE expiration
      /\ unheard' = IF ~PassedOver(e) THEN unheard \ {e.name}
                    ELSE IF expiration[e.name] # 0 THEN unheard \cup {e.name}
                    ELSE unheard
    BY DEF HandleSecret, storeVars, identityVars
<1>3. /\ e \in SecretEvent /\ secretEvents' \in Seq(SecretEvent)
      /\ UpToDate(secretEvents', secretStore)
      /\ \A n : Waiting(secretEvents, n) <=> n = e.name \/ Waiting(secretEvents', n)
      /\ ~Waiting(secretEvents', e.name) => Reflects(e, secretStore[e.name])
  <2>1. secretEvents \in Seq(SecretEvent) /\ UpToDate(secretEvents, secretStore)
      BY <1>1 DEF WInv, WatchersTyped, SecretsFollow
  <2> QED BY <1>2, <2>1, TakeFirst
<1>4. /\ e.tombstone => e.deleted
      /\ \A k \in 1..Len(secretEvents') :
            secretEvents'[k].tombstone => secretEvents'[k].deleted
  <2>1. /\ secretEvents \in Seq(SecretEvent)
        /\ \A k \in 1..Len(secretEvents) :
              secretEvents[k].tombstone => secretEvents[k].deleted
      BY <1>1 DEF WatchersTyped
  <2>2. 1 \in 1..Len(secretEvents) /\ e = secretEvents[1]
      BY <1>2, <2>1
  <2>3. \A j \in 1..Len(secretEvents') :
           \E k \in 1..Len(secretEvents) : secretEvents[k] = secretEvents'[j]
      BY <1>2, <2>1, TailKeeps
  <2> HIDE DEF e
  <2> QED BY <2>1, <2>2, <2>3
<1> HIDE DEF e
<1>5. /\ e.name \in Secrets /\ e.name \notin Identities
      /\ e.obj \in Secret /\ Here(e.obj)
    BY <1>3, EventFields, WatcherAssumption
<1>6. /\ e.obj.kind \in {"cert", "unreadable", "ignored"}
      /\ e.obj.kind = "cert" => e.obj.notAfter \in Expirations
      /\ e.obj.kind # "cert" => e.obj.notAfter = 0
    BY <1>5, ExpirationOf
<1>7. WatchersTyped'
  <2>1. value \in Expirations \cup {0}
      BY <1>6
  <2>2. expiration' \in [Secrets -> Expirations \cup {0}]
      BY <1>1, <1>2, <2>1 DEF WatchersTypeOK
  <2>3. unheard' \subseteq Identities \cup Secrets
      BY <1>1, <1>2, <1>5 DEF WatchersTypeOK
  <2>4. WatchersTypeOK'
      BY <1>1, <1>2, <2>2, <2>3 DEF WatchersTypeOK
  <2> QED BY <1>1, <1>2, <1>3, <1>4, <2>4 DEF WatchersTyped
<1>8. IdentitiesFollow' /\ CountsFollow'
  <2>1. \A i \in Identities : i \in unheard' <=> i \in unheard
      BY <1>2, <1>5
  <2>2. IdentitiesFollow'
      BY <1>2, <2>1 DEF WInv, IdentitiesFollow, UpToDate, Waiting, Busy
  <2>3. CountsFollow'
      BY <1>2 DEF WInv, CountsFollow, CountKnown, InNamespace
  <2> QED BY <2>2, <2>3
<1>9. SecretsFollow'
  <2>1. ASSUME NEW s \in Secrets, s \notin unheard', ~Waiting(secretEvents', s)
        PROVE  expiration'[s] = NotAfter(secretStore[s])
    <3>1. CASE s # e.name
      <4>1. ~Waiting(secretEvents, s) /\ s \notin unheard
          BY <1>2, <1>3, <2>1, <3>1
      <4>2. expiration'[s] = expiration[s]
          BY <1>1, <1>2, <3>1 DEF WatchersTypeOK
      <4> QED BY <4>1, <4>2 DEF WInv, SecretsFollow
    <3>2. CASE s = e.name
      <4>1. Reflects(e, secretStore[s])
          BY <1>3, <2>1, <3>2
      <4>2. CASE ~PassedOver(e)
        <5>1. Handled(e) /\ (e.deleted \/ e.obj.kind = "cert")
            BY <1>6, <4>2 DEF PassedOver, Handled
        <5>2. expiration'[s] = value
            BY <1>1, <1>2, <3>2, <5>1 DEF WatchersTypeOK
        <5> QED BY <1>5, <4>1, <5>2 DEF Reflects, NotAfter, Here
      <4>3. CASE PassedOver(e)
        <5>1. expiration[s] = 0
            BY <1>2, <2>1, <3>2, <4>3
        <5>2. ~(Handled(e) /\ (e.deleted \/ e.obj.kind = "cert"))
            BY <4>3 DEF PassedOver, Handled
        <5>3. NotAfter(secretStore[s]) = 0
            BY <1>4, <1>6, <4>1, <4>3 DEF PassedOver, Reflects, NotAfter, Here
        <5> QED BY <1>2, <5>1, <5>2, <5>3
      <4> QED BY <4>2, <4>3
    <3> QED BY <3>1, <3>2
  <2> QED BY <1>2, <1>3, <2>1 DEF SecretsFollow
<1> QED BY <1>7, <1>8, <1>9 DEF WInv
-----------------------------------------------------------------------------
(***************************************************************************)
(* The composition.                                                        *)
(***************************************************************************)
CountsTyped == counts \in [Namespaces -> 0..Cardinality(Identities)] \cup {NotRead}

\* Every step of the process, the cluster and the informers keeps what the
\* watchers know.
LEMMA WatchersStep == WInv /\ [Next]_vars => WInv'
<1> SUFFICES ASSUME WInv, [Next]_vars PROVE WInv'
    OBVIOUS
<1>1. ASSUME UNCHANGED <<storeVars, identityVars, secretVars, unheard>> PROVE WInv'
  <2>1. UNCHANGED wVars /\ UNCHANGED <<api, secretApi>>
      BY <1>1 DEF storeVars, identityVars, secretVars, wVars
  <2>2. /\ api \in [Identities -> Identity \cup {Absent}]
        /\ secretApi \in [Secrets -> Secret \cup {Absent}]
      BY DEF WInv, WatchersTyped, WatchersTypeOK
  <2> QED BY <2>1, <2>2, WatchersFrame
<1>2. CASE Collect
    BY <1>1, <1>2 DEF Collect, CollectCounts, CollectIdentities, CollectCerts,
                      CollectFences, watcherVars
<1>3. CASE Loop
    BY <1>1, <1>3 DEF Loop, watcherVars
<1>4. CASE Lifecycle
    BY <1>1, <1>4, RestartGood DEF Lifecycle, watcherVars
<1>5. CASE Handle
    BY <1>5, UpdateReturnsGood, UpdateListsGood, UpdateStoresGood, HandleSecretGood
       DEF Handle, Handlers
<1>6. CASE Observe
    BY <1>6, SyncIdentityGood, SyncSecretGood DEF Observe, Informers
<1>7. CASE Environment
    BY <1>7, ChangeGood, ResyncGood DEF Environment
<1>8. CASE UNCHANGED vars
    BY <1>1, <1>8 DEF vars, watcherVars
<1> QED BY <1>2, <1>3, <1>4, <1>5, <1>6, <1>7, <1>8 DEF Next

\* What ciliumid read first stays what it was until it is reported.
LEMMA CountsStep == WInv /\ CountsTyped /\ [Next]_vars => CountsTyped'
<1> SUFFICES ASSUME WInv, CountsTyped, [Next]_vars PROVE CountsTyped'
    OBVIOUS
<1>1. identityCount \in [Namespaces -> 0..Cardinality(Identities)]
    BY DEF WInv, WatchersTyped
<1>2. counts' = counts \/ counts' = identityCount \/ counts' = NotRead
    BY DEF Next, vars, Collect, CollectCounts, CollectIdentities, CollectCerts, CollectFences,
           Loop, Lifecycle, Handle, Observe, Environment
<1> QED BY <1>1, <1>2 DEF CountsTyped

\* The collectors report metrics that the registry knows.
LEMMA ReportsAreSeries ==
    ASSUME WInv, CountsTyped
    PROVE  /\ counts # NotRead => CountSeries(counts) \in SUBSET Series
           /\ InfoSeries(identities) \in SUBSET Series
           /\ CertSeries(expiration) \in SUBSET Series
           /\ FenceSeries(fence) \in SUBSET Series
<1> USE DEF Series, Metric
<1>1. WatchersTypeOK
    BY DEF WInv, WatchersTyped
<1>2. ASSUME counts # NotRead PROVE CountSeries(counts) \in SUBSET Series
  <2>1. counts \in [Namespaces -> 0..Cardinality(Identities)]
      BY <1>2 DEF CountsTyped
  <2>2. \A ns \in Namespaces : /\ <<"identity_count", <<ns>>>> \in Names
                               /\ counts[ns] \in Values
      BY <2>1, MetricAssumption
  <2> QED BY <2>1, <2>2 DEF CountSeries
<1>3. InfoSeries(identities) \in SUBSET Series
  <2>1. identities \in [Identities -> Namespaces \cup {None}]
      BY <1>1 DEF WatchersTypeOK
  <2>2. \A i \in Identities : identities[i] # None =>
           <<"identity_info", <<i, identities[i]>>>> \in Names
      BY <2>1, MetricAssumption
  <2> QED BY <2>1, <2>2, MetricAssumption DEF InfoSeries
<1>4. CertSeries(expiration) \in SUBSET Series
  <2>1. expiration \in [Secrets -> Expirations \cup {0}]
      BY <1>1 DEF WatchersTypeOK
  <2>2. \A s \in Secrets : /\ <<"expiration", <<s>>>> \in Names
                           /\ expiration[s] # 0 => expiration[s] \in Values
      BY <2>1, MetricAssumption
  <2> QED BY <2>1, <2>2 DEF CertSeries
<1>5. FenceSeries(fence) \in SUBSET Series
    BY MetricAssumption DEF FenceSeries
<1> QED BY <1>2, <1>3, <1>4, <1>5

\* The labels are part of a metric's name.
LEMMA SameLabels == ASSUME NEW n, NEW x, NEW y, <<n, x>> = <<n, y>> PROVE x = y
<1>1. <<n, x>>[2] = <<n, y>>[2]
    OBVIOUS
<1> QED BY <1>1

LEMMA SameLabel == ASSUME NEW x, NEW y, <<x>> = <<y>> PROVE x = y
<1>1. <<x>>[1] = <<y>>[1]
    OBVIOUS
<1> QED BY <1>1

\* And they report each metric once.
LEMMA ReportsAreReports ==
    ASSUME WInv, CountsTyped
    PROVE  /\ counts # NotRead => CountSeries(counts) \cup InfoSeries(identities) \in Reports
           /\ CertSeries(expiration) \in Reports
           /\ FenceSeries(fence) \in Reports
<1>1. \A s \in CountSeries(counts) : \E ns : /\ s.name = <<"identity_count", <<ns>>>>
                                            /\ s.value = counts[ns]
                                            /\ s = Metric("identity_count", <<ns>>, counts[ns])
    BY DEF CountSeries, Metric
<1>2. \A s \in InfoSeries(identities) :
         \E l : s.name = <<"identity_info", l>> /\ s = Metric("identity_info", l, 1)
    BY DEF InfoSeries, Metric
<1>3. \A s \in CertSeries(expiration) : \E t : /\ s.name = <<"expiration", <<t>>>>
                                             /\ s = Metric("expiration", <<t>>, expiration[t])
    BY DEF CertSeries, Metric
<1>4. \A s, t \in CountSeries(counts) \cup InfoSeries(identities) : s.name = t.name => s = t
  <2> SUFFICES ASSUME NEW s \in CountSeries(counts) \cup InfoSeries(identities),
                      NEW t \in CountSeries(counts) \cup InfoSeries(identities),
                      s.name = t.name
               PROVE  s = t
      OBVIOUS
  <2>1. CASE s \in CountSeries(counts) /\ t \in CountSeries(counts)
    <3>1. PICK n : s.name = <<"identity_count", <<n>>>> /\ s = Metric("identity_count", <<n>>, counts[n])
        BY <1>1, <2>1
    <3>2. PICK k : t.name = <<"identity_count", <<k>>>> /\ t = Metric("identity_count", <<k>>, counts[k])
        BY <1>1, <2>1
    <3>3. n = k
        BY <3>1, <3>2, SameLabels, SameLabel
    <3> QED BY <3>1, <3>2, <3>3
  <2>2. CASE s \in InfoSeries(identities) /\ t \in InfoSeries(identities)
    <3>1. PICK l : s.name = <<"identity_info", l>> /\ s = Metric("identity_info", l, 1)
        BY <1>2, <2>2
    <3>2. PICK k : t.name = <<"identity_info", k>> /\ t = Metric("identity_info", k, 1)
        BY <1>2, <2>2
    <3>3. l = k
        BY <3>1, <3>2, SameLabels
    <3> QED BY <3>1, <3>2, <3>3
  <2>3. \A x \in CountSeries(counts), y \in InfoSeries(identities) : x.name # y.name
    <3>1. TAKE x \in CountSeries(counts), y \in InfoSeries(identities)
    <3>2. PICK n : x.name = <<"identity_count", <<n>>>>
        BY <1>1
    <3>3. PICK l : y.name = <<"identity_info", l>>
        BY <1>2
    <3> QED BY <3>2, <3>3
  <2> QED BY <2>1, <2>2, <2>3
<1>5. \A s, t \in CertSeries(expiration) : s.name = t.name => s = t
  <2> SUFFICES ASSUME NEW s \in CertSeries(expiration), NEW t \in CertSeries(expiration),
                      s.name = t.name
               PROVE  s = t
      OBVIOUS
  <2>1. PICK n : s.name = <<"expiration", <<n>>>> /\ s = Metric("expiration", <<n>>, expiration[n])
      BY <1>3
  <2>2. PICK k : t.name = <<"expiration", <<k>>>> /\ t = Metric("expiration", <<k>>, expiration[k])
      BY <1>3
  <2>3. n = k
      BY <2>1, <2>2, SameLabels, SameLabel
  <2> QED BY <2>1, <2>2, <2>3
<1>6. \A s, t \in FenceSeries(fence) : s = t
    BY DEF FenceSeries
<1> QED BY <1>4, <1>5, <1>6, ReportsAreSeries DEF Reports

\* Every step of the composition is one of the loop, or leaves it alone.
LEMMA LoopStep ==
    WInv /\ CountsTyped /\ [Next]_vars => [ExporterNext]_exporterVars
<1> SUFFICES ASSUME WInv, CountsTyped, [Next]_vars
             PROVE  ExporterNext \/ UNCHANGED exporterVars
    OBVIOUS
<1>1. {"ciliumid", "cert", "networkfence"} \subseteq Collectors
    BY MetricAssumption
<1>2. ASSUME NEW c \in Collectors, NEW r \in Reports, CollectReturns(c, r)
      PROVE  ExporterNext
    BY <1>2 DEF ExporterNext, RunStep
<1>3. CASE Collect
  <2>1. CASE CollectCounts
      BY <2>1 DEF CollectCounts
  <2>2. CASE CollectIdentities
    <3>1. CountSeries(counts) \cup InfoSeries(identities) \in Reports
        BY <2>2, ReportsAreReports DEF CollectIdentities
    <3> QED BY <1>1, <1>2, <2>2, <3>1 DEF CollectIdentities
  <2>3. CASE CollectCerts
      BY <1>1, <1>2, <2>3, ReportsAreReports DEF CollectCerts
  <2>4. CASE CollectFences
      BY <1>1, <1>2, <2>4, ReportsAreReports DEF CollectFences, ExporterNext, RunStep
  <2> QED BY <1>3, <2>1, <2>2, <2>3, <2>4 DEF Collect
<1>4. CASE Loop
    BY <1>4 DEF Loop, ExporterNext, RunStep
<1>5. CASE Lifecycle
    BY <1>5 DEF Lifecycle, ExporterNext
<1>6. CASE Handle \/ Observe \/ Environment
    BY <1>6 DEF Handle, Observe, Environment
<1>7. CASE UNCHANGED vars
    BY <1>7 DEF vars
<1> QED BY <1>3, <1>4, <1>5, <1>6, <1>7 DEF Next

LEMMA CompositionInvariant == Spec => []WInv /\ []CountsTyped
<1>1. Init => WInv /\ CountsTyped
    BY WatchersInitGood DEF Init, CountsTyped
<1> QED BY <1>1, WatchersStep, CountsStep, PTL DEF Spec

\* neco-exporter's collectors, whatever the cluster does, drive the loop as
\* Exporter.Run expects: what is proved of the loop holds of the program.
THEOREM CollectorsDriveTheLoop == Spec => ExporterSpec
<1>1. Init => ExporterInit
    BY DEF Init
<1> QED BY <1>1, CompositionInvariant, LoopStep, PTL DEF Spec, ExporterSpec

\* Whatever the cluster does, neither the loop nor the handlers leave their types.
THEOREM ExporterKeepsTypes == Spec => []TypesOK
<1>1. Init => fence \in Fence
    BY DEF Init, Fence
<1>2. fence \in Fence /\ [Next]_vars => (fence \in Fence)'
    BY DEF Next, vars, Collect, CollectCounts, CollectIdentities, CollectCerts, CollectFences,
           Loop, Lifecycle, Handle, Observe, Environment
<1>3. IInv /\ WInv /\ CountsTyped /\ fence \in Fence => TypesOK
  <2> SUFFICES ASSUME IInv, WInv, CountsTyped, fence \in Fence PROVE TypesOK
      OBVIOUS
  <2>1. counts \in [Namespaces -> Nat] \cup {NotRead}
      BY DEF CountsTyped
  <2> QED BY <2>1 DEF IInv, WInv, WatchersTyped, TypesOK
<1> QED BY <1>1, <1>2, <1>3, CompositionInvariant, CollectorsDriveTheLoop, Inductive, PTL
        DEF Spec

\* Once the handler is idle its counts are those of the store, but for the
\* namespaces it could not know of (collector.go of ciliumid).
THEOREM CountsAreRight == Spec => []CountsSettle
<1>1. WInv => CountsSettle
  <2> SUFFICES ASSUME WInv, events = <<>>, updating = NoEvent
               PROVE  /\ \A ns \in Namespaces \ uncounted :
                            identityCount[ns] = Cardinality(InNamespace(ns))
                      /\ \A i \in Identities \ unheard : identities[i] = Shown(store[i])
      BY DEF CountsSettle, Shown
  <2>1. \A ns \in Namespaces \ uncounted : CountKnown(ns)
      BY DEF WInv, CountsFollow
  <2>2. \A n : ~Waiting(events, n) /\ ~Busy(n)
      BY DEF Waiting, Busy
  <2> QED BY <2>1, <2>2 DEF WInv, IdentitiesFollow, CountKnown
<1> QED BY <1>1, CompositionInvariant, PTL

\* Once the handler is idle each Secret's expiration is its certificate's, but
\* for the events it passed over.
THEOREM ExpirationsAreRight == Spec => []ExpirationsSettle
<1>1. WInv => ExpirationsSettle
  <2> SUFFICES ASSUME WInv, secretEvents = <<>>
               PROVE  \A s \in Secrets \ unheard : expiration[s] = NotAfter(secretStore[s])
      BY DEF ExpirationsSettle, NotAfter
  <2>1. \A n : ~Waiting(secretEvents, n)
      BY DEF Waiting
  <2> QED BY <2>1 DEF WInv, SecretsFollow
<1> QED BY <1>1, CompositionInvariant, PTL

\* The loop's guarantees, for the program: whatever the cluster, the informers and
\* the handlers do while the goroutines of Exporter.Run set counter after counter.
THEOREM ProgramShowsReports ==
    Spec => []OnlyLeaderReports /\ []UnhealthyShowsNothing /\ ScrapesSeeReports
BY CollectorsDriveTheLoop, LeadershipIsRespected, FailuresLeaveNothing,
   ScrapesRefineMetricSet, PTL
=============================================================================
