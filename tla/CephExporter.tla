---------------------------- MODULE CephExporter ----------------------------
(***************************************************************************)
(* ceph-extra-exporter: one executer per rule runs a command every five    *)
(* minutes, filters and parses its output for each metric of the rule, and *)
(* swaps the map of values a scrape collects.  The swap and the scrape     *)
(* share a lock; the map of failure counters is written without it.        *)
(*                                                                         *)
(* External: the Ceph commands and jq, which fail when they do not work;   *)
(* Prometheus, which scrapes; the kubelet, which starts the container      *)
(* again.  A value is the number of the update that got it.                *)
(***************************************************************************)
EXTENDS Integers, FiniteSets

CONSTANTS
    Rules,
    Target,         \* the target of each rule: "", "rgw" or "rbd"
    Metrics,        \* the metrics of each rule
    Options,        \* the targets the flags --export-*-metrics leave on
    MaxFailures,    \* bound: failures of a rule that are told apart
    MaxFaults       \* bound: failures to listen

ASSUME CephAssumption ==
    /\ IsFiniteSet(Rules)
    /\ \A r \in Rules : Metrics[r] # {} /\ IsFiniteSet(Metrics[r])
    /\ MaxFailures \in Nat \ {0} /\ MaxFaults \in Nat

VARIABLES
    pc,             \* where each executer is
    todo, values,   \* update: metrics to come, and the map it makes
    shown,          \* metricValues
    failed,         \* failedCounter
    writing,        \* the counter an update is writing, a torn write of a map
    collect,        \* where the scrape of each rule is
    seen, left,     \* the values it sent, and the counters it has still to send
    sum,            \* the counters it sent, added up
    listening,      \* ListenAndServe has not returned
    works,          \* the command of each rule is sure to succeed
    round,          \* history: the running update's number
    finished,       \* history: the number of the update swapped last
    gaps,           \* history: updates swapped that lack a metric
    owed,           \* history: gaps when the scrape took its values
    faults

updateVars == <<pc, todo, values, shown, failed, writing>>
scrapeVars == <<collect, seen, left, sum, owed>>
historyVars == <<round, finished, gaps>>
vars == <<updateVars, scrapeVars, historyVars, listening, works, faults>>

Reasons == {"command", "jq", "parse"}
Nothing == "nothing"
Empty == [m \in {} |-> 0]
Zero == [reason \in Reasons |-> 0]
Total(f) == f["command"] + f["jq"] + f["parse"]
Count(n) == IF n < MaxFailures THEN n + 1 ELSE n
With(f, x, v) == [y \in DOMAIN f \cup {x} |-> IF y = x THEN v ELSE f[y]]

enabled(r) == Target[r] = "" \/ Target[r] \in Options

\* The process starts: an executer of each rule that is enabled.
Fresh ==
    [pc |-> [r \in Rules |-> IF enabled(r) THEN "new" ELSE "off"],
     maps |-> [r \in Rules |-> Empty],
     zeros |-> [r \in Rules |-> Zero]]

Init ==
    /\ pc = Fresh.pc
    /\ todo = [r \in Rules |-> {}]
    /\ values = Fresh.maps /\ shown = Fresh.maps
    /\ failed = Fresh.zeros
    /\ writing = [r \in Rules |-> Nothing]
    /\ collect = [r \in Rules |-> "idle"]
    /\ seen = Fresh.maps
    /\ left = [r \in Rules |-> {}] /\ sum = [r \in Rules |-> 0]
    /\ listening = TRUE
    /\ works = [r \in Rules |-> TRUE]
    /\ round = [r \in Rules |-> 0] /\ finished = [r \in Rules |-> 0]
    /\ gaps = [r \in Rules |-> 0] /\ owed = [r \in Rules |-> 0]
    /\ faults = MaxFaults

Restart ==
    /\ pc' = Fresh.pc
    /\ todo' = [r \in Rules |-> {}]
    /\ values' = Fresh.maps /\ shown' = Fresh.maps
    /\ failed' = Fresh.zeros
    /\ writing' = [r \in Rules |-> Nothing]
    /\ collect' = [r \in Rules |-> "idle"]
    /\ seen' = Fresh.maps
    /\ left' = [r \in Rules |-> {}] /\ sum' = [r \in Rules |-> 0]
    /\ listening' = TRUE
    /\ round' = [r \in Rules |-> 0] /\ finished' = [r \in Rules |-> 0]
    /\ gaps' = [r \in Rules |-> 0] /\ owed' = [r \in Rules |-> 0]
-----------------------------------------------------------------------------
(***************************************************************************)
(* update.                                                                 *)
(***************************************************************************)
\* Mutant of FreshValues: the map of the last update is filled again.
FreshValuesKept(r) == shown[r]

\* make(map[string][]metricValue)
FreshValues(r) == Empty

StartUpdate(r) ==
    /\ pc' = [pc EXCEPT ![r] = "command"]
    /\ values' = [values EXCEPT ![r] = FreshValues(r)]
    /\ round' = [round EXCEPT ![r] = (@ + 1) % 2]
    /\ UNCHANGED <<todo, shown, failed, writing, scrapeVars, finished, gaps, listening,
                   works, faults>>

\* The goroutine registers the collector and calls start.
Register(r) == pc[r] = "new" /\ StartUpdate(r)

\* Mutant of Tick: start returns when its first update is done.
TickOnce(r) == FALSE /\ StartUpdate(r)

\* The ticker: also after the context is cancelled, select may take it.
Tick(r) == pc[r] = "wait" /\ StartUpdate(r)

\* Mutant of Fails: a failure is logged and not counted.
FailsUncounted(r, reason) == writing' = writing

\* The write of failedCounter begins, without the lock.
Fails(r, reason) == writing' = [writing EXCEPT ![r] = reason]

Writes(r) ==
    /\ writing[r] # Nothing
    /\ failed' = IF Total(failed[r]) < MaxFailures
                 THEN [failed EXCEPT ![r][writing[r]] = @ + 1] ELSE failed
    /\ writing' = [writing EXCEPT ![r] = Nothing]
    /\ UNCHANGED <<pc, todo, values, shown, scrapeVars, historyVars, listening, works,
                   faults>>

\* executeCommand with the rule's command: it fails, or is killed after
\* commandTimeout or because the context is cancelled.
RunCommand(r) ==
    /\ pc[r] = "command"
    /\ \/ /\ listening
          /\ todo' = [todo EXCEPT ![r] = Metrics[r]]
          /\ pc' = [pc EXCEPT ![r] = "filter"]
          /\ UNCHANGED writing
       \/ /\ ~works[r] \/ ~listening
          /\ Fails(r, "command")
          /\ pc' = [pc EXCEPT ![r] = "lock"]
          /\ UNCHANGED todo
    /\ UNCHANGED <<values, shown, failed, scrapeVars, historyVars, listening, works,
                   faults>>

\* jq and json.Unmarshal for one metric; a failure leaves it out.
Filter(r, m) ==
    /\ pc[r] = "filter" /\ writing[r] = Nothing
    /\ m \in todo[r]
    /\ todo' = [todo EXCEPT ![r] = @ \ {m}]
    /\ pc' = [pc EXCEPT ![r] = IF todo'[r] = {} THEN "lock" ELSE "filter"]
    /\ \/ /\ listening
          /\ values' = [values EXCEPT ![r] = With(@, m, round[r])]
          /\ UNCHANGED writing
       \/ /\ ~works[r] \/ ~listening
          /\ \/ Fails(r, "jq")
             \/ Fails(r, "parse")
          /\ UNCHANGED values
    /\ UNCHANGED <<shown, failed, scrapeVars, historyVars, listening, works, faults>>

\* The deferred swap: Lock is called when the last counter is written and waits
\* for the scrapes that hold the lock.
Swap(r) ==
    /\ pc[r] = "lock" /\ writing[r] = Nothing
    /\ collect[r] # "counters"
    /\ shown' = [shown EXCEPT ![r] = values[r]]
    /\ finished' = [finished EXCEPT ![r] = round[r]]
    /\ gaps' = [gaps EXCEPT ![r] =
                  IF DOMAIN values[r] = Metrics[r] THEN @ ELSE Count(@)]
    /\ pc' = [pc EXCEPT ![r] = "wait"]
    /\ UNCHANGED <<todo, values, failed, writing, scrapeVars, round, listening, works,
                   faults>>

\* ctx.Done
Finish(r) ==
    /\ pc[r] = "wait" /\ ~listening
    /\ pc' = [pc EXCEPT ![r] = "done"]
    /\ UNCHANGED <<todo, values, shown, failed, writing, scrapeVars, historyVars,
                   listening, works, faults>>
-----------------------------------------------------------------------------
(***************************************************************************)
(* Collect and the server.                                                 *)
(***************************************************************************)
\* RLock, which a waiting Lock keeps out, and the range over metricValues.
CollectValues(r) ==
    /\ collect[r] = "idle" /\ listening
    /\ pc[r] \notin {"off", "new"}
    /\ pc[r] = "lock" => writing[r] # Nothing
    /\ collect' = [collect EXCEPT ![r] = "counters"]
    /\ seen' = [seen EXCEPT ![r] = shown[r]]
    /\ left' = [left EXCEPT ![r] = Reasons]
    /\ owed' = [owed EXCEPT ![r] = gaps[r]]
    /\ UNCHANGED sum
    /\ UNCHANGED <<updateVars, historyVars, listening, works, faults>>

\* The range over failedCounter, one counter at a time.  During a write the
\* runtime may detect the race, which ends the process.
CollectCounter(r, reason) ==
    /\ collect[r] = "counters"
    /\ reason \in left[r]
    /\ \/ /\ sum' = [sum EXCEPT ![r] = @ + failed[r][reason]]
          /\ left' = [left EXCEPT ![r] = @ \ {reason}]
          /\ collect' = [collect EXCEPT ![r] = IF left'[r] = {} THEN "sent" ELSE @]
          /\ UNCHANGED <<updateVars, seen, owed, historyVars, listening>>
       \/ writing[r] # Nothing /\ Restart
    /\ UNCHANGED <<works, faults>>

\* RUnlock has been done; the next scrape may come.
Answer(r) ==
    /\ collect[r] = "sent"
    /\ collect' = [collect EXCEPT ![r] = "idle"]
    /\ seen' = [seen EXCEPT ![r] = Empty]
    /\ sum' = [sum EXCEPT ![r] = 0]
    /\ owed' = [owed EXCEPT ![r] = 0]
    /\ UNCHANGED <<left, updateVars, historyVars, listening, works, faults>>

\* ListenAndServe returns an error; startServer cancels the context.
ListenFails ==
    /\ listening /\ faults > 0
    /\ listening' = FALSE /\ faults' = faults - 1
    /\ UNCHANGED <<updateVars, scrapeVars, historyVars, works>>

\* wg.Wait returns and main exits.
Exit ==
    /\ ~listening
    /\ \A r \in Rules : pc[r] \in {"off", "done"}
    /\ Restart
    /\ UNCHANGED <<works, faults>>

\* External: Ceph.
ChangeCeph(r) ==
    /\ enabled(r)
    /\ works' = [works EXCEPT ![r] = ~@]
    /\ UNCHANGED <<updateVars, scrapeVars, historyVars, listening, faults>>

Update(r) ==
    \/ Register(r) \/ Tick(r) \/ RunCommand(r) \/ Writes(r) \/ Swap(r)
    \/ \E m \in Metrics[r] : Filter(r, m)

Collect(r) ==
    \/ CollectValues(r) \/ Answer(r)
    \/ \E reason \in Reasons : CollectCounter(r, reason)

Next ==
    \/ \E r \in Rules : Update(r) \/ Finish(r) \/ Collect(r) \/ ChangeCeph(r)
    \/ ListenFails \/ Exit

Spec == Init /\ [][Next]_vars

\* The goroutines run, a command ends at the latest when its time is up, a
\* scrape ends; select takes a ready case at random, so that it takes
\* ctx.Done in the end.
FairSpec ==
    /\ Spec
    /\ \A r \in Rules :
          /\ WF_vars(Update(r))
          /\ SF_vars(Finish(r))
          /\ WF_vars(\E reason \in Reasons : CollectCounter(r, reason))
    /\ WF_vars(Exit)
-----------------------------------------------------------------------------
(***************************************************************************)
(* Properties.                                                             *)
(***************************************************************************)
\* The values a scrape sends for a rule are those of one update, the last
\* that is done: Collect ranges over metricValues under the lock, and update
\* fills a map of its own and swaps it, also when it failed (executer.go:98).
ScrapeShowsOneUpdate ==
    \A r \in Rules : collect[r] = "counters" =>
        \A m \in DOMAIN seen[r] : seen[r][m] = finished[r]

\* A scrape that lacks a metric has counted why: for every update so far that
\* left one out, the counters it sends hold one failure or more, though update
\* writes them without the lock (executer.go:111, collector.go:51).
GapsAreCounted ==
    \A r \in Rules : collect[r] = "sent" => sum[r] >= owed[r]

\* Once the commands work again and for good, every metric of every enabled
\* rule comes back and stays, whatever failed, crashed or was swapped before
\* (executer.go:83).
MetricsComeBack ==
    <>[](\A r \in Rules : works[r]) =>
        <>[](\A r \in Rules : enabled(r) => DOMAIN shown[r] = Metrics[r])
=============================================================================
