---------------------------- MODULE NecoExporter ----------------------------
(***************************************************************************)
(* neco-exporter in cluster scope: the collection loop of Exporter over    *)
(* the collectors ciliumid and cert, which read what Watchers keep, and    *)
(* networkfence, which lists the informer's store itself.                  *)
(***************************************************************************)
EXTENDS Exporter, Watchers

VARIABLES
    fence,      \* a NetworkFence in the informer's store
    counts      \* what ciliumid's Collect read first

vars == <<exporterVars, watcherVars, fence, counts>>

\* A fence is absent, valid, or lacks what the metric needs.
Fence == {"absent", "valid", "invalid"}

NotRead == [ns \in {} |-> 0]

TypesOK ==
    /\ TypeOK
    /\ WatchersTypeOK
    /\ fence \in Fence
    /\ counts \in [Namespaces -> Nat] \cup {NotRead}

Init ==
    /\ ExporterInit
    /\ WatchersInit
    /\ fence \in IF "networkfence" \in active THEN Fence ELSE {"absent"}
    /\ counts = NotRead
-----------------------------------------------------------------------------
(***************************************************************************)
(* BuildMetricName and the metrics of each collector.                      *)
(***************************************************************************)
Metric(name, labels, value) == [name |-> <<name, labels>>, value |-> value]

CountSeries(c) ==
    {Metric("identity_count", <<ns>>, c[ns]) : ns \in {n \in DOMAIN c : c[n] > 0}}

InfoSeries(ids) ==
    {Metric("identity_info", <<i, ids[i]>>, 1) : i \in {j \in DOMAIN ids : ids[j] # None}}

CertSeries(exp) ==
    {Metric("expiration", <<s>>, exp[s]) : s \in {t \in DOMAIN exp : exp[t] # 0}}

FenceSeries(f) == IF f = "valid" THEN {Metric("fence", <<>>, 1)} ELSE {}

\* Names and Values have all that the three collectors report.
ASSUME MetricAssumption ==
    /\ {"ciliumid", "cert", "networkfence"} \subseteq Collectors
    /\ \A ns \in Namespaces : <<"identity_count", <<ns>>>> \in Names
    /\ \A i \in Identities, ns \in Namespaces : <<"identity_info", <<i, ns>>>> \in Names
    /\ \A s \in Secrets : <<"expiration", <<s>>>> \in Names
    /\ <<"fence", <<>>>> \in Names
    /\ 0..Cardinality(Identities) \subseteq Values /\ 1 \in Values
    /\ Expirations \subseteq Values

\* ciliumid's Collect takes the lock twice: first for the counts.
CollectCounts ==
    /\ stage["ciliumid"] = "wait"
    /\ Collects("ciliumid")
    /\ counts = NotRead
    /\ counts' = identityCount
    /\ UNCHANGED <<exporterVars, watcherVars, fence>>

CollectIdentities ==
    /\ counts # NotRead
    /\ CollectReturns("ciliumid", CountSeries(counts) \cup InfoSeries(identities))
    /\ counts' = NotRead
    /\ UNCHANGED <<watcherVars, fence>>

CollectCerts ==
    /\ CollectReturns("cert", CertSeries(expiration))
    /\ UNCHANGED <<watcherVars, fence, counts>>

CollectFences ==
    /\ \/ /\ CollectReturns("networkfence", FenceSeries(fence))
          /\ UNCHANGED errors
       \/ /\ errors > 0
          /\ errors' = errors - 1
          /\ CollectFails("networkfence")
    /\ UNCHANGED <<storeVars, identityVars, secretVars, unheard, fence, counts>>

Collect == CollectCounts \/ CollectIdentities \/ CollectCerts \/ CollectFences

\* The rest of a round.
Loop ==
    /\ \/ StartRound
       \/ \E c \in Collectors : LeaveOut(c) \/ Update(c)
       \/ Report
    /\ UNCHANGED <<watcherVars, fence, counts>>

Lifecycle ==
    \/ Elect /\ UNCHANGED <<watcherVars, fence, counts>>
    \/ /\ Restart
       /\ RestartWatchers
       /\ counts' = NotRead
       /\ UNCHANGED fence

Handle == Handlers /\ UNCHANGED <<exporterVars, fence, counts>>

Observe == Informers /\ UNCHANGED <<exporterVars, fence, counts>>

\* Nobody owes these.  Changes that no active collector watches are left out.
Environment ==
    /\ \/ "ciliumid" \in active /\ \E i \in Identities : ChangeIdentity(i)
       \/ "cert" \in active /\ \E s \in Secrets : ChangeSecret(s)
       \/ Resync
    /\ UNCHANGED <<exporterVars, fence, counts>>

Next == Collect \/ Loop \/ Lifecycle \/ Handle \/ Observe \/ Environment

Spec == Init /\ [][Next]_vars

\* The goroutines run and the ticker fires, the informers catch up with the
\* cluster.
Fairness ==
    /\ \A c \in Collectors : WF_vars(Update(c) /\ UNCHANGED <<watcherVars, fence, counts>>)
    /\ WF_vars(Loop)
    /\ WF_vars(CollectCounts \/ CollectIdentities)
    /\ WF_vars(CollectCerts)
    /\ WF_vars(CollectFences)
    /\ WF_vars(Handlers /\ UNCHANGED <<exporterVars, fence, counts>>)
    /\ WF_vars(Observe)

FairSpec == Spec /\ Fairness
-----------------------------------------------------------------------------
\* What the cluster gives the three collectors to report.
Due == [c \in Collectors |->
    CASE c = "ciliumid" ->
            CountSeries([ns \in Namespaces |->
                Cardinality({i \in Identities : Here(api[i]) /\ api[i].ns = ns})])
            \cup InfoSeries([i \in Identities |->
                IF Here(api[i]) /\ api[i].labels = "ok" THEN api[i].ns ELSE None])
      [] c = "cert" -> CertSeries([s \in Secrets |->
                IF Here(secretApi[s]) THEN secretApi[s].notAfter ELSE 0])
      [] OTHER -> FenceSeries(fence)]

\* When the cluster has come to rest, the elected replica ends up showing it
\* exactly, unless a handler passed over what happened: every change finds its
\* way through store, handler and round, and no failure, late leadership or
\* restart leaves an old series behind.
LeaderShowsCluster ==
    <>[](elected /\ uncounted = {} /\ unheard = {} => registry = Due)
=============================================================================
