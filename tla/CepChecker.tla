---------------------------- MODULE CepChecker ----------------------------
(***************************************************************************)
(* cep-checker: once per interval one goroutine lists the Pods and the     *)
(* CiliumEndpoints, looks again at every key that is in one list only,     *)
(* exports a gauge for each that is still one-sided and unregisters the    *)
(* gauges of those that were found in an earlier round only.               *)
(*                                                                         *)
(* External: the API server.  Every List and Get is one atomic read of the *)
(* cluster, which changes between any two of them.                         *)
(***************************************************************************)
EXTENDS Naturals, FiniteSets

CONSTANTS
    Keys,               \* namespace/name
    MaxClusterChanges,  \* bound: changes of the cluster
    MaxApiErrors        \* bound: API calls that fail

ASSUME BoundAssumption == MaxClusterChanges \in Nat /\ MaxApiErrors \in Nat

Missing == Keys \X {"cep", "pod"}

\* A pod is absent, one that isTargetPod rejects, or one that it accepts.
PodStates == {"none", "other", "target"}

VARIABLES
    pod, cep,       \* the cluster
    pc,             \* the goroutine: "idle", "ceps", "check", "getCep"
    pods, ceps,     \* the listed keys
    todo, key,      \* the keys that differ and the one check is called with
    podExist,       \* local of check
    missings,       \* result map of checkAll
    missingResourceNameToKind,
    gauges,         \* the registered metrics
    touched,        \* history: keys that changed since the round began
    clusterChanges, apiErrors

cluster == <<pod, cep, touched, clusterChanges>>
round == <<pc, pods, ceps, todo, key, podExist, missings>>
metrics == <<missingResourceNameToKind, gauges>>
cepVars == <<cluster, round, metrics, apiErrors>>

CepTypeOK ==
    /\ pod \in [Keys -> PodStates]
    /\ cep \subseteq Keys
    /\ pc \in {"idle", "ceps", "check", "getCep"}
    /\ pods \subseteq Keys
    /\ ceps \subseteq Keys
    /\ todo \subseteq Keys
    /\ key \subseteq todo /\ Cardinality(key) <= 1
    /\ podExist \in BOOLEAN
    /\ missings \subseteq Missing
    /\ missingResourceNameToKind \subseteq Missing
    /\ gauges \subseteq Missing
    /\ touched \subseteq Keys
    /\ clusterChanges \in 0..MaxClusterChanges
    /\ apiErrors \in 0..MaxApiErrors

Targets == {k \in Keys : pod[k] = "target"}

EndRound ==
    /\ pc' = "idle"
    /\ pods' = {}
    /\ ceps' = {}
    /\ todo' = {}
    /\ key' = {}
    /\ podExist' = FALSE
    /\ missings' = {}

CepInit ==
    /\ pod \in [Keys -> PodStates]
    /\ cep \in SUBSET Keys
    /\ pc = "idle"
    /\ pods = {}
    /\ ceps = {}
    /\ todo = {}
    /\ key = {}
    /\ podExist = FALSE
    /\ missings = {}
    /\ missingResourceNameToKind = {}
    /\ gauges = {}
    /\ touched = {}
    /\ clusterChanges = MaxClusterChanges
    /\ apiErrors = MaxApiErrors
-----------------------------------------------------------------------------
\* An API call fails: checkAll returns the error and the goroutine waits for
\* the next tick.  What the round has found is forgotten.
ApiError ==
    /\ apiErrors > 0
    /\ apiErrors' = apiErrors - 1
    /\ EndRound
    /\ UNCHANGED <<cluster, metrics>>

\* The tick and getPods.
ListPods ==
    /\ pc = "idle"
    /\ touched' = {}
    /\ pc' = "ceps"
    /\ pods' = Targets
    /\ UNCHANGED <<pod, cep, clusterChanges, ceps, todo, key, podExist, missings, metrics,
                   apiErrors>>

\* getCeps, and the keys the two loops of checkAll have to look at again.
ListCeps ==
    /\ pc = "ceps"
    /\ \/ /\ ceps' = cep
          /\ todo' = (pods \ cep) \cup (cep \ pods)
          /\ pc' = "check"
          /\ UNCHANGED <<cluster, pods, key, podExist, missings, metrics, apiErrors>>
       \/ ApiError

\* The first loop goes over the Pods, the second over the CiliumEndpoints, each
\* in the map's arbitrary order.
Candidates == IF todo \cap pods # {} THEN todo \cap pods ELSE todo

\* Mutant of Skipped: check goes on with a pod that is not a target.
SkippedNever(k) == FALSE

Skipped(k) == pod[k] = "other"

\* check, first half: the Get of the Pod.
GetPod ==
    /\ pc = "check"
    /\ \E k \in Candidates :
          IF Skipped(k)
            THEN /\ todo' = todo \ {k}
                 /\ UNCHANGED <<pc, key, podExist>>
            ELSE /\ key' = {k}
                 /\ podExist' = (pod[k] = "target")
                 /\ pc' = "getCep"
                 /\ UNCHANGED todo
    /\ UNCHANGED <<cluster, pods, ceps, missings, metrics, apiErrors>>

\* The verdict on k: nothing when both or neither were seen.
Found(k) ==
    {g \in {k} \X {"cep", "pod"} :
        IF g[2] = "cep" THEN podExist /\ k \notin cep ELSE ~podExist /\ k \in cep}

\* check, second half: the Get of the CiliumEndpoint and the gauge.
GetCep ==
    /\ pc = "getCep"
    /\ \E k \in key :
          /\ gauges' = gauges \cup Found(k)
          /\ missings' = missings \cup Found(k)
          /\ todo' = todo \ {k}
    /\ key' = {}
    /\ podExist' = FALSE
    /\ pc' = "check"
    /\ UNCHANGED <<cluster, pods, ceps, missingResourceNameToKind, apiErrors>>

CheckFails == pc \in {"check", "getCep"} /\ todo # {} /\ ApiError

KeysOf(ms) == {g[1] : g \in ms}

\* Mutant of Resolved: the gauges found again in this round go.
ResolvedFoundAgain == {g \in missingResourceNameToKind : g[1] \in KeysOf(missings)}

\* The known missing resources whose key was not found missing in this round.
Resolved == {g \in missingResourceNameToKind : g[1] \notin KeysOf(missings)}

\* Mutant of Remembered: the map is only added to.
RememberedForever == missingResourceNameToKind \cup missings

\* The map after its resolved keys are deleted and missings is copied over it.
Remembered ==
    missings \cup {g \in missingResourceNameToKind \ Resolved : g[1] \notin KeysOf(missings)}

\* The rest of the goroutine's loop body.
UpdateMetrics ==
    /\ pc = "check"
    /\ todo = {}
    /\ gauges' = gauges \ Resolved
    /\ missingResourceNameToKind' = Remembered
    /\ EndRound
    /\ UNCHANGED <<cluster, apiErrors>>

Checker == ListPods \/ ListCeps \/ GetPod \/ GetCep \/ UpdateMetrics
-----------------------------------------------------------------------------
\* External: a pod or a CiliumEndpoint comes, changes or goes.
ClusterChange ==
    /\ clusterChanges > 0
    /\ clusterChanges' = clusterChanges - 1
    /\ \E k \in Keys :
          /\ touched' = touched \cup {k}
          /\ \/ pod' \in {[pod EXCEPT ![k] = s] : s \in PodStates \ {pod[k]}} /\ UNCHANGED cep
             \/ cep' = (IF k \in cep THEN cep \ {k} ELSE cep \cup {k}) /\ UNCHANGED pod
    /\ UNCHANGED <<round, metrics, apiErrors>>

\* A List of Pods that fails leaves the goroutine where it was.
CepNext == Checker \/ CheckFails \/ ClusterChange

CepSpec == CepInit /\ [][CepNext]_cepVars

\* The ticker fires and every API call returns, in the end without an error.
CepFairSpec == CepSpec /\ WF_cepVars(Checker)
-----------------------------------------------------------------------------
MissingKind(k) ==
    IF pod[k] = "target" /\ k \notin cep THEN {<<k, "cep">>}
    ELSE IF pod[k] = "none" /\ k \in cep THEN {<<k, "pod">>} ELSE {}

\* Every missing resource the goroutine remembers has its gauge: a gauge goes
\* only together with the entry of the map that remembers it.
KnownIsExported == missingResourceNameToKind \subseteq gauges

\* A key that nobody touched during the round gets a gauge only when it really
\* is one-sided, although the two lists and the two Gets are four separate
\* reads.
StableNotAccused ==
    [][\A g \in gauges' \ gauges : g[1] \in touched \/ g \in MissingKind(g[1])]_cepVars

\* A resource that stays missing is exported in the end and stays exported,
\* whatever API calls failed before.
MissingIsExported ==
    \A g \in Missing : <>[](g \in MissingKind(g[1])) => <>[](g \in gauges)

\* A key that stays whole is forgotten in the end.
WholeIsForgotten ==
    \A k \in Keys : <>[](MissingKind(k) = {}) =>
                        <>[](k \notin KeysOf(missingResourceNameToKind))

\* "delete resolved metrics": a gauge of a key that stays whole goes in the end.
ResolvedIsDeleted ==
    \A g \in Missing : <>[](MissingKind(g[1]) = {}) => <>[](g \notin gauges)
=============================================================================
