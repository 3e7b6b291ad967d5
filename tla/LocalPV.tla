------------------------------ MODULE LocalPV ------------------------------
(***************************************************************************)
(* local-pv-provisioner on one node: the device detector (a loop that      *)
(* turns every matching block device into a PersistentVolume) and the PV   *)
(* reconciler (which wipes the device of a released volume and deletes the *)
(* volume) run as two goroutines of one process.  They share the devices   *)
(* and the API server, and see the latter through an informer cache that   *)
(* lags behind it.                                                         *)
(*                                                                         *)
(* External, modelled from how the code uses it: the API server, its watch *)
(* stream, the PV controller that binds and releases volumes, the          *)
(* pv-protection controller that completes deletions, and the pods that    *)
(* write to a bound volume.                                                *)
(***************************************************************************)
EXTENDS Naturals, Sequences, FiniteSets

CONSTANTS
    Devices,        \* device files of the node
    Names,          \* PersistentVolume names
    pvName,         \* DeviceDetector.pvName, which need not be injective
    Configs,        \* valid PV spec ConfigMaps
    NoConfig,       \* no ConfigMap named, or one that does not parse
    Selects,        \* the devices a ConfigMap's deviceDir and filter match
    MaxClaims,      \* bound: how often a volume is bound to a claim
    MaxChanges,     \* bound: how often an operator changes the ConfigMap
    MaxFaults       \* bound: failing calls and process crashes

ASSUME SetAssumption ==
    /\ Devices # {} /\ IsFiniteSet(Devices)
    /\ Names # {}

ASSUME PVNameAssumption == pvName \in [Devices -> Names]

ASSUME ConfigAssumption ==
    /\ NoConfig \notin Configs
    /\ Selects \in [Configs -> SUBSET Devices]

ASSUME BoundAssumption ==
    /\ MaxClaims \in Nat
    /\ MaxChanges \in Nat
    /\ MaxFaults \in Nat

(***************************************************************************)
(* What the wiped regions of a device hold: nothing, signatures of some    *)
(* earlier life of the disk, or the data of the volume with a given uid.   *)
(***************************************************************************)
Blank == 0
Foreign == 1
FirstUid == 2

(***************************************************************************)
(* A PersistentVolume of this node.  "Available" includes the moment       *)
(* before the PV controller first looks at the object; deleting is         *)
(* metadata.deletionTimestamp.                                             *)
(***************************************************************************)
PV == [phase: {"Available", "Bound", "Released"}, uid: Nat,
       path: Devices, conf: Configs, deleting: BOOLEAN]

NoPV == [phase |-> "None"]

Exists(pv) == pv.phase # "None"

\* What a local variable holds while it is out of scope.
AnyDevice == CHOOSE d \in Devices : TRUE
AnyName == CHOOSE n \in Names : TRUE

VARIABLES
    api,        \* the volumes in the API server
    watch,      \* watch events sent and not yet applied to the cache
    cache,      \* the manager's informer cache
    queue,      \* names waiting in the reconciler's work queue
    nextUid,    \* the uid of the next volume created
    data,       \* what each device holds
    config,     \* the ConfigMap in force for the node
    dPc, dConf, dTodo, dDev, dWiped, dAvail, dErr,  \* a call of do
    gauges,     \* the two Prometheus gauges
    rPc, rName, rPV,                                \* a call of Reconcile
    claims, changes, faults                         \* what is left of the bounds

apiVars == <<api, watch, nextUid>>
detectorVars == <<dPc, dConf, dTodo, dDev, dWiped, dAvail, dErr, gauges>>
reconcilerVars == <<rPc, rName, rPV>>
vars == <<apiVars, cache, queue, data, config, detectorVars, reconcilerVars,
          claims, changes, faults>>

TypeOK ==
    /\ api \in [Names -> PV \cup {NoPV}]
    /\ watch \in Seq([name: Names, pv: PV \cup {NoPV}])
    /\ cache \in [Names -> PV \cup {NoPV}]
    /\ queue \subseteq Names
    /\ nextUid \in Nat
    /\ data \in [Devices -> Nat]
    /\ config \in Configs \cup {NoConfig}
    /\ dPc \in {"idle", "probe", "wipe", "create"}
    /\ dConf \in Configs \cup {NoConfig}
    /\ dPc # "idle" => dConf \in Configs
    /\ dTodo \subseteq Devices
    /\ dDev \in Devices
    /\ dWiped \in BOOLEAN
    /\ dAvail \subseteq Devices
    /\ dErr \subseteq Devices
    /\ gauges \in [avail: Nat, err: Nat]
    /\ rPc \in {"idle", "wipe", "delete"}
    /\ rName \in Names
    /\ rPV \in PV \cup {NoPV}
    /\ rPc # "idle" => rPV \in PV
    /\ claims \in 0..MaxClaims
    /\ changes \in 0..MaxChanges
    /\ faults \in 0..MaxFaults

Init ==
    /\ api = [n \in Names |-> NoPV]
    /\ watch = <<>>
    /\ cache = api
    /\ queue = {}
    /\ nextUid = FirstUid
    /\ data \in [Devices -> {Blank, Foreign}]
    /\ config \in Configs \cup {NoConfig}
    /\ dPc = "idle" /\ dConf = NoConfig /\ dTodo = {} /\ dDev = AnyDevice
    /\ dWiped = FALSE /\ dAvail = {} /\ dErr = {}
    /\ gauges = [avail |-> 0, err |-> 0]
    /\ rPc = "idle" /\ rName = AnyName /\ rPV = NoPV
    /\ claims = MaxClaims
    /\ changes = MaxChanges
    /\ faults = MaxFaults
-----------------------------------------------------------------------------
(***************************************************************************)
(* The API server: a write to a volume emits a watch event.                *)
(***************************************************************************)
Put(n, pv) ==
    /\ api' = [api EXCEPT ![n] = pv]
    /\ watch' = Append(watch, [name |-> n, pv |-> pv])

\* A call fails for reasons outside the program.
Fault ==
    /\ faults > 0
    /\ faults' = faults - 1

\* The cache's copy of n has the resourceVersion the API server has.
UpToDate(n) == \A i \in 1..Len(watch) : watch[i].name # n

\* DELETE by name: the protection finalizer defers the removal.
MarkDeleted(n) ==
    IF api[n].deleting THEN UNCHANGED <<api, watch>>
                       ELSE Put(n, [api[n] EXCEPT !.deleting = TRUE])
-----------------------------------------------------------------------------
(***************************************************************************)
(* DeviceDetector.do.  The Node, the ConfigMap and the volumes of the node *)
(* are read from the cache; only the volume list can be stale in a way     *)
(* that a later ConfigMap change does not reproduce.                       *)
(***************************************************************************)
hasAnnotsSetByAnotherConfiguration(c) ==
    \E n \in Names : Exists(cache[n]) /\ cache[n].conf # c

\* Early returns of do: no ConfigMap, or volumes of another configuration.
DoNothing ==
    /\ dPc = "idle"
    /\ \/ config = NoConfig
       \/ hasAnnotsSetByAnotherConfiguration(config)
    /\ UNCHANGED vars

\* Mutant of LeaveDo: do is called once, without the ticker loop.
LeaveDoForGood == UNCHANGED <<dPc, dConf, dTodo, dDev, dWiped, dAvail, dErr>>

\* do returns: its locals go out of scope until the next tick.
LeaveDo ==
    /\ dPc' = "idle" /\ dConf' = NoConfig /\ dTodo' = {} /\ dDev' = AnyDevice
    /\ dWiped' = FALSE /\ dAvail' = {} /\ dErr' = {}

\* bad: devices whose capacity cannot be read, which count as errors at once.
DoList ==
    /\ dPc = "idle"
    /\ config # NoConfig
    /\ ~hasAnnotsSetByAnotherConfiguration(config)
    /\ \E bad \in SUBSET Selects[config] :
          /\ IF bad = {} THEN UNCHANGED faults ELSE Fault
          /\ dTodo' = Selects[config] \ bad
          /\ dErr' = bad
    /\ dPc' = "probe"
    /\ dConf' = config
    /\ dAvail' = {}
    /\ UNCHANGED <<apiVars, cache, queue, data, config, dDev, dWiped, gauges,
                   reconcilerVars, claims, changes>>

\* Mutant of PVFound: the check goes through the cached client.
PVFoundInCache(d) == Exists(cache[pvName[d]])

\* reader.Get, which bypasses the cache.
PVFound(d) == Exists(api[pvName[d]])

\* Mutant of OnGetError: any error is taken for NotFound.
OnGetErrorWipe == "wipe"

\* Only NotFound leads to a wipe: after any other error of reader.Get the loop
\* goes on to createPV.
OnGetError == "create"

Probe ==
    /\ dPc = "probe"
    /\ \E d \in dTodo :
          /\ dTodo' = dTodo \ {d}
          /\ dDev' = d
          /\ \/ dPc' = (IF PVFound(d) THEN "create" ELSE "wipe") /\ UNCHANGED faults
             \/ dPc' = OnGetError /\ Fault
    /\ dWiped' = FALSE
    /\ UNCHANGED <<apiVars, cache, queue, data, config, dConf, dAvail, dErr,
                   gauges, reconcilerVars, claims, changes>>

\* Deleter.Delete: when it fails, the regions may have been overwritten or not.
WipeSucceeds(d) ==
    /\ data' = [data EXCEPT ![d] = Blank]
    /\ UNCHANGED faults

WipeFails(d) ==
    /\ Fault
    /\ \E left \in {data[d], Blank} : data' = [data EXCEPT ![d] = left]

\* The detector wipes a device without a volume; a failure skips the device.
DetectorWipe ==
    /\ dPc = "wipe"
    /\ \/ /\ WipeSucceeds(dDev)
          /\ dPc' = "create"
          /\ dWiped' = TRUE
          /\ UNCHANGED dErr
       \/ /\ WipeFails(dDev)
          /\ dErr' = dErr \cup {dDev}
          /\ dPc' = "probe"
          /\ UNCHANGED dWiped
    /\ UNCHANGED <<apiVars, cache, queue, config, dConf, dTodo, dDev, dAvail,
                   gauges, reconcilerVars, claims, changes>>

NewPV == [phase |-> "Available", uid |-> nextUid, path |-> dDev,
          conf |-> dConf, deleting |-> FALSE]

Created(n) ==
    /\ ~Exists(api[n])
    /\ Put(n, NewPV)
    /\ nextUid' = nextUid + 1

\* The API server refuses an update of an old resourceVersion and a change of
\* the volume source.
Updated(n) ==
    /\ UpToDate(n)
    /\ cache[n].path = dDev
    /\ Put(n, [cache[n] EXCEPT !.conf = dConf])
    /\ UNCHANGED nextUid

\* The write that CreateOrUpdate decides on from the cached object.
Written(n) == IF Exists(cache[n]) THEN Updated(n) ELSE Created(n)

Writable(n) == IF Exists(cache[n]) THEN UpToDate(n) /\ cache[n].path = dDev
                                   ELSE ~Exists(api[n])

AsDesired(n) == Exists(cache[n]) /\ cache[n].path = dDev /\ cache[n].conf = dConf

\* createPV: the device counts as available even if the write failed.
CreatePV ==
    LET n == pvName[dDev] IN
    /\ dPc = "create"
    /\ \/ /\ AsDesired(n)
          /\ UNCHANGED <<apiVars, dErr, faults>>
       \/ /\ ~AsDesired(n)
          /\ Written(n)
          /\ UNCHANGED <<dErr, faults>>
       \/ /\ ~AsDesired(n)
          /\ ~Writable(n)
          /\ dErr' = dErr \cup {dDev}
          /\ UNCHANGED <<apiVars, faults>>
       \/ /\ ~AsDesired(n)
          /\ Fault
          /\ Written(n) \/ UNCHANGED apiVars
          /\ dErr' = dErr \cup {dDev}
    /\ dAvail' = dAvail \cup {dDev}
    /\ dPc' = "probe"
    /\ dWiped' = FALSE
    /\ UNCHANGED <<cache, queue, data, config, dConf, dTodo, dDev, gauges,
                   reconcilerVars, claims, changes>>

\* The end of do: both gauges are set from the devices of this round.
DoReport ==
    /\ dPc = "probe"
    /\ dTodo = {}
    /\ gauges' = [avail |-> Cardinality(dAvail), err |-> Cardinality(dErr)]
    /\ LeaveDo
    /\ UNCHANGED <<apiVars, cache, queue, data, config, reconcilerVars, claims,
                   changes, faults>>
-----------------------------------------------------------------------------
(***************************************************************************)
(* PersistentVolumeReconciler.Reconcile, run by one worker.                *)
(***************************************************************************)
LeaveReconcile == rPc' = "idle" /\ rName' = AnyName /\ rPV' = NoPV

\* Mutant of NeedsCleanup: a failed Get does not return.
NeedsCleanupOrGone(pv) == pv.phase \in {"Released", "None"}

\* The cached volume is there and released: otherwise Reconcile returns.
NeedsCleanup(pv) == pv.phase = "Released"

ReconcileGet ==
    /\ rPc = "idle"
    /\ \E n \in queue :
          /\ queue' = queue \ {n}
          /\ IF NeedsCleanup(cache[n])
                THEN rPc' = "wipe" /\ rName' = n /\ rPV' = cache[n]
                ELSE UNCHANGED reconcilerVars
    /\ UNCHANGED <<apiVars, cache, data, config, detectorVars, claims, changes,
                   faults>>

\* An error of Deleter.Delete is only logged.
ReconcileWipe ==
    /\ rPc = "wipe"
    /\ WipeSucceeds(rPV.path) \/ WipeFails(rPV.path)
    /\ rPc' = "delete"
    /\ UNCHANGED <<apiVars, cache, queue, config, detectorVars, rName, rPV,
                   claims, changes>>

\* Mutant of Requeue: the error is logged and swallowed.
Swallow(n) == queue' = queue

\* An error returned by Reconcile puts the request back into the queue.
Requeue(n) == queue' = queue \cup {n}

\* r.Delete names the volume and nothing else; an error requeues the request.
ReconcileDelete ==
    /\ rPc = "delete"
    /\ \/ /\ Exists(api[rName])
          /\ MarkDeleted(rName)
          /\ UNCHANGED <<queue, faults>>
       \/ /\ ~Exists(api[rName])
          /\ Requeue(rName)
          /\ UNCHANGED <<api, watch, faults>>
       \/ /\ Fault
          /\ \/ Exists(api[rName]) /\ MarkDeleted(rName)
             \/ UNCHANGED <<api, watch>>
          /\ Requeue(rName)
    /\ LeaveReconcile
    /\ UNCHANGED <<cache, nextUid, data, config, detectorVars, claims, changes>>

\* persistentVolumeWatcher.fireEvent, once per hour.
FireEvent ==
    /\ queue' = queue \cup {n \in Names : cache[n].phase = "Released"}
    /\ UNCHANGED <<apiVars, cache, data, config, detectorVars, reconcilerVars,
                   claims, changes, faults>>
-----------------------------------------------------------------------------
(***************************************************************************)
(* The manager: watch events update the cache in order, and all but        *)
(* deletions are passed on to the reconciler.                              *)
(***************************************************************************)
Deliver ==
    /\ watch # <<>>
    /\ LET e == Head(watch) IN
          /\ cache' = [cache EXCEPT ![e.name] = e.pv]
          /\ queue' = IF Exists(e.pv) THEN queue \cup {e.name} ELSE queue
    /\ watch' = Tail(watch)
    /\ UNCHANGED <<api, nextUid, data, config, detectorVars, reconcilerVars,
                   claims, changes, faults>>

\* The process dies and is restarted: the cache is filled by a fresh list, and
\* every listed volume is a create event.
Restart ==
    /\ Fault
    /\ cache' = api
    /\ watch' = <<>>
    /\ queue' = {n \in Names : Exists(api[n])}
    /\ LeaveDo
    /\ gauges' = [avail |-> 0, err |-> 0]
    /\ LeaveReconcile
    /\ UNCHANGED <<api, nextUid, data, config, claims, changes>>
-----------------------------------------------------------------------------
(***************************************************************************)
(* The cluster around the program (external).                              *)
(***************************************************************************)
Bind(n) ==
    /\ api[n].phase = "Available" /\ ~api[n].deleting
    /\ claims > 0
    /\ claims' = claims - 1
    /\ Put(n, [api[n] EXCEPT !.phase = "Bound"])
    /\ UNCHANGED <<cache, queue, nextUid, data, config, detectorVars,
                   reconcilerVars, changes, faults>>

PodWrites(n) ==
    /\ api[n].phase = "Bound"
    /\ data' = [data EXCEPT ![api[n].path] = api[n].uid]
    /\ UNCHANGED <<apiVars, cache, queue, config, detectorVars, reconcilerVars,
                   claims, changes, faults>>

Release(n) ==
    /\ api[n].phase = "Bound"
    /\ Put(n, [api[n] EXCEPT !.phase = "Released"])
    /\ UNCHANGED <<cache, queue, nextUid, data, config, detectorVars,
                   reconcilerVars, claims, changes, faults>>

\* pv-protection removes the finalizer of a deleted volume that is not bound.
FinishDeletion(n) ==
    /\ api[n].phase \in {"Available", "Released"} /\ api[n].deleting
    /\ Put(n, NoPV)
    /\ UNCHANGED <<cache, queue, nextUid, data, config, detectorVars,
                   reconcilerVars, claims, changes, faults>>

ChangeConfig ==
    /\ changes > 0
    /\ changes' = changes - 1
    /\ config' \in (Configs \cup {NoConfig}) \ {config}
    /\ UNCHANGED <<apiVars, cache, queue, data, detectorVars, reconcilerVars,
                   claims, faults>>
-----------------------------------------------------------------------------
Detector == DoNothing \/ DoList \/ Probe \/ DetectorWipe \/ CreatePV \/ DoReport

Reconciler == ReconcileGet \/ ReconcileWipe \/ ReconcileDelete

Cluster == \/ \E n \in Names : Bind(n) \/ PodWrites(n) \/ Release(n)
                               \/ FinishDeletion(n)
           \/ ChangeConfig

Next == Detector \/ Reconciler \/ FireEvent \/ Deliver \/ Restart \/ Cluster

Spec == Init /\ [][Next]_vars

\* Both goroutines and the informer keep running, and the protection controller
\* completes deletions.  Claims, pods and operators owe nothing.
Fairness ==
    /\ WF_vars(Detector)
    /\ WF_vars(Reconciler)
    /\ WF_vars(Deliver)
    /\ \A n \in Names : WF_vars(FinishDeletion(n))

FairSpec == Spec /\ Fairness
-----------------------------------------------------------------------------
(***************************************************************************)
(* Properties.                                                             *)
(***************************************************************************)
\* The detector is about to wipe, or has wiped and not yet offered, only a
\* device no volume of the API server stands for, and what it wiped stays blank
\* until it creates the volume: NotFound from reader.Get remains true through
\* the wipe although the reconciler, the cluster and restarts go on.
WipesOnlyFreeDevices ==
    dPc = "wipe" \/ (dPc = "create" /\ dWiped) =>
        /\ \A n \in Names : Exists(api[n]) => api[n].path # dDev
        /\ dPc = "create" => data[dDev] = Blank

\* No step of the detector touches what a pod wrote to a volume that is bound.
DetectorKeepsLiveData ==
    [][Detector => \A n \in Names :
          api[n].phase = "Bound" => data'[api[n].path] = data[api[n].path]]_vars

\* "Reconcile cleans up released local PV": the wipe never overwrites what a
\* pod wrote to a volume that is bound.
ReconcilerKeepsLiveData ==
    [][Reconciler => \A n \in Names :
          api[n].phase = "Bound" => data'[api[n].path] = data[api[n].path]]_vars

\* A released volume is eventually removed, whatever events are late, calls
\* fail or restarts happen (finitely often).
ReleasedIsRemoved ==
    \A n \in Names : api[n].phase = "Released" ~> api[n].phase # "Released"

\* Every device selected by the ConfigMap in force has a volume again and
\* again, unless volumes of another ConfigMap are in the way: no release,
\* failure or restart loses a device for good.
DevicesGetVolumes ==
    \A c \in Configs : \A d \in Selects[c] :
        []<>(\/ config # c
             \/ hasAnnotsSetByAnotherConfiguration(c)
             \/ Exists(api[pvName[d]]))
=============================================================================
