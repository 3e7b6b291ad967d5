--------------------------- MODULE LocalPVProofs ---------------------------
(***************************************************************************)
(* Proofs about local-pv-provisioner.  LocalPV: for every set of devices,  *)
(* names and ConfigMaps, every pvName (injective or not) and every number  *)
(* of claims, changes and faults.  FillDeleter: for every device and every *)
(* choice of regions.                                                      *)
(***************************************************************************)
EXTENDS LocalPV, FillDeleter, FiniteSetTheorems, SequenceTheorems, TLAPS

\* A volume's name is computed from its device and its source never changes.
NamedByPath == \A n \in Names : Exists(api[n]) => pvName[api[n].path] = n

\* WipesOnlyFreeDevices in terms of the one name the detector asked for.
NameIsFree ==
    dPc = "wipe" \/ (dPc = "create" /\ dWiped) =>
        /\ ~Exists(api[pvName[dDev]])
        /\ dPc = "create" => data[dDev] = Blank

WipeInv == TypeOK /\ NamedByPath /\ NameIsFree

\* A volume or its absence: existence is a matter of the phase.
LEMMA ExistsIsPV ==
    ASSUME NEW pv \in PV \cup {NoPV}
    PROVE  /\ Exists(pv) <=> pv \in PV
           /\ ~Exists(pv) <=> pv = NoPV
BY DEF PV, NoPV, Exists

\* Marking an existing volume deleted keeps the types.
LEMMA MarkDeletedType ==
    ASSUME TypeOK, NEW n \in Names, Exists(api[n]), MarkDeleted(n)
    PROVE  /\ api' \in [Names -> PV \cup {NoPV}]
           /\ watch' \in Seq([name: Names, pv: PV \cup {NoPV}])
<1>1. api[n] \in PV
  BY ExistsIsPV DEF TypeOK
<1> DEFINE marked == [api[n] EXCEPT !.deleting = TRUE]
<1>2. marked \in PV
  BY <1>1 DEF PV
<1>3. CASE api[n].deleting
  BY <1>3 DEF MarkDeleted, TypeOK
<1>4. CASE ~api[n].deleting
  <2>1. Put(n, marked)
    BY <1>4 DEF MarkDeleted
  <2> HIDE DEF marked
  <2>2. QED
    BY <1>2, <2>1 DEF Put, TypeOK
<1>5. QED
  BY <1>3, <1>4

LEMMA AnyTypes == AnyDevice \in Devices /\ AnyName \in Names
BY SetAssumption DEF AnyDevice, AnyName

\* The write of CreateOrUpdate keeps the types.
LEMMA WrittenType ==
    ASSUME TypeOK, dPc = "create", Written(pvName[dDev])
    PROVE  /\ api' \in [Names -> PV \cup {NoPV}]
           /\ watch' \in Seq([name: Names, pv: PV \cup {NoPV}])
           /\ nextUid' \in Nat
<1> DEFINE n == pvName[dDev]
<1>1. n \in Names
  BY PVNameAssumption DEF TypeOK
<1> HIDE DEF n
<1>2. NewPV \in PV
  BY DEF TypeOK, NewPV, PV
<1>w. Written(n)
  BY DEF n
<1>3. CASE ~Exists(cache[n])
  <2>1. Put(n, NewPV) /\ nextUid' = nextUid + 1
    BY <1>3, <1>w DEF Written, Created
  <2>2. QED
    BY <1>1, <1>2, <2>1 DEF Put, TypeOK
<1>4. CASE Exists(cache[n])
  <2> DEFINE changed == [cache[n] EXCEPT !.conf = dConf]
  <2>1. Put(n, changed) /\ nextUid' = nextUid
    BY <1>4, <1>w DEF Written, Updated
  <2>c. cache[n] \in PV /\ dConf \in Configs
    BY <1>1, <1>4, ExistsIsPV DEF TypeOK
  <2>2. changed \in PV
    BY <2>c DEF PV
  <2> HIDE DEF changed
  <2>3. QED
    BY <1>1, <2>1, <2>2 DEF Put, TypeOK
<1>5. QED
  BY <1>3, <1>4

\* A step of the detector keeps the types.
LEMMA DetectorType ==
    ASSUME TypeOK, Detector
    PROVE  TypeOK'
<1>1. CASE DoNothing
  BY <1>1 DEF DoNothing, TypeOK, vars, apiVars, detectorVars, reconcilerVars
<1>2. CASE DoList
  <2>1. config \in Configs /\ Selects[config] \subseteq Devices
    BY <1>2, ConfigAssumption DEF DoList, TypeOK
  <2>2. faults' \in 0..MaxFaults /\ dTodo' \subseteq Devices /\ dErr' \subseteq Devices
    BY <1>2, <2>1, BoundAssumption DEF DoList, TypeOK, Fault
  <2>3. QED
    BY <1>2, <2>1, <2>2 DEF DoList, TypeOK, apiVars, reconcilerVars
<1>3. CASE Probe
  <2>1. /\ faults' \in 0..MaxFaults
        /\ dPc' \in {"create", "wipe"}
        /\ dTodo' \subseteq Devices /\ dDev' \in Devices
    BY <1>3, BoundAssumption DEF Probe, OnGetError, Fault, TypeOK
  <2>2. QED
    BY <1>3, <2>1 DEF Probe, TypeOK, apiVars, reconcilerVars
<1>4. CASE DetectorWipe
  <2>1. /\ faults' \in 0..MaxFaults
        /\ data' \in [Devices -> Nat]
    BY <1>4, BoundAssumption DEF DetectorWipe, WipeSucceeds, WipeFails, Fault, Blank, TypeOK
  <2>2. /\ dErr' \subseteq Devices
        /\ dPc' \in {"create", "probe"}
        /\ dWiped' \in BOOLEAN
    BY <1>4 DEF DetectorWipe, TypeOK
  <2>3. QED
    BY <1>4, <2>1, <2>2 DEF DetectorWipe, TypeOK, apiVars, reconcilerVars
<1>5. CASE CreatePV
  <2>1. /\ api' \in [Names -> PV \cup {NoPV}]
        /\ watch' \in Seq([name: Names, pv: PV \cup {NoPV}])
        /\ nextUid' \in Nat
    <3>1. CASE Written(pvName[dDev])
      BY <1>5, <3>1, WrittenType DEF CreatePV
    <3>2. CASE UNCHANGED apiVars
      BY <3>2 DEF apiVars, TypeOK
    <3>3. QED
      BY <1>5, <3>1, <3>2 DEF CreatePV
  <2>2. faults' \in 0..MaxFaults /\ dErr' \subseteq Devices
    BY <1>5, BoundAssumption DEF CreatePV, Fault, TypeOK
  <2>3. QED
    BY <1>5, <2>1, <2>2 DEF CreatePV, TypeOK, reconcilerVars
<1>6. CASE DoReport
  <2>1. Cardinality(dAvail) \in Nat /\ Cardinality(dErr) \in Nat
    BY SetAssumption, FS_Subset, FS_CardinalityType DEF TypeOK
  <2>2. QED
    BY <1>6, <2>1, AnyTypes DEF DoReport, LeaveDo, TypeOK, apiVars, reconcilerVars
<1>7. QED
  BY <1>1, <1>2, <1>3, <1>4, <1>5, <1>6 DEF Detector

\* A step of the reconciler keeps the types.
LEMMA ReconcilerType ==
    ASSUME TypeOK, Reconciler
    PROVE  TypeOK'
<1>1. CASE ReconcileGet
  <2>1. PICK n \in queue :
          /\ queue' = queue \ {n}
          /\ IF NeedsCleanup(cache[n])
                THEN rPc' = "wipe" /\ rName' = n /\ rPV' = cache[n]
                ELSE UNCHANGED reconcilerVars
    BY <1>1 DEF ReconcileGet
  <2>2. n \in Names /\ cache[n] \in PV \cup {NoPV}
    BY DEF TypeOK
  <2>3. /\ rPc' \in {"idle", "wipe", "delete"} /\ rName' \in Names
        /\ rPV' \in PV \cup {NoPV} /\ (rPc' # "idle" => rPV' \in PV)
    <3>1. CASE NeedsCleanup(cache[n])
      BY <2>1, <2>2, <3>1, ExistsIsPV DEF NeedsCleanup, Exists
    <3>2. CASE ~NeedsCleanup(cache[n])
      BY <2>1, <3>2 DEF reconcilerVars, TypeOK
    <3>3. QED
      BY <3>1, <3>2
  <2>4. QED
    BY <1>1, <2>1, <2>3 DEF ReconcileGet, TypeOK, apiVars, detectorVars
<1>2. CASE ReconcileWipe
  <2>1. rPV \in PV
    BY <1>2 DEF ReconcileWipe, TypeOK
  <2>2. faults' \in 0..MaxFaults
    BY <1>2, BoundAssumption DEF ReconcileWipe, WipeSucceeds, WipeFails, Fault, TypeOK
  <2>3. data' \in [Devices -> Nat]
    BY <1>2, <2>1 DEF ReconcileWipe, WipeSucceeds, WipeFails, Blank, TypeOK, PV
  <2>4. QED
    BY <1>2, <2>1, <2>2, <2>3 DEF ReconcileWipe, TypeOK, apiVars, detectorVars
<1>3. CASE ReconcileDelete
  <2>1. /\ api' \in [Names -> PV \cup {NoPV}]
        /\ watch' \in Seq([name: Names, pv: PV \cup {NoPV}])
    <3>1. CASE Exists(api[rName]) /\ MarkDeleted(rName)
      BY <3>1, MarkDeletedType DEF TypeOK
    <3>2. CASE UNCHANGED <<api, watch>>
      BY <3>2 DEF TypeOK
    <3>3. QED
      BY <1>3, <3>1, <3>2 DEF ReconcileDelete
  <2>2. faults' \in 0..MaxFaults /\ queue' \subseteq Names
    BY <1>3, BoundAssumption DEF ReconcileDelete, Requeue, Fault, TypeOK
  <2>3. QED
    BY <1>3, <2>1, <2>2, AnyTypes
       DEF ReconcileDelete, LeaveReconcile, TypeOK, detectorVars
<1>4. QED
  BY <1>1, <1>2, <1>3 DEF Reconciler

\* A step of the manager or of the cluster keeps the types.
LEMMA EnvironmentType ==
    ASSUME TypeOK, FireEvent \/ Deliver \/ Restart \/ Cluster
    PROVE  TypeOK'
<1>1. CASE FireEvent
  BY <1>1 DEF FireEvent, TypeOK, apiVars, detectorVars, reconcilerVars
<1>2. CASE Deliver
  <2>1. /\ Head(watch) \in [name: Names, pv: PV \cup {NoPV}]
        /\ Tail(watch) \in Seq([name: Names, pv: PV \cup {NoPV}])
    BY <1>2, HeadTailProperties DEF Deliver, TypeOK
  <2>2. Head(watch).name \in Names /\ Head(watch).pv \in PV \cup {NoPV}
    BY <2>1
  <2>3. cache' \in [Names -> PV \cup {NoPV}] /\ queue' \subseteq Names
    BY <1>2, <2>2 DEF Deliver, TypeOK
  <2>4. QED
    BY <1>2, <2>1, <2>3 DEF Deliver, TypeOK, detectorVars, reconcilerVars
<1>3. CASE Restart
  <2>1. faults' \in 0..MaxFaults
    BY <1>3, BoundAssumption DEF Restart, Fault, TypeOK
  <2>2. watch' \in Seq([name: Names, pv: PV \cup {NoPV}])
    BY <1>3 DEF Restart
  <2>3. gauges' \in [avail: Nat, err: Nat]
    BY <1>3 DEF Restart
  <2>4. QED
    BY <1>3, <2>1, <2>2, <2>3, AnyTypes DEF Restart, LeaveDo, LeaveReconcile, TypeOK
<1>4. CASE Cluster
  <2>1. ASSUME NEW n \in Names, Bind(n) PROVE TypeOK'
    <3> DEFINE pv == [api[n] EXCEPT !.phase = "Bound"]
    <3>1. api[n] \in PV
      BY <2>1, ExistsIsPV DEF Bind, Exists, TypeOK
    <3>2. pv \in PV
      BY <3>1 DEF PV
    <3>3. claims' \in 0..MaxClaims
      BY <2>1, BoundAssumption DEF Bind, TypeOK
    <3>4. Put(n, pv)
      BY <2>1 DEF Bind
    <3> HIDE DEF pv
    <3>5. QED
      <4>1. /\ api' \in [Names -> PV \cup {NoPV}]
            /\ watch' \in Seq([name: Names, pv: PV \cup {NoPV}])
        BY <3>2, <3>4 DEF Put, TypeOK
      <4>2. QED
        BY <2>1, <3>3, <4>1 DEF Bind, TypeOK, detectorVars, reconcilerVars
  <2>2. ASSUME NEW n \in Names, PodWrites(n) PROVE TypeOK'
    <3>1. api[n] \in PV
      BY <2>2, ExistsIsPV DEF PodWrites, Exists, TypeOK
    <3>2. api[n].path \in Devices /\ api[n].uid \in Nat
      BY <3>1 DEF PV
    <3>3. QED
      BY <2>2, <3>2 DEF PodWrites, TypeOK, apiVars, detectorVars, reconcilerVars
  <2>3. ASSUME NEW n \in Names, Release(n) PROVE TypeOK'
    <3> DEFINE pv == [api[n] EXCEPT !.phase = "Released"]
    <3>1. api[n] \in PV
      BY <2>3, ExistsIsPV DEF Release, Exists, TypeOK
    <3>2. pv \in PV
      BY <3>1 DEF PV
    <3>3. Put(n, pv)
      BY <2>3 DEF Release
    <3> HIDE DEF pv
    <3>4. QED
      <4>1. /\ api' \in [Names -> PV \cup {NoPV}]
            /\ watch' \in Seq([name: Names, pv: PV \cup {NoPV}])
        BY <3>2, <3>3 DEF Put, TypeOK
      <4>2. QED
        BY <2>3, <4>1 DEF Release, TypeOK, detectorVars, reconcilerVars
  <2>4. ASSUME NEW n \in Names, FinishDeletion(n) PROVE TypeOK'
    BY <2>4 DEF FinishDeletion, Put, TypeOK, detectorVars, reconcilerVars
  <2>5. ASSUME ChangeConfig PROVE TypeOK'
    BY <2>5, BoundAssumption
       DEF ChangeConfig, TypeOK, apiVars, detectorVars, reconcilerVars
  <2>6. QED
    BY <1>4, <2>1, <2>2, <2>3, <2>4, <2>5 DEF Cluster
<1>5. QED
  BY <1>1, <1>2, <1>3, <1>4

\* Types, for all values of the constants: in particular every volume seen by
\* do, by Reconcile and by the cache is a volume of a known device.
THEOREM TypeCorrect == Spec => []TypeOK
<1>1. Init => TypeOK
  <2> SUFFICES ASSUME Init PROVE TypeOK
    OBVIOUS
  <2>1. /\ api \in [Names -> PV \cup {NoPV}]
        /\ cache \in [Names -> PV \cup {NoPV}]
        /\ watch \in Seq([name: Names, pv: PV \cup {NoPV}])
    BY DEF Init
  <2>2. /\ data \in [Devices -> Nat]
        /\ nextUid \in Nat
        /\ gauges \in [avail: Nat, err: Nat]
    BY DEF Init, Blank, Foreign, FirstUid
  <2>3. QED
    <3>1. claims \in 0..MaxClaims /\ changes \in 0..MaxChanges /\ faults \in 0..MaxFaults
      BY BoundAssumption DEF Init
    <3>2. /\ dPc = "idle" /\ dTodo = {} /\ dWiped = FALSE /\ dAvail = {} /\ dErr = {}
          /\ rPc = "idle" /\ rPV = NoPV /\ queue = {}
          /\ dConf = NoConfig /\ config \in Configs \cup {NoConfig}
          /\ dDev \in Devices /\ rName \in Names
      BY AnyTypes DEF Init
    <3>3. QED
      BY <2>1, <2>2, <3>1, <3>2 DEF TypeOK
<1>2. TypeOK /\ [Next]_vars => TypeOK'
  <2> SUFFICES ASSUME TypeOK, [Next]_vars PROVE TypeOK'
    OBVIOUS
  <2>1. CASE UNCHANGED vars
    BY <2>1 DEF vars, apiVars, detectorVars, reconcilerVars, TypeOK
  <2>2. QED
    BY <2>1, DetectorType, ReconcilerType, EnvironmentType DEF Next
<1>3. QED
  BY <1>1, <1>2, PTL DEF Spec
-----------------------------------------------------------------------------
\* A step that leaves the API server, the devices and the detector's position
\* alone preserves the invariant.
LEMMA WipeInvUnchanged ==
    ASSUME WipeInv, TypeOK', UNCHANGED <<api, data, dPc, dDev, dWiped>>
    PROVE  WipeInv'
BY DEF WipeInv, NamedByPath, NameIsFree

\* Overwriting one volume by one of the same device, or by none, keeps the
\* names right and takes no name that is free.
LEMMA WipeInvPut ==
    ASSUME WipeInv, TypeOK', NEW n \in Names, NEW pv, Put(n, pv),
           Exists(api[n]),
           Exists(pv) => pv.path = api[n].path,
           UNCHANGED <<data, dPc, dDev, dWiped>>
    PROVE  WipeInv'
<1>1. api' = [api EXCEPT ![n] = pv] /\ api \in [Names -> PV \cup {NoPV}]
  BY DEF Put, WipeInv, TypeOK
<1>2. NamedByPath'
  <2> SUFFICES ASSUME NEW m \in Names, Exists(api'[m])
               PROVE  pvName[api'[m].path] = m
    BY DEF NamedByPath, Exists
  <2>1. CASE m = n
    BY <1>1, <2>1 DEF WipeInv, NamedByPath
  <2>2. CASE m # n
    BY <1>1, <2>2 DEF WipeInv, NamedByPath
  <2>3. QED
    BY <2>1, <2>2
<1>3. NameIsFree'
  <2>1. pvName[dDev] \in Names
    BY PVNameAssumption DEF WipeInv, TypeOK
  <2>2. ~Exists(api[pvName[dDev]]) => api'[pvName[dDev]] = api[pvName[dDev]]
    BY <1>1, <2>1
  <2>3. QED
    BY <2>2 DEF WipeInv, NameIsFree, Exists
<1>4. QED
  BY <1>2, <1>3 DEF WipeInv

\* The detector: only Probe claims that a name is free, and only after having
\* read so; only CreatePV takes a name, and it gives it up at once.
LEMMA WipeInvDetector ==
    ASSUME WipeInv, TypeOK', Detector
    PROVE  WipeInv'
<1>1. CASE DoNothing
  BY <1>1, WipeInvUnchanged DEF DoNothing, vars, apiVars, detectorVars
<1>2. CASE DoList
  BY <1>2 DEF DoList, WipeInv, NamedByPath, NameIsFree, apiVars
<1>3. CASE Probe
  <2>1. NamedByPath'
    BY <1>3 DEF Probe, apiVars, WipeInv, NamedByPath
  <2>2. NameIsFree'
    <3>1. dPc' = "wipe" => ~Exists(api[pvName[dDev']])
      BY <1>3 DEF Probe, PVFound, OnGetError
    <3>2. QED
      BY <1>3, <3>1 DEF Probe, apiVars, NameIsFree
  <2>3. QED
    BY <2>1, <2>2 DEF WipeInv
<1>4. CASE DetectorWipe
  <2>1. NamedByPath'
    BY <1>4 DEF DetectorWipe, apiVars, WipeInv, NamedByPath
  <2>2. CASE dPc' = "create"
    <3>1. data'[dDev] = Blank
      BY <1>4, <2>2 DEF DetectorWipe, WipeSucceeds, WipeInv, TypeOK
    <3>2. QED
      BY <1>4, <2>1, <2>2, <3>1 DEF DetectorWipe, apiVars, WipeInv, NameIsFree
  <2>3. CASE dPc' = "probe"
    BY <2>1, <2>3 DEF WipeInv, NameIsFree
  <2>4. QED
    BY <1>4, <2>2, <2>3 DEF DetectorWipe
<1>5. CASE CreatePV
  <2>1. NameIsFree'
    BY <1>5 DEF CreatePV, NameIsFree
  <2>2. NamedByPath'
    <3>1. CASE UNCHANGED apiVars
      BY <3>1 DEF apiVars, WipeInv, NamedByPath
    <3>2. CASE Written(pvName[dDev])
      <4> DEFINE n == pvName[dDev]
                 pv == IF Exists(cache[n]) THEN [cache[n] EXCEPT !.conf = dConf]
                                           ELSE NewPV
      <4>1. n \in Names /\ cache[n] \in PV \cup {NoPV}
        BY PVNameAssumption DEF WipeInv, TypeOK
      <4>2. pv.path = dDev
        <5>1. CASE Exists(cache[n])
          <6>1. cache[n] \in PV /\ cache[n].path = dDev
            BY <3>2, <4>1, <5>1, ExistsIsPV DEF Written, Updated
          <6>2. QED
            BY <5>1, <6>1 DEF PV
        <5>2. CASE ~Exists(cache[n])
          BY <5>2 DEF NewPV
        <5>3. QED
          BY <5>1, <5>2
      <4>3. api' = [api EXCEPT ![n] = pv]
        BY <3>2 DEF Written, Updated, Created, Put
      <4> HIDE DEF pv
      <4>4. QED
        BY <4>1, <4>2, <4>3 DEF WipeInv, TypeOK, NamedByPath
    <3>3. QED
      BY <1>5, <3>1, <3>2 DEF CreatePV
  <2>3. QED
    BY <2>1, <2>2 DEF WipeInv
<1>6. CASE DoReport
  BY <1>6 DEF DoReport, LeaveDo, WipeInv, NamedByPath, NameIsFree, apiVars
<1>7. QED
  BY <1>1, <1>2, <1>3, <1>4, <1>5, <1>6 DEF Detector

\* The reconciler blanks devices and marks volumes deleted, which frees names
\* but never takes one.
LEMMA WipeInvReconciler ==
    ASSUME WipeInv, TypeOK', Reconciler
    PROVE  WipeInv'
<1>1. CASE ReconcileGet
  BY <1>1, WipeInvUnchanged DEF ReconcileGet, apiVars, detectorVars
<1>2. CASE ReconcileWipe
  <2>1. \A d \in Devices : data'[d] \in {data[d], Blank}
    BY <1>2 DEF ReconcileWipe, WipeSucceeds, WipeFails, WipeInv, TypeOK
  <2>2. QED
    BY <1>2, <2>1
       DEF ReconcileWipe, WipeInv, TypeOK, NamedByPath, NameIsFree, apiVars, detectorVars
<1>3. CASE ReconcileDelete
  <2>1. rName \in Names
    BY DEF WipeInv, TypeOK
  <2>2. UNCHANGED <<data, dPc, dDev, dWiped>>
    BY <1>3 DEF ReconcileDelete, detectorVars
  <2>3. CASE UNCHANGED <<api, watch>>
    BY <2>2, <2>3, WipeInvUnchanged
  <2>4. CASE Exists(api[rName]) /\ Put(rName, [api[rName] EXCEPT !.deleting = TRUE])
    <3> DEFINE pv == [api[rName] EXCEPT !.deleting = TRUE]
    <3>1. api[rName] \in PV
      BY <2>1, <2>4, ExistsIsPV DEF WipeInv, TypeOK
    <3>2. pv.path = api[rName].path
      BY <3>1 DEF PV
    <3>3. Put(rName, pv)
      BY <2>4
    <3> HIDE DEF pv
    <3>4. QED
      BY <2>1, <2>2, <2>4, <3>2, <3>3, WipeInvPut
  <2>5. QED
    BY <1>3, <2>3, <2>4 DEF ReconcileDelete, MarkDeleted
<1>4. QED
  BY <1>1, <1>2, <1>3 DEF Reconciler

\* The manager and the cluster: a pod writes only to the device of an existing
\* volume, which is not the device whose name is free.
LEMMA WipeInvEnvironment ==
    ASSUME WipeInv, TypeOK', FireEvent \/ Deliver \/ Restart \/ Cluster
    PROVE  WipeInv'
<1>1. CASE FireEvent
  BY <1>1, WipeInvUnchanged DEF FireEvent, apiVars, detectorVars
<1>2. CASE Deliver
  BY <1>2, WipeInvUnchanged DEF Deliver, detectorVars
<1>3. CASE Restart
  BY <1>3 DEF Restart, LeaveDo, WipeInv, NamedByPath, NameIsFree
<1>4. CASE Cluster
  <2>1. ASSUME NEW n \in Names, NEW ph \in {"Bound", "Released"},
               Exists(api[n]), Put(n, [api[n] EXCEPT !.phase = ph]),
               UNCHANGED <<data, detectorVars>>
        PROVE  WipeInv'
    <3> DEFINE pv == [api[n] EXCEPT !.phase = ph]
    <3>1. api[n] \in PV
      BY <2>1, ExistsIsPV DEF WipeInv, TypeOK
    <3>2. pv.path = api[n].path
      BY <3>1 DEF PV
    <3>3. Put(n, pv)
      BY <2>1
    <3> HIDE DEF pv
    <3>4. QED
      BY <2>1, <3>2, <3>3, WipeInvPut DEF detectorVars
  <2>2. ASSUME NEW n \in Names, Bind(n) PROVE WipeInv'
    BY <2>1, <2>2 DEF Bind, Exists
  <2>3. ASSUME NEW n \in Names, Release(n) PROVE WipeInv'
    BY <2>1, <2>3 DEF Release, Exists
  <2>4. ASSUME NEW n \in Names, FinishDeletion(n) PROVE WipeInv'
    <3>1. Exists(api[n]) /\ ~Exists(NoPV) /\ Put(n, NoPV)
      BY <2>4 DEF FinishDeletion, Exists, NoPV
    <3>2. QED
      BY <2>4, <3>1, WipeInvPut DEF FinishDeletion, detectorVars
  <2>5. ASSUME NEW n \in Names, PodWrites(n) PROVE WipeInv'
    <3>1. api[n] \in PV /\ Exists(api[n])
      BY <2>5, ExistsIsPV DEF PodWrites, Exists, WipeInv, TypeOK
    <3>2. api[n].path \in Devices /\ pvName[api[n].path] = n
      BY <3>1 DEF WipeInv, NamedByPath, PV
    <3>3. \A d \in Devices : pvName[d] # n => data'[d] = data[d]
      BY <2>5, <3>2 DEF PodWrites, WipeInv, TypeOK
    <3>4. UNCHANGED <<api, dPc, dDev, dWiped>>
      BY <2>5 DEF PodWrites, apiVars, detectorVars
    <3>5. QED
      BY <3>1, <3>3, <3>4 DEF WipeInv, TypeOK, NamedByPath, NameIsFree
  <2>6. ASSUME ChangeConfig PROVE WipeInv'
    BY <2>6, WipeInvUnchanged DEF ChangeConfig, apiVars, detectorVars
  <2>7. QED
    BY <1>4, <2>2, <2>3, <2>4, <2>5, <2>6 DEF Cluster
<1>5. QED
  BY <1>1, <1>2, <1>3, <1>4

LEMMA WipeInvInvariant == Spec => []WipeInv
<1>1. Init /\ TypeOK => WipeInv
  BY DEF Init, WipeInv, NamedByPath, NameIsFree, Exists, NoPV
<1>2. WipeInv /\ TypeOK' /\ [Next]_vars => WipeInv'
  <2> SUFFICES ASSUME WipeInv, TypeOK', [Next]_vars PROVE WipeInv'
    OBVIOUS
  <2>1. CASE UNCHANGED vars
    BY <2>1, WipeInvUnchanged DEF vars, apiVars, detectorVars
  <2>2. QED
    BY <2>1, WipeInvDetector, WipeInvReconciler, WipeInvEnvironment DEF Next
<1>3. QED
  BY <1>1, <1>2, TypeCorrect, PTL DEF Spec

\* NotFound from reader.Get stays true until the detector has wiped the device
\* and created its volume: no interleaving, fault or restart lets the detector
\* wipe a device that has a volume, and nobody writes to the device between the
\* wipe and the creation.
THEOREM DetectorWipesOnlyFreeDevices == Spec => []WipesOnlyFreeDevices
<1>1. WipeInv => WipesOnlyFreeDevices
  <2> SUFFICES ASSUME WipeInv, dPc = "wipe" \/ (dPc = "create" /\ dWiped)
               PROVE  /\ \A n \in Names : Exists(api[n]) => api[n].path # dDev
                      /\ dPc = "create" => data[dDev] = Blank
    BY DEF WipesOnlyFreeDevices
  <2>1. ASSUME NEW n \in Names, Exists(api[n]), api[n].path = dDev
        PROVE  FALSE
    BY <2>1 DEF WipeInv, NamedByPath, NameIsFree
  <2>2. QED
    BY <2>1 DEF WipeInv, NameIsFree
<1>2. QED
  BY <1>1, WipeInvInvariant, PTL

\* No step of DeviceDetector.do changes what a pod wrote to a bound volume.
THEOREM DetectorNeverDestroysLiveData == Spec => DetectorKeepsLiveData
<1>1. WipeInv /\ [Next]_vars =>
        [Detector => \A n \in Names :
            api[n].phase = "Bound" => data'[api[n].path] = data[api[n].path]]_vars
  <2> SUFFICES ASSUME WipeInv, Detector, NEW n \in Names, api[n].phase = "Bound"
               PROVE  data'[api[n].path] = data[api[n].path]
    OBVIOUS
  <2>1. Exists(api[n]) /\ pvName[api[n].path] = n
    BY DEF Exists, WipeInv, NamedByPath
  <2>2. CASE DetectorWipe
    <3>1. ~Exists(api[pvName[dDev]])
      BY <2>2 DEF DetectorWipe, WipeInv, NameIsFree
    <3>2. api[n].path # dDev
      BY <2>1, <3>1
    <3>3. api[n] \in PV
      BY <2>1, ExistsIsPV DEF WipeInv, TypeOK
    <3>4. api[n].path \in Devices
      BY <3>3 DEF PV
    <3>5. QED
      BY <2>2, <3>2, <3>4 DEF DetectorWipe, WipeSucceeds, WipeFails, WipeInv, TypeOK
  <2>3. CASE ~DetectorWipe
    BY <2>3 DEF Detector, DoNothing, DoList, Probe, CreatePV, DoReport, vars
  <2>4. QED
    BY <2>2, <2>3
<1>2. QED
  BY <1>1, WipeInvInvariant, PTL DEF Spec, DetectorKeepsLiveData
-----------------------------------------------------------------------------
(***************************************************************************)
(* FillDeleter.Delete, for every device size, block size, number of blocks *)
(* and increasing list of positions.                                       *)
(***************************************************************************)
\* Regions before the current position are filled.
FilledUpTo(q) == \A k \in 1..Len(Positions) : \A b \in Nat :
                    k < q /\ InRegion(b, k) => b \in zeroed

\* Inside a region the offset is where the loop variable says, unless the end
\* of the device was reached first, and everything before it is filled.
Filling ==
    /\ p <= Len(Positions)
    /\ offset = From \/ (offset = fileSize /\ fileSize <= From)
    /\ \A b \in Nat : Positions[p] <= b /\ b < offset => b \in zeroed

FillInv ==
    /\ FillTypeOK
    /\ OnlyRegions
    /\ pc \in {"open", "seek", "fill"} => FilledUpTo(p)
    /\ pc = "fill" => Filling
    /\ pc \in {"sync", "ok"} => FilledUpTo(Len(Positions) + 1)

\* The arithmetic of From and To.
LEMMA Products ==
    ASSUME NEW B \in Nat, NEW C \in Nat, NEW j \in 0..C
    PROVE  /\ j * B \in Nat
           /\ (j + 1) * B = j * B + B
           /\ j * B <= C * B
           /\ C * B \in Nat
<1>1. (C - j) * B >= 0
  OBVIOUS
<1>2. (C - j) * B = C * B - j * B
  OBVIOUS
<1>3. QED
  BY <1>1, <1>2

\* The block written next: it starts at the offset, ends inside the region and
\* inside the device.
LEMMA Block ==
    ASSUME FillInv, pc = "fill", ~FillDone
    PROVE  /\ p \in 1..Len(Positions) /\ Positions[p] \in Nat
           /\ From \in Nat /\ Length \in Nat
           /\ i < FillCount
           /\ To = From + FillBlockSize
           /\ offset = From
           /\ Positions[p] <= offset
           /\ offset + Length <= fileSize
           /\ offset + Length <= Positions[p] + FillCount * FillBlockSize
           /\ fileSize <= To => offset + Length = fileSize
           /\ fileSize > To => offset + Length = To
<1> USE FillAssumption
<1>1. p \in 1..Len(Positions) /\ Positions[p] \in Nat
  BY DEF FillInv, Filling, FillTypeOK
<1>2. i \in 0..FillCount /\ i < FillCount /\ fileSize \in Nat /\ From < fileSize
  <2>1. i \in 0..FillCount /\ fileSize \in 0..MaxSize
    BY DEF FillInv, FillTypeOK
  <2>2. i # FillCount /\ ~(fileSize <= From)
    BY DEF FillDone
  <2>3. From \in Nat
    BY <1>1, <2>1, Products DEF From
  <2>4. QED
    BY <2>1, <2>2, <2>3
<1>3. i * FillBlockSize \in Nat /\ (i + 1) * FillBlockSize = i * FillBlockSize + FillBlockSize
  BY <1>2, Products
<1>4. i + 1 \in 0..FillCount
  BY <1>2
<1>5. (i + 1) * FillBlockSize <= FillCount * FillBlockSize /\ FillCount * FillBlockSize \in Nat
  BY <1>4, Products
<1>6. From \in Nat /\ To = From + FillBlockSize /\ Positions[p] <= From
      /\ To <= Positions[p] + FillCount * FillBlockSize
  BY <1>1, <1>3, <1>5 DEF From, To
<1>7. offset = From
  BY <1>2, <1>6 DEF FillInv, Filling
<1>8. QED
  BY <1>1, <1>2, <1>6, <1>7 DEF Length

\* Writing from the offset towards the end of the block stays in the region.
LEMMA WriteInRegion ==
    ASSUME FillInv, pc = "fill", ~FillDone, NEW n \in 0..Length,
           zeroed' = zeroed \cup (offset..(offset + n - 1)),
           fileSize' = fileSize
    PROVE  /\ OnlyRegions'
           /\ zeroed' \subseteq Nat
           /\ zeroed \subseteq zeroed'
<1> USE FillAssumption
<1>1. p \in 1..Len(Positions) /\ offset \in Nat /\ n \in Nat /\ Length \in Nat
  BY Block DEF FillInv, FillTypeOK
<1>2. ASSUME NEW b \in offset..(offset + n - 1)
      PROVE  b \in Nat /\ \E k \in 1..Len(Positions) : InRegion(b, k)'
  <2>1. b \in Nat /\ offset <= b /\ b < offset + Length
    BY <1>1, <1>2
  <2>2. Positions[p] <= b /\ b < fileSize
    <3>1. /\ Positions[p] \in Nat /\ offset \in Nat /\ fileSize \in Nat
          /\ Positions[p] <= offset /\ offset + Length <= fileSize
      BY Block DEF FillInv, FillTypeOK
    <3>2. QED
      BY <1>1, <2>1, <3>1
  <2>3. b < Positions[p] + FillCount * FillBlockSize
    <3>1. FillCount * FillBlockSize \in Nat
      BY Products
    <3>2. Positions[p] \in Nat /\ offset + Length <= Positions[p] + FillCount * FillBlockSize
      BY Block
    <3>3. QED
      BY <1>1, <2>1, <3>1, <3>2
  <2>4. QED
    BY <1>1, <2>1, <2>2, <2>3 DEF InRegion
<1>3. ASSUME NEW b \in zeroed
      PROVE  b \in Nat /\ \E k \in 1..Len(Positions) : InRegion(b, k)'
  BY <1>3 DEF FillInv, OnlyRegions, FillTypeOK, InRegion
<1>4. QED
  BY <1>1, <1>2, <1>3 DEF OnlyRegions

\* Filling more bytes keeps the finished regions filled.
LEMMA FilledMonotone ==
    ASSUME NEW q, FilledUpTo(q), zeroed \subseteq zeroed', fileSize' = fileSize
    PROVE  \A k \in 1..Len(Positions) : \A b \in Nat :
              k < q /\ InRegion(b, k)' => b \in zeroed'
BY DEF FilledUpTo, InRegion

\* A step that writes nothing keeps what is about the bytes alone.
LEMMA OnlyRegionsUnchanged ==
    ASSUME OnlyRegions, UNCHANGED <<fileSize, zeroed>>
    PROVE  OnlyRegions'
BY DEF OnlyRegions, InRegion

LEMMA FillInvStep ==
    ASSUME FillInv, [FillNext]_fillVars
    PROVE  FillInv'
<1> USE FillAssumption
<1>1. CASE UNCHANGED fillVars
  BY <1>1 DEF fillVars, FillInv, FillTypeOK, OnlyRegions, FilledUpTo, Filling, From, InRegion
<1>2. CASE OpenFile
  <2>1. OnlyRegions'
    BY <1>2, OnlyRegionsUnchanged DEF OpenFile, Fail, FillInv
  <2>2. QED
    BY <1>2, <2>1 DEF OpenFile, Fail, FillInv, FillTypeOK, FilledUpTo, InRegion
<1>3. CASE SeekPosition
  <2>1. OnlyRegions' /\ fileSize' = fileSize /\ zeroed' = zeroed /\ p' = p /\ pc = "seek"
    BY <1>3, OnlyRegionsUnchanged DEF SeekPosition, Fail, FillInv
  <2>2. FilledUpTo(p) /\ FilledUpTo(p)'
    BY <2>1 DEF FillInv, FilledUpTo, InRegion
  <2>3. CASE p > Len(Positions) \/ Positions[p] >= fileSize
    \* What is left lies beyond the end of the device.
    <3>1. pc' = "sync" /\ i' = i /\ offset' = offset
      BY <1>3, <2>3 DEF SeekPosition
    <3>2. ASSUME NEW k \in 1..Len(Positions), NEW b \in Nat, InRegion(b, k)
          PROVE  b \in zeroed
      <4>1. CASE k < p
        BY <2>2, <3>2, <4>1 DEF FilledUpTo
      <4>2. CASE ~(k < p)
        <5>1. p \in 1..Len(Positions) /\ p <= k /\ Positions[p] >= fileSize
          BY <2>3, <4>2 DEF FillInv, FillTypeOK
        <5>2. Positions[p] <= Positions[k] /\ Positions[p] \in Nat /\ Positions[k] \in Nat
          BY <5>1
        <5>3. QED
          BY <3>2, <5>1, <5>2 DEF InRegion, FillInv, FillTypeOK
      <4>3. QED
        BY <4>1, <4>2
    <3>3. FilledUpTo(Len(Positions) + 1)'
      BY <2>1, <3>2 DEF FilledUpTo, InRegion
    <3>4. QED
      BY <2>1, <3>1, <3>3 DEF FillInv, FillTypeOK
  <2>4. CASE ~(p > Len(Positions) \/ Positions[p] >= fileSize)
    <3>0. p \in 1..Len(Positions) /\ Positions[p] \in Nat
      BY <2>4 DEF FillInv, FillTypeOK
    <3>1. CASE Fail
      BY <2>1, <3>1 DEF Fail, FillInv, FillTypeOK
    <3>2. CASE offset' = Positions[p] /\ i' = 0 /\ pc' = "fill"
      <4>1. From' = Positions[p]
        BY <2>1, <3>0, <3>2 DEF From
      <4>2. Filling'
        BY <2>1, <3>0, <3>2, <4>1 DEF Filling
      <4>3. i' \in 0..FillCount
        BY <3>2
      <4>4. QED
        BY <2>1, <2>2, <3>0, <3>2, <4>2, <4>3 DEF FillInv, FillTypeOK
    <3>3. QED
      BY <1>3, <2>4, <3>1, <3>2 DEF SeekPosition
  <2>5. QED
    BY <2>3, <2>4
<1>4. CASE Fill
  <2>0. pc = "fill" /\ ~FillDone /\ fileSize' = fileSize /\ p' = p
    BY <1>4 DEF Fill
  <2>n. FilledUpTo(p) /\ Filling /\ FillTypeOK
    BY <2>0 DEF FillInv
  <2>1. CASE /\ zeroed' = zeroed \cup (offset..(offset + Length - 1))
             /\ offset' = offset + Length /\ i' = i + 1 /\ pc' = pc
    <3>1. Length \in 0..Length /\ offset \in Nat /\ Length \in Nat
      BY <2>0, <2>n, Block DEF FillTypeOK
    <3>2. OnlyRegions' /\ zeroed' \subseteq Nat /\ zeroed \subseteq zeroed'
      BY <2>0, <2>1, <3>1, WriteInRegion
    <3>3. FilledUpTo(p)'
      BY <2>0, <2>n, <3>2, FilledMonotone DEF FilledUpTo, InRegion
    <3>4. Filling'
      <4>1. From' = To
        BY <2>0, <2>1 DEF From, To
      <4>2. offset' = From' \/ (offset' = fileSize' /\ fileSize' <= From')
        <5>1. fileSize \in Nat
          BY <2>n DEF FillTypeOK
        <5>2. From \in Nat /\ To = From + FillBlockSize
          BY <2>0, Block
        <5>3. To \in Nat
          BY <5>2
        <5>4. QED
          BY <2>0, <2>1, <4>1, <5>1, <5>3, Block
      <4>3. ASSUME NEW b \in Nat, Positions[p] <= b, b < offset'
            PROVE  b \in zeroed'
        <5>1. CASE b < offset
          BY <2>n, <3>2, <4>3, <5>1 DEF Filling
        <5>2. CASE ~(b < offset)
          <6>1. b < offset + Length
            BY <2>1, <4>3
          <6>2. b \in offset..(offset + Length - 1)
            BY <3>1, <5>2, <6>1
          <6>3. QED
            BY <2>1, <6>2
        <5>3. QED
          BY <5>1, <5>2
      <4>4. QED
        BY <2>0, <2>n, <4>2, <4>3 DEF Filling
    <3>5. i' \in 0..FillCount /\ offset' \in Nat
      BY <2>0, <2>1, <2>n, <3>1, Block DEF FillTypeOK
    <3>6. QED
      BY <2>0, <2>1, <2>n, <3>2, <3>3, <3>4, <3>5 DEF FillInv, FillTypeOK
  <2>2. CASE \E n \in 0..Length :
               /\ zeroed' = zeroed \cup (offset..(offset + n - 1))
               /\ offset' = offset + n
               /\ pc' = "error"
               /\ UNCHANGED <<fileSize, p, i>>
    <3>1. PICK n \in 0..Length :
               /\ zeroed' = zeroed \cup (offset..(offset + n - 1))
               /\ offset' = offset + n
               /\ pc' = "error"
               /\ UNCHANGED <<fileSize, p, i>>
      BY <2>2
    <3>2. OnlyRegions' /\ zeroed' \subseteq Nat
      BY <2>0, <3>1, WriteInRegion
    <3>3. offset' \in Nat
      BY <2>0, <2>n, <3>1, Block DEF FillTypeOK
    <3>4. QED
      BY <2>n, <3>1, <3>2, <3>3 DEF FillInv, FillTypeOK
  <2>3. QED
    BY <1>4, <2>1, <2>2 DEF Fill
<1>5. CASE NextPosition
  <2>0. /\ pc = "fill" /\ FillDone /\ p' = p + 1 /\ pc' = "seek"
        /\ UNCHANGED <<fileSize, i, offset, zeroed>>
    BY <1>5 DEF NextPosition
  <2>n. FilledUpTo(p) /\ Filling /\ FillTypeOK /\ OnlyRegions
    BY <2>0 DEF FillInv
  <2>1. OnlyRegions'
    BY <2>0, <2>n, OnlyRegionsUnchanged
  <2>2. p \in 1..Len(Positions) /\ Positions[p] \in Nat /\ i \in 0..FillCount
    BY <2>n DEF Filling, FillTypeOK
  \* All blocks are written or the device ended: the region is full.
  <2>3. ASSUME NEW b \in Nat, InRegion(b, p)
        PROVE  b \in zeroed
    <3>1. CASE i = FillCount
      <4>1. FillCount * FillBlockSize \in Nat
        BY Products
      <4>2. b < offset
        BY <2>3, <2>n, <2>2, <3>1, <4>1 DEF InRegion, Filling, From
      <4>3. QED
        BY <2>3, <2>n, <4>2 DEF InRegion, Filling
    <3>2. CASE fileSize <= From
      <4>1. i * FillBlockSize \in Nat
        BY <2>2, Products
      <4>2. From \in Nat /\ fileSize \in Nat
        BY <2>n, <2>2, <4>1 DEF From, FillTypeOK
      <4>3. b < offset
        BY <2>3, <2>n, <3>2, <4>2 DEF InRegion, Filling
      <4>4. QED
        BY <2>3, <2>n, <4>3 DEF InRegion, Filling
    <3>3. QED
      BY <2>0, <3>1, <3>2 DEF FillDone
  <2>4. FilledUpTo(p)'
    <3> SUFFICES ASSUME NEW k \in 1..Len(Positions), NEW b \in Nat,
                        k < p + 1, InRegion(b, k)
                 PROVE  b \in zeroed
      BY <2>0 DEF FilledUpTo, InRegion
    <3>1. CASE k = p
      BY <2>3, <3>1
    <3>2. CASE k < p
      BY <2>n, <3>2 DEF FilledUpTo
    <3>3. QED
      BY <2>2, <3>1, <3>2
  <2>5. QED
    BY <2>0, <2>n, <2>1, <2>2, <2>4 DEF FillInv, FillTypeOK
<1>6. CASE Sync
  <2>1. OnlyRegions'
    BY <1>6, OnlyRegionsUnchanged DEF Sync, Fail, FillInv
  <2>2. QED
    BY <1>6, <2>1 DEF Sync, Fail, FillInv, FillTypeOK, FilledUpTo, InRegion
<1>7. CASE Returned
  BY <1>1, <1>7 DEF Returned
<1>8. QED
  BY <1>1, <1>2, <1>3, <1>4, <1>5, <1>6, <1>7 DEF FillNext

LEMMA FillInvariant == FillSpec => []FillInv
<1> USE FillAssumption
<1>1. FillInit => FillInv
  BY DEF FillInit, FillInv, FillTypeOK, OnlyRegions, FilledUpTo
<1>2. FillInv /\ [FillNext]_fillVars => FillInv'
  BY FillInvStep
<1>3. QED
  BY <1>1, <1>2, PTL DEF FillSpec

\* Delete never writes outside the promised regions, nor beyond the device.
THEOREM WritesOnlyRegions == FillSpec => []OnlyRegions
BY FillInvariant, PTL DEF FillInv

\* When Delete returns nil, every promised region that the device has is
\* zeroed, for every size of the device.
THEOREM NilMeansWiped == FillSpec => []SuccessMeansWiped
<1> USE FillAssumption
<1>1. FillInv => SuccessMeansWiped
  BY DEF FillInv, SuccessMeansWiped, FilledUpTo
<1>2. QED
  BY <1>1, FillInvariant, PTL
=============================================================================
