-------------------------- MODULE MachinesEndpoints --------------------------
(***************************************************************************)
(* machines-endpoints, the job that copies what sabakan knows of the       *)
(* machines into EndpointSlices and ConfigMaps, one API call after the     *)
(* other, and bmc-reverse-proxy, which reloads one of the ConfigMaps and   *)
(* directs requests by it.                                                 *)
(*                                                                         *)
(* The CronJob starts a job every minute and allows jobs to overlap; a job *)
(* that fails or is killed leaves what it has written.                     *)
(*                                                                         *)
(* External: sabakan, the API server, the CronJob controller.  A machine   *)
(* is known by its serial, which is also its BMC's address here; its slot  *)
(* in a rack gives its host name and its IP address, and passes to another *)
(* machine when it is replaced.                                            *)
(***************************************************************************)
EXTENDS Integers, FiniteSets

CONSTANTS
    Serials,        \* serials of machines, ordered: natural numbers
    Slots,          \* places in racks
    BootSlots,      \* those of boot servers
    MaxEndpoints,   \* --max-endpoints-per-slice
    CommandLines,   \* choices of the parts that the options ask for
    Initial,        \* what sabakan knows at first
    Shapes,         \* bound: what sabakan may say of each machine
    Jobs,           \* bound: jobs that overlap
    MaxChanges,     \* bound: changes in sabakan
    MaxFaults       \* bound: failing or killed jobs and proxies

ASSUME MachinesAssumption ==
    /\ Serials \subseteq Nat \ {0} /\ IsFiniteSet(Serials)
    /\ BootSlots \subseteq Slots
    /\ MaxEndpoints \in 1..1000
    /\ MaxChanges \in Nat /\ MaxFaults \in Nat

Targets == {"all", "boot"}
Parts == <<"all", "boot", "proxy", "log">>

ASSUME OptionsAssumption == CommandLines \subseteq SUBSET {Parts[n] : n \in 1..4}

\* ip: the address can be used, cannot be parsed, or there is none.
Machine == [slot: Slots, retired: BOOLEAN, ip: {"good", "bad", "none"}, bmc: BOOLEAN]

ASSUME ShapesAssumption == \A m \in Serials : Shapes[m] \subseteq Machine

Absent == [absent |-> TRUE]

VARIABLES
    enabled,    \* the parts that the options ask for
    sabakan,    \* the machines, by serial
    objects,    \* target Services and ConfigMaps that exist
    slices,     \* IPs of each target's EndpointSlices, by index; {}: no slice
    proxyMap, logList,  \* the data of the ConfigMaps
    job,        \* running jobs
    alone,      \* history: jobs that no other job has overlapped
    proxy,      \* bmc-reverse-proxy: what its caches hold
    changes, faults     \* what is left of the bounds

clusterVars == <<objects, slices, proxyMap, logList>>
vars == <<enabled, sabakan, clusterVars, job, alone, proxy, changes, faults>>

Here(m) == m # Absent

\* No two machines are in the same slot.
Valid(machines) ==
    \A m, n \in Serials :
        m # n /\ Here(machines[m]) /\ Here(machines[n]) => machines[m].slot # machines[n].slot

ASSUME InitialAssumption == Initial \in [Serials -> Machine \cup {Absent}] /\ Valid(Initial)

\* No entries; a nil map in Go.
NoData == [name \in {} |-> 0]

Idle == [at |-> "idle"]

Init ==
    /\ sabakan = Initial
    /\ enabled \in CommandLines
    /\ objects = {}
    /\ slices = [t \in Targets |-> [n \in 0..Cardinality(Serials) |-> {}]]
    /\ proxyMap = NoData /\ logList = NoData
    /\ job = [j \in Jobs |-> Idle]
    /\ alone = {}
    /\ proxy = [cert |-> FALSE, map |-> NoData, next |-> "cert"]
    /\ changes = MaxChanges /\ faults = MaxFaults
-----------------------------------------------------------------------------
(***************************************************************************)
(* The data of each part, from an answer of sabakan.                       *)
(***************************************************************************)
\* allServerIPs and bootServerIPs, by serial.
Listed(t, answer) ==
    {m \in Serials : /\ Here(answer[m])
                     /\ ~answer[m].retired
                     /\ answer[m].ip = "good"
                     /\ t = "boot" => answer[m].slot \in BootSlots}

\* Chunk n of the list sorted by serial, as IPs.
Chunk(t, answer, n) ==
    LET listed == Listed(t, answer)
        Rank(m) == Cardinality({x \in listed : x < m})
    IN  {answer[m].slot : m \in {x \in listed : Rank(x) \div MaxEndpoints = n}}

\* Machines that both ConfigMaps have: with a BMC's address and an IP.
WithBMC(answer) ==
    {m \in Serials : Here(answer[m]) /\ answer[m].bmc /\ answer[m].ip # "none"}

\* bmcReverseProxyConfigMapData: host name, dashed IP and serial to address.
bmcReverseProxyConfigMapData(answer) ==
    LET slotOf(m) == answer[m].slot
        names == {<<kind, slotOf(m)>> : kind \in {"host", "ip"}, m \in WithBMC(answer)}
                   \cup {<<"SERIAL", m>> : m \in WithBMC(answer)}
    IN  [name \in names |-> CHOOSE m \in WithBMC(answer) :
                               name \in {<<"host", slotOf(m)>>, <<"ip", slotOf(m)>>, <<"SERIAL", m>>}]

\* bmcLogCollectorConfigMapData: serial with address and node IP.
bmcLogCollectorConfigMapData(answer) ==
    [m \in WithBMC(answer) |-> answer[m].slot]
-----------------------------------------------------------------------------
(***************************************************************************)
(* subMain.                                                                *)
(***************************************************************************)
\* The parts that come after the nth one, in order.
After(n) == {k \in n+1..4 : Parts[k] \in enabled}

\* The state of a job that goes on behind the nth part.
Begin(n, answer) ==
    IF After(n) = {} THEN Idle
    ELSE LET k == CHOOSE x \in After(n) : \A y \in After(n) : x <= y
         IN  [at |-> Parts[k], number |-> k, phase |-> "service", slice |-> 0,
              doomed |-> {}, answer |-> answer]

SetJob(j, state) == job' = [job EXCEPT ![j] = state]

\* getMachines.  Without an answer a job leaves no trace.
GetMachines(j) ==
    /\ job[j] = Idle
    /\ SetJob(j, Begin(0, sabakan))
    /\ alone' = IF \A k \in Jobs : job[k] = Idle THEN {j} ELSE {}
    /\ UNCHANGED <<enabled, sabakan, clusterVars, proxy, changes, faults>>

ApplyService(j) ==
    /\ job[j].at \in Targets /\ job[j].phase = "service"
    /\ objects' = objects \cup {job[j].at}
    /\ SetJob(j, [job[j] EXCEPT !.phase = "slices"])
    /\ UNCHANGED <<enabled, sabakan, slices, proxyMap, logList, alone, proxy, changes, faults>>

\* One EndpointSlice per chunk.
ApplySlice(j) ==
    LET t == job[j].at
        n == job[j].slice
        chunk == Chunk(t, job[j].answer, n)
    IN  /\ t \in Targets /\ job[j].phase = "slices"
        /\ chunk # {}
        /\ slices' = [slices EXCEPT ![t][n] = chunk]
        /\ SetJob(j, [job[j] EXCEPT !.slice = n + 1])
        /\ UNCHANGED <<enabled, sabakan, objects, proxyMap, logList, alone, proxy, changes,
                       faults>>

\* Mutant of Doomed: nothing is left to delete when there is nothing to list.
DoomedIfAny(t, count) ==
    IF count = 0 THEN {} ELSE {n \in DOMAIN slices[t] : n >= count /\ slices[t][n] # {}}

\* The slices in the list that the job has not written.
Doomed(t, count) == {n \in DOMAIN slices[t] : n >= count /\ slices[t][n] # {}}

\* The slices that are still to be deleted; after the last one the target is done.
GoOn(j, doomed) ==
    SetJob(j, IF doomed = {} THEN Begin(job[j].number, job[j].answer)
              ELSE [job[j] EXCEPT !.phase = "delete", !.doomed = doomed])

ListSlices(j) ==
    LET t == job[j].at IN
    /\ t \in Targets /\ job[j].phase = "slices"
    /\ Chunk(t, job[j].answer, job[j].slice) = {}
    /\ GoOn(j, Doomed(t, job[j].slice))
    /\ UNCHANGED <<enabled, sabakan, clusterVars, alone, proxy, changes, faults>>

\* One after the other; a slice that is gone already is no error.
DeleteSlice(j) ==
    LET t == job[j].at IN
    /\ t \in Targets /\ job[j].phase = "delete"
    /\ \E n \in job[j].doomed :
          /\ slices' = [slices EXCEPT ![t][n] = {}]
          /\ GoOn(j, job[j].doomed \ {n})
    /\ UNCHANGED <<enabled, sabakan, objects, proxyMap, logList, alone, proxy, changes,
                   faults>>

applyConfigMap(j) ==
    LET answer == job[j].answer IN
    /\ \/ /\ job[j].at = "proxy"
          /\ proxyMap' = bmcReverseProxyConfigMapData(answer)
          /\ UNCHANGED logList
       \/ /\ job[j].at = "log"
          /\ logList' = bmcLogCollectorConfigMapData(answer)
          /\ UNCHANGED proxyMap
    /\ objects' = objects \cup {job[j].at}
    /\ SetJob(j, Begin(job[j].number, answer))
    /\ UNCHANGED <<enabled, sabakan, slices, alone, proxy, changes, faults>>

Fault == faults > 0 /\ faults' = faults - 1

\* A call fails and subMain returns its error, or the pod is killed.
JobFails(j) ==
    /\ job[j] # Idle
    /\ Fault
    /\ SetJob(j, Idle)
    /\ UNCHANGED <<enabled, sabakan, clusterVars, alone, proxy, changes>>

JobStep(j) ==
    \/ ApplyService(j) \/ ApplySlice(j) \/ ListSlices(j) \/ DeleteSlice(j)
    \/ applyConfigMap(j)
-----------------------------------------------------------------------------
(***************************************************************************)
(* bmc-reverse-proxy.  An error of the update loop ends the process; the   *)
(* next one starts with empty caches.                                      *)
(***************************************************************************)
FreshProxy == [cert |-> FALSE, map |-> NoData, next |-> "cert"]

updateCertificate ==
    /\ proxy.next = "cert"
    /\ proxy' = [proxy EXCEPT !.cert = TRUE, !.next = "map"]
    /\ UNCHANGED <<enabled, sabakan, clusterVars, job, alone, changes, faults>>

\* Mutant of Loaded: entries that are gone stay in the cache.
LoadedOver(data) ==
    [name \in DOMAIN data \cup DOMAIN proxy.map |->
        IF name \in DOMAIN data THEN data[name] ELSE proxy.map[name]]

\* The ConfigMap's data replaces the map as a whole.
Loaded(data) == data

\* Then the loop waits for the ticker.
updateResolveMap ==
    /\ proxy.next = "map"
    /\ "proxy" \in objects
    /\ proxy' = [proxy EXCEPT !.map = Loaded(proxyMap), !.next = "cert"]
    /\ UNCHANGED <<enabled, sabakan, clusterVars, job, alone, changes, faults>>

\* There is no ConfigMap.
updateResolveMapFails ==
    /\ proxy.next = "map"
    /\ "proxy" \notin objects
    /\ proxy' = FreshProxy
    /\ UNCHANGED <<enabled, sabakan, clusterVars, job, alone, changes, faults>>

ProxyFails ==
    /\ Fault
    /\ proxy' = FreshProxy
    /\ UNCHANGED <<enabled, sabakan, clusterVars, job, alone, changes>>

ProxyStep == updateCertificate \/ updateResolveMap \/ updateResolveMapFails

\* A host name with the name of the cluster before it: only before the name of a
\* boot server, boot-N, the prefix is trimmed.
getHostname(name) ==
    IF name[1] = "cluster-host" /\ name[2] \in BootSlots THEN <<"host", name[2]>> ELSE name

\* The invalid address 0.0.0.0.
Unresolved == 0

\* Clients write serials in lower case.
ToUpper(name) == IF name[1] = "serial" THEN <<"SERIAL", name[2]>> ELSE name

\* directorToInner with the cached map; getCertificate fails before the first
\* certificate.
directorToInner(request) ==
    LET name == getHostname(request)
        Known(n) == n \in DOMAIN proxy.map
    IN  IF Known(name) THEN proxy.map[name]
        ELSE IF Known(ToUpper(name)) THEN proxy.map[ToUpper(name)]
        ELSE Unresolved
-----------------------------------------------------------------------------
\* External: machines are registered, retired, repaired, replaced and removed.
ChangeMachine(m) ==
    /\ changes > 0
    /\ changes' = changes - 1
    /\ \E spec \in (Shapes[m] \cup {Absent}) \ {sabakan[m]} : sabakan' = [sabakan EXCEPT ![m] = spec]
    /\ Valid(sabakan')
    /\ UNCHANGED <<enabled, clusterVars, job, alone, proxy, faults>>

Next ==
    \/ \E j \in Jobs : GetMachines(j) \/ JobStep(j) \/ JobFails(j)
    \/ ProxyStep \/ ProxyFails
    \/ \E m \in Serials : ChangeMachine(m)

Spec == Init /\ [][Next]_vars

\* The CronJob starts jobs, jobs run, the proxy's ticker fires.
Fairness ==
    /\ \A j \in Jobs : WF_vars(GetMachines(j)) /\ WF_vars(JobStep(j))
    /\ WF_vars(ProxyStep)

FairSpec == Spec /\ Fairness
-----------------------------------------------------------------------------
(***************************************************************************)
(* Properties.                                                             *)
(***************************************************************************)
\* A job that was alone leaves each target, once it is through with it, with
\* exactly the machines of its answer, each in one slice, in slices of at most
\* MaxEndpoints, whatever failed or overlapping jobs before it had left.
SuccessMeansListed ==
    \A j \in alone : \A n \in 1..2 :
        LET t == Parts[n]
            ips == {job[j].answer[m].slot : m \in Listed(t, job[j].answer)}
        IN  job[j] # Idle /\ n < job[j].number /\ t \in enabled =>
              /\ t \in objects
              /\ UNION {slices[t][k] : k \in DOMAIN slices[t]} = ips
              /\ \A k, l \in DOMAIN slices[t] :
                    k # l => slices[t][k] \cap slices[t][l] = {}
              /\ \A k \in DOMAIN slices[t] : Cardinality(slices[t][k]) <= MaxEndpoints

\* The machine that a request means.  The name with the cluster before it is one
\* of boot servers only.
Meant(request) ==
    {m \in Serials : /\ Here(sabakan[m]) /\ sabakan[m].bmc /\ sabakan[m].ip # "none"
                     /\ request[1] = "cluster-host" => request[2] \in BootSlots
                     /\ IF request[1] \in {"serial", "SERIAL"} THEN request[2] = m
                                                 ELSE request[2] = sabakan[m].slot}

Requests == ({"cluster-host", "host", "ip"} \X Slots) \cup ({"serial", "SERIAL"} \X Serials)

\* When sabakan has come to rest, all follows it, whatever jobs failed,
\* overlapped or were late with an old answer: every non-retired machine is
\* listed and no other, the log collector's list is right, and the proxy
\* directs every name to the BMC of the machine that has it now.
FollowsSabakan ==
    <>[]( /\ \A t \in Targets \cap enabled : \A n \in DOMAIN slices[t] :
                slices[t][n] = Chunk(t, sabakan, n)
          /\ "log" \in enabled => logList = bmcLogCollectorConfigMapData(sabakan)
          /\ "proxy" \in enabled => \A request \in Requests :
                directorToInner(request) \in
                    IF Meant(request) = {} THEN {Unresolved} ELSE Meant(request) )
=============================================================================
