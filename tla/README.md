# Formal models of neco-containers

This directory holds TLA+ models of the programs that this repository itself
implements (most of its directories only package third-party software), the
TLC configurations that check them on small instances, and TLAPS proofs of
their most important properties for instances of every size.

`PROJECT.json` is the machine-readable index: which definition models which
lines, what every run checks, which mutation of the code each property
notices, the hazards of the code and the theorems.

## Inventory

| program | state | operations | interaction | what is hard |
|---|---|---|---|---|
| local-pv-provisioner | PersistentVolumes in the API server, the contents of the node's disks, an informer cache, a work queue, two gauges | detector: list devices, probe, wipe, create/update a volume; reconciler: wipe and delete a released volume; hourly trigger | two goroutines share disks and API server, through a cache that lags | wiping a disk that is in use; stale cache; calls that fail half way; restarts |
| bmc-log-collector | one pointer file per machine, request counters | per machine and interval: read the pointer, fetch the log, print, save the pointer; clean up | one goroutine per machine, BMCs that reset their logs | crash between print and save; ids reused after a reset; half-written files |
| cep-checker | a map of known missing resources, registered gauges | list Pods, list CiliumEndpoints, look again, unregister | API server | four reads of a changing cluster; an error in mid-round |
| neco-exporter | metrics of the last round per collector, informer-fed maps | collect, remove stale metrics, informer handlers | leader election, informers, scrapes | leadership, failing collectors, events out of step with the cache |
| tcp-keepalive | one connection, retry counter, connection-state gauge | dial, send, receive with a timeout, retry; server: accept, echo | TCP | a timeout racing a late answer, goroutines that outlive their caller |
| ceph-extra-exporter | metric values and failure counters per rule | update, Collect | ceph commands, scrapes | what the lock protects and what it does not |
| envoy probe | two activation flags | probe HTTP, HTTPS and readiness concurrently | Envoy | overlapping probes |
| machines-endpoints | Services, EndpointSlices, ConfigMaps | one-shot update from sabakan | sabakan, API server | one of several writes failing |
| bucket-provisioner-light, s3gw | none of their own; a bucket and its objects | provision, delete page by page; put, get, list, delete | one object store | retries, uploads during a deletion, keys that stay behind |
| bmc-reverse-proxy | cached address map and certificate | reload, direct a request | the ConfigMap of machines-endpoints | stale entries |
| admission, squid-exporter, ct-monitor filter, spiffe-test, testhttpd | none that outlives a request | pure decisions and conversions | | |

What makes them correct:

* local-pv-provisioner: a disk is wiped before it is offered and never while a
  pod uses it; released volumes go away and disks come back;
* bmc-log-collector: no log entry is lost, none is printed twice without a
  cause;
* cep-checker: a gauge says the truth about a key, appears when something is
  missing and goes when it is not;
* neco-exporter: what is registered goes from one report of a collector to the
  next without a gap and keeps nothing older, only a leader reports what is the leader's, and in the end the leader
  shows the cluster;
* tcp-keepalive: one connection, one exchange at a time, the exact number of
  retries, and a client that comes back;
* ceph-extra-exporter: a scrape shows one update, gaps are counted, metrics
  come back when the commands do;
* envoy probe: OK means reachable, an error has a cause;
* machines-endpoints and bmc-reverse-proxy: what is published, and where
  requests are directed, follows sabakan;
* bucket-provisioner-light and s3gw: buckets follow claims, acknowledged uploads
  stay.

## Modules

| module | models | proofs |
|---|---|---|
| `LocalPV` (instances in `MCLocalPV`) | detector, reconciler, watcher of local-pv-provisioner with the cluster around them | `LocalPVProofs` |
| `FillDeleter` (instance in `MCFillDeleter`) | the wipe that `LocalPV` takes as one step | `LocalPVProofs` |
| `BmcLogCollector` | bmc-log-collector with the BMCs and the file system | `BmcLogCollectorProofs` |
| `CepChecker` | cep-checker with the API server | `EnvoyProbeProofs` |
| `MetricSet` | abstract: what a scrape of an exporter may see | |
| `Exporter` | neco-exporter's process and collection loop, for any reports | `NecoExporterProofs` |
| `Watchers` | the informer-fed state of the CiliumIdentity and certificate collectors | `NecoExporterProofs` |
| `NecoExporter` (instance in `MCNecoExporter`) | composes `Exporter` and `Watchers` with the cluster collectors | `NecoExporterProofs` |
| `TcpKeepalive` (instance in `MCTcpKeepalive`) | client, server and the connections between them | `TcpKeepaliveProofs` |
| `CephExporter` (instance in `MCCephExporter`) | ceph-extra-exporter: updates, scrapes, the lock | `CephExporterProofs` |
| `EnvoyProbe` | overlapping probes of Envoy | `EnvoyProbeProofs` |
| `MachinesEndpoints` (instance in `MCMachinesEndpoints`) | the job machines-endpoints, composed with bmc-reverse-proxy, which reads its ConfigMap | `MachinesEndpointsProofs` |
| `Buckets` | bucket-provisioner-light, composed with s3gw at the same bucket | `BucketsProofs` |

### LocalPV

`api` is the API server's view of the node's volumes by name, `watch` the
events on their way to the informer, `cache` what the client reads, `queue` the
reconciler's work queue. `data` says what the wiped regions of each disk hold:
nothing, something from an earlier life, or the data of the volume with a given
uid. The variables with prefix `d` are the locals of `DeviceDetector.do`, those
with prefix `r` the locals of `Reconcile`.

`do` is cut where another actor can act: reading the cache (`DoNothing`,
`DoList`), `reader.Get` (`Probe`), `Deleter.Delete` (`DetectorWipe`), the write
of `CreateOrUpdate` (`CreatePV`) and the gauges (`DoReport`). `Reconcile` is
`ReconcileGet`, `ReconcileWipe`, `ReconcileDelete`. The read inside
`CreateOrUpdate` and its write are one action: a write in between makes the
API server refuse the write, by name or by resource version, which is one of
the outcomes of `CreatePV`. A failing call may have had its effect. A wipe that
fails may have overwritten the regions or not. `pvName` is an arbitrary function:
the code replaces characters and lower-cases, so two disks can share a name.

External: the PV controller (`Bind`, `Release`), pods (`PodWrites`),
pv-protection (`FinishDeletion`), operators (`ChangeConfig`). The reconciler
runs with controller-runtime's default of one worker.

### FillDeleter

The loop of `Delete` with the file offset that only `Seek` sets and `Write`
advances. Every call may fail, a `Write` after part of its block. Sizes are
64-bit in the code and the largest product is far below the limit, so they are
naturals here.

### BmcLogCollector

`collectSystemEventLog` is cut at every file operation, at the request and at
every printed entry, since a kill can hit between any two. A log is identified
by the creation time of its first entry (`respLog`, `FirstCreateTime`); 0 is the
zero pointer's. `out` is everything printed so far. `LastError` and
`LastHttpStatusCode` are one value, because each write of one clears the other.
The temporary file of `updateLastPointer` is left out: it is replaced or
removed without being read.

### CepChecker

Each `List` and `Get` is one read of the cluster. A pod is absent, one that
`isTargetPod` rejects, or one it accepts. `touched` is a history variable: the
keys that changed since the round began.

### Exporter, Watchers, NecoExporter

`Exporter` has one stage per collector, because `Run` starts a goroutine for
each: `LeaveOut`, `CollectReturns` or `CollectFails`, and then every call that
changes the registry is a step: `GetOrCreate` (a new counter is registered with
value 0) and `Set` for each metric of the report in any order, `Unregister` for each
stale name, `EndUpdate`. `StartRound` is the ticker, which reads leadership once,
and `Report` what follows `wg.Wait`. `report`, `setting` (the counter that is got
and not yet set), `next`, `prev` and `health` are the variables of the loop. What
`Collect` returns is left open: any set of series with each name once. `Restart` is
the end of `Start`.

`registry` is what a scrape reads, between any two of these steps. A scrape can
therefore see part of a new report, a counter of it that is still 0, and stale
series beside it. `MetricSet` says what it can rely on all the same, and
`ScrapesSeeReports` is the refinement: a new report begins only when the one before
is shown exactly; a name of the report that is not shown appears at 0, a name that
is shown takes the reported value in place, so that a series of both reports is
never missing and never has a third value; a name that the report lacks goes only
when the whole report is shown. The mapping shows the registry as `shown`, and as
`report` the registry, or the new report while its goroutine works on it.
(`WritePrometheus` of the metrics library copies the list of counters at one moment
and reads their values one after the other, so that one answer may combine
neighbouring states of the registry; the library is external and the property is
about each of these states.)

`Watchers` separates the informer's store from the notification that follows it,
since `identityWatcher.update` counts in the store. `UpdateLists` and
`UpdateStores` are the two sides of its lock. `uncounted` and `unheard` are history
variables: the namespaces and names for which the code passes over a change (an
identity that leaves a namespace by an update, a failing list, a tombstone in
the Secret handler, labels or certificates that cannot be read). The properties
exempt exactly these. External: the API server and client-go's informers, a
missed deletion and the hourly resync included.

`NecoExporter` fills in `Collect`: ciliumid takes its lock twice
(`CollectCounts`, `CollectIdentities`), cert once, networkfence lists the store
and can fail.

### TcpKeepalive

`Client.Run` with its two loops is `pc` and `i`; `SendAndReceive` starts a goroutine
(`worker`) and `Timeout` abandons it. An abandoned goroutine that has not yet read
`c.conn` goes on and uses whatever is there, even the next connection or nil; `strayed`
remembers that it did. A read returns one or more of the messages under way.
The server has a handler per connection; one that fails closes its connection,
its goroutine stays behind on its channel and does nothing more. Signals, the
five seconds after them and the panic of a metrics server that is started again
are actions. External: TCP.

### CephExporter

`update` is cut at the command, at each metric's filter, at the write of a
counter (in two halves, since it is not under the lock) and at the swap.
`Collect` takes the values under the lock and ranges over the counters one by
one; if a write is under way, the runtime may end the process. A value is the
number of the update that made it, modulo 2: an update of the same parity
lies two swaps back. External: the commands, jq, Prometheus, the kubelet.

### EnvoyProbe

Each probe starts its checks in order, the checks run concurrently, and the
first error cancels the rest. The flags are shared by all probes, loaded after an
error and stored after a success. `must`, `wasUp` and `wasDown` are history
variables of a probe. External: Envoy, the kubelet, well.Environment.

### MachinesEndpoints

A job keeps the answer of sabakan it began with and goes through the parts its
options ask for: Service, slices, list, deletions; ConfigMaps. Jobs overlap,
fail and are killed between any two calls. A slot gives a machine's host
name and address and passes on when a machine is replaced. The proxy reads the
ConfigMap into its cache and `directorToInner` looks names up there, with the
forms that clients use.

### Buckets

The worker of the provisioning library calls `Provision` (`HeadBucket`,
`CreateBucket`) and `Delete` (`ListObjects`, `DeleteObjects`, `DeleteBucket`) until
they succeed; a call fails with or without its effect, and single keys may stay
behind without an error. Clients of the gateway that the lists admit put and
delete objects meanwhile. External: the object store, the library.

## Runs

| run | bounds | shows |
|---|---|---|
| `localpv_one` | 1 disk, 2 claims, 2 ConfigMaps, 2 faults, 1 change of ConfigMap | the detector wipes only free disks and keeps live data; released volumes go, the disk comes back |
| `localpv_live_wipe` | 1 disk, 2 claims, no fault | *violation*: a stale reconciliation wipes live data |
| `fill` | positions 0, 4, 9, 20, blocks of 2, 3 blocks, sizes 0 to 30 | only the promised regions, all of them on success |
| `bmclog` | 1 machine, 2 entries, 2 resets, 2 failing requests, 2 faults, 1 list change | nothing lost, nothing twice, counters go with files; only an empty pointer file stops a machine |
| `cep` | 2 keys, 3 changes, 1 API error | remembered is exported, stable keys are not accused, missing is exported, whole is forgotten |
| `cep_flip` | 1 key, 4 changes, no API error | *violation*: a gauge that is never unregistered |
| `exporter` | 2 identities, 2 namespaces, 1 Secret, 1 fence, 2 changes, 1 failing list, 1 restart | counts and expirations settle, only a leader reports, a failing collector shows nothing, the refinement of `MetricSet` counter by counter, the leader ends up showing the cluster |
| `tcp` | 2 connections, 2 goroutines, --retry -1, 0 and 1, 1 fault | one connection, exchanges stay apart, the limit is exact, the client reconnects, the server releases connections |
| `machines` | 2 machines, 2 slots, 1 endpoint per slice, 2 overlapping jobs, 2 changes, 1 fault | a job that was alone leaves exactly its answer; everything follows sabakan in the end |
| `buckets` | 2 claims, 2 keys in pages of 1, 3 clients, 3 requests, 1 fault | buckets follow claims, uploads are kept, every claim is served |
| `ceph` | 2 metrics of one rule, a second rule that is off, 2 failures told apart, 1 failure to listen | a scrape shows one update and accounts for every gap; metrics come back |
| `envoy` | 2 probes, 2 changes of Envoy, 1 fault | OK means reachable, an error has a cause |

Why the bounds are enough: two claims let a disk live twice, which is what a
stale reconciliation needs; two faults allow a failure during the recovery from
another; two resets of logs with up to two entries let a new log be shorter, as
long as and longer than the one remembered; machines of bmc-log-collector do not
interact except through the cleanup, so one that enters and leaves the list is
enough; the fill positions make regions overlap the next position, end before it
and end beyond the device, and every size is tried. Two identities and two
namespaces let one be counted where the other already is, and move; two
connections and two goroutines let an abandoned goroutine meet the next
connection; two machines with slices of one endpoint make slices shift, appear
and go, and let one machine take the other's slot; two overlapping jobs are what
it takes to write an old answer over a newer one; pages of one key put every
other step between two pages; two probes race for one flag. The safety results
are also proved for every bound; in the proofs about `LocalPV` `pvName` is arbitrary,
so that any disks may share a name, which the one disk of `localpv_one` cannot. In
`exporter` the collectors are checked in two groups, ciliumid alone and cert with
networkfence: collectors share nothing but the round.

The two violations, with the sentence of the repository each contradicts, are
under `findings` in `PROJECT.json`:

* `Reconcile` may run once more on a cached volume that was deleted meanwhile,
  and wipes the disk under the volume created after it (a uid precondition or a
  fresh read before the wipe would prevent it);
* cep-checker forgets a gauge when the missing side of its key flips between two
  rounds. `ResolvedIsDeleted` also fails without a flip once `MaxApiErrors` is 1 and
  there are two keys: an error ends the round that created the gauge.

## Known divergences

What the code does and the models therefore do too, where a document, a comment
or a reader expects something else. The properties are stated so that they hold
with it; most exempt it explicitly.

* local-pv-provisioner. Any error of `reader.Get` but NotFound skips the wipe and
  not the creation (`device_detector.go:278`), so that a volume can be offered on a
  device that was not wiped. The conflict check lists from a cache that does not
  yet hold the volumes just created (`:250`), so that volumes of two ConfigMaps
  can be deployed together. A device whose `createPV` failed is counted in both
  gauges (`:293`).
* bmc-log-collector. A pointer file whose first write failed is empty and stops
  its machine for good (`log-pointer.go:33`); `PrintedUnlessStuck` exempts it.
* cep-checker. The second look is two reads (`main.go:188`): a key that changes
  between them can be accused. `StableNotAccused` speaks of keys that did not change.
* neco-exporter. The Secret handler does not take tombstones
  (`secret_watcher.go:77`); an identity that moves by an update leaves its old
  namespace uncounted; a list that fails counts as 0
  (`identity_watcher.go:113`). Each is repaired by a later event of the same
  name or namespace only. A scrape in the middle of a round can see half a report
  and a new series that is still 0 (`exporter.go:145`).
* tcp-keepalive. A metrics server that is started again after an error registers its
  path again and panics (`metrics.go:25`). With `--retry 0` a stopped client
  returns "retry limit exceeded" (`client.go:94`): the loop's index is reset to
  0 and then incremented. Only a stopped run resets it: a client that worked
  for days between failures gives up all the same. The goroutine of a timed-out
  exchange may read `c.conn` when it is the next connection, take its answer,
  or panic when it is nil (`client.go:162`).
* bucket-provisioner-light. Two claims may share a bucket, and deleting one of
  them empties it for both; errors of single keys are not looked at, only the
  failing `DeleteBucket` brings a retry.
* s3gw lists one page only (`handler.go:79`).
* ceph-extra-exporter. The counters are written without the lock
  (`executer.go:111`); the race can end the process, and the counters restart.
* envoy probe. The flags outlive Envoy: when its container restarts and the
  probe's does not, a listener that is not configured yet is an error.
* machines-endpoints. Jobs may overlap; an old answer may be published until the
  next job has run. bmc-reverse-proxy takes the name of the cluster off before
  `boot-N` only (`main.go:45`): any other host name with it is not resolved.

## Fairness

Weak fairness of the detector and of the reconciler: a ticker loop and a
controller worker that run as long as the process does, and no step of theirs
waits for anybody. Weak fairness of `Deliver`: an informer applies the events it
received. Weak fairness of `FinishDeletion`: the cluster's protection controller
removes the finalizer of an unbound volume. Nothing is assumed of `FireEvent`:
the results hold without the hourly trigger. In `BmcLogCollector` goroutines run
and the ticker fires; in `CepChecker` likewise, and each API call returns.

In `NecoExporter` the goroutines of a round, the ticker, the handlers and the
informers go on; nothing is assumed of the election (the property speaks of an
elected replica), of the resync or of the cluster. In `TcpKeepalive` the
client's loop, each exchange's goroutine and each handler go on, each for itself;
the timeout is one of the client's steps, so that nobody depends on it alone.
In `CephExporter` a command ends, at the latest by its timeout, and a scrape
ends. Strong fairness of `Finish` stands for Go's `select`, which chooses among
ready cases at random: a ticker that is ready again and again cannot keep out
`ctx.Done` for ever. In `MachinesEndpoints` the CronJob starts jobs, a job's calls
return and the proxy's ticker fires. In `Buckets` strong fairness of
`StartWork` stands for the library's work queue: a claim that is asked for again
and again gets its turn. `EnvoyProbe` has no liveness property and no fairness.

Faults are bounded, so in the end calls succeed; no fairness is assumed of the
environment.

## Proofs

Every safety property that a passing run checks, invariant or action property, is
also proved. The theorems hold for every value of the constants that satisfies the
named assumptions: finite sets where something is counted, `pvName` total,
increasing positions, `LeaderMetrics` among the collectors, no connection or
goroutine named nil, identities and Secrets with different names (one history
variable holds both), the names and values of the metrics among those `Exporter` is
given, 0 among the values, at least one metric per rule, a slice size between 1 and 1000, a first answer
of sabakan that puts no two machines in a slot, natural bounds.

* `LocalPVProofs`. `WipesOnlyFreeDevices` is not inductive: that no volume
  stands for the disk follows from two facts about names. `NamedByPath`: every
  volume in the API server, in the cache and in flight carries the name that
  `pvName` gives its path. `NameIsFree`: between NotFound and the creation no
  volume has the disk's name, because only the detector creates volumes. The
  action property `DetectorKeepsLiveData` follows. The section on `FillDeleter`
  relates the file offset to position and block index and says that the regions of
  earlier positions and the blocks so far are overwritten; the last block is the
  one the clipping makes exact.
* `BmcLogCollectorProofs`. The invariant `MInv` says for every machine that its
  stored pointer, and the one in memory outside the loop, are *covered* by
  the output; inside the loop, everything passed is printed, and the pointer is
  covered or belongs to an older log and follows the loop. `PointerNotAhead` and
  `NothingSkipped` follow. `Books` adds that a failure in a pointer, stored or in
  memory, was logged, and that a goroutine past `CheckFile` has a file:
  `SuppressedWasReported` and `CountersHaveFiles` follow. `PrintedOnce` needs the
  opposite direction of `Covered`: nothing of the output is beyond the pointer
  (`Behind`), and while a round prints a new log (`Fresh`) the output has nothing of
  it from the next entry on. This holds only until a file operation fails, the
  process ends or the list changes, as the property says.
* `NecoExporterProofs`. The loop first, about `ExporterSpec`, in which `Collect` may
  return any report: the refinement of `MetricSet` needs to know how far a goroutine
  is (`Progress`): the names it is done with show exactly their part of the report,
  everything else that is registered is still in `prev` or is the one counter being
  set, and no name is both done and in `prev`; outside of the loops `prev` covers all
  that is registered. So when every metric is set the report is shown
  (`SetIsShown`), only names it lacks are unregistered, and when `prev` is used up
  nothing but the report is left (`UpdatedIsReport`). `UnhealthyShowsNothing` needs that a
  round which did not collect or failed ends empty (`FailureIsEmpty`),
  `OnlyLeaderReports` that no round before the election is a leader's. Then the
  watchers: notifications lag behind the store, so neither `CountsSettle` nor
  `ExpirationsSettle` is inductive. What is: the last notification that waits for an
  object shows the object as the store has it (`UpToDate`); an object for which
  none waits, and that the handler is not at, is kept as the store has it; a
  namespace is counted right, or a notification about it waits, or the count that
  the handler has listed and not yet stored is right (`CountKnown`). Last the
  composition: `CollectorsDriveTheLoop` shows that every step of the program is a
  step of `ExporterSpec` or leaves the loop alone, because the reports that the
  collectors make from the watchers' state are series of `Exporter` with each name
  once (`ReportsAreReports`). With it
  (`ProgramShowsReports`) what is proved of the loop holds of the program.
* `TcpKeepaliveProofs`. `Connected` ties the open connection and the gauge to the place
  in `run`; `Counted` says that the index equals the failures, except in the one
  iteration after a stopped run, which is why the reset does no harm there;
  `Apart` says that, without a stray goroutine, only the current one uses the
  connection, and how many messages may be under way at each of its places.
* `CephExporterProofs`. `OneUpdate`: the map that an update fills has only its own
  values, the map shown those of the update swapped last, and so has a scrape that
  holds the lock. `GapsAreCounted` needs both sides of the counters: an update has
  counted, or begun to count, a failure before it swaps a map with a gap
  (`UpdateCounts`), and what a scrape has added up together with what it has still
  to read is no less than the gaps there were when it took its values
  (`ScrapeCounts`), because counters only grow.
* `EnvoyProbeProofs`. A pending probe's history follows Envoy; a check that was
  refused has a reason, and one that is through was reached, was forgiven or has
  failed the probe (`Pending`). Forgiven checks are not in `must`, because flags
  never fall while a probe is pending. The second section is about
  cep-checker: what a round has found is exported before it is remembered,
  and what `check` has read of a pod is current until the key is touched.
* `MachinesEndpointsProofs`. The first part is about cutting a list, sorted by
  serial, into chunks: places in the list are distinct and without gaps, so no
  chunk is longer than `MaxEndpoints`, the chunks are disjoint and make up the
  list, and behind the first empty chunk all are empty (`ChunksAreRight`). The
  invariant says that nobody runs beside a job that is alone (`Lone`), that the
  targets behind it are written (`Behind`), and how far it is with the current one
  (`Writing`): the slices before the current index are its chunks, and while it
  deletes, all but the slices that are still to go.
* `BucketsProofs`. The worker deletes only for a claim that is being deleted
  (`WorkFits`), a bucket that is gone was empty (`StoreFits`), and only admitted
  clients have requests under way (`Admitted`).

Only model-checked is liveness, which under fairness is out of the prover's reach:
`ReleasedIsRemoved`, `DevicesGetVolumes`, `PrintedUnlessStuck`, `MissingIsExported`,
`WholeIsForgotten`, `LeaderShowsCluster`, `Reconnects`, `ConnectionsAreReleased`,
`FollowsSabakan`, `ClaimsAreServed`, `MetricsComeBack`. The violations
(`ReconcilerKeepsLiveData`, `ResolvedIsDeleted`) are counterexamples of TLC.

## Not modelled

* neco-exporter's node collectors: reads of kernel and kubelet files turned into
  numbers. They keep nothing between rounds, and `Exporter` admits any report
  that has each name once.
* The admission hooks: decisions on single requests without state.
* spiffe-test, squid-exporter, ct-monitor's filter, testhttpd: test programs
  and converters of text.
* Images of third-party software.
* In the modelled programs: formatting of log lines, metric names (and their
  sanitising) and ConfigMap text; TLS, HTTP headers and authentication; capacity
  and other attributes of a volume that no property tells apart; two logs of a BMC
  that begin within the same second, and entries of it whose id is not a number,
  which are skipped (`log-collector.go:131`); the text of a listing of s3gw;
  a claim that is deleted before it was bound, which the provisioner's library
  decides about (a bucket whose `CreateBucket` was executed and its answer lost is
  then not in `BucketFollowsClaims`); uploads without end, which could keep
  `DeleteBucket` failing (`ClaimsAreServed` rests on `MaxRequests`);
  --dry-run of machines-endpoints, which writes nothing.

## Plan

1. Done: the modules, runs and proofs above.
2. Proofs about what the liveness properties rest on: that a running goroutine of
   `TcpKeepalive` and `Buckets` always has a step of its own (the safety half of
   progress), and the map of bmc-reverse-proxy as one ConfigMap that a job wrote.
3. An abstract specification of a disk's life (blank, offered, in use, dirty)
   that `LocalPV` implements as far as the findings allow, with its refinement
   proved.
4. The admission hooks as operators checked against reference definitions; the
   node collectors' arithmetic.
