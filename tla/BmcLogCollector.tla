-------------------------- MODULE BmcLogCollector --------------------------
(***************************************************************************)
(* bmc-log-collector: once per interval a goroutine per machine fetches    *)
(* the machine's System Event Log from its BMC, prints the entries that    *)
(* are new since the last round and records in the machine's pointer file  *)
(* how far it came.  The pointer files are all that survives a restart.    *)
(*                                                                         *)
(* External, modelled from how the code uses it: the BMC (entries are      *)
(* numbered from 1 and a reset starts a new log whose first entry has a    *)
(* later creation time), the file system and the machines list.            *)
(***************************************************************************)
EXTENDS Naturals, FiniteSets

CONSTANTS
    Machines,       \* serials
    MaxEntries,     \* bound: entries of one log
    MaxResets,      \* bound: resets of one BMC's log
    MaxNetFaults,   \* bound: requests that fail
    MaxFaults,      \* bound: file operations that fail and restarts
    MaxChanges      \* bound: changes of the machines list

ASSUME BoundAssumption ==
    /\ MaxEntries \in Nat
    /\ MaxResets \in Nat
    /\ MaxNetFaults \in Nat
    /\ MaxFaults \in Nat
    /\ MaxChanges \in Nat

ASSUME MachinesAssumption == Machines # {}

\* How the last request failed: LastHttpStatusCode and LastError of a pointer.
Failures == {"none", "tcp", "http"}

\* LastPointer; a FirstCreateTime is the number of the log it belongs to.
Pointer == [LastReadId: Nat, FirstCreateTime: Nat, failure: Failures]

ZeroPointer == [LastReadId |-> 0, FirstCreateTime |-> 0, failure |-> "none"]

VARIABLES
    log,        \* the number of each BMC's current log
    entries,    \* how many entries it has
    listed,     \* the machines list
    file,       \* each machine's pointer file: "none", "empty" or "written"
    stored,     \* what a written pointer file holds
    mainPc, current,                \* the scraping loop and its machines
    pc, ptr, respLog, respLen, next,  \* one collectSystemEventLog per machine
    out,        \* the entries printed so far, <<log, id>>
    reported,   \* the failures logged so far
    counted,    \* machines with request counters
    netFaults, faults, changes      \* what is left of the bounds

bmcVars == <<log, entries, listed>>
fileVars == <<file, stored>>
mainVars == <<mainPc, current>>
workerVars == <<pc, ptr, respLog, respLen, next>>
vars == <<bmcVars, fileVars, mainVars, workerVars, out, reported, counted,
          netFaults, faults, changes>>

TypeOK ==
    /\ log \in [Machines -> 1..(MaxResets + 1)]
    /\ entries \in [Machines -> 0..MaxEntries]
    /\ listed \subseteq Machines
    /\ file \in [Machines -> {"none", "empty", "written"}]
    /\ stored \in [Machines -> Pointer]
    /\ mainPc \in {"wait", "collect"}
    /\ current \subseteq Machines
    /\ pc \in [Machines -> {"done", "check", "init", "read", "request", "print", "save"}]
    /\ ptr \in [Machines -> Pointer]
    /\ respLog \in [Machines -> Nat]
    /\ respLen \in [Machines -> 0..MaxEntries]
    /\ next \in [Machines -> 0..(MaxEntries + 1)]
    /\ out \in [Machines -> SUBSET (Nat \X Nat)]
    /\ reported \in [Machines -> SUBSET Failures]
    /\ counted \subseteq Machines
    /\ netFaults \in 0..MaxNetFaults
    /\ faults \in 0..MaxFaults
    /\ changes \in 0..MaxChanges

Init ==
    /\ log = [m \in Machines |-> 1]
    /\ entries = [m \in Machines |-> 0]
    /\ listed = Machines
    /\ file = [m \in Machines |-> "none"]
    /\ stored = [m \in Machines |-> ZeroPointer]
    /\ mainPc = "wait"
    /\ current = {}
    /\ pc = [m \in Machines |-> "done"]
    /\ ptr = [m \in Machines |-> ZeroPointer]
    /\ respLog = [m \in Machines |-> 0]
    /\ respLen = [m \in Machines |-> 0]
    /\ next = [m \in Machines |-> 0]
    /\ out = [m \in Machines |-> {}]
    /\ reported = [m \in Machines |-> {}]
    /\ counted = {}
    /\ netFaults = MaxNetFaults
    /\ faults = MaxFaults
    /\ changes = MaxChanges
-----------------------------------------------------------------------------
(***************************************************************************)
(* collectSystemEventLog for machine m.                                    *)
(***************************************************************************)
Fault == faults > 0 /\ faults' = faults - 1

\* The function returns and its locals go out of scope.
Leave(m) ==
    /\ pc' = [pc EXCEPT ![m] = "done"]
    /\ ptr' = [ptr EXCEPT ![m] = ZeroPointer]
    /\ respLog' = [respLog EXCEPT ![m] = 0]
    /\ respLen' = [respLen EXCEPT ![m] = 0]
    /\ next' = [next EXCEPT ![m] = 0]

Go(m, where) ==
    /\ pc' = [pc EXCEPT ![m] = where]
    /\ UNCHANGED <<ptr, respLog, respLen, next>>

\* checkAndCreatePointerFile, first half: os.Create makes an empty file.
CheckFile(m) ==
    /\ pc[m] = "check"
    /\ \/ /\ file[m] # "none"
          /\ Go(m, "read")
          /\ UNCHANGED <<file, faults>>
       \/ /\ file[m] = "none"
          /\ file' = [file EXCEPT ![m] = "empty"]
          /\ Go(m, "init")
          /\ UNCHANGED faults
       \/ file[m] = "none" /\ Fault /\ Leave(m) /\ UNCHANGED file
    /\ UNCHANGED <<bmcVars, stored, mainVars, out, reported, counted, netFaults,
                   changes>>

\* Second half: the zero pointer is written into it.
InitFile(m) ==
    /\ pc[m] = "init"
    /\ \/ /\ file' = [file EXCEPT ![m] = "written"]
          /\ stored' = [stored EXCEPT ![m] = ZeroPointer]
          /\ Go(m, "read")
          /\ UNCHANGED faults
       \/ Fault /\ Leave(m) /\ UNCHANGED fileVars
    /\ UNCHANGED <<bmcVars, mainVars, out, reported, counted, netFaults, changes>>

\* readLastPointer: an empty file is not JSON.
ReadPointer(m) ==
    /\ pc[m] = "read"
    /\ \/ /\ file[m] = "written"
          /\ ptr' = [ptr EXCEPT ![m] = stored[m]]
          /\ pc' = [pc EXCEPT ![m] = "request"]
          /\ UNCHANGED <<respLog, respLen, next, faults>>
       \/ file[m] = "empty" /\ Leave(m) /\ UNCHANGED faults
       \/ Fault /\ Leave(m)
    /\ UNCHANGED <<bmcVars, fileVars, mainVars, out, reported, counted,
                   netFaults, changes>>

\* Mutant of Suppressed: one failure silences the other kind too.
SuppressedByAny(m, f) == ptr[m].failure # "none"

\* The failure is the last one recorded and is not logged again.
Suppressed(m, f) == ptr[m].failure = f

\* The request fails.
RequestFails(m) ==
    /\ pc[m] = "request"
    /\ netFaults > 0
    /\ netFaults' = netFaults - 1
    /\ \E f \in {"tcp", "http"} :
          /\ reported' = [reported EXCEPT ![m] =
                            IF Suppressed(m, f) THEN @ ELSE @ \cup {f}]
          /\ ptr' = [ptr EXCEPT ![m].failure = f]
    /\ counted' = counted \cup {m}
    /\ pc' = [pc EXCEPT ![m] = "save"]
    /\ UNCHANGED <<bmcVars, fileVars, mainVars, respLog, respLen, next, out,
                   faults, changes>>

\* The request succeeds.  An empty log, and a body that does not parse, end the
\* call without touching the pointer file.
RequestSucceeds(m) ==
    /\ pc[m] = "request"
    /\ counted' = counted \cup {m}
    /\ \/ /\ entries[m] > 0
          /\ respLog' = [respLog EXCEPT ![m] = log[m]]
          /\ respLen' = [respLen EXCEPT ![m] = entries[m]]
          /\ next' = [next EXCEPT ![m] = 1]
          /\ pc' = [pc EXCEPT ![m] = "print"]
          /\ UNCHANGED <<ptr, netFaults>>
       \/ entries[m] = 0 /\ Leave(m) /\ UNCHANGED netFaults
       \/ netFaults > 0 /\ netFaults' = netFaults - 1 /\ Leave(m)
    /\ UNCHANGED <<bmcVars, fileVars, mainVars, out, reported, faults, changes>>

\* Mutant of IsNew: the creation time of the first entry is not looked at.
IsNewById(m, id) == ptr[m].LastReadId < id

\* The entry is new by its id, or the log was reset since the last round.
IsNew(m, id) == \/ ptr[m].LastReadId < id
                \/ ptr[m].FirstCreateTime # respLog[m]

\* Mutant of InResponse: the loop runs one entry too far.
InResponseInclusive(m) == next[m] <= respLen[m] + 1

InResponse(m) == next[m] <= respLen[m]

\* Mutant of ReadUpTo: the id of the entry to read next is recorded.
ReadUpToNext(m) == next[m] + 1

\* LastReadId after the current entry has been printed.
ReadUpTo(m) == next[m]

\* The loop over the response, oldest entry first.
PrintEntry(m) ==
    /\ pc[m] = "print"
    /\ InResponse(m)
    /\ IF IsNew(m, next[m])
         THEN /\ out' = [out EXCEPT ![m] = @ \cup {<<respLog[m], next[m]>>}]
              /\ ptr' = [ptr EXCEPT ![m].LastReadId = ReadUpTo(m)]
         ELSE UNCHANGED <<out, ptr>>
    /\ next' = [next EXCEPT ![m] = @ + 1]
    /\ UNCHANGED <<bmcVars, fileVars, mainVars, pc, respLog, respLen, reported,
                   counted, netFaults, faults, changes>>

\* Mutant of FirstCreateTimeOf: the pointer keeps the time it had.
FirstCreateTimeKept(m) == ptr[m].FirstCreateTime

\* The creation time of the oldest entry of the response.
FirstCreateTimeOf(m) == respLog[m]

Printed(m) ==
    /\ pc[m] = "print"
    /\ ~InResponse(m)
    /\ ptr' = [ptr EXCEPT ![m].FirstCreateTime = FirstCreateTimeOf(m)]
    /\ pc' = [pc EXCEPT ![m] = "save"]
    /\ UNCHANGED <<bmcVars, fileVars, mainVars, respLog, respLen, next, out,
                   reported, counted, netFaults, faults, changes>>

\* updateLastPointer: the new content replaces the old by rename.
SavePointer(m) ==
    /\ pc[m] = "save"
    /\ \/ /\ stored' = [stored EXCEPT ![m] = ptr[m]]
          /\ file' = [file EXCEPT ![m] = "written"]
          /\ UNCHANGED faults
       \/ Fault /\ UNCHANGED fileVars
    /\ Leave(m)
    /\ UNCHANGED <<bmcVars, mainVars, out, reported, counted, netFaults, changes>>

Worker(m) == \/ CheckFile(m) \/ InitFile(m) \/ ReadPointer(m)
             \/ RequestFails(m) \/ RequestSucceeds(m)
             \/ PrintEntry(m) \/ Printed(m) \/ SavePointer(m)
-----------------------------------------------------------------------------
(***************************************************************************)
(* doLogScrapingLoop.                                                      *)
(***************************************************************************)
Tick ==
    /\ mainPc = "wait"
    /\ mainPc' = "collect"
    /\ current' = listed
    /\ pc' = [m \in Machines |-> IF m \in listed THEN "check" ELSE "done"]
    /\ UNCHANGED <<bmcVars, fileVars, ptr, respLog, respLen, next, out, reported,
                   counted, netFaults, faults, changes>>

\* Mutant of Forgotten: the files of the machines at work are removed.
ForgottenListed == {m \in current : file[m] # "none"}

\* The pointer files deletePtrFileDisappearedSerial finds superfluous.
Forgotten == {m \in Machines : file[m] # "none" /\ m \notin current}

\* Mutant of Counted: the counters of a removed machine are kept.
CountedKept(gone) == counted

Counted(gone) == counted \ gone

\* After wg.Wait: pointer files and counters of machines that have left the
\* list are removed, unless os.ReadDir fails; kept are the files that os.Remove
\* fails on.
Cleanup ==
    /\ mainPc = "collect"
    /\ \A m \in Machines : pc[m] = "done"
    /\ \/ \E kept \in SUBSET Forgotten :
             /\ IF kept = {} THEN UNCHANGED faults ELSE Fault
             /\ file' = [m \in Machines |->
                           IF m \in Forgotten \ kept THEN "none" ELSE file[m]]
             /\ stored' = [m \in Machines |->
                             IF m \in Forgotten \ kept THEN ZeroPointer ELSE stored[m]]
             /\ counted' = Counted(Forgotten)
       \/ Fault /\ UNCHANGED <<fileVars, counted>>
    /\ mainPc' = "wait"
    /\ current' = {}
    /\ UNCHANGED <<bmcVars, workerVars, out, reported, netFaults, changes>>

\* The process dies, is killed, or returns because the machines list cannot be
\* read, and is started again.
Restart ==
    /\ Fault
    /\ mainPc' = "wait"
    /\ current' = {}
    /\ pc' = [m \in Machines |-> "done"]
    /\ ptr' = [m \in Machines |-> ZeroPointer]
    /\ respLog' = [m \in Machines |-> 0]
    /\ respLen' = [m \in Machines |-> 0]
    /\ next' = [m \in Machines |-> 0]
    /\ counted' = {}
    /\ UNCHANGED <<bmcVars, fileVars, out, reported, netFaults, changes>>
-----------------------------------------------------------------------------
(***************************************************************************)
(* The BMCs and the machines list (external).                              *)
(***************************************************************************)
NewEntry(m) ==
    /\ entries[m] < MaxEntries
    /\ entries' = [entries EXCEPT ![m] = @ + 1]
    /\ UNCHANGED <<log, listed, fileVars, mainVars, workerVars, out, reported,
                   counted, netFaults, faults, changes>>

Reset(m) ==
    /\ log[m] <= MaxResets
    /\ log' = [log EXCEPT ![m] = @ + 1]
    /\ entries' = [entries EXCEPT ![m] = 0]
    /\ UNCHANGED <<listed, fileVars, mainVars, workerVars, out, reported,
                   counted, netFaults, faults, changes>>

ChangeList ==
    /\ changes > 0
    /\ changes' = changes - 1
    /\ listed' \in (SUBSET Machines) \ {listed}
    /\ UNCHANGED <<log, entries, fileVars, mainVars, workerVars, out, reported,
                   counted, netFaults, faults>>

Environment == \/ \E m \in Machines : NewEntry(m) \/ Reset(m)
               \/ ChangeList

Next == \/ \E m \in Machines : Worker(m)
        \/ Tick \/ Cleanup \/ Restart \/ Environment

Spec == Init /\ [][Next]_vars

\* The ticker fires and every goroutine runs; the BMCs owe nothing.
Fairness == /\ \A m \in Machines : WF_vars(Worker(m))
            /\ WF_vars(Tick \/ Cleanup)

FairSpec == Spec /\ Fairness
-----------------------------------------------------------------------------
(***************************************************************************)
(* Properties.                                                             *)
(***************************************************************************)
\* A pointer file never runs ahead of the output: every entry it would make a
\* later round skip has been printed, across restarts, resets, failed writes
\* and failed requests.
PointerNotAhead ==
    \A m \in Machines : \A id \in 1..stored[m].LastReadId :
        stored[m].FirstCreateTime # 0 => <<stored[m].FirstCreateTime, id>> \in out[m]

\* When the call is through a response, all of its entries have been printed,
\* in this round or before: a reset that reuses the ids hides none of them.
NothingSkipped ==
    \A m \in Machines : pc[m] = "save" =>
        \A id \in 1..respLen[m] : <<respLog[m], id>> \in out[m]

\* Until a pointer file cannot be written, the process restarts or the list
\* changes, no entry is printed twice.
PrintedOnce ==
    faults = MaxFaults /\ changes = MaxChanges =>
        \A m \in Machines :
            pc[m] = "print" /\ InResponse(m) /\ IsNew(m, next[m]) =>
                <<respLog[m], next[m]>> \notin out[m]

\* A failure that is not logged because it is the last one recorded has been
\* logged at some time.
SuppressedWasReported ==
    \A m \in Machines : stored[m].failure # "none" => stored[m].failure \in reported[m]

\* Request counters exist only for machines with a pointer file, which is what
\* removes them: none outlives its machine for good.
CountersHaveFiles == \A m \in counted : file[m] # "none"

\* The pointer file was created and its first content never written.
Stuck(m) == file[m] = "empty" /\ pc[m] # "init"

\* Whatever requests and file operations fail and however often the process is
\* killed (finitely often), only such a pointer file keeps an entry of a listed
\* machine from being printed in the end.
PrintedUnlessStuck ==
    \A m \in Machines : \A g \in 1..(MaxResets + 1) : \A id \in 1..MaxEntries :
        (log[m] = g /\ entries[m] >= id)
            ~> (<<g, id>> \in out[m] \/ log[m] # g \/ m \notin listed \/ Stuck(m))
=============================================================================
