----------------------- MODULE BmcLogCollectorProofs -----------------------
(***************************************************************************)
(* Proofs about BmcLogCollector for every set of machines, every length of *)
(* the logs and every number of resets, failures, restarts and list        *)
(* changes.                                                                *)
(***************************************************************************)
EXTENDS BmcLogCollector, TLAPS

LEMMA PointerType ==
    /\ ZeroPointer \in Pointer
    /\ \A q \in Pointer : q.LastReadId \in Nat /\ q.FirstCreateTime \in Nat
BY DEF ZeroPointer, Pointer, Failures

\* Replacing a field of a pointer gives a pointer.
LEMMA FieldType ==
    ASSUME NEW q \in Pointer, NEW n \in Nat, NEW f \in Failures
    PROVE  /\ [q EXCEPT !.failure = f] \in Pointer
           /\ [q EXCEPT !.LastReadId = n] \in Pointer
           /\ [q EXCEPT !.FirstCreateTime = n] \in Pointer
BY DEF Pointer

\* Types of what Leave and Go assign.
LEMMA LeaveType ==
    ASSUME TypeOK, NEW m \in Machines, Leave(m)
    PROVE  /\ pc' \in [Machines -> {"done", "check", "init", "read", "request", "print", "save"}]
           /\ ptr' \in [Machines -> Pointer]
           /\ respLog' \in [Machines -> Nat]
           /\ respLen' \in [Machines -> 0..MaxEntries]
           /\ next' \in [Machines -> 0..(MaxEntries + 1)]
BY PointerType, BoundAssumption DEF TypeOK, Leave

LEMMA GoType ==
    ASSUME TypeOK, NEW m \in Machines,
           NEW where \in {"done", "check", "init", "read", "request", "print", "save"},
           Go(m, where)
    PROVE  /\ pc' \in [Machines -> {"done", "check", "init", "read", "request", "print", "save"}]
           /\ ptr' \in [Machines -> Pointer]
           /\ respLog' \in [Machines -> Nat]
           /\ respLen' \in [Machines -> 0..MaxEntries]
           /\ next' \in [Machines -> 0..(MaxEntries + 1)]
BY DEF TypeOK, Go

LEMMA FaultType ==
    ASSUME TypeOK, Fault \/ UNCHANGED faults
    PROVE  faults' \in 0..MaxFaults
BY BoundAssumption DEF TypeOK, Fault

\* A step of one goroutine keeps the types.
LEMMA WorkerType ==
    ASSUME TypeOK, NEW m \in Machines, Worker(m)
    PROVE  TypeOK'
<1> USE DEF bmcVars, fileVars, mainVars, workerVars
<1>1. CASE CheckFile(m)
  <2>1. faults' \in 0..MaxFaults
    BY <1>1, FaultType DEF CheckFile
  <2>2. file' \in [Machines -> {"none", "empty", "written"}]
    BY <1>1 DEF CheckFile, TypeOK
  <2>3. CASE Leave(m)
    BY <1>1, <2>1, <2>2, <2>3, LeaveType DEF CheckFile, TypeOK
  <2>4. CASE Go(m, "read") \/ Go(m, "init")
    BY <1>1, <2>1, <2>2, <2>4, GoType DEF CheckFile, TypeOK
  <2>5. QED
    BY <1>1, <2>3, <2>4 DEF CheckFile
<1>2. CASE InitFile(m)
  <2>1. faults' \in 0..MaxFaults
    BY <1>2, FaultType DEF InitFile
  <2>2. /\ file' \in [Machines -> {"none", "empty", "written"}]
        /\ stored' \in [Machines -> Pointer]
    <3>1. CASE UNCHANGED fileVars
      BY <3>1 DEF TypeOK
    <3>2. CASE /\ file' = [file EXCEPT ![m] = "written"]
               /\ stored' = [stored EXCEPT ![m] = ZeroPointer]
      <4>1. ZeroPointer \in Pointer
        BY PointerType
      <4>2. QED
        BY <3>2, <4>1 DEF TypeOK
    <3>3. QED
      BY <1>2, <3>1, <3>2 DEF InitFile
  <2>3. CASE Leave(m)
    BY <1>2, <2>1, <2>2, <2>3, LeaveType DEF InitFile, TypeOK
  <2>4. CASE Go(m, "read")
    BY <1>2, <2>1, <2>2, <2>4, GoType DEF InitFile, TypeOK
  <2>5. QED
    BY <1>2, <2>3, <2>4 DEF InitFile
<1>3. CASE ReadPointer(m)
  <2>1. faults' \in 0..MaxFaults
    BY <1>3, FaultType DEF ReadPointer
  <2>2. CASE Leave(m)
    BY <1>3, <2>1, <2>2, LeaveType DEF ReadPointer, TypeOK
  <2>3. CASE /\ ptr' = [ptr EXCEPT ![m] = stored[m]]
             /\ pc' = [pc EXCEPT ![m] = "request"]
             /\ UNCHANGED <<respLog, respLen, next>>
    BY <1>3, <2>1, <2>3 DEF ReadPointer, TypeOK
  <2>4. QED
    BY <1>3, <2>2, <2>3 DEF ReadPointer
<1>4. CASE RequestFails(m)
  <2>1. PICK f \in {"tcp", "http"} :
          /\ reported' = [reported EXCEPT ![m] =
                            IF Suppressed(m, f) THEN @ ELSE @ \cup {f}]
          /\ ptr' = [ptr EXCEPT ![m].failure = f]
    BY <1>4 DEF RequestFails
  <2>2. ptr' \in [Machines -> Pointer]
    <3> DEFINE q == [ptr[m] EXCEPT !.failure = f]
    <3>1. ptr' = [ptr EXCEPT ![m] = q]
      BY <2>1
    <3>2. q \in Pointer
      BY FieldType DEF TypeOK, Failures
    <3> HIDE DEF q
    <3>3. QED
      BY <3>1, <3>2 DEF TypeOK
  <2>3. reported' \in [Machines -> SUBSET Failures]
    BY <2>1 DEF TypeOK, Failures
  <2>4. netFaults' \in 0..MaxNetFaults
    BY <1>4, BoundAssumption DEF RequestFails, TypeOK
  <2>5. QED
    BY <1>4, <2>2, <2>3, <2>4 DEF RequestFails, TypeOK
<1>5. CASE RequestSucceeds(m)
  <2>1. netFaults' \in 0..MaxNetFaults
    BY <1>5, BoundAssumption DEF RequestSucceeds, TypeOK
  <2>2. CASE Leave(m)
    BY <1>5, <2>1, <2>2, LeaveType DEF RequestSucceeds, TypeOK
  <2>3. CASE /\ respLog' = [respLog EXCEPT ![m] = log[m]]
             /\ respLen' = [respLen EXCEPT ![m] = entries[m]]
             /\ next' = [next EXCEPT ![m] = 1]
             /\ pc' = [pc EXCEPT ![m] = "print"]
             /\ UNCHANGED ptr
    <3>1. log[m] \in Nat /\ entries[m] \in 0..MaxEntries /\ 1 \in 0..(MaxEntries + 1)
      BY BoundAssumption DEF TypeOK
    <3>2. QED
      BY <1>5, <2>1, <2>3, <3>1 DEF RequestSucceeds, TypeOK
  <2>4. QED
    BY <1>5, <2>2, <2>3 DEF RequestSucceeds
<1>6. CASE PrintEntry(m)
  <2>1. next' \in [Machines -> 0..(MaxEntries + 1)] /\ next[m] \in Nat
    BY <1>6, BoundAssumption DEF PrintEntry, InResponse, TypeOK
  <2>2. out' \in [Machines -> SUBSET (Nat \X Nat)]
    <3>1. <<respLog[m], next[m]>> \in Nat \X Nat
      BY DEF TypeOK
    <3>2. QED
      BY <1>6, <3>1 DEF PrintEntry, TypeOK
  <2>3. ptr' \in [Machines -> Pointer]
    <3> DEFINE q == [ptr[m] EXCEPT !.LastReadId = next[m]]
    <3>1. ptr' = ptr \/ ptr' = [ptr EXCEPT ![m] = q]
      BY <1>6 DEF PrintEntry, ReadUpTo
    <3>2. q \in Pointer
      <4>1. ptr[m] \in Pointer
        BY DEF TypeOK
      <4>2. QED
        BY <2>1, <4>1 DEF Pointer
    <3> HIDE DEF q
    <3>3. QED
      BY <3>1, <3>2 DEF TypeOK
  <2>4. QED
    BY <1>6, <2>1, <2>2, <2>3 DEF PrintEntry, TypeOK
<1>7. CASE Printed(m)
  <2>1. ptr' \in [Machines -> Pointer]
    BY <1>7 DEF Printed, FirstCreateTimeOf, TypeOK, Pointer
  <2>2. QED
    BY <1>7, <2>1 DEF Printed, TypeOK
<1>8. CASE SavePointer(m)
  <2>1. faults' \in 0..MaxFaults
    BY <1>8, FaultType DEF SavePointer
  <2>2. /\ file' \in [Machines -> {"none", "empty", "written"}]
        /\ stored' \in [Machines -> Pointer]
    BY <1>8 DEF SavePointer, TypeOK
  <2>3. Leave(m)
    BY <1>8 DEF SavePointer
  <2>4. QED
    BY <1>8, <2>1, <2>2, <2>3, LeaveType DEF SavePointer, TypeOK
<1>9. QED
  BY <1>1, <1>2, <1>3, <1>4, <1>5, <1>6, <1>7, <1>8 DEF Worker

\* Every step keeps the types.
LEMMA TypeStep == TypeOK /\ [Next]_vars => TypeOK'
<1> SUFFICES ASSUME TypeOK, [Next]_vars PROVE TypeOK'
  OBVIOUS
<1> USE DEF bmcVars, fileVars, mainVars, workerVars
<1>1. CASE \E m \in Machines : Worker(m)
  BY <1>1, WorkerType
<1>2. CASE Tick
  BY <1>2 DEF Tick, TypeOK
<1>3. CASE Cleanup
  <2>1. faults' \in 0..MaxFaults
    BY <1>3, FaultType DEF Cleanup
  <2>2. file' \in [Machines -> {"none", "empty", "written"}]
    BY <1>3 DEF Cleanup, TypeOK
  <2>3. stored' \in [Machines -> Pointer]
    BY <1>3, PointerType DEF Cleanup, TypeOK
  <2>4. counted' \subseteq Machines
    BY <1>3 DEF Cleanup, Counted, TypeOK
  <2>5. QED
    BY <1>3, <2>1, <2>2, <2>3, <2>4 DEF Cleanup, TypeOK
<1>4. CASE Restart
  <2>1. faults' \in 0..MaxFaults
    BY <1>4, FaultType DEF Restart
  <2>2. ptr' \in [Machines -> Pointer]
    BY <1>4, PointerType DEF Restart
  <2>3. respLen' \in [Machines -> 0..MaxEntries] /\ next' \in [Machines -> 0..(MaxEntries + 1)]
    BY <1>4, BoundAssumption DEF Restart
  <2>4. QED
    BY <1>4, <2>1, <2>2, <2>3 DEF Restart, TypeOK
<1>5. CASE \E m \in Machines : NewEntry(m)
  <2>1. PICK m \in Machines : NewEntry(m)
    BY <1>5
  <2>2. entries' \in [Machines -> 0..MaxEntries]
    BY <2>1, BoundAssumption DEF NewEntry, TypeOK
  <2>3. QED
    BY <2>1, <2>2 DEF NewEntry, TypeOK
<1>6. CASE \E m \in Machines : Reset(m)
  <2>1. PICK m \in Machines : Reset(m)
    BY <1>6
  <2>2. log' \in [Machines -> 1..(MaxResets + 1)]
    BY <2>1, BoundAssumption DEF Reset, TypeOK
  <2>3. entries' \in [Machines -> 0..MaxEntries]
    BY <2>1, BoundAssumption DEF Reset, TypeOK
  <2>4. QED
    BY <2>1, <2>2, <2>3 DEF Reset, TypeOK
<1>7. CASE ChangeList
  <2>1. changes' \in 0..MaxChanges
    BY <1>7, BoundAssumption DEF ChangeList, TypeOK
  <2>2. QED
    BY <1>7, <2>1 DEF ChangeList, TypeOK
<1>8. CASE UNCHANGED vars
  BY <1>8 DEF vars, TypeOK
<1>9. QED
  BY <1>1, <1>2, <1>3, <1>4, <1>5, <1>6, <1>7, <1>8 DEF Next, Environment

\* The types and ranges of TypeOK hold in every reachable state: in particular
\* the loop over a response never leaves it.
THEOREM TypeCorrect == Spec => []TypeOK
<1>1. Init => TypeOK
  <2>1. SUFFICES ASSUME Init PROVE TypeOK
    OBVIOUS
  <2>2. stored \in [Machines -> Pointer] /\ ptr \in [Machines -> Pointer]
    BY <2>1, PointerType DEF Init
  <2>3. QED
    BY <2>1, <2>2, BoundAssumption DEF Init, TypeOK
<1>2. QED
  BY <1>1, TypeStep, PTL DEF Spec
-----------------------------------------------------------------------------
(***************************************************************************)
(* The inductive invariant.  A pointer is covered when the entries it      *)
(* would make a round skip are in the output.                              *)
(***************************************************************************)
Covered(q, m) ==
    \A id \in Nat : 1 <= id /\ id <= q.LastReadId /\ q.FirstCreateTime # 0 =>
        <<q.FirstCreateTime, id>> \in out[m]

\* A round that is printing has printed all it has passed; its pointer is
\* covered, or belongs to an older log and follows the loop.
Printing(m) ==
    /\ respLog[m] # 0
    /\ 1 <= next[m] /\ next[m] <= respLen[m] + 1
    /\ 1 <= respLen[m]
    /\ \A id \in Nat : 1 <= id /\ id < next[m] => <<respLog[m], id>> \in out[m]
    /\ ptr[m].FirstCreateTime = respLog[m] => Covered(ptr[m], m)
    /\ ptr[m].FirstCreateTime # respLog[m] => next[m] = 1 \/ ptr[m].LastReadId = next[m] - 1

MInv(m) ==
    /\ Covered(stored[m], m)
    /\ pc[m] \in {"request", "save"} => Covered(ptr[m], m)
    /\ pc[m] \in {"done", "check", "init", "read", "request"} => respLen[m] = 0
    /\ pc[m] = "print" => Printing(m)
    /\ pc[m] = "save" =>
          \A id \in Nat : 1 <= id /\ id <= respLen[m] => <<respLog[m], id>> \in out[m]
    /\ mainPc = "wait" => pc[m] = "done"

\* What a step leaves alone of machine k keeps its part of the invariant.
LEMMA MInvFrame ==
    ASSUME NEW k \in Machines, MInv(k),
           stored[k]' = stored[k], pc[k]' = pc[k], ptr[k]' = ptr[k],
           respLog[k]' = respLog[k], respLen[k]' = respLen[k], next[k]' = next[k],
           out[k]' = out[k], mainPc' = mainPc
    PROVE  MInv(k)'
BY DEF MInv, Printing, Covered

LEMMA WorkerFrame ==
    ASSUME TypeOK, NEW m \in Machines, NEW k \in Machines, k # m, Worker(m)
    PROVE  /\ stored[k]' = stored[k] /\ pc[k]' = pc[k] /\ ptr[k]' = ptr[k]
           /\ respLog[k]' = respLog[k] /\ respLen[k]' = respLen[k]
           /\ next[k]' = next[k] /\ out[k]' = out[k] /\ mainPc' = mainPc
<1> USE DEF bmcVars, fileVars, mainVars, workerVars, TypeOK, Leave, Go
<1>1. CASE CheckFile(m)
  BY <1>1 DEF CheckFile
<1>2. CASE InitFile(m)
  BY <1>2 DEF InitFile
<1>3. CASE ReadPointer(m)
  BY <1>3 DEF ReadPointer
<1>4. CASE RequestFails(m)
  BY <1>4 DEF RequestFails
<1>5. CASE RequestSucceeds(m)
  BY <1>5 DEF RequestSucceeds
<1>6. CASE PrintEntry(m)
  BY <1>6 DEF PrintEntry
<1>7. CASE Printed(m)
  BY <1>7 DEF Printed
<1>8. CASE SavePointer(m)
  BY <1>8 DEF SavePointer
<1>9. QED
  BY <1>1, <1>2, <1>3, <1>4, <1>5, <1>6, <1>7, <1>8 DEF Worker

\* Leaving the call keeps the invariant when the file and the output are covered.
LEMMA LeaveInv ==
    ASSUME TypeOK, NEW m \in Machines, Leave(m), Covered(stored[m], m)'
    PROVE  MInv(m)'
BY DEF Leave, MInv, TypeOK

\* A step of a goroutine keeps the invariant of its own machine.
LEMMA WorkerInv ==
    ASSUME TypeOK, NEW m \in Machines, MInv(m), Worker(m)
    PROVE  MInv(m)'
<1> USE DEF bmcVars, fileVars, mainVars, workerVars
<1>0. Covered(stored[m], m)
  BY DEF MInv
<1>1. CASE CheckFile(m)
  <2>1. Covered(stored[m], m)' /\ mainPc' = mainPc /\ mainPc # "wait"
    BY <1>0, <1>1 DEF CheckFile, Covered, MInv
  <2>2. CASE Leave(m)
    BY <2>1, <2>2, LeaveInv
  <2>3. CASE Go(m, "read") \/ Go(m, "init")
    BY <1>1, <2>1, <2>3 DEF Go, CheckFile, MInv, TypeOK
  <2>4. QED
    BY <1>1, <2>2, <2>3 DEF CheckFile
<1>2. CASE InitFile(m)
  <2>1. mainPc' = mainPc /\ mainPc # "wait" /\ out' = out
    BY <1>2 DEF InitFile, MInv
  <2>2. CASE Leave(m) /\ UNCHANGED fileVars
    <3>1. Covered(stored[m], m)'
      BY <1>0, <2>1, <2>2 DEF Covered
    <3>2. QED
      BY <2>2, <3>1, LeaveInv
  <2>3. CASE Go(m, "read") /\ stored' = [stored EXCEPT ![m] = ZeroPointer]
    <3>1. stored'[m] = ZeroPointer
      BY <2>3 DEF TypeOK
    <3>2. Covered(stored[m], m)'
      BY <3>1 DEF Covered, ZeroPointer
    <3>3. QED
      BY <1>2, <2>1, <2>3, <3>2 DEF Go, InitFile, MInv, TypeOK
  <2>4. QED
    BY <1>2, <2>2, <2>3 DEF InitFile
<1>3. CASE ReadPointer(m)
  <2>1. /\ Covered(stored[m], m)' /\ mainPc' = mainPc /\ mainPc # "wait"
        /\ stored' = stored /\ out' = out
    BY <1>0, <1>3 DEF ReadPointer, Covered, MInv
  <2>2. CASE Leave(m)
    BY <2>1, <2>2, LeaveInv
  <2>3. CASE /\ ptr' = [ptr EXCEPT ![m] = stored[m]]
             /\ pc' = [pc EXCEPT ![m] = "request"]
             /\ UNCHANGED <<respLog, respLen, next>>
    <3>1. ptr'[m] = stored[m] /\ pc'[m] = "request" /\ respLen'[m] = 0
      BY <1>3, <2>3 DEF ReadPointer, TypeOK, MInv
    <3>2. Covered(ptr[m], m)'
      BY <1>0, <2>1, <3>1 DEF Covered
    <3>3. QED
      BY <2>1, <3>1, <3>2 DEF MInv
  <2>4. QED
    BY <1>3, <2>2, <2>3 DEF ReadPointer
<1>4. CASE RequestFails(m)
  <2>1. /\ Covered(stored[m], m)' /\ mainPc' = mainPc /\ mainPc # "wait" /\ out' = out
        /\ Covered(ptr[m], m) /\ respLen'[m] = 0 /\ pc'[m] = "save"
    BY <1>0, <1>4 DEF RequestFails, Covered, MInv, TypeOK
  <2>2. PICK f \in {"tcp", "http"} : ptr' = [ptr EXCEPT ![m].failure = f]
    BY <1>4 DEF RequestFails
  <2>3. /\ ptr'[m].LastReadId = ptr[m].LastReadId
        /\ ptr'[m].FirstCreateTime = ptr[m].FirstCreateTime
    BY <2>2 DEF TypeOK, Pointer
  <2>4. Covered(ptr[m], m)'
    BY <2>1, <2>3 DEF Covered
  <2>5. QED
    BY <2>1, <2>4 DEF MInv
<1>5. CASE RequestSucceeds(m)
  <2>1. /\ Covered(stored[m], m)' /\ mainPc' = mainPc /\ mainPc # "wait" /\ out' = out
        /\ Covered(ptr[m], m)
    BY <1>0, <1>5 DEF RequestSucceeds, Covered, MInv
  <2>2. CASE Leave(m)
    BY <2>1, <2>2, LeaveInv
  <2>3. CASE /\ entries[m] > 0
             /\ respLog' = [respLog EXCEPT ![m] = log[m]]
             /\ respLen' = [respLen EXCEPT ![m] = entries[m]]
             /\ next' = [next EXCEPT ![m] = 1]
             /\ pc' = [pc EXCEPT ![m] = "print"]
             /\ UNCHANGED ptr
    <3>1. /\ respLog'[m] = log[m] /\ respLen'[m] = entries[m] /\ next'[m] = 1
          /\ pc'[m] = "print" /\ ptr'[m] = ptr[m]
      BY <2>3 DEF TypeOK
    <3>2. log[m] # 0 /\ entries[m] >= 1 /\ entries[m] \in Nat
      BY <2>3, BoundAssumption DEF TypeOK
    <3>3. Covered(ptr[m], m)'
      BY <2>1, <3>1 DEF Covered
    <3>4. Printing(m)'
      BY <3>1, <3>2, <3>3 DEF Printing
    <3>5. QED
      BY <2>1, <3>1, <3>4 DEF MInv
  <2>4. QED
    BY <1>5, <2>2, <2>3 DEF RequestSucceeds
<1>6. CASE PrintEntry(m)
  <2> DEFINE r == respLog[m]  n == next[m]
  <2>1. /\ mainPc' = mainPc /\ mainPc # "wait" /\ pc'[m] = "print" /\ Printing(m)
        /\ respLog'[m] = r /\ respLen'[m] = respLen[m] /\ next'[m] = n + 1
        /\ stored' = stored /\ out[m] \subseteq out'[m] /\ n <= respLen[m]
    BY <1>6 DEF PrintEntry, InResponse, MInv, TypeOK
  <2>2. Covered(stored[m], m)'
    BY <1>0, <2>1 DEF Covered
  <2>3. /\ n \in Nat /\ respLen[m] \in Nat /\ 1 <= n
        /\ ptr[m].LastReadId \in Nat /\ r # 0
    BY <2>1, BoundAssumption, PointerType DEF TypeOK, Printing
  <2>4. /\ ptr'[m].FirstCreateTime = ptr[m].FirstCreateTime
        /\ ptr'[m].LastReadId = IF IsNew(m, n) THEN n ELSE ptr[m].LastReadId
    BY <1>6 DEF PrintEntry, ReadUpTo, TypeOK, Pointer
  <2>5. <<r, n>> \in out'[m]
    <3>1. CASE IsNew(m, n)
      BY <1>6, <3>1 DEF PrintEntry, TypeOK
    <3>2. CASE ~IsNew(m, n)
      <4>1. n <= ptr[m].LastReadId /\ ptr[m].FirstCreateTime = r
        BY <2>3, <3>2 DEF IsNew
      <4>2. Covered(ptr[m], m)
        BY <2>1, <4>1 DEF Printing
      <4>3. <<r, n>> \in out[m]
        BY <2>3, <4>1, <4>2 DEF Covered
      <4>4. QED
        BY <2>1, <4>3
    <3>3. QED
      BY <3>1, <3>2
  <2>6. \A id \in Nat : 1 <= id /\ id < n + 1 => <<r, id>> \in out'[m]
    <3>1. SUFFICES ASSUME NEW id \in Nat, 1 <= id, id < n + 1 PROVE <<r, id>> \in out'[m]
      OBVIOUS
    <3>2. CASE id = n
      BY <2>5, <3>2
    <3>3. CASE id < n
      <4>1. <<r, id>> \in out[m]
        BY <2>1, <3>1, <3>3 DEF Printing
      <4>2. QED
        BY <2>1, <4>1
    <3>4. QED
      BY <2>3, <3>1, <3>2, <3>3
  <2>7. ASSUME ptr'[m].FirstCreateTime = r PROVE Covered(ptr[m], m)'
    <3>1. Covered(ptr[m], m) /\ ptr[m].FirstCreateTime = r
      BY <2>1, <2>4, <2>7 DEF Printing
    <3>2. SUFFICES ASSUME NEW id \in Nat, 1 <= id, id <= ptr'[m].LastReadId
                   PROVE  <<r, id>> \in out'[m]
      BY <2>7 DEF Covered
    <3>3. CASE id <= n
      BY <2>3, <2>6, <3>2, <3>3
    <3>4. CASE id > n
      <4>1. id <= ptr[m].LastReadId
        BY <2>3, <2>4, <3>2, <3>4
      <4>2. <<r, id>> \in out[m]
        BY <2>3, <3>1, <3>2, <4>1 DEF Covered
      <4>3. QED
        BY <2>1, <4>2
    <3>5. QED
      BY <2>3, <3>3, <3>4
  <2>8. ASSUME ptr'[m].FirstCreateTime # r PROVE ptr'[m].LastReadId = n
    BY <2>4, <2>8 DEF IsNew
  <2>9. Printing(m)'
    BY <2>1, <2>3, <2>6, <2>7, <2>8 DEF Printing
  <2>10. QED
    BY <2>1, <2>2, <2>9 DEF MInv
<1>7. CASE Printed(m)
  <2> DEFINE r == respLog[m]
  <2>1. /\ mainPc' = mainPc /\ mainPc # "wait" /\ pc'[m] = "save" /\ Printing(m)
        /\ respLog'[m] = r /\ respLen'[m] = respLen[m]
        /\ stored' = stored /\ out' = out /\ next[m] > respLen[m]
    BY <1>7, BoundAssumption DEF Printed, InResponse, MInv, TypeOK
  <2>2. Covered(stored[m], m)'
    BY <1>0, <2>1 DEF Covered
  <2>3. /\ next[m] \in Nat /\ respLen[m] \in Nat /\ next[m] = respLen[m] + 1 /\ 1 <= respLen[m]
        /\ ptr[m].LastReadId \in Nat /\ r # 0
    BY <2>1, BoundAssumption, PointerType DEF TypeOK, Printing
  <2>4. ptr'[m].FirstCreateTime = r /\ ptr'[m].LastReadId = ptr[m].LastReadId
    BY <1>7 DEF Printed, FirstCreateTimeOf, TypeOK, Pointer
  <2>5. \A id \in Nat : 1 <= id /\ id <= respLen[m] => <<r, id>> \in out[m]
    BY <2>1, <2>3 DEF Printing
  <2>6. Covered(ptr[m], m)'
    <3>1. CASE ptr[m].FirstCreateTime = r
      BY <2>1, <2>4, <3>1 DEF Printing, Covered
    <3>2. CASE ptr[m].FirstCreateTime # r
      <4>1. ptr[m].LastReadId = respLen[m]
        BY <2>1, <2>3, <3>2 DEF Printing
      <4>2. QED
        BY <2>1, <2>4, <2>5, <4>1 DEF Covered
    <3>3. QED
      BY <3>1, <3>2
  <2>7. QED
    BY <2>1, <2>2, <2>5, <2>6 DEF MInv
<1>8. CASE SavePointer(m)
  <2>1. Covered(ptr[m], m) /\ out' = out /\ Leave(m)
    BY <1>8 DEF SavePointer, MInv
  <2>2. stored'[m] = ptr[m] \/ stored'[m] = stored[m]
    BY <1>8 DEF SavePointer, TypeOK
  <2>3. Covered(stored[m], m)'
    BY <1>0, <2>1, <2>2 DEF Covered
  <2>4. QED
    BY <2>1, <2>3, LeaveInv
<1>9. QED
  BY <1>1, <1>2, <1>3, <1>4, <1>5, <1>6, <1>7, <1>8 DEF Worker

IInv == TypeOK /\ \A m \in Machines : MInv(m)

\* The invariant is inductive.
LEMMA InvStep == IInv /\ [Next]_vars => IInv'
<1> SUFFICES ASSUME IInv, [Next]_vars PROVE IInv'
  OBVIOUS
<1> USE DEF bmcVars, fileVars, mainVars, workerVars
<1>1. TypeOK /\ TypeOK'
  BY TypeStep DEF IInv
<1>2. SUFFICES ASSUME NEW k \in Machines PROVE MInv(k)'
  BY <1>1 DEF IInv
<1>3. MInv(k)
  BY DEF IInv
<1>4. CASE \E m \in Machines : Worker(m)
  <2>1. PICK m \in Machines : Worker(m)
    BY <1>4
  <2>2. CASE m = k
    BY <1>1, <1>3, <2>1, <2>2, WorkerInv
  <2>3. CASE m # k
    BY <1>1, <1>3, <2>1, <2>3, WorkerFrame, MInvFrame
  <2>4. QED
    BY <2>2, <2>3
<1>5. CASE Tick
  <2>1. /\ pc'[k] \in {"check", "done"} /\ mainPc' # "wait" /\ stored' = stored
        /\ out' = out /\ respLen'[k] = 0
    BY <1>3, <1>5 DEF Tick, MInv
  <2>2. Covered(stored[k], k)'
    BY <1>3, <2>1 DEF MInv, Covered
  <2>3. QED
    BY <2>1, <2>2 DEF MInv
<1>6. CASE Cleanup
  <2>1. /\ pc' = pc /\ pc[k] = "done" /\ out' = out /\ respLen' = respLen
    BY <1>6 DEF Cleanup
  <2>2. stored'[k] = stored[k] \/ stored'[k] = ZeroPointer
    BY <1>6 DEF Cleanup
  <2>3. Covered(stored[k], k)'
    BY <1>3, <2>1, <2>2 DEF MInv, Covered, ZeroPointer
  <2>4. QED
    BY <1>3, <2>1, <2>3 DEF MInv
<1>7. CASE Restart
  <2>1. pc'[k] = "done" /\ respLen'[k] = 0 /\ stored' = stored /\ out' = out
    BY <1>7 DEF Restart
  <2>2. Covered(stored[k], k)'
    BY <1>3, <2>1 DEF MInv, Covered
  <2>3. QED
    BY <2>1, <2>2 DEF MInv
<1>8. CASE Environment
  BY <1>3, <1>8, MInvFrame DEF Environment, NewEntry, Reset, ChangeList
<1>9. CASE UNCHANGED vars
  BY <1>3, <1>9, MInvFrame DEF vars
<1>10. QED
  BY <1>4, <1>5, <1>6, <1>7, <1>8, <1>9 DEF Next

LEMMA InitIInv == Init => IInv
<1>1. SUFFICES ASSUME Init PROVE IInv
  OBVIOUS
<1>2. TypeOK
  <2>1. stored \in [Machines -> Pointer] /\ ptr \in [Machines -> Pointer]
    BY <1>1, PointerType DEF Init
  <2>2. QED
    BY <1>1, <2>1, BoundAssumption DEF Init, TypeOK
<1>3. ASSUME NEW m \in Machines PROVE MInv(m)
  BY <1>1 DEF Init, MInv, Covered, ZeroPointer
<1>4. QED
  BY <1>2, <1>3 DEF IInv

LEMMA Invariant == Spec => []IInv
BY InitIInv, InvStep, PTL DEF Spec

\* For every number of machines, entries, resets, failures, restarts and list
\* changes: no pointer file makes a later round skip an entry that was not
\* printed.
THEOREM PointerFilesNeverAhead == Spec => []PointerNotAhead
<1>1. IInv => PointerNotAhead
  <2>1. SUFFICES ASSUME IInv, NEW m \in Machines, NEW id \in 1..stored[m].LastReadId,
                        stored[m].FirstCreateTime # 0
                 PROVE  <<stored[m].FirstCreateTime, id>> \in out[m]
    BY DEF PointerNotAhead
  <2>2. stored[m].LastReadId \in Nat
    BY <2>1, PointerType DEF IInv, TypeOK
  <2>3. id \in Nat /\ 1 <= id /\ id <= stored[m].LastReadId
    BY <2>1, <2>2
  <2>4. QED
    BY <2>1, <2>3 DEF IInv, MInv, Covered
<1>2. QED
  BY <1>1, Invariant, PTL

\* A call that has been through a response leaves none of its entries
\* unprinted, however the BMC's log was reset in between.
THEOREM ResponsesArePrinted == Spec => []NothingSkipped
<1>1. IInv => NothingSkipped
  <2>1. SUFFICES ASSUME IInv, NEW m \in Machines, pc[m] = "save", NEW id \in 1..respLen[m]
                 PROVE  <<respLog[m], id>> \in out[m]
    BY DEF NothingSkipped
  <2>2. respLen[m] \in Nat
    BY <2>1, BoundAssumption DEF IInv, TypeOK
  <2>3. id \in Nat /\ 1 <= id /\ id <= respLen[m]
    BY <2>1, <2>2
  <2>4. QED
    BY <2>1, <2>3 DEF IInv, MInv
<1>2. QED
  BY <1>1, Invariant, PTL
-----------------------------------------------------------------------------
(***************************************************************************)
(* What is kept of a machine: counters and goroutines past the check have  *)
(* a pointer file, and the failure that a pointer, in the file or in       *)
(* memory, would silence has been logged.                                  *)
(***************************************************************************)
Reported(q, m) == q.failure # "none" => q.failure \in reported[m]

Books(m) ==
    /\ m \in counted => file[m] # "none"
    /\ pc[m] \in {"init", "read", "request", "print", "save"} => file[m] # "none"
    /\ Reported(stored[m], m)
    /\ Reported(ptr[m], m)

BooksInv == IInv /\ \A m \in Machines : Books(m)

\* What a step leaves alone of machine k.
LEMMA BooksFrame ==
    ASSUME NEW k \in Machines, Books(k),
           file[k]' = file[k], stored[k]' = stored[k], pc[k]' = pc[k], ptr[k]' = ptr[k],
           reported[k] \subseteq reported[k]', k \in counted' => k \in counted
    PROVE  Books(k)'
BY DEF Books, Reported

LEMMA WorkerLeavesBooks ==
    ASSUME TypeOK, NEW m \in Machines, NEW k \in Machines, k # m, Worker(m)
    PROVE  /\ file[k]' = file[k] /\ log' = log /\ reported[k]' = reported[k]
           /\ k \in counted' => k \in counted
           /\ UNCHANGED <<listed, mainPc, current, changes>>
<1> USE DEF bmcVars, fileVars, mainVars, workerVars, TypeOK
<1>1. CASE CheckFile(m)
  BY <1>1 DEF CheckFile
<1>2. CASE InitFile(m)
  BY <1>2 DEF InitFile
<1>3. CASE ReadPointer(m)
  BY <1>3 DEF ReadPointer
<1>4. CASE RequestFails(m)
  BY <1>4 DEF RequestFails
<1>5. CASE RequestSucceeds(m)
  BY <1>5 DEF RequestSucceeds
<1>6. CASE PrintEntry(m)
  BY <1>6 DEF PrintEntry
<1>7. CASE Printed(m)
  BY <1>7 DEF Printed
<1>8. CASE SavePointer(m)
  BY <1>8 DEF SavePointer
<1>9. QED
  BY <1>1, <1>2, <1>3, <1>4, <1>5, <1>6, <1>7, <1>8 DEF Worker

\* Leaving the call: the zero pointer silences nothing.
LEMMA LeaveBooks ==
    ASSUME TypeOK, NEW m \in Machines, Leave(m), m \in counted' => file'[m] # "none",
           Reported(stored[m], m)'
    PROVE  Books(m)'
<1>1. pc'[m] = "done" /\ ptr'[m] = ZeroPointer
  BY DEF Leave, TypeOK
<1>2. Reported(ptr[m], m)'
  BY <1>1 DEF Reported, ZeroPointer
<1>3. QED
  BY <1>1, <1>2 DEF Books

\* A step of a goroutine keeps the books of its own machine.
LEMMA WorkerBooks ==
    ASSUME TypeOK, NEW m \in Machines, Books(m), Worker(m)
    PROVE  Books(m)'
<1> USE DEF bmcVars, fileVars, mainVars, workerVars
<1>1. CASE CheckFile(m)
  <2>1. /\ stored' = stored /\ reported' = reported /\ counted' = counted
        /\ file[m] # "none" => file'[m] # "none"
    BY <1>1 DEF CheckFile, TypeOK
  <2>2. CASE Leave(m)
    BY <2>1, <2>2, LeaveBooks DEF Books, Reported
  <2>3. CASE Go(m, "read") /\ file[m] # "none"
    BY <2>1, <2>3 DEF Books, Reported, Go, TypeOK
  <2>4. CASE Go(m, "init") /\ file' = [file EXCEPT ![m] = "empty"]
    BY <2>1, <2>4 DEF Books, Reported, Go, TypeOK
  <2>5. QED
    BY <1>1, <2>2, <2>3, <2>4 DEF CheckFile
<1>2. CASE InitFile(m)
  <2>1. reported' = reported /\ counted' = counted /\ file[m] # "none"
    BY <1>2 DEF InitFile, Books
  <2>2. CASE Leave(m) /\ UNCHANGED fileVars
    BY <2>1, <2>2, LeaveBooks DEF Books, Reported
  <2>3. CASE /\ file' = [file EXCEPT ![m] = "written"]
             /\ stored' = [stored EXCEPT ![m] = ZeroPointer] /\ Go(m, "read")
    <3>1. file'[m] = "written" /\ stored'[m] = ZeroPointer /\ ptr'[m] = ptr[m]
      BY <2>3 DEF Go, TypeOK
    <3>2. Reported(stored[m], m)'
      BY <3>1 DEF Reported, ZeroPointer
    <3>3. QED
      BY <2>1, <3>1, <3>2 DEF Books, Reported
  <2>4. QED
    BY <1>2, <2>2, <2>3 DEF InitFile
<1>3. CASE ReadPointer(m)
  <2>1. /\ file' = file /\ stored' = stored /\ reported' = reported
        /\ counted' = counted /\ file[m] # "none"
    BY <1>3 DEF ReadPointer, Books
  <2>2. CASE Leave(m)
    BY <2>1, <2>2, LeaveBooks DEF Books, Reported
  <2>3. CASE ptr' = [ptr EXCEPT ![m] = stored[m]]
    BY <2>1, <2>3 DEF Books, Reported, TypeOK
  <2>4. QED
    BY <1>3, <2>2, <2>3 DEF ReadPointer
<1>4. CASE RequestFails(m)
  <2>1. PICK f \in {"tcp", "http"} :
          /\ reported' = [reported EXCEPT ![m] =
                            IF Suppressed(m, f) THEN @ ELSE @ \cup {f}]
          /\ ptr' = [ptr EXCEPT ![m].failure = f]
    BY <1>4 DEF RequestFails
  <2>2. file' = file /\ stored' = stored /\ file[m] # "none"
    BY <1>4 DEF RequestFails, Books
  <2>3. ptr'[m].failure = f
    BY <2>1 DEF TypeOK, Pointer
  <2>4. reported'[m] = IF Suppressed(m, f) THEN reported[m] ELSE reported[m] \cup {f}
    BY <2>1 DEF TypeOK
  <2>5. f \in reported'[m]
    BY <2>4 DEF Suppressed, Books, Reported
  <2>6. QED
    BY <2>2, <2>3, <2>4, <2>5 DEF Books, Reported
<1>5. CASE RequestSucceeds(m)
  <2>1. file' = file /\ stored' = stored /\ reported' = reported /\ file[m] # "none"
    BY <1>5 DEF RequestSucceeds, Books
  <2>2. CASE Leave(m)
    BY <2>1, <2>2, LeaveBooks DEF Books, Reported
  <2>3. CASE UNCHANGED ptr
    BY <2>1, <2>3 DEF Books, Reported
  <2>4. QED
    BY <1>5, <2>2, <2>3 DEF RequestSucceeds
<1>6. CASE PrintEntry(m)
  <2>1. /\ file' = file /\ stored' = stored /\ reported' = reported
        /\ counted' = counted /\ pc' = pc
    BY <1>6 DEF PrintEntry
  <2>2. ptr'[m].failure = ptr[m].failure
    BY <1>6 DEF PrintEntry, TypeOK, Pointer
  <2>3. QED
    BY <2>1, <2>2 DEF Books, Reported
<1>7. CASE Printed(m)
  <2>1. /\ file' = file /\ stored' = stored /\ reported' = reported
        /\ counted' = counted /\ file[m] # "none"
    BY <1>7 DEF Printed, Books
  <2>2. ptr'[m].failure = ptr[m].failure
    BY <1>7 DEF Printed, TypeOK, Pointer
  <2>3. QED
    BY <2>1, <2>2 DEF Books, Reported
<1>8. CASE SavePointer(m)
  <2>1. Leave(m) /\ reported' = reported /\ file'[m] # "none"
    BY <1>8 DEF SavePointer, TypeOK, Books
  <2>2. stored'[m] = ptr[m] \/ stored'[m] = stored[m]
    BY <1>8 DEF SavePointer, TypeOK
  <2>3. QED
    BY <2>1, <2>2, LeaveBooks DEF Books, Reported
<1>9. QED
  BY <1>1, <1>2, <1>3, <1>4, <1>5, <1>6, <1>7, <1>8 DEF Worker

LEMMA BooksStep == BooksInv /\ [Next]_vars => BooksInv'
<1> SUFFICES ASSUME BooksInv, [Next]_vars PROVE BooksInv'
  OBVIOUS
<1> USE DEF bmcVars, fileVars, mainVars, workerVars
<1>1. IInv' /\ TypeOK
  BY InvStep DEF BooksInv, IInv
<1>2. SUFFICES ASSUME NEW k \in Machines PROVE Books(k)'
  BY <1>1 DEF BooksInv
<1>3. Books(k)
  BY DEF BooksInv
<1>4. CASE \E m \in Machines : Worker(m)
  <2>1. PICK m \in Machines : Worker(m)
    BY <1>4
  <2>2. CASE m = k
    BY <1>1, <1>3, <2>1, <2>2, WorkerBooks
  <2>3. CASE m # k
    BY <1>1, <1>3, <2>1, <2>3, WorkerFrame, WorkerLeavesBooks, BooksFrame
  <2>4. QED
    BY <2>2, <2>3
<1>5. CASE Tick
  BY <1>3, <1>5 DEF Tick, Books, Reported
<1>6. CASE Cleanup
  <2>1. pc' = pc /\ pc[k] = "done" /\ ptr' = ptr /\ reported' = reported
    BY <1>6 DEF Cleanup
  <2>2. stored'[k] = stored[k] \/ stored'[k] = ZeroPointer
    BY <1>6 DEF Cleanup
  <2>3. Reported(stored[k], k)'
    BY <1>3, <2>1, <2>2 DEF Books, Reported, ZeroPointer
  <2>4. k \in counted' => k \in counted /\ file'[k] = file[k]
    BY <1>6 DEF Cleanup, Counted
  <2>5. QED
    BY <1>3, <2>1, <2>3, <2>4 DEF Books, Reported
<1>7. CASE Restart
  <2>1. /\ pc'[k] = "done" /\ ptr'[k] = ZeroPointer /\ stored' = stored
        /\ reported' = reported /\ counted' = {}
    BY <1>7 DEF Restart
  <2>2. Reported(ptr[k], k)'
    BY <2>1 DEF Reported, ZeroPointer
  <2>3. QED
    BY <1>3, <2>1, <2>2 DEF Books, Reported
<1>8. CASE Environment
  BY <1>3, <1>8, BooksFrame DEF Environment, NewEntry, Reset, ChangeList
<1>9. CASE UNCHANGED vars
  BY <1>3, <1>9, BooksFrame DEF vars
<1>10. QED
  BY <1>4, <1>5, <1>6, <1>7, <1>8, <1>9 DEF Next

LEMMA InitInvariant == Init => BooksInv
<1>1. SUFFICES ASSUME Init PROVE BooksInv
  OBVIOUS
<1>2. IInv
  BY <1>1, InitIInv
<1>3. ASSUME NEW m \in Machines PROVE Books(m)
  BY <1>1 DEF Init, Books, Reported, ZeroPointer
<1>4. QED
  BY <1>2, <1>3 DEF BooksInv

LEMMA BooksInvariant == Spec => []BooksInv
BY InitInvariant, BooksStep, PTL DEF Spec

\* Whatever requests and writes fail and whenever the process restarts: a
\* failure that a pointer file silences (log-collector.go:78, 93) has been logged.
THEOREM SilencedFailuresWereLogged == Spec => []SuppressedWasReported
<1>1. BooksInv => SuppressedWasReported
  BY DEF BooksInv, Books, Reported, SuppressedWasReported
<1>2. QED
  BY <1>1, BooksInvariant, PTL

\* Request counters never outlive the pointer file whose removal drops them,
\* for any changes of the list and any failing removal.
THEOREM CountersAreDropped == Spec => []CountersHaveFiles
<1>1. BooksInv => CountersHaveFiles
  BY DEF BooksInv, IInv, TypeOK, Books, CountersHaveFiles
<1>2. QED
  BY <1>1, BooksInvariant, PTL
-----------------------------------------------------------------------------
(***************************************************************************)
(* No entry twice.  As long as nothing but requests has failed and the     *)
(* list is the first one, no entry is past the pointer: neither one of a   *)
(* later log nor one with a larger id of the same log.                     *)
(***************************************************************************)
Calm == faults = MaxFaults /\ changes = MaxChanges

Behind(q, m) ==
    \A e \in out[m] :
        e[1] < q.FirstCreateTime \/ (e[1] = q.FirstCreateTime /\ e[2] <= q.LastReadId)

\* While a round prints, its pointer is ahead of the output, or belongs to an
\* older log and the output has nothing of the new log from next on.
Fresh(m) ==
    /\ respLog[m] <= log[m]
    /\ ptr[m].FirstCreateTime <= respLog[m]
    /\ ptr[m].FirstCreateTime = respLog[m] => Behind(ptr[m], m)
    /\ ptr[m].FirstCreateTime < respLog[m] =>
          \A e \in out[m] : e[1] < respLog[m] \/ (e[1] = respLog[m] /\ e[2] < next[m])

Once(m) ==
    /\ file[m] = "none" \/ pc[m] = "init" => out[m] = {}
    /\ stored[m].FirstCreateTime <= log[m]
    /\ pc[m] \notin {"print", "save"} => Behind(stored[m], m)
    /\ pc[m] \in {"request", "save"} =>
          Behind(ptr[m], m) /\ ptr[m].FirstCreateTime <= log[m]
    /\ pc[m] = "print" => Fresh(m)

OnceInv ==
    /\ BooksInv
    /\ Calm => /\ listed = Machines
               /\ mainPc = "collect" => current = Machines
               /\ \A m \in Machines : Once(m)

\* What a step leaves alone of machine k; its BMC may start another log.
LEMMA OnceFrame ==
    ASSUME NEW k \in Machines, Once(k), TypeOK, TypeOK',
           file[k]' = file[k], stored[k]' = stored[k], pc[k]' = pc[k], ptr[k]' = ptr[k],
           respLog[k]' = respLog[k], next[k]' = next[k], out[k]' = out[k],
           log[k] <= log[k]'
    PROVE  Once(k)'
<1>1. /\ log[k] \in Nat /\ log'[k] \in Nat /\ respLog[k] \in Nat
      /\ ptr[k].FirstCreateTime \in Nat /\ stored[k].FirstCreateTime \in Nat
  BY PointerType, BoundAssumption DEF TypeOK
<1>2. pc[k] = "print" => Fresh(k)'
  BY <1>1 DEF Once, Fresh, Behind
<1>3. pc[k] \notin {"print", "save"} => Behind(stored[k], k)'
  BY DEF Once, Behind
<1>4. pc[k] \in {"request", "save"} => Behind(ptr[k], k)'
  BY DEF Once, Behind
<1>5. QED
  BY <1>1, <1>2, <1>3, <1>4 DEF Once

\* Leaving the call before anything was printed.
LEMMA LeaveOnce ==
    ASSUME TypeOK, NEW m \in Machines, Once(m), Leave(m),
           UNCHANGED <<log, file, stored, out>>, pc[m] \notin {"init", "print", "save"}
    PROVE  Once(m)'
<1>1. pc'[m] = "done"
  BY DEF Leave, TypeOK
<1>2. Behind(stored[m], m)'
  BY DEF Once, Behind
<1>3. QED
  BY <1>1, <1>2 DEF Once

\* A step of a goroutine that meets no failing file operation.
LEMMA WorkerOnce ==
    ASSUME TypeOK, NEW m \in Machines, MInv(m), Books(m), Once(m), Worker(m), ~Fault
    PROVE  Once(m)'
<1> USE DEF bmcVars, fileVars, mainVars, workerVars
<1>0. /\ log[m] \in Nat /\ respLog[m] \in Nat /\ next[m] \in Nat /\ respLen[m] \in Nat
      /\ ptr[m].FirstCreateTime \in Nat /\ stored[m].FirstCreateTime \in Nat
      /\ ptr[m].LastReadId \in Nat /\ stored[m].LastReadId \in Nat
      /\ \A e \in out[m] : e[1] \in Nat /\ e[2] \in Nat
  BY PointerType, BoundAssumption DEF TypeOK
<1>1. CASE CheckFile(m)
  <2>1. /\ stored' = stored /\ out' = out /\ log' = log /\ pc[m] = "check"
        /\ pc'[m] \in {"read", "init"}
        /\ pc'[m] = "init" => file[m] = "none"
        /\ file'[m] = "none" => file[m] = "none"
    BY <1>1 DEF CheckFile, Go, TypeOK
  <2>2. Behind(stored[m], m)'
    BY <2>1 DEF Once, Behind
  <2>3. QED
    BY <2>1, <2>2 DEF Once
<1>2. CASE InitFile(m)
  <2>1. /\ stored'[m] = ZeroPointer /\ out' = out /\ log' = log
        /\ pc[m] = "init" /\ pc'[m] = "read"
    BY <1>2 DEF InitFile, Go, TypeOK
  <2>2. out'[m] = {}
    BY <2>1 DEF Once
  <2>3. Behind(stored[m], m)'
    BY <2>2 DEF Behind
  <2>4. QED
    BY <1>0, <2>1, <2>2, <2>3 DEF Once, ZeroPointer
<1>3. CASE ReadPointer(m)
  <2>1. UNCHANGED <<log, file, stored, out>> /\ pc[m] = "read"
    BY <1>3 DEF ReadPointer
  <2>2. CASE Leave(m)
    BY <2>1, <2>2, LeaveOnce
  <2>3. CASE /\ ptr' = [ptr EXCEPT ![m] = stored[m]]
             /\ pc' = [pc EXCEPT ![m] = "request"]
    <3>1. ptr'[m] = stored[m] /\ pc'[m] = "request"
      BY <2>3 DEF TypeOK
    <3>2. Behind(stored[m], m)' /\ Behind(ptr[m], m)'
      BY <2>1, <3>1 DEF Once, Behind
    <3>3. QED
      BY <2>1, <3>1, <3>2 DEF Once
  <2>4. QED
    BY <1>3, <2>2, <2>3 DEF ReadPointer
<1>4. CASE RequestFails(m)
  <2>1. UNCHANGED <<log, file, stored, out>> /\ pc[m] = "request" /\ pc'[m] = "save"
    BY <1>4 DEF RequestFails, TypeOK
  <2>2. /\ ptr'[m].LastReadId = ptr[m].LastReadId
        /\ ptr'[m].FirstCreateTime = ptr[m].FirstCreateTime
    BY <1>4 DEF RequestFails, TypeOK, Pointer
  <2>3. Behind(ptr[m], m)'
    BY <2>1, <2>2 DEF Once, Behind
  <2>4. QED
    BY <2>1, <2>2, <2>3 DEF Once
<1>5. CASE RequestSucceeds(m)
  <2>1. UNCHANGED <<log, file, stored, out>> /\ pc[m] = "request"
    BY <1>5 DEF RequestSucceeds
  <2>2. CASE Leave(m)
    BY <2>1, <2>2, LeaveOnce
  <2>3. CASE /\ respLog' = [respLog EXCEPT ![m] = log[m]]
             /\ next' = [next EXCEPT ![m] = 1]
             /\ pc' = [pc EXCEPT ![m] = "print"]
             /\ UNCHANGED ptr
    <3>1. respLog'[m] = log[m] /\ next'[m] = 1 /\ pc'[m] = "print" /\ ptr' = ptr
      BY <2>3 DEF TypeOK
    <3>2. Behind(ptr[m], m) /\ ptr[m].FirstCreateTime <= log[m]
      BY <2>1 DEF Once
    <3>3. Behind(ptr[m], m)'
      BY <2>1, <3>1, <3>2 DEF Behind
    <3>4. ASSUME ptr[m].FirstCreateTime < log[m] PROVE \A e \in out[m] : e[1] < log[m]
      BY <1>0, <3>2, <3>4 DEF Behind
    <3>5. Fresh(m)'
      BY <1>0, <2>1, <3>1, <3>2, <3>3, <3>4 DEF Fresh
    <3>6. QED
      BY <2>1, <3>1, <3>5 DEF Once
  <2>4. QED
    BY <1>5, <2>2, <2>3 DEF RequestSucceeds
<1>6. CASE PrintEntry(m)
  <2> DEFINE r == respLog[m]  n == next[m]
  <2>1. /\ UNCHANGED <<log, file, stored>> /\ pc[m] = "print" /\ pc'[m] = "print"
        /\ respLog'[m] = r /\ next'[m] = n + 1 /\ Fresh(m) /\ file[m] # "none"
    BY <1>6 DEF PrintEntry, TypeOK, Once, Books
  <2>2. /\ ptr'[m].FirstCreateTime = ptr[m].FirstCreateTime
        /\ ptr'[m].LastReadId = IF IsNew(m, n) THEN n ELSE ptr[m].LastReadId
        /\ out'[m] = IF IsNew(m, n) THEN out[m] \cup {<<r, n>>} ELSE out[m]
    <3>1. CASE IsNew(m, n)
      <4>1. /\ out' = [out EXCEPT ![m] = out[m] \cup {<<r, n>>}]
            /\ ptr' = [ptr EXCEPT ![m].LastReadId = n]
        BY <1>6, <3>1 DEF PrintEntry, ReadUpTo
      <4>2. QED
        BY <3>1, <4>1 DEF TypeOK, Pointer
    <3>2. CASE ~IsNew(m, n)
      BY <1>6, <3>2 DEF PrintEntry
    <3>3. QED
      BY <3>1, <3>2
  <2>3. ASSUME ptr[m].FirstCreateTime = r PROVE Behind(ptr[m], m)'
    <3>1. Behind(ptr[m], m)
      BY <2>1, <2>3 DEF Fresh
    <3>2. CASE IsNew(m, n)
      <4>1. ptr[m].LastReadId < n
        BY <2>3, <3>2 DEF IsNew
      <4>2. SUFFICES ASSUME NEW e \in out'[m]
                     PROVE  e[1] < r \/ (e[1] = r /\ e[2] <= n)
        BY <2>2, <2>3, <3>2 DEF Behind
      <4>3. CASE e = <<r, n>>
        BY <1>0, <4>3
      <4>4. CASE e \in out[m]
        <5>1. e[1] < r \/ (e[1] = r /\ e[2] <= ptr[m].LastReadId)
          BY <2>3, <3>1, <4>4 DEF Behind
        <5>2. QED
          BY <1>0, <4>1, <4>4, <5>1
      <4>5. QED
        BY <2>2, <3>2, <4>2, <4>3, <4>4
    <3>3. CASE ~IsNew(m, n)
      BY <2>2, <3>1, <3>3 DEF Behind
    <3>4. QED
      BY <3>2, <3>3
  <2>4. ASSUME ptr[m].FirstCreateTime < r, NEW e \in out'[m]
        PROVE  e[1] < r \/ (e[1] = r /\ e[2] < n + 1)
    <3>1. CASE e = <<r, n>>
      BY <1>0, <3>1
    <3>2. CASE e \in out[m]
      <4>1. e[1] < r \/ (e[1] = r /\ e[2] < n)
        BY <2>1, <2>4, <3>2 DEF Fresh
      <4>2. QED
        BY <1>0, <3>2, <4>1
    <3>3. QED
      BY <2>2, <2>4, <3>1, <3>2
  <2>5. Fresh(m)'
    BY <2>1, <2>2, <2>3, <2>4 DEF Fresh
  <2>6. QED
    BY <2>1, <2>5 DEF Once
<1>7. CASE Printed(m)
  <2> DEFINE r == respLog[m]
  <2>1. /\ UNCHANGED <<log, file, stored, out>> /\ pc[m] = "print" /\ pc'[m] = "save"
        /\ Fresh(m) /\ Printing(m) /\ ~InResponse(m) /\ file[m] # "none"
    BY <1>7 DEF Printed, TypeOK, Once, MInv, Books
  <2>2. ptr'[m].FirstCreateTime = r /\ ptr'[m].LastReadId = ptr[m].LastReadId
    BY <1>7 DEF Printed, FirstCreateTimeOf, TypeOK, Pointer
  <2>3. Behind(ptr[m], m)'
    <3>1. CASE ptr[m].FirstCreateTime = r
      BY <2>1, <2>2, <3>1 DEF Fresh, Behind
    <3>2. CASE ptr[m].FirstCreateTime # r
      <4>1. ptr[m].FirstCreateTime < r
        BY <1>0, <2>1, <3>2 DEF Fresh
      <4>2. ptr[m].LastReadId = next[m] - 1
        BY <1>0, <2>1, <3>2 DEF Printing, InResponse
      <4>3. SUFFICES ASSUME NEW e \in out[m]
                     PROVE  e[1] < r \/ (e[1] = r /\ e[2] <= ptr[m].LastReadId)
        BY <2>1, <2>2 DEF Behind
      <4>4. e[1] < r \/ (e[1] = r /\ e[2] < next[m])
        BY <2>1, <4>1 DEF Fresh
      <4>5. QED
        BY <1>0, <4>2, <4>4
    <3>3. QED
      BY <3>1, <3>2
  <2>4. QED
    BY <2>1, <2>2, <2>3 DEF Once, Fresh
<1>8. CASE SavePointer(m)
  <2>1. /\ stored'[m] = ptr[m] /\ file'[m] = "written" /\ pc'[m] = "done"
        /\ out' = out /\ log' = log /\ pc[m] = "save"
    BY <1>8 DEF SavePointer, Leave, TypeOK
  <2>2. Behind(stored[m], m)'
    BY <2>1 DEF Once, Behind
  <2>3. QED
    BY <2>1, <2>2 DEF Once
<1>9. QED
  BY <1>1, <1>2, <1>3, <1>4, <1>5, <1>6, <1>7, <1>8 DEF Worker

\* Nothing brings the calm back, and what ends it counts as a failure or a change.
LEMMA CalmBefore ==
    ASSUME TypeOK, [Next]_vars, Calm'
    PROVE  Calm /\ ~Fault /\ listed' = listed
<1>1. faults \in Nat /\ faults <= MaxFaults /\ changes \in Nat /\ changes <= MaxChanges
      /\ MaxFaults \in Nat /\ MaxChanges \in Nat
  BY BoundAssumption DEF TypeOK
<1>2. Fault \/ UNCHANGED faults
  BY DEF Next, Worker, CheckFile, InitFile, ReadPointer, RequestFails, RequestSucceeds,
         PrintEntry, Printed, SavePointer, Tick, Cleanup, Restart, Environment, NewEntry,
         Reset, ChangeList, vars
<1>3. (changes > 0 /\ changes' = changes - 1) \/ (UNCHANGED changes /\ listed' = listed)
  BY DEF Next, Worker, CheckFile, InitFile, ReadPointer, RequestFails, RequestSucceeds,
         PrintEntry, Printed, SavePointer, Tick, Cleanup, Restart, Environment, NewEntry,
         Reset, ChangeList, vars, bmcVars
<1>4. ~Fault
  BY <1>1 DEF Calm, Fault
<1>5. QED
  BY <1>1, <1>2, <1>3, <1>4 DEF Calm

LEMMA OnceStep == OnceInv /\ [Next]_vars => OnceInv'
<1> SUFFICES ASSUME OnceInv, [Next]_vars PROVE OnceInv'
  OBVIOUS
<1> USE DEF bmcVars, fileVars, mainVars, workerVars
<1>1. BooksInv /\ BooksInv' /\ TypeOK /\ TypeOK'
  BY BooksStep DEF OnceInv, BooksInv, IInv
<1>2. SUFFICES ASSUME Calm'
               PROVE  /\ listed' = Machines
                      /\ mainPc' = "collect" => current' = Machines
                      /\ \A m \in Machines : Once(m)'
  BY <1>1 DEF OnceInv
<1>3. ~Fault /\ listed' = listed /\ listed = Machines
      /\ (mainPc = "collect" => current = Machines) /\ \A m \in Machines : Once(m)
  BY <1>1, <1>2, CalmBefore DEF OnceInv
<1>4. CASE \E m \in Machines : Worker(m)
  <2>1. PICK m \in Machines : Worker(m)
    BY <1>4
  <2>2. mainPc' = mainPc /\ current' = current /\ log' = log
    BY <2>1 DEF Worker, CheckFile, InitFile, ReadPointer, RequestFails,
                RequestSucceeds, PrintEntry, Printed, SavePointer
  <2>3. Once(m)'
    BY <1>1, <1>3, <2>1, WorkerOnce DEF BooksInv, IInv
  <2>4. ASSUME NEW k \in Machines, k # m PROVE Once(k)'
    <3>1. log[k] <= log'[k]
      BY <1>1, <2>2, BoundAssumption DEF TypeOK
    <3>2. QED
      BY <1>1, <1>3, <2>1, <2>4, <3>1, WorkerFrame, WorkerLeavesBooks, OnceFrame
  <2>5. QED
    BY <1>3, <2>2, <2>3, <2>4
<1>5. CASE Tick
  <2>1. /\ UNCHANGED <<file, stored, out, log>> /\ current' = Machines
        /\ \A k \in Machines : pc[k] = "done" /\ pc'[k] = "check"
    BY <1>1, <1>3, <1>5 DEF Tick, BooksInv, IInv, MInv
  <2>2. ASSUME NEW k \in Machines PROVE Once(k)'
    BY <1>3, <2>1 DEF Once, Behind
  <2>3. QED
    BY <1>3, <2>1, <2>2
<1>6. CASE Cleanup
  <2>1. Forgotten = {}
    BY <1>3, <1>6 DEF Cleanup, Forgotten
  <2>2. mainPc' = "wait" /\ UNCHANGED <<pc, ptr, respLog, respLen, next, out, log>>
    BY <1>6 DEF Cleanup
  <2>3. \A k \in Machines : file'[k] = file[k] /\ stored'[k] = stored[k]
    BY <1>6, <2>1 DEF Cleanup
  <2>4. ASSUME NEW k \in Machines PROVE Once(k)'
    <3>1. log[k] <= log'[k]
      BY <1>1, <2>2, BoundAssumption DEF TypeOK
    <3>2. QED
      BY <1>1, <1>3, <2>2, <2>3, <3>1, OnceFrame
  <2>5. QED
    BY <1>3, <2>2, <2>4
<1>7. CASE Restart
  BY <1>3, <1>7 DEF Restart
<1>8. CASE Environment \/ UNCHANGED vars
  <2>1. UNCHANGED <<mainPc, current, file, stored, pc, ptr, respLog, next, out>>
    BY <1>8 DEF Environment, NewEntry, Reset, ChangeList, vars
  <2>2. \A k \in Machines : log[k] <= log'[k]
    BY <1>1, <1>8, BoundAssumption DEF Environment, NewEntry, Reset, ChangeList, vars, TypeOK
  <2>3. ASSUME NEW k \in Machines PROVE Once(k)'
    BY <1>1, <1>3, <2>1, <2>2, OnceFrame
  <2>4. QED
    BY <1>3, <2>1, <2>3
<1>9. QED
  BY <1>4, <1>5, <1>6, <1>7, <1>8 DEF Next

\* While no file operation fails, the process lives and the list stays, no
\* entry is printed twice: failing requests, resets of the log during a round
\* and growing logs do not break the comparison of log-collector.go:125.
THEOREM EntriesArePrintedOnce == Spec => []PrintedOnce
<1>1. Init => OnceInv
  <2>1. SUFFICES ASSUME Init PROVE OnceInv
    OBVIOUS
  <2>2. BooksInv
    BY <2>1, InitInvariant
  <2>3. ASSUME NEW m \in Machines PROVE Once(m)
    BY <2>1 DEF Init, Once, Behind, ZeroPointer
  <2>4. QED
    BY <2>1, <2>2, <2>3 DEF OnceInv, Init
<1>2. OnceInv => PrintedOnce
  <2>1. SUFFICES ASSUME OnceInv, Calm, NEW m \in Machines, pc[m] = "print",
                        IsNew(m, next[m]), <<respLog[m], next[m]>> \in out[m]
                 PROVE  FALSE
    BY DEF PrintedOnce, Calm
  <2>2. Fresh(m)
    BY <2>1 DEF OnceInv, Once
  <2>3. /\ respLog[m] \in Nat /\ next[m] \in Nat
        /\ ptr[m].FirstCreateTime \in Nat /\ ptr[m].LastReadId \in Nat
    BY <2>1, PointerType, BoundAssumption DEF OnceInv, BooksInv, IInv, TypeOK
  <2>4. CASE ptr[m].FirstCreateTime = respLog[m]
    <3>1. next[m] <= ptr[m].LastReadId
      BY <2>1, <2>2, <2>3, <2>4 DEF Fresh, Behind
    <3>2. QED
      BY <2>1, <2>3, <2>4, <3>1 DEF IsNew
  <2>5. CASE ptr[m].FirstCreateTime < respLog[m]
    BY <2>1, <2>2, <2>3, <2>5 DEF Fresh
  <2>6. QED
    BY <2>2, <2>3, <2>4, <2>5 DEF Fresh
<1>3. QED
  BY <1>1, <1>2, OnceStep, PTL DEF Spec
=============================================================================
