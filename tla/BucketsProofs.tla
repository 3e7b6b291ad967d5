--------------------------- MODULE BucketsProofs ---------------------------
(***************************************************************************)
(* Proofs about bucket-provisioner-light and s3gw at one bucket, for any   *)
(* claims, keys, clients and page size, and any number of faults.          *)
(***************************************************************************)
EXTENDS Buckets, TLAPS

TypeOK ==
    /\ exists \in BOOLEAN /\ dropped \in BOOLEAN
    /\ claim \in [Claims -> {"none", "requested", "bound", "deleting", "gone"}]
    /\ pc \in {"idle", "head", "create", "list", "delete", "remove"}
    /\ request \in [Clients -> Requests \cup {NoRequest}]

\* The worker provisions a claim that asks for it and deletes one that is being
\* deleted.
WorkFits ==
    /\ \A c \in Claims : claim[c] = "deleting" => dropped
    /\ pc \in {"head", "create"} => work \in Claims /\ claim[work] = "requested"
    /\ pc \in {"list", "delete", "remove"} =>
          work \in Claims /\ claim[work] = "deleting" /\ dropped

\* The bucket and what is in it.
StoreFits ==
    /\ ~exists => objects = {} /\ acked = {}
    /\ exists => \E c \in Claims : claim[c] \in {"requested", "bound", "deleting"}
    /\ ~dropped => /\ acked \subseteq objects
                   /\ \A c \in Claims : claim[c] = "bound" => exists

\* Only admitted clients have a request under way.
Admitted == \A c \in Clients : request[c] # NoRequest => c \in Allowed \/ c \notin Denied

IInv == TypeOK /\ WorkFits /\ StoreFits /\ Admitted
-----------------------------------------------------------------------------
\* No bucket and no claim at first.
LEMMA InitIsGood == Init => IInv
<1> SUFFICES ASSUME Init PROVE IInv
    OBVIOUS
<1> USE DEF Init
<1>1. TypeOK
    BY DEF TypeOK
<1>2. WorkFits /\ StoreFits /\ Admitted
    BY DEF WorkFits, StoreFits, Admitted
<1> QED BY <1>1, <1>2 DEF IInv

\* Every step of the controller, the provisioner and the gateway keeps the
\* invariant.
LEMMA StepIsGood == IInv /\ [Next]_vars => IInv'
<1> SUFFICES ASSUME IInv, [Next]_vars PROVE IInv'
    OBVIOUS
<1> USE DEF IInv, TypeOK, WorkFits, StoreFits, Admitted
<1> USE DEF storeVars, workerVars, historyVars
<1>1. ASSUME NEW c \in Claims, CreateClaim(c) PROVE IInv'
    BY <1>1 DEF CreateClaim
<1>2. ASSUME NEW c \in Claims, DeleteClaim(c) PROVE IInv'
    BY <1>2 DEF DeleteClaim
<1>3. ASSUME NEW c \in Claims, StartWork(c) PROVE IInv'
    BY <1>3 DEF StartWork
<1>4. CASE HeadBucket
    BY <1>4 DEF HeadBucket, Done, Idle
<1>5. CASE CreateBucket
  <2>1. pc = "create" /\ work \in Claims /\ claim[work] = "requested"
        /\ pc' = "idle" /\ UNCHANGED <<objects, request, acked, dropped>>
      BY <1>5 DEF CreateBucket, Done, Retry, Idle
  <2>2. exists => exists'
      BY <1>5 DEF CreateBucket
  <2>3. exists' \in BOOLEAN
      BY <1>5 DEF CreateBucket
  <2>4. \/ claim' = [claim EXCEPT ![work] = "bound"] /\ exists'
        \/ UNCHANGED claim
      BY <1>5 DEF CreateBucket, Done, Retry
  <2>5. \E c \in Claims : claim'[c] \in {"requested", "bound", "deleting"}
      BY <2>1, <2>4
  <2> QED BY <2>1, <2>2, <2>3, <2>4, <2>5
<1>6. CASE ListObjects
    BY <1>6 DEF ListObjects, Retry, Idle
<1>7. CASE DeleteObjects
    BY <1>7 DEF DeleteObjects, Retry, Idle
<1>8. CASE DeleteBucket
  <2>1. pc = "remove" /\ work \in Claims /\ claim[work] = "deleting" /\ dropped
        /\ pc' = "idle" /\ UNCHANGED <<objects, request, dropped>>
      BY <1>8 DEF DeleteBucket, NoSuchBucket, NotEmpty, Done, Retry, Idle
  <2>2. exists' \in BOOLEAN
    <3>1. (exists /\ objects # {}) \in BOOLEAN
        BY Zenon
    <3> QED BY <1>8, <3>1 DEF DeleteBucket
  <2>5. exists' => exists
      BY <1>8 DEF DeleteBucket
  <2>6. ~exists' => objects = {}
      BY <1>8 DEF DeleteBucket
  <2>3. acked' = IF exists' THEN acked ELSE {}
      BY <1>8 DEF DeleteBucket
  <2>4. \/ claim' = [claim EXCEPT ![work] = "gone"] /\ ~exists'
        \/ UNCHANGED claim
      BY <1>8 DEF DeleteBucket, NoSuchBucket, NotEmpty, Done, Retry
  <2> QED BY <2>1, <2>2, <2>3, <2>4, <2>5, <2>6
<1>9. CASE Stop
    BY <1>9 DEF Stop, Retry, Idle
<1>10. ASSUME NEW c \in Clients, Receive(c) PROVE IInv'
    BY <1>10 DEF Receive, IsAllowedIP
<1>11. ASSUME NEW c \in Clients, HandleGet(c) PROVE IInv'
    BY <1>11 DEF HandleGet, Answer
<1>12. ASSUME NEW c \in Clients, HandlePut(c) PROVE IInv'
    BY <1>12 DEF HandlePut, Answer
<1>13. ASSUME NEW c \in Clients, HandleDelete(c) PROVE IInv'
    BY <1>13 DEF HandleDelete, Answer, NoRequest
<1>14. CASE UNCHANGED vars
    BY <1>14 DEF vars
<1> QED BY <1>1, <1>2, <1>3, <1>4, <1>5, <1>6, <1>7, <1>8, <1>9, <1>10, <1>11, <1>12,
           <1>13, <1>14
        DEF Next, Worker, Gateway

\* The inductive invariant holds in every state of every behaviour.
LEMMA Inductive == Spec => []IInv
BY InitIsGood, StepIsGood, PTL DEF Spec

\* Bound claims have a bucket, and the last claim takes it along, though
\* Provision and Delete are retried and fail at any call (provisioner.go:105).
THEOREM BucketsFollow == Spec => []BucketFollowsClaims
<1>1. IInv => BucketFollowsClaims
    BY DEF IInv, TypeOK, StoreFits, BucketFollowsClaims
<1> QED BY <1>1, Inductive, PTL

\* An upload that was acknowledged stays until an admitted client or the
\* deletion of a claim takes it away (provisioner.go:140, handler.go:158).
THEOREM UploadsStay == Spec => []UploadsAreKept
<1>1. IInv => UploadsAreKept
    BY DEF IInv, StoreFits, UploadsAreKept
<1> QED BY <1>1, Inductive, PTL
=============================================================================
