------------------------------ MODULE Buckets ------------------------------
(***************************************************************************)
(* bucket-provisioner-light and s3gw at one bucket of an object store: the *)
(* provisioner makes and removes the bucket for ObjectBucketClaims while   *)
(* clients of the gateway put, get, list and delete objects in it.         *)
(*                                                                         *)
(* External: the object store; lib-bucket-provisioner, whose one worker    *)
(* calls Provision and Delete for a claim until they succeed.  A call of   *)
(* the store may fail with or without its effect.                          *)
(***************************************************************************)
EXTENDS Integers, FiniteSets, FiniteSetsExt

CONSTANTS
    Claims,         \* ObjectBucketClaims that name the bucket
    Keys,           \* object keys, in the order of a listing: positive numbers
    PageSize,       \* keys in a page of a listing
    Clients,        \* clients of the gateway
    Allowed, Denied,    \* those in a subnet of --hosts-allow, --hosts-deny
    MaxRequests,    \* bound: requests that change something
    MaxFaults       \* bound: failing calls, crashes

ASSUME BucketsAssumption ==
    /\ Keys \subseteq Nat \ {0} /\ IsFiniteSet(Keys)
    /\ PageSize \in Nat \ {0}
    /\ MaxRequests \in Nat /\ MaxFaults \in Nat

VARIABLES
    exists, objects,    \* the bucket and the keys in it
    claim,          \* the life of each claim
    pc, work,       \* the provisioner's worker and its claim
    after, page, more,  \* the paginator of deleteAllObjects
    request,        \* the request each client waits for
    acked,          \* history: keys whose PUT was answered with 200
    dropped,        \* history: a claim has been deleted
    requests, faults    \* what is left of the bounds

storeVars == <<exists, objects>>
workerVars == <<pc, work, after, page, more>>
historyVars == <<acked, dropped>>
vars == <<storeVars, claim, workerVars, request, historyVars, requests, faults>>

NoClaim == "no claim"
NoRequest == [method |-> "none", key |-> 0]
Requests == [method: {"GET", "PUT", "DELETE"}, key: Keys \cup {0}]

Init ==
    /\ exists = FALSE /\ objects = {}
    /\ claim = [c \in Claims |-> "none"]
    /\ pc = "idle" /\ work = NoClaim
    /\ after = 0 /\ page = {} /\ more = FALSE
    /\ request = [c \in Clients |-> NoRequest]
    /\ acked = {} /\ dropped = FALSE
    /\ requests = MaxRequests /\ faults = MaxFaults

Fault == faults > 0 /\ faults' = faults - 1
-----------------------------------------------------------------------------
(***************************************************************************)
(* External: claims come and go, and the controller works on them.         *)
(***************************************************************************)
CreateClaim(c) ==
    /\ claim[c] = "none"
    /\ claim' = [claim EXCEPT ![c] = "requested"]
    /\ UNCHANGED <<storeVars, workerVars, request, historyVars, requests, faults>>

DeleteClaim(c) ==
    /\ claim[c] = "bound"
    /\ claim' = [claim EXCEPT ![c] = "deleting"]
    /\ dropped' = TRUE
    /\ UNCHANGED <<storeVars, workerVars, request, acked, requests, faults>>

StartWork(c) ==
    /\ pc = "idle"
    /\ \/ claim[c] = "requested" /\ pc' = "head"
       \/ claim[c] = "deleting" /\ pc' = "list"
    /\ work' = c
    /\ UNCHANGED <<storeVars, claim, after, page, more, request, historyVars, requests,
                   faults>>

\* The worker is through with its claim; with an error it is tried again.
Idle ==
    /\ pc' = "idle" /\ work' = NoClaim
    /\ after' = 0 /\ page' = {} /\ more' = FALSE

Done(state) == Idle /\ claim' = [claim EXCEPT ![work] = state]

Retry == Idle /\ UNCHANGED claim
-----------------------------------------------------------------------------
(***************************************************************************)
(* Provision: ensureBucket.                                                *)
(***************************************************************************)
\* Any error of HeadBucket leads to CreateBucket.
HeadBucket ==
    /\ pc = "head"
    /\ \/ exists /\ Done("bound") /\ UNCHANGED faults
       \/ /\ (~exists /\ UNCHANGED faults) \/ Fault
          /\ pc' = "create"
          /\ UNCHANGED <<claim, work, after, page, more>>
    /\ UNCHANGED <<storeVars, request, historyVars, requests>>

\* BucketAlreadyOwnedByYou is as good as success.
CreateBucket ==
    /\ pc = "create"
    /\ \/ ~exists /\ exists' = TRUE /\ Done("bound") /\ UNCHANGED faults
       \/ exists /\ Done("bound") /\ UNCHANGED <<exists, faults>>
       \/ Fault /\ exists' \in {exists, TRUE} /\ Retry
    /\ UNCHANGED <<objects, request, historyVars, requests>>
-----------------------------------------------------------------------------
(***************************************************************************)
(* Delete: deleteAllObjects, page by page, and DeleteBucket.               *)
(***************************************************************************)
\* The first PageSize keys behind the last page.
NextPage ==
    LET rest == {k \in objects : k > after}
    IN  {k \in rest : Cardinality({x \in rest : x < k}) < PageSize}

ListObjects ==
    /\ pc = "list"
    /\ \/ /\ pc' = IF exists /\ NextPage # {} THEN "delete" ELSE "remove"
          /\ page' = IF exists THEN NextPage ELSE {}
          /\ more' = (exists /\ \E k \in objects : k > after /\ k \notin NextPage)
          /\ UNCHANGED <<work, after, claim, faults>>
       \/ Fault /\ Retry
    /\ UNCHANGED <<storeVars, request, historyVars, requests>>

\* Keys the store could not delete are in the result, which is not looked at.
DeleteObjects ==
    /\ pc = "delete"
    /\ \/ /\ \/ objects' = objects \ page /\ UNCHANGED faults
             \/ Fault /\ \E left \in SUBSET page : objects' = objects \ (page \ left)
          /\ pc' = IF more THEN "list" ELSE "remove"
          /\ after' = Max(page)
          /\ page' = {} /\ more' = FALSE
          /\ UNCHANGED <<work, claim>>
       \/ Fault /\ objects' \in {objects, objects \ page} /\ Retry
    /\ UNCHANGED <<exists, request, historyVars, requests>>

\* Mutant of NotEmpty: DeleteBucket's error is taken for success.
NotEmptyIgnored == Done("gone")

\* The store refuses to delete a bucket that is not empty.
NotEmpty == Retry

\* Mutant of NoSuchBucket: it is an error like others.
NoSuchBucketFails == Retry

\* An earlier call has deleted the bucket.
NoSuchBucket == Done("gone")

DeleteBucket ==
    /\ pc = "remove"
    /\ \/ ~exists /\ NoSuchBucket /\ UNCHANGED <<exists, faults>>
       \/ exists /\ objects = {} /\ exists' = FALSE /\ Done("gone") /\ UNCHANGED faults
       \/ exists /\ objects # {} /\ NotEmpty /\ UNCHANGED <<exists, faults>>
       \/ Fault /\ exists' = (exists /\ objects # {}) /\ Retry
       \/ Fault /\ UNCHANGED exists /\ Retry
    /\ acked' = IF exists' THEN acked ELSE {}
    /\ UNCHANGED <<objects, request, dropped, requests>>

\* A signal cancels the provisioner's context, or the process dies.
Stop ==
    /\ pc # "idle"
    /\ Fault
    /\ Retry
    /\ UNCHANGED <<storeVars, request, historyVars, requests>>
-----------------------------------------------------------------------------
(***************************************************************************)
(* s3gw.                                                                   *)
(***************************************************************************)
\* Mutant of IsAllowedIP: the loop over the denied subnets does not return.
IsAllowedIPAnyway(c) == TRUE

\* The allowed subnets are looked at first; who is in no list is allowed.
IsAllowedIP(c) ==
    IF c \in Allowed THEN TRUE
    ELSE IF c \in Denied THEN FALSE
    ELSE TRUE

\* A client sends a request and the handler of /bucket/ lets it through: the
\* list, key 0, takes only GET, and an object GET, PUT and DELETE.
Receive(c) ==
    /\ request[c] = NoRequest
    /\ IsAllowedIP(c)
    /\ \E r \in Requests :
          /\ r.method \in IF r.key = 0 THEN {"GET"} ELSE {"GET", "PUT", "DELETE"}
          /\ request' = [request EXCEPT ![c] = r]
          /\ r.method # "GET" => requests > 0
          /\ requests' = IF r.method = "GET" THEN requests ELSE requests - 1
    /\ UNCHANGED <<storeVars, claim, workerVars, historyVars, faults>>

Answer(c) == request' = [request EXCEPT ![c] = NoRequest]

\* listHandlerFunc and objectGetHandlerFunc change nothing.
HandleGet(c) ==
    /\ request[c].method = "GET"
    /\ Answer(c)
    /\ UNCHANGED <<storeVars, claim, workerVars, historyVars, requests, faults>>

\* objectPutHandlerFunc: the object is there with the end of the upload.
HandlePut(c) ==
    LET k == request[c].key IN
    /\ request[c].method = "PUT"
    /\ Answer(c)
    /\ \/ exists /\ objects' = objects \cup {k} /\ acked' = acked \cup {k} /\ UNCHANGED faults
       \/ ~exists /\ UNCHANGED <<objects, acked, faults>>
       \/ /\ Fault
          /\ objects' \in {objects, IF exists THEN objects \cup {k} ELSE objects}
          /\ UNCHANGED acked
    /\ UNCHANGED <<exists, claim, workerVars, dropped, requests>>

\* objectDeleteHandlerFunc, for a client that may.
HandleDelete(c) ==
    LET k == request[c].key IN
    /\ request[c].method = "DELETE"
    /\ Answer(c)
    /\ \/ objects' = objects \ {k} /\ UNCHANGED faults
       \/ Fault /\ objects' \in {objects, objects \ {k}}
    /\ acked' = IF c \in Allowed \/ c \notin Denied THEN acked \ {k} ELSE acked
    /\ UNCHANGED <<exists, claim, workerVars, dropped, requests>>

Gateway(c) == HandleGet(c) \/ HandlePut(c) \/ HandleDelete(c)
-----------------------------------------------------------------------------
Worker ==
    \/ \E c \in Claims : StartWork(c)
    \/ HeadBucket \/ CreateBucket
    \/ ListObjects \/ DeleteObjects \/ DeleteBucket

Next ==
    \/ \E c \in Claims : CreateClaim(c) \/ DeleteClaim(c)
    \/ Worker \/ Stop
    \/ \E c \in Clients : Receive(c) \/ Gateway(c)

Spec == Init /\ [][Next]_vars

\* The controller works on every claim it has to, in turn, and requests end.
Fairness ==
    /\ WF_vars(Worker)
    /\ \A c \in Claims : SF_vars(StartWork(c))
    /\ \A c \in Clients : WF_vars(Gateway(c))

FairSpec == Spec /\ Fairness
-----------------------------------------------------------------------------
(***************************************************************************)
(* Properties.                                                             *)
(***************************************************************************)
\* A bucket is there for every bound claim until a claim is deleted, and none is
\* left behind when the last claim is gone, though an upload may land between
\* the last page and DeleteBucket, and errors for single keys are ignored.
BucketFollowsClaims ==
    /\ (\E c \in Claims : claim[c] = "bound") /\ ~dropped => exists
    /\ (\A c \in Claims : claim[c] \in {"none", "gone"}) => ~exists

\* No object whose PUT was answered with 200 is lost, unless a client that the
\* lists admit sent a DELETE for it or a claim of the bucket was deleted: not by a
\* provisioner that provisions again, fails half way or is restarted.
UploadsAreKept == ~dropped => acked \subseteq objects

\* Every claim gets its bucket, and every deleted claim goes, whatever fails and
\* whatever clients still upload.
ClaimsAreServed ==
    \A c \in Claims :
        /\ (claim[c] = "requested") ~> (claim[c] = "bound")
        /\ (claim[c] = "deleting") ~> (claim[c] = "gone")
=============================================================================
