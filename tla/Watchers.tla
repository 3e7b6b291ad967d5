------------------------------ MODULE Watchers ------------------------------
(***************************************************************************)
(* The informer-fed state behind neco-exporter's cluster collectors: the   *)
(* identityWatcher of ciliumid and the secretWatcher of cert.  An informer *)
(* first updates its store and then notifies the handler, which lags       *)
(* behind; identityWatcher.update counts in the store and not from the     *)
(* notification.                                                           *)
(*                                                                         *)
(* External: the API server, and client-go's informers as the handlers see *)
(* them.  An informer may miss changes while its watch is down: the relist *)
(* that follows shows what happened to an object in one notification, a    *)
(* missed deletion as a tombstone.                                         *)
(***************************************************************************)
EXTENDS Integers, Sequences, SequencesExt, FiniteSets

CONSTANTS
    Identities,     \* names of CiliumIdentities
    Namespaces,     \* namespaces in security labels, "(null)" included
    Secrets,        \* names of Secrets
    Expirations,    \* notAfter times
    Shapes,         \* bound: what each identity can be while it exists
    MaxChanges,     \* bound: changes of the cluster
    MaxErrors       \* bound: failing lists

None == "none"

\* A CiliumIdentity has readable security labels, or a value that is no string:
\* in some label, or in the namespace.
Identity == [labels: {"ok", "bad"}, ns: Namespaces]
              \cup {[labels |-> "badNamespace", ns |-> None]}

\* A Secret has a certificate; or no readable one; or is not for us: no TLS
\* type, or owned by a cert-manager Certificate.
Secret == [kind: {"cert"}, notAfter: Expirations]
            \cup [kind: {"unreadable", "ignored"}, notAfter: {0}]

ASSUME WatcherAssumption ==
    /\ IsFiniteSet(Identities) /\ IsFiniteSet(Secrets)
    /\ Identities \cap Secrets = {}     \* unheard holds names of both
    /\ None \notin Namespaces
    /\ \A i \in Identities : Shapes[i] \subseteq Identity
    /\ Expirations \subseteq Nat \ {0}
    /\ MaxChanges \in Nat
    /\ MaxErrors \in Nat

Absent == [absent |-> TRUE]

Here(obj) == obj # Absent

VARIABLES
    api, secretApi,         \* the cluster
    store, secretStore,     \* the informers' stores
    events, secretEvents,   \* notifications the handlers have not taken
    updating, listed,       \* identityWatcher.update between List and Lock
    identityCount, identities,  \* identityWatcher; 0 and None: no entry
    expiration,             \* secretWatcher; 0: no entry
    uncounted, unheard,     \* history: what the handlers have passed over
    changes, errors         \* what is left of the bounds

identityVars == <<events, updating, listed, identityCount, identities, uncounted>>
secretVars == <<secretEvents, expiration>>
storeVars == <<api, secretApi, store, secretStore, changes>>
watcherVars == <<storeVars, identityVars, secretVars, unheard, errors>>

\* A notification; obj is the new object, or the last one known if deleted.
Event(name, obj, deleted, tombstone) ==
    [name |-> name, obj |-> obj, deleted |-> deleted, tombstone |-> tombstone]

NoEvent == Event(None, Absent, FALSE, FALSE)

\* The notifications that show a handler all objects of a store, in any order.
Adds(objects) ==
    SetToSeqs({Event(n, objects[n], FALSE, FALSE) :
                  n \in {m \in DOMAIN objects : Here(objects[m])}})

WatchersTypeOK ==
    /\ api \in [Identities -> Identity \cup {Absent}]
    /\ store \in [Identities -> Identity \cup {Absent}]
    /\ secretApi \in [Secrets -> Secret \cup {Absent}]
    /\ secretStore \in [Secrets -> Secret \cup {Absent}]
    /\ identityCount \in [Namespaces -> Nat]
    /\ identities \in [Identities -> Namespaces \cup {None}]
    /\ expiration \in [Secrets -> Expirations \cup {0}]
    /\ listed \in Nat
    /\ uncounted \subseteq Namespaces
    /\ unheard \subseteq Identities \cup Secrets

\* An empty cluster: what is in it at a later start is covered by Restart.
WatchersInit ==
    /\ api = [i \in Identities |-> Absent] /\ store = api
    /\ secretApi = [s \in Secrets |-> Absent] /\ secretStore = secretApi
    /\ events = <<>> /\ secretEvents = <<>>
    /\ updating = NoEvent /\ listed = 0
    /\ identityCount = [ns \in Namespaces |-> 0]
    /\ identities = [i \in Identities |-> None]
    /\ expiration = [s \in Secrets |-> 0]
    /\ uncounted = {} /\ unheard = {}
    /\ changes = MaxChanges
    /\ errors = MaxErrors
-----------------------------------------------------------------------------
(***************************************************************************)
(* The cluster and the informers (external).                               *)
(***************************************************************************)
ChangeIdentity(i) ==
    /\ changes > 0
    /\ changes' = changes - 1
    /\ \E obj \in (Shapes[i] \cup {Absent}) \ {api[i]} : api' = [api EXCEPT ![i] = obj]
    /\ UNCHANGED <<secretApi, store, secretStore, identityVars, secretVars,
                   unheard, errors>>

ChangeSecret(s) ==
    /\ changes > 0
    /\ changes' = changes - 1
    /\ \E obj \in (Secret \cup {Absent}) \ {secretApi[s]} :
          secretApi' = [secretApi EXCEPT ![s] = obj]
    /\ UNCHANGED <<api, store, secretStore, identityVars, secretVars, unheard,
                   errors>>

\* The namespace an identity leaves without a notification that names it.
Left(old, new) ==
    IF Here(old) /\ Here(new) /\ old.ns # new.ns THEN {old.ns} \cap Namespaces ELSE {}

SyncIdentity(i) ==
    /\ store[i] # api[i]
    /\ store' = [store EXCEPT ![i] = api[i]]
    /\ IF Here(api[i])
         THEN events' = Append(events, Event(i, api[i], FALSE, FALSE))
         ELSE \E t \in BOOLEAN : events' = Append(events, Event(i, store[i], TRUE, t))
    /\ uncounted' = uncounted \cup Left(store[i], api[i])
    /\ UNCHANGED <<api, secretApi, secretStore, changes, updating, listed,
                   identityCount, identities, secretVars, unheard, errors>>

SyncSecret(s) ==
    /\ secretStore[s] # secretApi[s]
    /\ secretStore' = [secretStore EXCEPT ![s] = secretApi[s]]
    /\ IF Here(secretApi[s])
         THEN secretEvents' = Append(secretEvents, Event(s, secretApi[s], FALSE, FALSE))
         ELSE \E t \in BOOLEAN :
                 secretEvents' = Append(secretEvents, Event(s, secretStore[s], TRUE, t))
    /\ UNCHANGED <<api, secretApi, store, changes, identityVars, expiration,
                   unheard, errors>>

\* The hourly resync shows the handlers every object again.
Resync ==
    /\ events = <<>> /\ secretEvents = <<>>
    /\ events' \in Adds(store)
    /\ secretEvents' \in Adds(secretStore)
    /\ UNCHANGED <<storeVars, updating, listed, identityCount, identities,
                   uncounted, expiration, unheard, errors>>
-----------------------------------------------------------------------------
(***************************************************************************)
(* identityWatcher.                                                        *)
(***************************************************************************)
\* indexByNamespace: the objects of the store that the index has under ns.
InNamespace(ns) == {i \in Identities : Here(store[i]) /\ store[i].ns = ns}

\* Mutant of Count: the object of the event is counted, deleted or not.
CountWithEvent(e) == Cardinality(InNamespace(e.obj.ns) \cup {e.name})

\* Mutant of Count: a deleted object is subtracted, though the store lost it.
CountLessDeleted(e) ==
    IF e.deleted THEN Cardinality(InNamespace(e.obj.ns)) - 1
                 ELSE Cardinality(InNamespace(e.obj.ns))

\* client.List with MatchingFields.
Count(e) == Cardinality(InNamespace(e.obj.ns))

\* getIdentityNamespace fails: update returns.  A tombstone is unwrapped.
UpdateReturns ==
    /\ events # <<>> /\ updating = NoEvent
    /\ LET e == Head(events) IN
          /\ e.obj.labels = "badNamespace"
          /\ unheard' = IF identities[e.name] = None THEN unheard
                                                     ELSE unheard \cup {e.name}
    /\ events' = Tail(events)
    /\ UNCHANGED <<storeVars, updating, listed, identityCount, identities,
                   uncounted, secretVars, errors>>

\* update up to the lock: a failing list is logged and counts as empty.
UpdateLists ==
    /\ events # <<>> /\ updating = NoEvent
    /\ LET e == Head(events) IN
          /\ e.obj.labels # "badNamespace"
          /\ updating' = e
          /\ \/ /\ listed' = Count(e)
                /\ uncounted' = uncounted \ {e.obj.ns}
                /\ UNCHANGED errors
             \/ /\ errors > 0
                /\ errors' = errors - 1
                /\ listed' = 0
                /\ uncounted' = uncounted \cup {e.obj.ns}
    /\ events' = Tail(events)
    /\ UNCHANGED <<storeVars, identityCount, identities, secretVars, unheard>>

\* update under the lock.
UpdateStores ==
    /\ updating # NoEvent
    /\ LET id == updating.name
           ns == updating.obj.ns
           known == ~updating.deleted /\ updating.obj.labels = "ok"
       IN  /\ identityCount' = [identityCount EXCEPT ![ns] = listed]
           /\ identities' = [identities EXCEPT ![id] = IF known THEN ns ELSE None]
           /\ unheard' = unheard \ {id}
    /\ updating' = NoEvent
    /\ listed' = 0
    /\ UNCHANGED <<storeVars, events, uncounted, secretVars, errors>>
-----------------------------------------------------------------------------
(***************************************************************************)
(* secretWatcher.                                                          *)
(***************************************************************************)
\* Mutant of Handled: the handler looks at the type of new objects only, and
\* takes any deletion for one of the Secrets it does not watch.
HandledIfNew(e) == ~e.deleted /\ e.obj.kind # "ignored"

\* The handler passes the event to update: a tombstone is no Secret, and a
\* Secret of another type or owner is skipped.
Handled(e) == ~e.tombstone /\ e.obj.kind # "ignored"

\* History: what the handler may pass over, if the Secret has an entry.
PassedOver(e) ==
    e.tombstone \/ e.obj.kind = "ignored" \/ (e.obj.kind = "unreadable" /\ ~e.deleted)

\* update: a deleted Secret loses its entry, an unreadable one is logged.
HandleSecret ==
    /\ secretEvents # <<>>
    /\ LET e == Head(secretEvents) IN
          /\ expiration' =
                IF Handled(e) /\ (e.deleted \/ e.obj.kind = "cert")
                  THEN [expiration EXCEPT ![e.name] = IF e.deleted THEN 0
                                                                  ELSE e.obj.notAfter]
                  ELSE expiration
          /\ unheard' =
                IF ~PassedOver(e) THEN unheard \ {e.name}
                ELSE IF expiration[e.name] # 0 THEN unheard \cup {e.name}
                ELSE unheard
    /\ secretEvents' = Tail(secretEvents)
    /\ UNCHANGED <<storeVars, identityVars, errors>>

Handlers == UpdateReturns \/ UpdateLists \/ UpdateStores \/ HandleSecret

Informers == \/ \E i \in Identities : SyncIdentity(i)
             \/ \E s \in Secrets : SyncSecret(s)

\* A new process: the informers list the cluster before the first round.
RestartWatchers ==
    /\ store' = api
    /\ secretStore' = secretApi
    /\ events' \in Adds(api)
    /\ secretEvents' \in Adds(secretApi)
    /\ updating' = NoEvent /\ listed' = 0
    /\ identityCount' = [ns \in Namespaces |-> 0]
    /\ identities' = [i \in Identities |-> None]
    /\ expiration' = [s \in Secrets |-> 0]
    /\ uncounted' = {} /\ unheard' = {}
    /\ UNCHANGED <<api, secretApi, changes, errors>>
-----------------------------------------------------------------------------
(***************************************************************************)
(* Properties.                                                             *)
(***************************************************************************)
\* Once the handler is idle, the counts are those of the store in every
\* namespace but those that an identity left by an update (update counts the
\* new namespace only) and those whose last list failed; and the identities are
\* those with readable labels.  No order of notifications and later changes of
\* the store leaves another count behind.
CountsSettle ==
    events = <<>> /\ updating = NoEvent =>
        /\ \A ns \in Namespaces \ uncounted :
              identityCount[ns] = Cardinality(InNamespace(ns))
        /\ \A i \in Identities \ unheard :
              identities[i] = IF Here(store[i]) /\ store[i].labels = "ok"
                                THEN store[i].ns ELSE None

\* Once the handler is idle, each Secret with a certificate has its expiration
\* and no other has one, except where the handler passed over an event: a
\* tombstone, a Secret that became cert-manager's or lost its certificate.
ExpirationsSettle ==
    secretEvents = <<>> =>
        \A s \in Secrets \ unheard :
            expiration[s] = IF Here(secretStore[s]) THEN secretStore[s].notAfter ELSE 0
=============================================================================
