----------------------------- MODULE EnvoyProbe -----------------------------
(***************************************************************************)
(* The probe beside Envoy: a request of the kubelet runs three checks at   *)
(* once, and is answered with an error if one of them fails.  A listener   *)
(* that no check has ever connected to may fail: the flags httpActivated   *)
(* and httpsActivated, which all requests share, tell.                     *)
(*                                                                         *)
(* External: Envoy, whose endpoints come and go; the kubelet, which may    *)
(* give a request up; well.Environment, whose first error cancels the      *)
(* context of the other checks and keeps further ones from starting.       *)
(***************************************************************************)
EXTENDS Integers, Sequences

CONSTANTS
    Probes,         \* requests at a time, such as liveness and readiness
    MaxChanges,     \* bound: changes of Envoy
    MaxFaults       \* bound: requests given up, restarts of the container

ASSUME ProbeAssumption == MaxChanges \in Nat /\ MaxFaults \in Nat

VARIABLES
    up,             \* what Envoy's endpoints do now
    activated,      \* httpActivated and httpsActivated
    started,        \* checks each probe's environment has been given
    check,          \* where each check of a probe is
    failed,         \* the environment has been cancelled by an error
    gone,           \* the request's context has been cancelled
    answer,         \* of each probe
    must,           \* history: endpoints activated when the probe began
    wasUp, wasDown, \* history: endpoints that were up, or down, during it
    changes, faults

probeVars == <<started, check, failed, gone, answer>>
historyVars == <<must, wasUp, wasDown>>
vars == <<up, activated, probeVars, historyVars, changes, faults>>

\* In the order of Probe.
Order == <<"ready", "http", "https">>
Checks == {"ready", "http", "https"}
Listeners == Checks \ {"ready"}
Unstarted == [c \in Checks |-> "unstarted"]

\* Envoy is ready and has no settings to listen for yet.
Init ==
    /\ up = [c \in Checks |-> c = "ready"]
    /\ activated = {}
    /\ started = [p \in Probes |-> 0]
    /\ check = [p \in Probes |-> Unstarted]
    /\ failed = [p \in Probes |-> FALSE] /\ gone = [p \in Probes |-> FALSE]
    /\ answer = [p \in Probes |-> "none"]
    /\ must = [p \in Probes |-> {}]
    /\ wasUp = [p \in Probes |-> {}] /\ wasDown = [p \in Probes |-> {}]
    /\ changes = MaxChanges /\ faults = MaxFaults

Become(p, c, state) == check' = [check EXCEPT ![p][c] = state]
-----------------------------------------------------------------------------
(***************************************************************************)
(* Probe.                                                                  *)
(***************************************************************************)
Begin(p) ==
    /\ answer[p] = "none"
    /\ answer' = [answer EXCEPT ![p] = "pending"]
    /\ must' = [must EXCEPT ![p] = activated]
    /\ wasUp' = [wasUp EXCEPT ![p] = {c \in Checks : up[c]}]
    /\ wasDown' = [wasDown EXCEPT ![p] = {c \in Checks : ~up[c]}]
    /\ UNCHANGED <<up, activated, started, check, failed, gone, changes, faults>>

\* env.Go starts no goroutine any more once the environment is cancelled.
Go(p) ==
    /\ answer[p] = "pending"
    /\ started[p] < Len(Order)
    /\ started' = [started EXCEPT ![p] = @ + 1]
    /\ Become(p, Order[started'[p]], IF failed[p] THEN "ok" ELSE "request")
    /\ UNCHANGED <<up, activated, failed, gone, answer, historyVars, changes, faults>>

\* The request of monitorReady and monitorHTTP, the dial of monitorHTTPS,
\* which does not look at the context.
Request(p, c) ==
    /\ check[p][c] = "request"
    /\ \/ up[c] /\ Become(p, c, IF c = "ready" THEN "ok" ELSE "connected")
       \/ /\ ~up[c] \/ (c # "https" /\ (failed[p] \/ gone[p]))
          /\ Become(p, c, "refused")
    /\ UNCHANGED <<up, activated, started, failed, gone, answer, historyVars, changes,
                   faults>>

\* The flag is set after the response, and for good.
Store(p, c) ==
    /\ check[p][c] = "connected"
    /\ activated' = activated \cup {c}
    /\ Become(p, c, "ok")
    /\ UNCHANGED <<up, started, failed, gone, answer, historyVars, changes, faults>>

\* Mutant of Forgiven: every error of a listener is.
ForgivenAlways(c) == c \in Listeners

\* Mutant of Forgiven: no error is.
ForgivenNever(c) == c \notin Checks

\* The flag is loaded when the error is there.
Forgiven(c) == c \in Listeners \ activated

Refused(p, c) ==
    /\ check[p][c] = "refused"
    /\ Become(p, c, "ok")
    /\ failed' = [failed EXCEPT ![p] = @ \/ ~Forgiven(c)]
    /\ UNCHANGED <<up, activated, started, gone, answer, historyVars, changes, faults>>

\* env.Wait returns the first error, and ServeHTTP answers.
ServeHTTP(p) ==
    /\ answer[p] = "pending"
    /\ started[p] = Len(Order) /\ \A c \in Checks : check[p][c] = "ok"
    /\ answer' = [answer EXCEPT ![p] = IF failed[p] THEN "BadGateway" ELSE "OK"]
    /\ UNCHANGED <<up, activated, started, check, failed, gone, historyVars, changes,
                   faults>>

\* The kubelet takes the answer, or has given the request up.
Leave(p) ==
    /\ answer[p] \in {"OK", "BadGateway"}
    /\ answer' = [answer EXCEPT ![p] = "none"]
    /\ started' = [started EXCEPT ![p] = 0]
    /\ check' = [check EXCEPT ![p] = Unstarted]
    /\ failed' = [failed EXCEPT ![p] = FALSE]
    /\ gone' = [gone EXCEPT ![p] = FALSE]
    /\ must' = [must EXCEPT ![p] = {}]
    /\ wasUp' = [wasUp EXCEPT ![p] = {}] /\ wasDown' = [wasDown EXCEPT ![p] = {}]
    /\ UNCHANGED <<up, activated, changes, faults>>
-----------------------------------------------------------------------------
(***************************************************************************)
(* The environment.                                                        *)
(***************************************************************************)
GiveUp(p) ==
    /\ answer[p] = "pending" /\ ~gone[p]
    /\ faults > 0 /\ faults' = faults - 1
    /\ gone' = [gone EXCEPT ![p] = TRUE]
    /\ UNCHANGED <<up, activated, started, check, failed, answer, historyVars, changes>>

\* The probe's own process ends and starts again: the flags are new.
Restart ==
    /\ faults > 0 /\ faults' = faults - 1
    /\ activated' = {}
    /\ started' = [p \in Probes |-> 0]
    /\ check' = [p \in Probes |-> Unstarted]
    /\ failed' = [p \in Probes |-> FALSE] /\ gone' = [p \in Probes |-> FALSE]
    /\ answer' = [p \in Probes |-> "none"]
    /\ must' = [p \in Probes |-> {}]
    /\ wasUp' = [p \in Probes |-> {}] /\ wasDown' = [p \in Probes |-> {}]
    /\ UNCHANGED <<up, changes>>

ChangeEnvoy(c) ==
    /\ changes > 0 /\ changes' = changes - 1
    /\ up' = [up EXCEPT ![c] = ~@]
    /\ wasUp' = [p \in Probes |-> IF answer[p] = "pending" /\ up'[c]
                                  THEN wasUp[p] \cup {c} ELSE wasUp[p]]
    /\ wasDown' = [p \in Probes |-> IF answer[p] = "pending" /\ ~up'[c]
                                    THEN wasDown[p] \cup {c} ELSE wasDown[p]]
    /\ UNCHANGED <<activated, probeVars, must, faults>>

Step(p) ==
    \/ Begin(p) \/ Go(p) \/ ServeHTTP(p) \/ Leave(p)
    \/ \E c \in Checks : Request(p, c) \/ Store(p, c) \/ Refused(p, c)

Next ==
    \/ \E p \in Probes : Step(p) \/ GiveUp(p)
    \/ Restart
    \/ \E c \in Checks : ChangeEnvoy(c)

Spec == Init /\ [][Next]_vars
-----------------------------------------------------------------------------
(***************************************************************************)
(* Properties.                                                             *)
(***************************************************************************)
\* A probe that is answered with OK has found Envoy ready, and every listener
\* that had once been reached when it began was reachable during it, whatever
\* the other probes and Envoy did meanwhile (root.go:70-97).
SuccessMeansReachable ==
    \A p \in Probes : answer[p] = "OK" =>
        /\ "ready" \in wasUp[p]
        /\ must[p] \subseteq wasUp[p]

\* A probe fails for a cause only: Envoy was not ready during it, or the
\* kubelet gave up, or a listener was unreachable that a check has reached;
\* the cancellation of a check by the error of another is none, and before
\* the first connection a listener may fail (root.go:35, README.md:26).
FailureHasCause ==
    \A p \in Probes : answer[p] = "BadGateway" =>
        \/ gone[p]
        \/ "ready" \in wasDown[p]
        \/ \E c \in activated : c \in wasDown[p]
=============================================================================
