-------------------------- MODULE EnvoyProbeProofs --------------------------
(***************************************************************************)
(* Proofs about two checkers that share nothing: the probe beside Envoy,   *)
(* for any number of overlapping requests, changes of Envoy and faults,    *)
(* and cep-checker, for any keys, changes and API errors.                  *)
(***************************************************************************)
EXTENDS EnvoyProbe, CepChecker, TLAPS

States == {"unstarted", "request", "connected", "refused", "ok"}

TypeOK ==
    /\ up \in [Checks -> BOOLEAN]
    /\ activated \in SUBSET Listeners
    /\ started \in [Probes -> 0..3]
    /\ check \in [Probes -> [Checks -> States]]
    /\ failed \in [Probes -> BOOLEAN]
    /\ gone \in [Probes -> BOOLEAN]
    /\ answer \in [Probes -> {"none", "pending", "OK", "BadGateway"}]
    /\ must \in [Probes -> SUBSET Listeners]
    /\ wasUp \in [Probes -> SUBSET Checks]
    /\ wasDown \in [Probes -> SUBSET Checks]

\* Why a probe may fail.
Cause(p) ==
    \/ gone[p]
    \/ "ready" \in wasDown[p]
    \/ \E c \in activated : c \in wasDown[p]

\* While a probe is pending, its history follows Envoy, and each check that is
\* through has been reached, was forgiven or has failed the probe.
Pending(p) ==
    answer[p] = "pending" =>
        /\ \A c \in Checks : up[c] => c \in wasUp[p]
        /\ \A c \in Checks : ~up[c] => c \in wasDown[p]
        /\ \A c \in Checks : check[p][c] = "connected" => c \in wasUp[p]
        /\ \A c \in Checks :
              check[p][c] = "refused" => failed[p] \/ gone[p] \/ c \in wasDown[p]
        /\ \A c \in Checks : check[p][c] = "ok" /\ (c = "ready" \/ c \in must[p])
              => failed[p] \/ c \in wasUp[p]

IInv ==
    /\ TypeOK
    /\ \A p \in Probes : must[p] \subseteq activated
    /\ \A p \in Probes : check[p]["ready"] # "connected"
    /\ \A p \in Probes : answer[p] = "none" => check[p] = Unstarted /\ ~failed[p]
    /\ \A p \in Probes : answer[p] \in {"OK", "BadGateway"} =>
          \A c \in Checks : check[p][c] = "ok"
    /\ \A p \in Probes : Pending(p)
    /\ \A p \in Probes : failed[p] => Cause(p)
    /\ \A p \in Probes : answer[p] = "OK" => "ready" \in wasUp[p] /\ must[p] \subseteq wasUp[p]
    /\ \A p \in Probes : answer[p] = "BadGateway" => failed[p]
-----------------------------------------------------------------------------
\* Nothing is pending and no flag is set when the process starts.
LEMMA InitIsGood == Init => IInv
<1> SUFFICES ASSUME Init PROVE IInv
    OBVIOUS
<1>1. \A p \in Probes : /\ answer[p] = "none" /\ ~failed[p]
                        /\ check[p] = Unstarted /\ must[p] = {}
    BY DEF Init
<1>2. TypeOK
  <2>1. up \in [Checks -> BOOLEAN]
      BY Zenon DEF Init
  <2>2. /\ activated \in SUBSET Listeners
        /\ must \in [Probes -> SUBSET Listeners]
        /\ wasUp \in [Probes -> SUBSET Checks]
        /\ wasDown \in [Probes -> SUBSET Checks]
      BY Zenon DEF Init
  <2>3. failed \in [Probes -> BOOLEAN] /\ gone \in [Probes -> BOOLEAN]
      BY Zenon DEF Init
  <2>4. /\ started \in [Probes -> 0..3]
        /\ check \in [Probes -> [Checks -> States]]
        /\ answer \in [Probes -> {"none", "pending", "OK", "BadGateway"}]
      BY DEF Init, States, Unstarted
  <2> QED BY <2>1, <2>2, <2>3, <2>4 DEF TypeOK
<1>3. \A p \in Probes : check[p]["ready"] # "connected"
    BY <1>1 DEF Unstarted, Checks
<1> QED BY <1>1, <1>2, <1>3 DEF IInv, Pending

\* env.Go starts one of the three checks.
LEMMA GoStarts ==
    ASSUME TypeOK, NEW p \in Probes, Go(p)
    PROVE  /\ started' \in [Probes -> 0..3]
           /\ \E c \in Checks : Become(p, c, IF failed[p] THEN "ok" ELSE "request")
<1>0. started \in [Probes -> 0..3] /\ started[p] < 3 /\ started' = [started EXCEPT ![p] = started[p] + 1]
    BY DEF Go, Order, TypeOK
<1>1. started'[p] \in 1..3 /\ started' \in [Probes -> 0..3]
    BY <1>0
<1>2. Order[started'[p]] \in Checks
    BY <1>1 DEF Order, Checks
<1> QED BY <1>1, <1>2 DEF Go

\* Types are kept by every step.
LEMMA TypeStep == IInv /\ [Next]_vars => TypeOK'
<1> SUFFICES ASSUME IInv, [Next]_vars PROVE TypeOK'
    OBVIOUS
<1>0. TypeOK /\ \A p \in Probes : check[p]["ready"] # "connected"
    BY DEF IInv
<1> USE <1>0
<1> USE DEF TypeOK, Checks, Listeners, States
<1>1. ASSUME NEW p \in Probes, Begin(p) PROVE TypeOK'
    BY <1>1 DEF Begin
<1>2. ASSUME NEW p \in Probes, Go(p) PROVE TypeOK'
  <2>1. started' \in [Probes -> 0..3]
      BY <1>2, GoStarts
  <2>2. PICK c \in Checks : Become(p, c, IF failed[p] THEN "ok" ELSE "request")
      BY <1>2, GoStarts
  <2>3. check' \in [Probes -> [Checks -> States]]
      BY <2>2 DEF Become
  <2> QED BY <1>2, <2>1, <2>3 DEF Go, historyVars
<1>3. ASSUME NEW p \in Probes, NEW c \in Checks, Request(p, c) PROVE TypeOK'
  <2>1. check' \in [Probes -> [Checks -> States]]
      BY <1>3 DEF Request, Become
  <2> QED BY <1>3, <2>1 DEF Request, historyVars
<1>4. ASSUME NEW p \in Probes, NEW c \in Checks, Store(p, c) PROVE TypeOK'
  <2>1. check' \in [Probes -> [Checks -> States]] /\ c \in Listeners
      BY <1>4 DEF Store, Become
  <2> QED BY <1>4, <2>1 DEF Store, historyVars
<1>5. ASSUME NEW p \in Probes, NEW c \in Checks, Refused(p, c) PROVE TypeOK'
  <2>1. check' \in [Probes -> [Checks -> States]]
      BY <1>5 DEF Refused, Become
  <2>2. failed' \in [Probes -> BOOLEAN]
      BY <1>5 DEF Refused
  <2> QED BY <1>5, <2>1, <2>2 DEF Refused, historyVars
<1>6. ASSUME NEW p \in Probes, ServeHTTP(p) PROVE TypeOK'
    BY <1>6 DEF ServeHTTP, historyVars
<1>7. ASSUME NEW p \in Probes, Leave(p) PROVE TypeOK'
    BY <1>7 DEF Leave, Unstarted
<1>8. ASSUME NEW p \in Probes, GiveUp(p) PROVE TypeOK'
    BY <1>8 DEF GiveUp, historyVars
<1>9. CASE Restart
  <2>1. failed' \in [Probes -> BOOLEAN] /\ gone' \in [Probes -> BOOLEAN]
      BY <1>9, Zenon DEF Restart
  <2>2. /\ activated' \in SUBSET Listeners
        /\ must' \in [Probes -> SUBSET Listeners]
        /\ wasUp' \in [Probes -> SUBSET Checks]
        /\ wasDown' \in [Probes -> SUBSET Checks]
      BY <1>9, Zenon DEF Restart
  <2>3. /\ started' \in [Probes -> 0..3]
        /\ check' \in [Probes -> [Checks -> States]]
        /\ answer' \in [Probes -> {"none", "pending", "OK", "BadGateway"}]
      BY <1>9 DEF Restart, Unstarted
  <2> QED BY <1>9, <2>1, <2>2, <2>3 DEF Restart
<1>10. ASSUME NEW c \in Checks, ChangeEnvoy(c) PROVE TypeOK'
  <2>1. up' \in [Checks -> BOOLEAN]
      BY <1>10 DEF ChangeEnvoy
  <2>2. wasUp' \in [Probes -> SUBSET Checks] /\ wasDown' \in [Probes -> SUBSET Checks]
      BY <1>10 DEF ChangeEnvoy
  <2> QED BY <1>10, <2>1, <2>2 DEF ChangeEnvoy, probeVars
<1>11. CASE UNCHANGED vars
    BY <1>11 DEF vars, probeVars, historyVars
<1> QED BY <1>1, <1>2, <1>3, <1>4, <1>5, <1>6, <1>7, <1>8, <1>9, <1>10, <1>11 DEF Next, Step

\* Envoy's changes are recorded for every pending probe.
LEMMA ChangeIsGood ==
    ASSUME IInv, TypeOK', NEW c \in Checks, ChangeEnvoy(c)
    PROVE  IInv'
<1> USE DEF TypeOK, Checks
<1>1. /\ up' = [up EXCEPT ![c] = ~up[c]]
      /\ UNCHANGED <<activated, check, failed, gone, answer, must>>
      /\ \A p \in Probes :
            /\ wasUp'[p] = IF answer[p] = "pending" /\ up'[c] THEN wasUp[p] \cup {c} ELSE wasUp[p]
            /\ wasDown'[p] = IF answer[p] = "pending" /\ ~up'[c] THEN wasDown[p] \cup {c} ELSE wasDown[p]
    BY DEF ChangeEnvoy, probeVars, IInv
<1>2. \A p \in Probes : wasUp[p] \subseteq wasUp'[p] /\ wasDown[p] \subseteq wasDown'[p]
    BY <1>1
<1>3. ASSUME NEW p \in Probes PROVE Pending(p)'
  <2> SUFFICES ASSUME answer[p] = "pending" PROVE Pending(p)'
      BY <1>1 DEF Pending
  <2>1. \A d \in Checks : up'[d] => d \in wasUp'[p]
      BY <1>1, <1>2 DEF IInv, Pending
  <2>2. \A d \in Checks : ~up'[d] => d \in wasDown'[p]
      BY <1>1, <1>2 DEF IInv, Pending
  <2> QED BY <1>1, <1>2, <2>1, <2>2 DEF IInv, Pending
<1>4. \A p \in Probes : failed'[p] => Cause(p)'
    BY <1>1, <1>2 DEF IInv, Cause
<1> QED BY <1>1, <1>2, <1>3, <1>4 DEF IInv

\* A probe that begins has the history of the state it begins in.
LEMMA BeginIsGood ==
    ASSUME IInv, TypeOK', NEW p \in Probes, Begin(p)
    PROVE  IInv'
<1> USE DEF TypeOK, Checks
<1>1. /\ answer[p] = "none" /\ answer' = [answer EXCEPT ![p] = "pending"]
      /\ must' = [must EXCEPT ![p] = activated]
      /\ wasUp' = [wasUp EXCEPT ![p] = {c \in Checks : up[c]}]
      /\ wasDown' = [wasDown EXCEPT ![p] = {c \in Checks : ~up[c]}]
      /\ UNCHANGED <<up, activated, check, failed, gone>>
    BY DEF Begin
<1>2. check[p] = Unstarted /\ ~failed[p]
    BY <1>1 DEF IInv
<1>3. ASSUME NEW q \in Probes PROVE Pending(q)'
    BY <1>1, <1>2 DEF IInv, Pending, Unstarted
<1>4. \A q \in Probes : failed'[q] => Cause(q)'
    BY <1>1, <1>2 DEF IInv, Cause
<1> QED BY <1>1, <1>2, <1>3, <1>4 DEF IInv

\* What a check of p may change: its own place, the flags upwards, and the
\* failure of p with a cause.
LEMMA CheckIsGood ==
    ASSUME IInv, TypeOK', NEW p \in Probes, NEW c \in Checks,
           Request(p, c) \/ Store(p, c) \/ Refused(p, c), answer[p] = "pending"
    PROVE  IInv'
<1> USE DEF TypeOK, Checks, Listeners
<1>1. /\ UNCHANGED <<up, gone, answer, must, wasUp, wasDown>>
      /\ activated \subseteq activated'
      /\ \A q \in Probes \ {p} : check'[q] = check[q] /\ failed'[q] = failed[q]
      /\ \A d \in Checks \ {c} : check'[p][d] = check[p][d]
      /\ failed[p] => failed'[p]
    BY DEF Request, Store, Refused, Become, historyVars, IInv
<1>2. Pending(p) /\ must[p] \subseteq activated /\ (failed[p] => Cause(p))
    BY DEF IInv
<1>3. check'[p][c] = "connected" => c \in wasUp[p] /\ c # "ready"
    BY <1>2 DEF Request, Store, Refused, Become, Pending, IInv
<1>4. check'[p][c] = "refused" => failed'[p] \/ gone[p] \/ c \in wasDown[p]
    BY <1>2 DEF Request, Store, Refused, Become, Pending, IInv
<1>5. check'[p][c] = "ok" /\ (c = "ready" \/ c \in must[p]) => failed'[p] \/ c \in wasUp[p]
    BY <1>2 DEF Request, Store, Refused, Become, Pending, IInv, Forgiven
<1>6. Cause(p) => Cause(p)'
    BY <1>1 DEF Cause
<1>7. failed'[p] => Cause(p)'
  <2>1. CASE Request(p, c) \/ Store(p, c)
      BY <2>1, <1>2, <1>6 DEF Request, Store
  <2>2. CASE Refused(p, c)
    <3>1. CASE Forgiven(c)
        BY <3>1, <2>2, <1>2, <1>6 DEF Refused, IInv
    <3>2. CASE ~Forgiven(c)
      <4>1. c = "ready" \/ c \in activated
          BY <3>2 DEF Forgiven
      <4>2. failed[p] \/ gone[p] \/ c \in wasDown[p]
          BY <2>2, <1>2 DEF Refused, Pending
      <4> QED BY <4>1, <4>2, <1>2, <1>6 DEF Cause
    <3> QED BY <3>1, <3>2
  <2> QED BY <2>1, <2>2
<1>8. Pending(p)'
    BY <1>1, <1>2, <1>3, <1>4, <1>5 DEF Pending
<1>9. \A q \in Probes \ {p} : Pending(q)' /\ (failed'[q] => Cause(q)')
    BY <1>1 DEF IInv, Pending, Cause
<1>10. ASSUME NEW q \in Probes \ {p}
       PROVE  /\ answer'[q] = "none" => check'[q] = Unstarted /\ ~failed'[q]
              /\ answer'[q] \in {"OK", "BadGateway"} => \A d \in Checks : check'[q][d] = "ok"
              /\ answer'[q] = "BadGateway" => failed'[q]
              /\ check'[q]["ready"] # "connected"
    BY <1>1 DEF IInv
<1>11. check'[p]["ready"] # "connected" /\ answer'[p] = "pending"
    BY <1>1, <1>3 DEF IInv
<1>12. \A q \in Probes : must'[q] \subseteq activated'
    BY <1>1 DEF IInv
<1>13. \A q \in Probes : answer'[q] = "OK" => "ready" \in wasUp'[q] /\ must'[q] \subseteq wasUp'[q]
    BY <1>1 DEF IInv
<1> HIDE DEF TypeOK, Checks, Listeners
<1> QED BY <1>7, <1>8, <1>9, <1>10, <1>11, <1>12, <1>13 DEF IInv

\* Every step keeps the invariant.
LEMMA StepIsGood == IInv /\ [Next]_vars => IInv'
<1> SUFFICES ASSUME IInv, [Next]_vars PROVE IInv'
    OBVIOUS
<1>0. TypeOK /\ TypeOK'
    BY TypeStep DEF IInv
<1> USE <1>0 DEF TypeOK, Checks
<1>1. ASSUME NEW p \in Probes, Begin(p) PROVE IInv'
    BY <1>1, BeginIsGood
<1>2. ASSUME NEW p \in Probes, Go(p) PROVE IInv'
  <2>2. PICK c \in Checks : check' = [check EXCEPT ![p][c] = IF failed[p] THEN "ok" ELSE "request"]
      BY <1>2, GoStarts DEF Become
  <2>3. answer[p] = "pending" /\ UNCHANGED <<up, activated, failed, gone, answer, must, wasUp, wasDown>>
      BY <1>2 DEF Go, historyVars
  <2>4. \A q \in Probes : Pending(q)'
      BY <2>2, <2>3 DEF IInv, Pending
  <2>5. \A q \in Probes : failed'[q] => Cause(q)'
      BY <2>3 DEF IInv, Cause
  <2> QED BY <2>2, <2>3, <2>4, <2>5 DEF IInv
<1>3. ASSUME NEW p \in Probes, NEW c \in Checks, Request(p, c) \/ Store(p, c) \/ Refused(p, c)
      PROVE  IInv'
  <2>1. check[p][c] \in {"request", "connected", "refused"}
      BY <1>3 DEF Request, Store, Refused
  <2>2. answer[p] = "pending"
      BY <2>1 DEF IInv, Unstarted
  <2> QED BY <1>3, <2>2, CheckIsGood
<1>6. ASSUME NEW p \in Probes, ServeHTTP(p) PROVE IInv'
  <2>1. /\ answer[p] = "pending" /\ \A c \in Checks : check[p][c] = "ok"
        /\ answer' = [answer EXCEPT ![p] = IF failed[p] THEN "BadGateway" ELSE "OK"]
        /\ UNCHANGED <<up, activated, check, failed, gone, must, wasUp, wasDown>>
      BY <1>6 DEF ServeHTTP, historyVars
  <2>2. ~failed[p] => "ready" \in wasUp[p] /\ must[p] \subseteq wasUp[p]
      BY <2>1 DEF IInv, Pending, Listeners
  <2>3. \A q \in Probes : Pending(q)'
      BY <2>1 DEF IInv, Pending
  <2>4. \A q \in Probes : failed'[q] => Cause(q)'
      BY <2>1 DEF IInv, Cause
  <2> QED BY <2>1, <2>2, <2>3, <2>4 DEF IInv
<1>7. ASSUME NEW p \in Probes, Leave(p) PROVE IInv'
  <2>1. /\ answer'[p] = "none" /\ check'[p] = Unstarted /\ ~failed'[p] /\ must'[p] = {}
        /\ UNCHANGED <<up, activated>>
        /\ \A q \in Probes \ {p} :
              /\ answer'[q] = answer[q] /\ check'[q] = check[q] /\ failed'[q] = failed[q]
              /\ gone'[q] = gone[q] /\ must'[q] = must[q]
              /\ wasUp'[q] = wasUp[q] /\ wasDown'[q] = wasDown[q]
      BY <1>7 DEF Leave
  <2>2. \A q \in Probes : Pending(q)' /\ (failed'[q] => Cause(q)')
      BY <2>1 DEF IInv, Pending, Cause
  <2>3. \A q \in Probes : check'[q]["ready"] # "connected"
      BY <2>1 DEF Unstarted, IInv
  <2>4. ASSUME NEW q \in Probes \ {p}
        PROVE  /\ answer'[q] = "none" => check'[q] = Unstarted /\ ~failed'[q]
               /\ answer'[q] \in {"OK", "BadGateway"} => \A d \in Checks : check'[q][d] = "ok"
               /\ answer'[q] = "BadGateway" => failed'[q]
               /\ answer'[q] = "OK" => "ready" \in wasUp'[q] /\ must'[q] \subseteq wasUp'[q]
      BY <2>1 DEF IInv
  <2>5. \A q \in Probes : must'[q] \subseteq activated'
      BY <2>1 DEF IInv
  <2> HIDE DEF TypeOK, Checks
  <2> QED BY <2>1, <2>2, <2>3, <2>4, <2>5 DEF IInv
<1>8. ASSUME NEW p \in Probes, GiveUp(p) PROVE IInv'
  <2>1. /\ UNCHANGED <<up, activated, check, failed, answer, must, wasUp, wasDown>>
        /\ \A q \in Probes : gone[q] => gone'[q]
      BY <1>8 DEF GiveUp, historyVars
  <2>2. \A q \in Probes : Pending(q)' /\ (failed'[q] => Cause(q)')
      BY <2>1 DEF IInv, Pending, Cause
  <2> QED BY <2>1, <2>2 DEF IInv
<1>9. CASE Restart
  <2>1. \A q \in Probes : /\ answer'[q] = "none" /\ check'[q] = Unstarted
                          /\ ~failed'[q] /\ must'[q] = {}
      BY <1>9 DEF Restart
  <2>2. \A q \in Probes : check'[q]["ready"] # "connected"
      BY <2>1 DEF Unstarted
  <2>3. \A q \in Probes : Pending(q)'
      BY <2>1 DEF Pending
  <2> QED BY <2>1, <2>2, <2>3 DEF IInv
<1>10. ASSUME NEW c \in Checks, ChangeEnvoy(c) PROVE IInv'
    BY <1>10, ChangeIsGood
<1>11. CASE UNCHANGED vars
    BY <1>11 DEF vars, probeVars, historyVars, IInv, Pending, Cause
<1> QED BY <1>1, <1>2, <1>3, <1>6, <1>7, <1>8, <1>9, <1>10, <1>11 DEF Next, Step

\* The inductive invariant holds in every state of every behaviour.
LEMMA Inductive == Spec => []IInv
BY InitIsGood, StepIsGood, PTL DEF Spec

\* An OK means that Envoy was ready, and every listener activated before was
\* reachable, at some time during the probe (root.go:70).
THEOREM OkMeansReachable == Spec => []SuccessMeansReachable
<1>1. IInv => SuccessMeansReachable
    BY DEF IInv, SuccessMeansReachable
<1> QED BY <1>1, Inductive, PTL

\* A probe is answered with an error only for a cause of its own
\* (root.go:35, root.go:72).
THEOREM ErrorsHaveCauses == Spec => []FailureHasCause
<1>1. IInv => FailureHasCause
    BY DEF IInv, Cause, FailureHasCause
<1> QED BY <1>1, Inductive, PTL
-----------------------------------------------------------------------------
(***************************************************************************)
(* cep-checker, for every set of keys and every number of changes and API  *)
(* errors.                                                                 *)
(***************************************************************************)
\* What the map will remember is exported already.
Exported == missings \subseteq gauges /\ missingResourceNameToKind \subseteq gauges

\* What check has read of a Pod holds until the key is touched.
ReadIsCurrent ==
    pc = "getCep" =>
        \A k \in key : k \in Keys /\ (k \in touched \/
            (podExist = (pod[k] = "target") /\ pod[k] # "other"))

KeysTyped ==
    /\ pod \in [Keys -> PodStates]
    /\ cep \subseteq Keys /\ pods \subseteq Keys
    /\ todo \subseteq Keys /\ podExist \in BOOLEAN

CepInv == KeysTyped /\ Exported /\ ReadIsCurrent

LEMMA CepInitInv == CepInit => CepInv
BY DEF CepInit, CepInv, KeysTyped, Exported, ReadIsCurrent

LEMMA ApiErrorInv == CepInv /\ ApiError => CepInv'
BY DEF ApiError, EndRound, cluster, metrics, CepInv, KeysTyped, Exported, ReadIsCurrent

LEMMA CepStepInv == CepInv /\ [CepNext]_cepVars => CepInv'
<1> SUFFICES ASSUME CepInv, [CepNext]_cepVars PROVE CepInv'
  OBVIOUS
<1> USE DEF cluster, metrics, round
<1>1. CASE ListPods
  BY <1>1 DEF ListPods, Targets, CepInv, KeysTyped, Exported, ReadIsCurrent
<1>2. CASE ListCeps
  <2>1. CASE ApiError
    BY <2>1, ApiErrorInv
  <2>2. CASE ~ApiError
    BY <1>2, <2>2 DEF ListCeps, CepInv, KeysTyped, Exported, ReadIsCurrent
  <2>3. QED
    BY <2>1, <2>2
<1>3. CASE GetPod
  <2>1. PICK k \in Candidates :
          IF Skipped(k)
            THEN /\ todo' = todo \ {k}
                 /\ UNCHANGED <<pc, key, podExist>>
            ELSE /\ key' = {k}
                 /\ podExist' = (pod[k] = "target")
                 /\ pc' = "getCep"
                 /\ UNCHANGED todo
    BY <1>3 DEF GetPod
  <2>2. k \in Keys /\ pc = "check" /\ UNCHANGED <<cluster, pods, missings, metrics>>
    BY <1>3 DEF GetPod, Candidates, CepInv, KeysTyped
  <2>3. KeysTyped' /\ Exported'
    BY <2>1, <2>2 DEF CepInv, KeysTyped, Exported
  <2>4. ReadIsCurrent'
    BY <2>1, <2>2 DEF ReadIsCurrent, Skipped
  <2>5. QED
    BY <2>3, <2>4 DEF CepInv
<1>4. CASE GetCep
  BY <1>4 DEF GetCep, CepInv, KeysTyped, Exported, ReadIsCurrent
<1>5. CASE UpdateMetrics
  <2>1. missings \cap Resolved = {}
    BY DEF Resolved, KeysOf
  <2>2. Exported'
    BY <1>5, <2>1 DEF UpdateMetrics, EndRound, Remembered, CepInv, Exported
  <2>3. KeysTyped' /\ ReadIsCurrent'
    BY <1>5 DEF UpdateMetrics, EndRound, CepInv, KeysTyped, ReadIsCurrent
  <2>4. QED
    BY <2>2, <2>3 DEF CepInv
<1>6. CASE CheckFails
  BY <1>6, ApiErrorInv DEF CheckFails
<1>7. CASE ClusterChange
  <2>1. PICK k \in Keys :
          /\ touched' = touched \cup {k}
          /\ \/ pod' \in {[pod EXCEPT ![k] = s] : s \in PodStates \ {pod[k]}} /\ UNCHANGED cep
             \/ cep' = (IF k \in cep THEN cep \ {k} ELSE cep \cup {k}) /\ UNCHANGED pod
    BY <1>7 DEF ClusterChange
  <2>2. UNCHANGED <<round, metrics>>
    BY <1>7 DEF ClusterChange
  <2>3. pod' \in [Keys -> PodStates] /\ \A j \in Keys \ {k} : pod'[j] = pod[j]
    BY <2>1 DEF CepInv, KeysTyped
  <2>4. KeysTyped' /\ Exported'
    BY <2>1, <2>2, <2>3 DEF CepInv, KeysTyped, Exported
  <2>5. ReadIsCurrent'
    BY <2>1, <2>2, <2>3 DEF CepInv, ReadIsCurrent
  <2>6. QED
    BY <2>4, <2>5 DEF CepInv
<1>8. CASE UNCHANGED cepVars
  BY <1>8 DEF cepVars, CepInv, KeysTyped, Exported, ReadIsCurrent
<1>9. QED
  BY <1>1, <1>2, <1>3, <1>4, <1>5, <1>6, <1>7, <1>8 DEF CepNext, Checker

LEMMA CepInvariant == CepSpec => []CepInv
BY CepInitInv, CepStepInv, PTL DEF CepSpec

\* For every set of keys: whatever the goroutine remembers as missing has its
\* gauge, across API errors and in the middle of a round.
THEOREM KnownAlwaysExported == CepSpec => []KnownIsExported
<1>1. CepInv => KnownIsExported
  BY DEF CepInv, Exported, KnownIsExported
<1>2. QED
  BY <1>1, CepInvariant, PTL

\* For every set of keys: a key nobody touched since the round began gets a
\* gauge only when it is one-sided.
THEOREM StableNeverAccused == CepSpec => StableNotAccused
<1>1. CepInv /\ [CepNext]_cepVars =>
        [\A g \in gauges' \ gauges : g[1] \in touched \/ g \in MissingKind(g[1])]_cepVars
  <2>1. SUFFICES ASSUME CepInv, CepNext, NEW g \in gauges' \ gauges, g[1] \notin touched
                 PROVE  g \in MissingKind(g[1])
    OBVIOUS
  <2>2. GetCep
    BY <2>1 DEF CepNext, Checker, ListPods, ListCeps, ApiError, EndRound, GetPod, UpdateMetrics,
                CheckFails, ClusterChange, metrics
  <2>3. PICK k \in key : g \in Found(k)
    BY <2>1, <2>2 DEF GetCep
  <2>4. g[1] = k /\ g = <<k, g[2]>> /\ g[2] \in {"cep", "pod"}
    BY <2>3 DEF Found
  <2>5. k \in Keys /\ podExist = (pod[k] = "target") /\ pod[k] # "other" /\ pod[k] \in PodStates
    BY <2>1, <2>2, <2>3, <2>4 DEF GetCep, CepInv, ReadIsCurrent, KeysTyped
  <2>6. CASE g[2] = "cep"
    BY <2>3, <2>4, <2>5, <2>6 DEF Found, MissingKind
  <2>7. CASE g[2] = "pod"
    BY <2>3, <2>4, <2>5, <2>7 DEF Found, MissingKind, PodStates
  <2>8. QED
    BY <2>4, <2>6, <2>7
<1>2. QED
  BY <1>1, CepInvariant, PTL DEF CepSpec, StableNotAccused
=============================================================================
