------------------------- MODULE CephExporterProofs -------------------------
(***************************************************************************)
(* Proofs about ceph-extra-exporter for any rules, metrics and flags, any  *)
(* number of failures told apart, and any order of updates, scrapes, torn  *)
(* writes and restarts.                                                    *)
(***************************************************************************)
EXTENDS CephExporter, TLAPS

AllMetrics == UNION {Metrics[r] : r \in Rules}

\* Maps of values; a value is the number of an update.
Tables == UNION {[S -> 0..1] : S \in SUBSET AllMetrics}

TypeOK ==
    /\ pc \in [Rules -> {"off", "new", "command", "filter", "lock", "wait", "done"}]
    /\ todo \in [Rules -> SUBSET AllMetrics]
    /\ values \in [Rules -> Tables]
    /\ shown \in [Rules -> Tables]
    /\ seen \in [Rules -> Tables]
    /\ failed \in [Rules -> [Reasons -> Nat]]
    /\ writing \in [Rules -> Reasons \cup {Nothing}]
    /\ collect \in [Rules -> {"idle", "counters", "sent"}]
    /\ left \in [Rules -> SUBSET Reasons]
    /\ sum \in [Rules -> Nat]
    /\ round \in [Rules -> 0..1]
    /\ finished \in [Rules -> 0..1]
    /\ gaps \in [Rules -> Nat]
    /\ owed \in [Rules -> Nat]

\* All values of a map have the number of one update.
AllFrom(map, n) == \A m \in DOMAIN map : map[m] = n

OneUpdate(r) ==
    /\ AllFrom(values[r], round[r])
    /\ AllFrom(shown[r], finished[r])
    /\ collect[r] = "counters" => AllFrom(seen[r], finished[r])

\* The running update has left out a metric.
Short(r) ==
    \/ pc[r] = "filter" /\ DOMAIN values[r] \cup todo[r] # Metrics[r]
    \/ pc[r] = "lock" /\ DOMAIN values[r] # Metrics[r]

\* The gaps there are once this update is swapped, and the failures counted
\* once the write that has begun is done.
Coming(r) == IF Short(r) THEN Count(gaps[r]) ELSE gaps[r]
Counted(r) == IF writing[r] # Nothing THEN Count(Total(failed[r])) ELSE Total(failed[r])

\* What a scrape has still to add up.
Part(f, L, reason) == IF reason \in L THEN f[reason] ELSE 0
Rest(f, L) == Part(f, L, "command") + Part(f, L, "jq") + Part(f, L, "parse")

\* An update counts a failure before it swaps a map with a gap.
UpdateCounts(r) ==
    /\ pc[r] = "command" => DOMAIN values[r] = {}
    /\ writing[r] # Nothing => pc[r] \in {"filter", "lock"}
    /\ Total(failed[r]) >= gaps[r]
    /\ Counted(r) >= Coming(r)

\* A scrape adds up no less than there were gaps when it took its values.
ScrapeCounts(r) ==
    /\ collect[r] = "idle" => sum[r] = 0
    /\ collect[r] = "counters" => sum[r] + Rest(failed[r], left[r]) >= owed[r]
    /\ collect[r] = "sent" => sum[r] >= owed[r]

Good(r) == OneUpdate(r) /\ UpdateCounts(r) /\ ScrapeCounts(r)

IInv == TypeOK /\ \A r \in Rules : Good(r)
-----------------------------------------------------------------------------
\* Counting up to the bound.
LEMMA Counting ==
    \A n, k \in Nat : /\ Count(n) \in Nat /\ Count(n) >= n
                      /\ n >= k => Count(n) >= Count(k)
BY CephAssumption DEF Count

\* The counters added up, and what is left of them.
LEMMA Adding ==
    ASSUME NEW f \in [Reasons -> Nat]
    PROVE  /\ Total(f) \in Nat
           /\ \A L \in SUBSET Reasons : Rest(f, L) \in Nat
           /\ Rest(f, Reasons) = Total(f)
           /\ Rest(f, {}) = 0
           /\ \A L \in SUBSET Reasons : \A x \in L : Rest(f, L) = f[x] + Rest(f, L \ {x})
BY DEF Total, Rest, Part, Reasons

LEMMA CountingOne ==
    ASSUME NEW f \in [Reasons -> Nat], NEW x \in Reasons,
           NEW g, g = [f EXCEPT ![x] = @ + 1]
    PROVE  /\ g \in [Reasons -> Nat]
           /\ Total(g) = Total(f) + 1
           /\ \A L \in SUBSET Reasons : Rest(g, L) >= Rest(f, L)
<1>1. /\ g \in [Reasons -> Nat] /\ g[x] = f[x] + 1
      /\ \A y \in Reasons : y # x => g[y] = f[y]
    OBVIOUS
<1>2. \A y \in Reasons : g[y] >= f[y]
    BY <1>1
<1>3. Total(g) = Total(f) + 1
    BY <1>1 DEF Total, Reasons
<1>4. \A L \in SUBSET Reasons : Rest(g, L) >= Rest(f, L)
    BY <1>1, <1>2 DEF Rest, Part, Reasons
<1> QED BY <1>1, <1>3, <1>4

\* The empty map, and a map with one more value.
LEMMA EmptyMap == Empty \in Tables /\ DOMAIN Empty = {}
<1>1. Empty \in [{} -> 0..1]
    BY DEF Empty
<1> QED BY <1>1 DEF Tables

LEMMA LargerMap ==
    ASSUME NEW f \in Tables, NEW m \in AllMetrics, NEW n \in 0..1
    PROVE  /\ With(f, m, n) \in Tables
           /\ DOMAIN With(f, m, n) = DOMAIN f \cup {m}
           /\ AllFrom(f, n) => AllFrom(With(f, m, n), n)
<1>1. PICK S \in SUBSET AllMetrics : f \in [S -> 0..1]
    BY DEF Tables
<1>2. With(f, m, n) \in [S \cup {m} -> 0..1] /\ S \cup {m} \in SUBSET AllMetrics
    BY <1>1 DEF With
<1>3. With(f, m, n) \in Tables
    BY <1>2 DEF Tables
<1>4. AllFrom(f, n) => AllFrom(With(f, m, n), n)
    BY DEF AllFrom, With
<1> QED BY <1>3, <1>4 DEF With

\* A step of one rule does not touch the others.
At(r) == <<pc[r], todo[r], values[r], shown[r], failed[r], writing[r], collect[r],
           seen[r], left[r], sum[r], round[r], finished[r], gaps[r], owed[r]>>

LEMMA OtherRules ==
    ASSUME NEW q \in Rules, Good(q), At(q)' = At(q)
    PROVE  Good(q)'
<1>1. OneUpdate(q)'
    BY DEF At, Good, OneUpdate, AllFrom
<1>2. UpdateCounts(q)'
    BY DEF At, Good, UpdateCounts, Counted, Coming, Short, Total, Count
<1>3. ScrapeCounts(q)'
    BY DEF At, Good, ScrapeCounts, Rest, Part
<1> QED BY <1>1, <1>2, <1>3 DEF Good

\* The process starts, for the first time or again.
LEMMA FreshIsGood ==
    /\ Init => IInv
    /\ Restart => IInv'
<1>1. ASSUME NEW r \in Rules
      PROVE  Fresh.pc[r] \in {"new", "off"} /\ Fresh.maps[r] = Empty /\ Fresh.zeros[r] = Zero
    BY DEF Fresh
<1>2. Zero \in [Reasons -> Nat] /\ Total(Zero) = 0
    BY DEF Zero, Total, Reasons
<1>3. ASSUME Init PROVE IInv
  <2>1. TypeOK
      BY <1>2, <1>3, EmptyMap DEF Init, Fresh, TypeOK
  <2>2. ASSUME NEW r \in Rules PROVE Good(r)
    <3>1. OneUpdate(r)
        BY <1>1, <1>3, <2>2, EmptyMap DEF Init, OneUpdate, AllFrom
    <3>2. UpdateCounts(r)
        BY <1>1, <1>2, <1>3, <2>2 DEF Init, UpdateCounts, Counted, Coming, Short
    <3>3. ScrapeCounts(r)
        BY <1>3, <2>2 DEF Init, ScrapeCounts
    <3> QED BY <3>1, <3>2, <3>3 DEF Good
  <2> QED BY <2>1, <2>2 DEF IInv
<1>4. ASSUME Restart PROVE IInv'
  <2>1. TypeOK'
      BY <1>2, <1>4, EmptyMap DEF Restart, Fresh, TypeOK
  <2>2. ASSUME NEW r \in Rules PROVE Good(r)'
    <3>1. OneUpdate(r)'
        BY <1>1, <1>4, <2>2, EmptyMap DEF Restart, OneUpdate, AllFrom
    <3>2. UpdateCounts(r)'
        BY <1>1, <1>2, <1>4, <2>2 DEF Restart, UpdateCounts, Counted, Coming, Short
    <3>3. ScrapeCounts(r)'
        BY <1>4, <2>2 DEF Restart, ScrapeCounts
    <3> QED BY <3>1, <3>2, <3>3 DEF Good
  <2> QED BY <2>1, <2>2 DEF IInv
<1> QED BY <1>3, <1>4
-----------------------------------------------------------------------------
(***************************************************************************)
(* The steps of an update.                                                 *)
(***************************************************************************)
\* A rule whose step keeps it good, next to rules that did nothing.
LEMMA OneRule ==
    ASSUME IInv, NEW r \in Rules, TypeOK', Good(r)',
           \A q \in Rules : q # r => At(q)' = At(q)
    PROVE  IInv'
BY OtherRules DEF IInv

LEMMA StartUpdateGood ==
    ASSUME IInv, NEW r \in Rules, pc[r] \in {"new", "wait"}, StartUpdate(r)
    PROVE  IInv'
<1> USE DEF StartUpdate, FreshValues, scrapeVars
<1>1. TypeOK /\ Good(r)
    BY DEF IInv
<1>2. /\ pc'[r] = "command" /\ values'[r] = Empty /\ writing'[r] = Nothing
      /\ UNCHANGED <<shown, failed, writing, collect, seen, left, sum, finished, gaps, owed>>
    BY <1>1 DEF TypeOK, Good, UpdateCounts
<1>3. TypeOK'
  <2>1. values' \in [Rules -> Tables]
      BY <1>1, EmptyMap DEF TypeOK
  <2>2. (round[r] + 1) % 2 \in 0..1
    <3>1. round[r] = 0 \/ round[r] = 1
        BY <1>1 DEF TypeOK
    <3>2. (0 + 1) % 2 = 1 /\ (1 + 1) % 2 = 0
        OBVIOUS
    <3> QED BY <3>1, <3>2
  <2>3. round' \in [Rules -> 0..1]
      BY <1>1, <2>2 DEF TypeOK
  <2> QED BY <1>1, <2>1, <2>3 DEF TypeOK
<1>4. Good(r)'
  <2>1. OneUpdate(r)'
      BY <1>1, <1>2, EmptyMap DEF Good, OneUpdate, AllFrom
  <2>2. UpdateCounts(r)'
      BY <1>1, <1>2, EmptyMap DEF Good, UpdateCounts, Counted, Coming, Short
  <2>3. ScrapeCounts(r)'
      BY <1>1, <1>2 DEF Good, ScrapeCounts
  <2> QED BY <2>1, <2>2, <2>3 DEF Good
<1>5. \A q \in Rules : q # r => At(q)' = At(q)
    BY <1>1 DEF TypeOK, At
<1> QED BY <1>3, <1>4, <1>5, OneRule

LEMMA WritesGood ==
    ASSUME IInv, NEW r \in Rules, Writes(r)
    PROVE  IInv'
<1>1. TypeOK /\ Good(r) /\ writing[r] \in Reasons /\ failed[r] \in [Reasons -> Nat]
    BY DEF IInv, TypeOK, Writes
<1>2. /\ writing' = [writing EXCEPT ![r] = Nothing] /\ writing'[r] = Nothing
      /\ UNCHANGED <<pc, todo, values, shown, collect, seen, left, sum, round, finished>>
      /\ UNCHANGED <<gaps, owed>>
    BY <1>1 DEF Writes, scrapeVars, historyVars, TypeOK
<1>3. /\ failed' \in [Rules -> [Reasons -> Nat]]
      /\ \A q \in Rules : q # r => failed'[q] = failed[q]
      /\ Total(failed'[r]) = Count(Total(failed[r]))
      /\ \A L \in SUBSET Reasons : Rest(failed'[r], L) >= Rest(failed[r], L)
  <2>1. CASE Total(failed[r]) < MaxFailures
    <3> DEFINE g == [failed[r] EXCEPT ![writing[r]] = @ + 1]
    <3>1. failed' = [failed EXCEPT ![r] = g]
        BY <1>1, <2>1 DEF Writes, TypeOK
    <3>2. /\ g \in [Reasons -> Nat] /\ Total(g) = Total(failed[r]) + 1
          /\ \A L \in SUBSET Reasons : Rest(g, L) >= Rest(failed[r], L)
        BY <1>1, CountingOne
    <3> HIDE DEF g
    <3>3. failed'[r] = g /\ failed' \in [Rules -> [Reasons -> Nat]]
          /\ \A q \in Rules : q # r => failed'[q] = failed[q]
        BY <1>1, <3>1, <3>2 DEF TypeOK
    <3> QED BY <2>1, <3>2, <3>3 DEF Count
  <2>2. CASE ~(Total(failed[r]) < MaxFailures)
    <3>1. failed' = failed
        BY <2>2 DEF Writes
    <3>2. \A L \in SUBSET Reasons : Rest(failed[r], L) >= Rest(failed[r], L)
        BY <1>1, Adding
    <3> QED BY <1>1, <2>2, <3>1, <3>2 DEF Count, TypeOK
  <2> QED BY <2>1, <2>2
<1>4. TypeOK'
    BY <1>1, <1>2, <1>3 DEF TypeOK
<1>5. Good(r)'
  <2>1. OneUpdate(r)'
      BY <1>1, <1>2 DEF Good, OneUpdate
  <2>2. UpdateCounts(r)'
    <3>1. Total(failed[r]) \in Nat /\ gaps[r] \in Nat
        BY <1>1, Adding DEF TypeOK
    <3>2. Coming(r)' = Coming(r)
        BY <1>2 DEF Coming, Short
    <3>3. Counted(r)' = Counted(r)
        BY <1>1, <1>2, <1>3 DEF Counted, Writes
    <3>4. Total(failed'[r]) >= gaps[r]
        BY <1>1, <1>3, <3>1, Counting DEF Good, UpdateCounts
    <3> QED BY <1>1, <1>2, <3>2, <3>3, <3>4 DEF Good, UpdateCounts
  <2>3. ScrapeCounts(r)'
    <3>1. CASE collect[r] = "counters"
      <4>1. /\ sum[r] \in Nat /\ owed[r] \in Nat /\ Rest(failed[r], left[r]) \in Nat
            /\ Rest(failed'[r], left[r]) \in Nat
        BY <1>1, <1>3, Adding DEF TypeOK
      <4>2. Rest(failed'[r], left[r]) >= Rest(failed[r], left[r])
        BY <1>1, <1>3 DEF TypeOK
      <4> QED BY <1>1, <1>2, <3>1, <4>1, <4>2 DEF Good, ScrapeCounts
    <3>2. CASE collect[r] # "counters"
        BY <1>1, <1>2, <3>2 DEF Good, ScrapeCounts
    <3> QED BY <3>1, <3>2
  <2> QED BY <2>1, <2>2, <2>3 DEF Good
<1>6. \A q \in Rules : q # r => At(q)' = At(q)
    BY <1>1, <1>2, <1>3 DEF TypeOK, At
<1> QED BY <1>4, <1>5, <1>6, OneRule

\* A failure begins to be counted, with nothing of the rule being written.
LEMMA FailsCounts ==
    ASSUME IInv, NEW r \in Rules, writing[r] = Nothing, UNCHANGED <<failed, gaps>>,
           writing'[r] # Nothing
    PROVE  Counted(r)' >= Coming(r)' /\ Total(failed'[r]) >= gaps'[r]
<1>1. Total(failed[r]) \in Nat /\ gaps[r] \in Nat
    BY Adding DEF IInv, TypeOK
<1>2. Total(failed[r]) >= gaps[r]
    BY DEF IInv, Good, UpdateCounts
<1>3. /\ Count(Total(failed[r])) >= Count(gaps[r]) /\ Count(gaps[r]) >= gaps[r]
      /\ Count(Total(failed[r])) \in Nat /\ Count(gaps[r]) \in Nat
    BY <1>1, <1>2, Counting
<1>4. Counted(r)' = Count(Total(failed[r]))
    BY DEF Counted
<1>5. Coming(r)' = Count(gaps[r]) \/ Coming(r)' = gaps[r]
    BY DEF Coming
<1> QED BY <1>1, <1>2, <1>3, <1>4, <1>5

LEMMA RunCommandGood ==
    ASSUME IInv, NEW r \in Rules, RunCommand(r)
    PROVE  IInv'
<1>1. TypeOK /\ Good(r) /\ pc[r] = "command" /\ writing[r] = Nothing /\ DOMAIN values[r] = {}
    BY DEF IInv, RunCommand, Good, UpdateCounts, TypeOK
<1>2. /\ UNCHANGED <<values, shown, failed, collect, seen, left, sum, round, finished>>
      /\ UNCHANGED <<gaps, owed>>
    BY DEF RunCommand, scrapeVars, historyVars
<1>3. OneUpdate(r)' /\ ScrapeCounts(r)'
    BY <1>1, <1>2 DEF Good, OneUpdate, ScrapeCounts
<1>4. CASE /\ todo' = [todo EXCEPT ![r] = Metrics[r]]
           /\ pc' = [pc EXCEPT ![r] = "filter"]
           /\ UNCHANGED writing
  <2>1. TypeOK'
    <3>1. Metrics[r] \subseteq AllMetrics
        BY DEF AllMetrics
    <3> QED BY <1>1, <1>2, <1>4, <3>1 DEF TypeOK
  <2>2. pc'[r] = "filter" /\ todo'[r] = Metrics[r]
      BY <1>1, <1>4 DEF TypeOK
  <2>3. UpdateCounts(r)'
    <3>1. ~Short(r)' /\ ~Short(r)
        BY <1>1, <1>2, <2>2 DEF Short
    <3> QED BY <1>1, <1>2, <1>4, <2>2, <3>1 DEF Good, UpdateCounts, Counted, Coming
  <2>4. \A q \in Rules : q # r => At(q)' = At(q)
      BY <1>1, <1>2, <1>4 DEF TypeOK, At
  <2>5. Good(r)'
      BY <1>3, <2>3 DEF Good
  <2> QED BY <2>1, <2>4, <2>5, OneRule
<1>5. CASE /\ Fails(r, "command")
           /\ pc' = [pc EXCEPT ![r] = "lock"]
           /\ UNCHANGED todo
  <2>1. /\ writing' = [writing EXCEPT ![r] = "command"] /\ writing'[r] = "command"
        /\ pc'[r] = "lock" /\ "command" \in Reasons /\ "command" # Nothing
      BY <1>1, <1>5 DEF Fails, TypeOK, Reasons, Nothing
  <2>2. TypeOK'
      BY <1>1, <1>2, <1>5, <2>1 DEF TypeOK
  <2>3. UpdateCounts(r)'
    <3>1. Counted(r)' >= Coming(r)' /\ Total(failed'[r]) >= gaps'[r]
        BY <1>1, <1>2, <2>1, FailsCounts
    <3> QED BY <2>1, <3>1 DEF UpdateCounts
  <2>4. \A q \in Rules : q # r => At(q)' = At(q)
      BY <1>1, <1>2, <1>5, <2>1 DEF TypeOK, At
  <2>5. Good(r)'
      BY <1>3, <2>3 DEF Good
  <2> QED BY <2>2, <2>4, <2>5, OneRule
<1> QED BY <1>4, <1>5 DEF RunCommand

LEMMA FilterGood ==
    ASSUME IInv, NEW r \in Rules, NEW m \in Metrics[r], Filter(r, m)
    PROVE  IInv'
<1>1. /\ TypeOK /\ Good(r) /\ pc[r] = "filter" /\ writing[r] = Nothing
      /\ m \in todo[r] /\ m \in AllMetrics
    BY DEF IInv, Filter, AllMetrics
<1>2. /\ UNCHANGED <<shown, failed, collect, seen, left, sum, round, finished>>
      /\ UNCHANGED <<gaps, owed>>
      /\ todo' = [todo EXCEPT ![r] = @ \ {m}]
      /\ pc' = [pc EXCEPT ![r] = IF todo'[r] = {} THEN "lock" ELSE "filter"]
    BY DEF Filter, scrapeVars, historyVars
<1>3. /\ todo'[r] = todo[r] \ {m}
      /\ pc'[r] = IF todo'[r] = {} THEN "lock" ELSE "filter"
      /\ todo' \in [Rules -> SUBSET AllMetrics]
      /\ pc' \in [Rules -> {"off", "new", "command", "filter", "lock", "wait", "done"}]
      /\ \A q \in Rules : q # r => todo'[q] = todo[q] /\ pc'[q] = pc[q]
    BY <1>1, <1>2 DEF TypeOK
<1>4. ScrapeCounts(r)'
    BY <1>1, <1>2 DEF Good, ScrapeCounts
<1>5. CASE values' = [values EXCEPT ![r] = With(@, m, round[r])] /\ UNCHANGED writing
  <2>1. /\ values'[r] = With(values[r], m, round[r])
        /\ values[r] \in Tables /\ round[r] \in 0..1
      BY <1>1, <1>5 DEF TypeOK
  <2>2. /\ values'[r] \in Tables
        /\ DOMAIN values'[r] = DOMAIN values[r] \cup {m}
        /\ AllFrom(values[r], round[r]) => AllFrom(values'[r], round[r])
    <3> DEFINE new == With(values[r], m, round[r])
    <3>1. /\ new \in Tables
          /\ DOMAIN new = DOMAIN values[r] \cup {m}
          /\ AllFrom(values[r], round[r]) => AllFrom(new, round[r])
        BY <1>1, <2>1, LargerMap, Zenon
    <3> HIDE DEF new
    <3>2. values'[r] = new
        BY <2>1 DEF new
    <3> QED BY <3>1, <3>2
  <2>3. TypeOK'
    <3>1. values' \in [Rules -> Tables]
        BY <1>1, <1>5, <2>1, <2>2 DEF TypeOK
    <3> QED BY <1>1, <1>2, <1>3, <1>5, <3>1 DEF TypeOK
  <2>4. OneUpdate(r)'
      BY <1>1, <1>2, <2>2 DEF Good, OneUpdate
  <2>5. UpdateCounts(r)'
    <3>1. Short(r)' = Short(r)
      <4>1. DOMAIN values'[r] \cup todo'[r] = DOMAIN values[r] \cup todo[r]
          BY <1>1, <1>3, <2>2
      <4>2. CASE todo'[r] = {}
          BY <1>1, <1>3, <4>1, <4>2 DEF Short
      <4>3. CASE todo'[r] # {}
          BY <1>1, <1>3, <4>1, <4>3 DEF Short
      <4> QED BY <4>2, <4>3
    <3>2. Counted(r)' = Counted(r) /\ Coming(r)' = Coming(r)
        BY <1>2, <1>5, <3>1 DEF Counted, Coming
    <3> QED BY <1>1, <1>2, <1>3, <1>5, <3>2 DEF Good, UpdateCounts
  <2>6. \A q \in Rules : q # r => At(q)' = At(q)
      BY <1>1, <1>2, <1>3, <1>5 DEF TypeOK, At
  <2>7. Good(r)'
      BY <1>4, <2>4, <2>5 DEF Good
  <2> QED BY <2>3, <2>6, <2>7, OneRule
<1>6. CASE (Fails(r, "jq") \/ Fails(r, "parse")) /\ UNCHANGED values
  <2>1. PICK reason \in Reasons : writing' = [writing EXCEPT ![r] = reason] /\ reason # Nothing
      BY <1>6 DEF Fails, Reasons, Nothing
  <2>2. writing'[r] = reason /\ writing' \in [Rules -> Reasons \cup {Nothing}]
      BY <1>1, <2>1 DEF TypeOK
  <2>3. TypeOK'
      BY <1>1, <1>2, <1>3, <1>6, <2>2 DEF TypeOK
  <2>4. OneUpdate(r)'
      BY <1>1, <1>2, <1>6 DEF Good, OneUpdate
  <2>5. UpdateCounts(r)'
    <3>1. Counted(r)' >= Coming(r)' /\ Total(failed'[r]) >= gaps'[r]
        BY <1>1, <1>2, <2>1, <2>2, FailsCounts
    <3> QED BY <1>3, <3>1 DEF UpdateCounts
  <2>6. \A q \in Rules : q # r => At(q)' = At(q)
      BY <1>1, <1>2, <1>3, <1>6, <2>1 DEF TypeOK, At
  <2>7. Good(r)'
      BY <1>4, <2>4, <2>5 DEF Good
  <2> QED BY <2>3, <2>6, <2>7, OneRule
<1> QED BY <1>5, <1>6 DEF Filter

LEMMA SwapGood ==
    ASSUME IInv, NEW r \in Rules, Swap(r)
    PROVE  IInv'
<1>1. /\ TypeOK /\ Good(r) /\ pc[r] = "lock" /\ writing[r] = Nothing
      /\ collect[r] # "counters"
    BY DEF IInv, Swap
<1>2. /\ UNCHANGED <<todo, values, failed, writing, collect, seen, left, sum, owed, round>>
      /\ shown' = [shown EXCEPT ![r] = values[r]] /\ shown'[r] = values[r]
      /\ finished' = [finished EXCEPT ![r] = round[r]] /\ finished'[r] = round[r]
      /\ pc' = [pc EXCEPT ![r] = "wait"] /\ pc'[r] = "wait"
    BY <1>1 DEF Swap, scrapeVars, TypeOK
<1>3. /\ gaps' = [gaps EXCEPT ![r] = Coming(r)] /\ gaps'[r] = Coming(r) /\ Coming(r) \in Nat
  <2>1. Count(gaps[r]) \in Nat /\ gaps[r] \in Nat
      BY <1>1, Counting DEF TypeOK
  <2>2. Coming(r) = IF DOMAIN values[r] = Metrics[r] THEN gaps[r] ELSE Count(gaps[r])
      BY <1>1 DEF Coming, Short
  <2>3. gaps' = [gaps EXCEPT ![r] = Coming(r)]
      BY <2>2 DEF Swap
  <2> QED BY <1>1, <2>1, <2>2, <2>3 DEF TypeOK
<1>4. TypeOK'
    BY <1>1, <1>2, <1>3 DEF TypeOK
<1>5. OneUpdate(r)' /\ ScrapeCounts(r)'
    BY <1>1, <1>2 DEF Good, OneUpdate, ScrapeCounts
<1>6. UpdateCounts(r)'
  <2>1. ~Short(r)'
      BY <1>2 DEF Short
  <2>2. Total(failed[r]) >= Coming(r)
      BY <1>1 DEF Good, UpdateCounts, Counted
  <2> QED BY <1>1, <1>2, <1>3, <2>1, <2>2 DEF UpdateCounts, Counted, Coming
<1>7. Good(r)'
    BY <1>5, <1>6 DEF Good
<1>8. \A q \in Rules : q # r => At(q)' = At(q)
    BY <1>1, <1>2, <1>3 DEF TypeOK, At
<1> QED BY <1>4, <1>7, <1>8, OneRule

LEMMA FinishGood ==
    ASSUME IInv, NEW r \in Rules, Finish(r)
    PROVE  IInv'
<1>1. /\ TypeOK /\ Good(r) /\ pc[r] = "wait"
    BY DEF IInv, Finish
<1>2. /\ UNCHANGED <<todo, values, shown, failed, writing, collect, seen, left, sum, owed>>
      /\ UNCHANGED <<round, finished, gaps>>
      /\ pc' = [pc EXCEPT ![r] = "done"] /\ pc'[r] = "done"
    BY <1>1 DEF Finish, scrapeVars, historyVars, TypeOK
<1>3. TypeOK'
    BY <1>1, <1>2 DEF TypeOK
<1>4. OneUpdate(r)' /\ ScrapeCounts(r)'
    BY <1>1, <1>2 DEF Good, OneUpdate, ScrapeCounts
<1>5. UpdateCounts(r)'
    BY <1>1, <1>2 DEF Good, UpdateCounts, Counted, Coming, Short
<1>6. Good(r)'
    BY <1>4, <1>5 DEF Good
<1>7. \A q \in Rules : q # r => At(q)' = At(q)
    BY <1>1, <1>2 DEF TypeOK, At
<1> QED BY <1>3, <1>6, <1>7, OneRule
-----------------------------------------------------------------------------
(***************************************************************************)
(* The steps of a scrape.                                                  *)
(***************************************************************************)
LEMMA UpdateUntouched ==
    ASSUME NEW r \in Rules, UpdateCounts(r), UNCHANGED <<updateVars, historyVars>>
    PROVE  UpdateCounts(r)'
BY DEF updateVars, historyVars, UpdateCounts, Counted, Coming, Short

LEMMA CollectValuesGood ==
    ASSUME IInv, NEW r \in Rules, CollectValues(r)
    PROVE  IInv'
<1>1. /\ TypeOK /\ Good(r) /\ collect[r] = "idle"
    BY DEF IInv, CollectValues
<1>2. /\ UNCHANGED <<updateVars, historyVars, sum>>
      /\ collect' = [collect EXCEPT ![r] = "counters"] /\ collect'[r] = "counters"
      /\ seen' = [seen EXCEPT ![r] = shown[r]] /\ seen'[r] = shown[r]
      /\ left' = [left EXCEPT ![r] = Reasons] /\ left'[r] = Reasons
      /\ owed' = [owed EXCEPT ![r] = gaps[r]] /\ owed'[r] = gaps[r]
    BY <1>1 DEF CollectValues, TypeOK
<1>3. TypeOK'
    BY <1>1, <1>2 DEF TypeOK, updateVars, historyVars
<1>4. OneUpdate(r)'
    BY <1>1, <1>2 DEF Good, OneUpdate, updateVars, historyVars
<1>5. UpdateCounts(r)'
    BY <1>1, <1>2, UpdateUntouched DEF Good
<1>6. ScrapeCounts(r)'
  <2>1. failed[r] \in [Reasons -> Nat] /\ gaps[r] \in Nat /\ UNCHANGED failed
      BY <1>1, <1>2 DEF TypeOK, updateVars
  <2>2. Rest(failed[r], Reasons) = Total(failed[r]) /\ Total(failed[r]) \in Nat
      BY <2>1, Adding
  <2>3. sum'[r] = 0 /\ Total(failed[r]) >= gaps[r]
      BY <1>1, <1>2 DEF Good, ScrapeCounts, UpdateCounts
  <2> QED BY <1>2, <2>1, <2>2, <2>3 DEF ScrapeCounts
<1>7. Good(r)'
    BY <1>4, <1>5, <1>6 DEF Good
<1>8. \A q \in Rules : q # r => At(q)' = At(q)
    BY <1>1, <1>2 DEF TypeOK, At, updateVars, historyVars
<1> QED BY <1>3, <1>7, <1>8, OneRule

LEMMA CollectCounterGood ==
    ASSUME IInv, NEW r \in Rules, NEW reason \in Reasons, CollectCounter(r, reason)
    PROVE  IInv'
<1>1. CASE Restart
    BY <1>1, FreshIsGood
<1>2. CASE ~Restart
  <2>1. /\ TypeOK /\ Good(r) /\ collect[r] = "counters" /\ reason \in left[r]
        /\ failed[r] \in [Reasons -> Nat] /\ left[r] \in SUBSET Reasons
        /\ failed[r][reason] \in Nat /\ sum[r] \in Nat /\ owed[r] \in Nat
      BY DEF IInv, CollectCounter, TypeOK
  <2>2. /\ UNCHANGED <<updateVars, seen, owed, historyVars>>
        /\ sum' = [sum EXCEPT ![r] = @ + failed[r][reason]]
        /\ left' = [left EXCEPT ![r] = @ \ {reason}]
        /\ collect' = [collect EXCEPT ![r] = IF left'[r] = {} THEN "sent" ELSE @]
      BY <1>2 DEF CollectCounter
  <2>3. /\ sum'[r] = sum[r] + failed[r][reason]
        /\ left'[r] = left[r] \ {reason}
        /\ collect'[r] = IF left'[r] = {} THEN "sent" ELSE "counters"
      BY <2>1, <2>2 DEF TypeOK
  <2>4. TypeOK'
    <3>1. sum' \in [Rules -> Nat] /\ left' \in [Rules -> SUBSET Reasons]
        BY <2>1, <2>2 DEF TypeOK
    <3>2. collect' \in [Rules -> {"idle", "counters", "sent"}]
        BY <2>1, <2>2 DEF TypeOK
    <3> QED BY <2>1, <2>2, <3>1, <3>2 DEF TypeOK, updateVars, historyVars
  <2>5. OneUpdate(r)'
      BY <2>1, <2>2 DEF Good, OneUpdate, updateVars, historyVars
  <2>6. UpdateCounts(r)'
      BY <2>1, <2>2, UpdateUntouched DEF Good
  <2>7. ScrapeCounts(r)'
    <3>1. /\ Rest(failed[r], left[r]) = failed[r][reason] + Rest(failed[r], left[r] \ {reason})
          /\ Rest(failed[r], left[r] \ {reason}) \in Nat
          /\ Rest(failed[r], {}) = 0
        BY <2>1, Adding
    <3>2. sum[r] + Rest(failed[r], left[r]) >= owed[r]
        BY <2>1 DEF Good, ScrapeCounts
    <3>3. sum'[r] + Rest(failed[r], left'[r]) >= owed[r]
        BY <2>1, <2>3, <3>1, <3>2
    <3>4. UNCHANGED <<failed, owed>> /\ collect'[r] # "idle"
        BY <2>2, <2>3 DEF updateVars
    <3>5. CASE left'[r] = {}
      <4>1. sum'[r] \in Nat
          BY <2>1, <2>3
      <4>2. Rest(failed[r], left'[r]) = 0
          BY <3>1, <3>5, Zenon
      <4>3. sum'[r] >= owed[r]
          BY <2>1, <3>3, <4>1, <4>2
      <4> QED BY <2>3, <3>4, <3>5, <4>3 DEF ScrapeCounts
    <3>6. CASE left'[r] # {}
        BY <2>3, <3>3, <3>4, <3>6 DEF ScrapeCounts
    <3> QED BY <3>5, <3>6
  <2>8. Good(r)'
      BY <2>5, <2>6, <2>7 DEF Good
  <2>9. \A q \in Rules : q # r => At(q)' = At(q)
      BY <2>1, <2>2 DEF TypeOK, At, updateVars, historyVars
  <2> QED BY <2>4, <2>8, <2>9, OneRule
<1> QED BY <1>1, <1>2

LEMMA AnswerGood ==
    ASSUME IInv, NEW r \in Rules, Answer(r)
    PROVE  IInv'
<1>1. TypeOK /\ Good(r)
    BY DEF IInv
<1>2. /\ UNCHANGED <<updateVars, historyVars, left>>
      /\ collect' = [collect EXCEPT ![r] = "idle"] /\ collect'[r] = "idle"
      /\ seen' = [seen EXCEPT ![r] = Empty]
      /\ sum' = [sum EXCEPT ![r] = 0] /\ sum'[r] = 0
      /\ owed' = [owed EXCEPT ![r] = 0]
    BY <1>1 DEF Answer, TypeOK
<1>3. TypeOK'
    BY <1>1, <1>2, EmptyMap DEF TypeOK, updateVars, historyVars
<1>4. OneUpdate(r)' /\ ScrapeCounts(r)'
    BY <1>1, <1>2 DEF Good, OneUpdate, ScrapeCounts, updateVars, historyVars
<1>5. UpdateCounts(r)'
    BY <1>1, <1>2, UpdateUntouched DEF Good
<1>6. Good(r)'
    BY <1>4, <1>5 DEF Good
<1>7. \A q \in Rules : q # r => At(q)' = At(q)
    BY <1>1, <1>2 DEF TypeOK, At, updateVars, historyVars
<1> QED BY <1>3, <1>6, <1>7, OneRule
-----------------------------------------------------------------------------
LEMMA StepIsGood == IInv /\ [Next]_vars => IInv'
<1> SUFFICES ASSUME IInv, [Next]_vars PROVE IInv'
    OBVIOUS
<1>1. ASSUME UNCHANGED <<updateVars, scrapeVars, historyVars>> PROVE IInv'
  <2>1. TypeOK'
      BY <1>1 DEF IInv, TypeOK, updateVars, scrapeVars, historyVars
  <2>2. \A r \in Rules : Good(r)'
      BY <1>1, OtherRules DEF IInv, At, updateVars, scrapeVars, historyVars
  <2> QED BY <2>1, <2>2 DEF IInv
<1>2. ASSUME NEW r \in Rules, Update(r) PROVE IInv'
    BY <1>2, StartUpdateGood, RunCommandGood, WritesGood, SwapGood, FilterGood
       DEF Update, Register, Tick
<1>3. ASSUME NEW r \in Rules, Collect(r) PROVE IInv'
    BY <1>3, CollectValuesGood, AnswerGood, CollectCounterGood DEF Collect
<1>4. ASSUME NEW r \in Rules, Finish(r) PROVE IInv'
    BY <1>4, FinishGood
<1>5. ASSUME NEW r \in Rules, ChangeCeph(r) PROVE IInv'
    BY <1>1, <1>5 DEF ChangeCeph
<1>6. CASE ListenFails
    BY <1>1, <1>6 DEF ListenFails
<1>7. CASE Exit
    BY <1>7, FreshIsGood DEF Exit
<1>8. CASE UNCHANGED vars
    BY <1>1, <1>8 DEF vars
<1> QED BY <1>2, <1>3, <1>4, <1>5, <1>6, <1>7, <1>8 DEF Next

LEMMA Inductive == Spec => []IInv
BY FreshIsGood, StepIsGood, PTL DEF Spec

\* The values of a scrape come from one update, the last that was swapped:
\* update never touches a map that a scrape can see, and its swap waits for the
\* scrapes that hold the lock (executer.go:98, collector.go:51).
THEOREM ScrapesAreConsistent == Spec => []ScrapeShowsOneUpdate
<1>1. IInv => ScrapeShowsOneUpdate
    BY DEF IInv, Good, OneUpdate, AllFrom, ScrapeShowsOneUpdate
<1> QED BY <1>1, Inductive, PTL

\* Every gap that a scrape may show is in the counters it adds up, though they
\* are read one by one while an update writes them: a failure is counted before
\* the map that lacks a metric is swapped (executer.go:111).
THEOREM MissingMetricsAreCounted == Spec => []GapsAreCounted
<1>1. IInv => GapsAreCounted
    BY DEF IInv, Good, ScrapeCounts, GapsAreCounted
<1> QED BY <1>1, Inductive, PTL
=============================================================================
