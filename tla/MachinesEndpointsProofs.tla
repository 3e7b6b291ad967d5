---------------------- MODULE MachinesEndpointsProofs ----------------------
(***************************************************************************)
(* Proofs about machines-endpoints for any machines, slots and slice size, *)
(* any number of overlapping jobs, changes and faults: first what cutting  *)
(* a sorted list into chunks yields, then what a job has written of its    *)
(* chunks at every step.                                                   *)
(***************************************************************************)
EXTENDS MachinesEndpoints, FiniteSetTheorems, WellFoundedInduction, TLAPS
-----------------------------------------------------------------------------
(***************************************************************************)
(* A sorted list cut into chunks.                                          *)
(***************************************************************************)
RankIn(L, m) == Cardinality({x \in L : x < m})

Group(L, n) == {x \in L : RankIn(L, x) \div MaxEndpoints = n}

\* The chunk that a place in the list is in.
LEMMA Division ==
    ASSUME NEW r \in Nat, NEW M \in Nat \ {0}
    PROVE  /\ r \div M \in Nat /\ r \div M <= r
           /\ (r \div M) * M <= r /\ r <= (r \div M) * M + M - 1
BY SMT

LEMMA Multiple ==
    ASSUME NEW n \in Nat, NEW M \in Nat \ {0}
    PROVE  n * M \in Nat /\ (n * M) \div M = n
BY SMT

LEMMA Monotone ==
    ASSUME NEW n \in Nat, NEW k \in Nat, NEW M \in Nat \ {0}, k >= n
    PROVE  k * M >= n * M
BY SMT

Below == {pair \in Nat \X Nat : pair[1] < pair[2]}

\* A set of natural numbers has a least one.
LEMMA Least ==
    ASSUME NEW T \in SUBSET Nat, T # {}
    PROVE  \E x \in T : \A y \in T : x <= y
<1>1. IsWellFoundedOn(Below, Nat)
    BY NatLessThanWellFounded DEF OpToRel, Below
<1>2. PICK x \in T : \A y \in T : ~(<<y, x>> \in Below)
    BY <1>1, WFMin
<1>3. ASSUME NEW y \in T, y < x PROVE FALSE
  <2>1. <<y, x>> \in Below
      BY <1>3 DEF Below
  <2> QED BY <1>2, <2>1
<1>4. \A y \in T : x <= y
    BY <1>3
<1> QED BY <1>4

\* Different machines have different places.
LEMMA RankGrows ==
    ASSUME NEW L \in SUBSET Nat, IsFiniteSet(L)
    PROVE  /\ \A m \in Nat : RankIn(L, m) \in Nat /\ RankIn(L, m) <= Cardinality(L)
           /\ \A x, y \in L : x < y => RankIn(L, x) < RankIn(L, y)
<1>1. ASSUME NEW m \in Nat
      PROVE  /\ IsFiniteSet({x \in L : x < m}) /\ RankIn(L, m) \in Nat
             /\ RankIn(L, m) <= Cardinality(L)
  <2> DEFINE B == {x \in L : x < m}
  <2>1. B \in SUBSET L
      OBVIOUS
  <2> HIDE DEF B
  <2>2. IsFiniteSet(B) /\ Cardinality(B) <= Cardinality(L) /\ Cardinality(B) \in Nat
      BY <2>1, FS_Subset, FS_CardinalityType
  <2> QED BY <2>2 DEF B, RankIn
<1>2. ASSUME NEW x \in L, NEW y \in L, x < y PROVE RankIn(L, x) < RankIn(L, y)
  <2> DEFINE A == {z \in L : z < x}  B == {z \in L : z < y}
  <2>1. A \in SUBSET B /\ A # B
    <3>1. x \in B /\ x \notin A
        BY <1>2
    <3>2. \A z \in L : z < x => z < y
      <4>1. x \in Nat /\ y \in Nat /\ \A z \in L : z \in Nat
          OBVIOUS
      <4> QED BY <1>2, <4>1
    <3> QED BY <3>1, <3>2
  <2>2. IsFiniteSet(B) /\ Cardinality(A) \in Nat /\ Cardinality(B) \in Nat
    <3>1. x \in Nat /\ y \in Nat
        OBVIOUS
    <3> QED BY <1>1, <3>1 DEF RankIn
  <2> HIDE DEF A, B
  <2>3. Cardinality(A) <= Cardinality(B) /\ Cardinality(B) # Cardinality(A)
      BY <2>1, <2>2, FS_Subset
  <2>4. Cardinality(A) < Cardinality(B)
      BY <2>2, <2>3
  <2> QED BY <2>4 DEF A, B, RankIn
<1> QED BY <1>1, <1>2

\* As many machines as places.
LEMMA PlacesBound ==
    ASSUME NEW L \in SUBSET Nat, IsFiniteSet(L), NEW B \in SUBSET L,
           NEW from \in Nat, NEW to \in Int, to >= from - 1,
           \A x \in B : RankIn(L, x) \in from..to
    PROVE  IsFiniteSet(B) /\ Cardinality(B) <= to - from + 1
<1> DEFINE f == [x \in B |-> RankIn(L, x)]
           P == from..to
<1>1. \A x, y \in B : x # y => RankIn(L, x) # RankIn(L, y)
  <2>1. SUFFICES ASSUME NEW x \in B, NEW y \in B, x # y PROVE RankIn(L, x) # RankIn(L, y)
      OBVIOUS
  <2>2. x \in L /\ y \in L /\ x \in Nat /\ y \in Nat /\ RankIn(L, x) \in Nat /\ RankIn(L, y) \in Nat
      BY RankGrows
  <2>3. CASE x < y
      BY <2>2, <2>3, RankGrows
  <2>4. CASE y < x
      BY <2>2, <2>4, RankGrows
  <2> QED BY <2>1, <2>2, <2>3, <2>4
<1>2. f \in [B -> P] /\ \A x, y \in B : f[x] = f[y] => x = y
    BY <1>1
<1>3. IsFiniteSet(P) /\ Cardinality(P) = to - from + 1
  <2>1. from \in Int /\ to \in Int
      OBVIOUS
  <2>2. IsFiniteSet(from..to)
      BY <2>1, FS_Interval
  <2>3. Cardinality(from..to) = IF from > to THEN 0 ELSE to - from + 1
      BY <2>1, FS_Interval
  <2> QED BY <2>1, <2>2, <2>3
<1> HIDE DEF f, P
<1>4. f \in Injection(B, P)
    BY <1>2 DEF Injection, IsInjective
<1>5. IsFiniteSet(B) /\ Cardinality(B) <= Cardinality(P)
    BY <1>3, <1>4, FS_Injection
<1> QED BY <1>3, <1>5

\* A chunk is not too long, and no chunk is left out.
LEMMA Groups ==
    ASSUME NEW L \in SUBSET Nat, IsFiniteSet(L)
    PROVE  /\ \A n \in Nat : /\ IsFiniteSet(Group(L, n))
                             /\ Cardinality(Group(L, n)) <= MaxEndpoints
           /\ \A x \in L : /\ RankIn(L, x) \div MaxEndpoints \in 0..Cardinality(L)
                           /\ x \in Group(L, RankIn(L, x) \div MaxEndpoints)
           /\ \A n, k \in Nat : Group(L, n) = {} /\ k >= n => Group(L, k) = {}
<1> DEFINE M == MaxEndpoints
<1>1. M \in Nat \ {0} /\ Cardinality(L) \in Nat
    BY MachinesAssumption, FS_CardinalityType
<1> HIDE DEF M
<1>2. ASSUME NEW n \in Nat
      PROVE  IsFiniteSet(Group(L, n)) /\ Cardinality(Group(L, n)) <= M
  <2> DEFINE B == Group(L, n)
  <2>1. B \in SUBSET L /\ \A x \in B : RankIn(L, x) \in Nat /\ RankIn(L, x) \div M = n
      BY RankGrows DEF Group, M
  <2>2. n * M \in Nat /\ n * M + M - 1 \in Int /\ n * M + M - 1 >= n * M - 1
      BY <1>1, Multiple
  <2> HIDE DEF B
  <2>3. \A x \in B : RankIn(L, x) \in (n * M)..(n * M + M - 1)
    <3>1. SUFFICES ASSUME NEW x \in B PROVE RankIn(L, x) \in (n * M)..(n * M + M - 1)
        OBVIOUS
    <3>2. n * M <= RankIn(L, x) /\ RankIn(L, x) <= n * M + M - 1
        BY <1>1, <2>1, Division
    <3> QED BY <2>1, <2>2, <3>2
  <2>4. IsFiniteSet(B) /\ Cardinality(B) <= (n * M + M - 1) - n * M + 1
      BY <2>1, <2>2, <2>3, PlacesBound
  <2>5. (n * M + M - 1) - n * M + 1 = M
      BY <1>1, <2>2
  <2> QED BY <2>4, <2>5 DEF B
<1>3. ASSUME NEW x \in L
      PROVE  /\ RankIn(L, x) \div M \in 0..Cardinality(L)
             /\ x \in Group(L, RankIn(L, x) \div M)
  <2>1. RankIn(L, x) \in Nat /\ RankIn(L, x) <= Cardinality(L)
      BY RankGrows
  <2>2. RankIn(L, x) \div M \in Nat /\ RankIn(L, x) \div M <= RankIn(L, x)
      BY <1>1, <2>1, Division
  <2>3. RankIn(L, x) \div M \in 0..Cardinality(L)
      BY <1>1, <2>1, <2>2
  <2> QED BY <2>3 DEF Group, M
<1>4. ASSUME NEW n \in Nat, NEW k \in Nat, k >= n, NEW y \in Group(L, k)
      PROVE  Group(L, n) # {}
  <2> DEFINE T == {x \in L : RankIn(L, x) >= n * M}
             B == {x \in L : RankIn(L, x) < n * M}
  <2>1. n * M \in Nat /\ (n * M) \div M = n
      BY <1>1, Multiple
  <2>2. y \in T
    <3>1. y \in L /\ RankIn(L, y) \in Nat /\ RankIn(L, y) \div M = k
        BY RankGrows DEF Group, M
    <3>2. k * M <= RankIn(L, y) /\ k * M >= n * M /\ k * M \in Nat
        BY <1>1, <1>4, <3>1, Division, Monotone, Multiple
    <3> QED BY <2>1, <3>1, <3>2
  <2>3. PICK m \in T : \A x \in T : m <= x
    <3>1. T \in SUBSET Nat /\ T # {}
        BY <2>2
    <3> HIDE DEF T
    <3> QED BY <3>1, Least
  <2>4. m \in L /\ m \in Nat /\ RankIn(L, m) \in Nat /\ RankIn(L, m) >= n * M
      BY RankGrows
  \* Everything before the first of T has a place before n * M.
  <2>5. {x \in L : x < m} \subseteq B
    <3>1. SUFFICES ASSUME NEW x \in L, x < m PROVE RankIn(L, x) < n * M
        OBVIOUS
    <3>2. x \in Nat /\ RankIn(L, x) \in Nat
        BY RankGrows
    <3>3. x \notin T
        BY <2>3, <2>4, <3>1, <3>2
    <3> QED BY <2>1, <3>2, <3>3
  <2>6. IsFiniteSet(B) /\ Cardinality(B) <= n * M
    <3>1. B \in SUBSET L /\ \A x \in B : RankIn(L, x) \in 0..(n * M - 1)
        BY <2>1, RankGrows
    <3>2. 0 \in Nat /\ n * M - 1 \in Int /\ n * M - 1 >= 0 - 1
        BY <2>1
    <3> HIDE DEF B
    <3>3. IsFiniteSet(B) /\ Cardinality(B) <= (n * M - 1) - 0 + 1
        BY <3>1, <3>2, PlacesBound
    <3> QED BY <2>1, <3>3
  <2>7. RankIn(L, m) <= Cardinality(B) /\ Cardinality(B) \in Nat
    <3> HIDE DEF B
    <3> DEFINE C == {x \in L : x < m}
    <3>1. C \in SUBSET B
        BY <2>5
    <3> HIDE DEF C
    <3>2. Cardinality(C) <= Cardinality(B) /\ Cardinality(B) \in Nat
        BY <2>6, <3>1, FS_Subset, FS_CardinalityType
    <3> QED BY <3>2 DEF C, RankIn
  <2>8. RankIn(L, m) = n * M
    <3> HIDE DEF B
    <3> QED BY <2>1, <2>4, <2>6, <2>7
  <2>9. m \in Group(L, n)
      BY <2>1, <2>4, <2>8 DEF Group, M
  <2> QED BY <2>9
<1>5. \A n \in Nat : IsFiniteSet(Group(L, n)) /\ Cardinality(Group(L, n)) <= MaxEndpoints
    BY <1>2 DEF M
<1>6. \A x \in L : /\ RankIn(L, x) \div MaxEndpoints \in 0..Cardinality(L)
                   /\ x \in Group(L, RankIn(L, x) \div MaxEndpoints)
    BY <1>3 DEF M
<1>7. \A n, k \in Nat : Group(L, n) = {} /\ k >= n => Group(L, k) = {}
    BY <1>4
<1> QED BY <1>5, <1>6, <1>7
-----------------------------------------------------------------------------
Answers == {A \in [Serials -> Machine \cup {Absent}] : Valid(A)}

Last == Cardinality(Serials)

LEMMA ChunkIsGroup ==
    ASSUME NEW t, NEW A, NEW n
    PROVE  Chunk(t, A, n) = {A[m].slot : m \in Group(Listed(t, A), n)}
BY DEF Chunk, Group, RankIn

\* The chunks hold the IPs of the listed machines, each in one, and have their
\* size; the empty ones come last.
LEMMA ChunksAreRight ==
    ASSUME NEW t, NEW A \in Answers
    PROVE  /\ UNION {Chunk(t, A, k) : k \in 0..Last} = {A[m].slot : m \in Listed(t, A)}
           /\ \A k, l \in Nat : k # l => Chunk(t, A, k) \cap Chunk(t, A, l) = {}
           /\ \A k \in Nat : Cardinality(Chunk(t, A, k)) <= MaxEndpoints
           /\ \A n, k \in Nat : Chunk(t, A, n) = {} /\ k >= n => Chunk(t, A, k) = {}
           /\ \A k \in Nat : Chunk(t, A, k) # {} => k \in 0..Last
<1> DEFINE L == Listed(t, A)
<1>1. L \in SUBSET Serials /\ L \in SUBSET Nat /\ IsFiniteSet(L) /\ Cardinality(L) <= Last
      /\ Last \in Nat /\ Cardinality(L) \in Nat
  <2>1. L \in SUBSET Serials
      BY DEF Listed
  <2>2. Serials \subseteq Nat /\ IsFiniteSet(Serials)
      BY MachinesAssumption
  <2> HIDE DEF L
  <2> QED BY <2>1, <2>2, FS_Subset, FS_CardinalityType DEF Last
<1>2. \A m, n \in L : m # n => A[m].slot # A[n].slot
    BY DEF Listed, Answers, Valid
<1>3. \A k : Chunk(t, A, k) = {A[m].slot : m \in Group(L, k)} /\ Group(L, k) \subseteq L
    BY ChunkIsGroup DEF Group
<1> HIDE DEF L
<1>4. /\ \A n \in Nat : IsFiniteSet(Group(L, n)) /\ Cardinality(Group(L, n)) <= MaxEndpoints
      /\ \A x \in L : /\ RankIn(L, x) \div MaxEndpoints \in 0..Cardinality(L)
                      /\ x \in Group(L, RankIn(L, x) \div MaxEndpoints)
      /\ \A n, k \in Nat : Group(L, n) = {} /\ k >= n => Group(L, k) = {}
    BY <1>1, Groups
<1>5. \A k \in Nat : Chunk(t, A, k) = {} <=> Group(L, k) = {}
  <2>1. ASSUME NEW k \in Nat, NEW m \in Group(L, k) PROVE A[m].slot \in Chunk(t, A, k)
      BY <1>3, <2>1
  <2>2. ASSUME NEW k \in Nat, NEW s \in Chunk(t, A, k) PROVE \E m \in Group(L, k) : TRUE
      BY <1>3, <2>2
  <2> QED BY <2>1, <2>2
<1>6. \A x \in L : \E k \in 0..Last : x \in Group(L, k)
    BY <1>1, <1>4
<1>7. UNION {Chunk(t, A, k) : k \in 0..Last} = {A[m].slot : m \in L}
  <2>1. ASSUME NEW k \in 0..Last, NEW s \in Chunk(t, A, k) PROVE \E m \in L : s = A[m].slot
      BY <1>3, <2>1
  <2>2. ASSUME NEW m \in L PROVE \E k \in 0..Last : A[m].slot \in Chunk(t, A, k)
      BY <1>3, <1>6, <2>2
  <2> QED BY <2>1, <2>2
<1>8. ASSUME NEW k \in Nat, NEW l \in Nat, NEW s \in Chunk(t, A, k) \cap Chunk(t, A, l)
      PROVE  k = l
  <2>1. PICK m \in Group(L, k) : s = A[m].slot
      BY <1>3, <1>8
  <2>2. PICK n \in Group(L, l) : s = A[n].slot
      BY <1>3, <1>8
  <2>3. m = n
      BY <1>2, <1>3, <2>1, <2>2
  <2> QED BY <2>3 DEF Group
<1>9. ASSUME NEW k \in Nat PROVE Cardinality(Chunk(t, A, k)) <= MaxEndpoints
  <2> DEFINE G == Group(L, k)  C == Chunk(t, A, k)
             f == [m \in G |-> A[m].slot]
  <2>1. f \in [G -> C] /\ \A s \in C : \E m \in G : f[m] = s
      BY <1>3
  <2>2. IsFiniteSet(G) /\ Cardinality(G) <= MaxEndpoints
      BY <1>4
  <2> HIDE DEF G, C, f
  <2>3. f \in Surjection(G, C)
      BY <2>1 DEF Surjection
  <2>4. IsFiniteSet(C) /\ Cardinality(C) <= Cardinality(G)
      BY <2>2, <2>3, FS_Surjection
  <2>5. Cardinality(C) <= MaxEndpoints
      BY <2>2, <2>4, FS_CardinalityType, MachinesAssumption
  <2> QED BY <2>5 DEF C
<1>10. ASSUME NEW k \in Nat, Chunk(t, A, k) # {} PROVE k \in 0..Last
  <2>1. PICK x \in L : x \in Group(L, k)
      BY <1>3, <1>10
  <2>2. k = RankIn(L, x) \div MaxEndpoints
      BY <2>1 DEF Group
  <2> QED BY <1>1, <1>4, <2>2
<1>11. \A n, k \in Nat : Chunk(t, A, n) = {} /\ k >= n => Chunk(t, A, k) = {}
    BY <1>4, <1>5
<1>12. \A k, l \in Nat : k # l => Chunk(t, A, k) \cap Chunk(t, A, l) = {}
    BY <1>8
<1> QED BY <1>7, <1>9, <1>10, <1>11, <1>12 DEF L
-----------------------------------------------------------------------------
(***************************************************************************)
(* The jobs.                                                               *)
(***************************************************************************)
PartNames == {Parts[n] : n \in 1..4}

Running == [at: PartNames, number: 1..4, phase: {"service", "slices", "delete"}, slice: Nat,
            doomed: SUBSET (0..Last), answer: Answers]

Types ==
    /\ sabakan \in Answers
    /\ slices \in [Targets -> [0..Last -> SUBSET Slots]]
    /\ job \in [Jobs -> Running \cup {Idle}]
    /\ \A j \in Jobs : job[j] # Idle => job[j].at = Parts[job[j].number]

\* No other job runs beside one that is alone.
Lone == alone \subseteq Jobs /\ \A j \in alone : \A k \in Jobs \ {j} : job[k] = Idle

Written(t, A) == t \in objects /\ \A k \in 0..Last : slices[t][k] = Chunk(t, A, k)

\* A job that works on a target has the slices before the current one, and
\* later all but those that are still to be deleted.
Writing(r) ==
    /\ IF r.phase = "service" THEN r.slice = 0 ELSE r.at \in objects
    /\ r.phase = "slices" =>
         \A k \in 0..Last : k < r.slice => slices[r.at][k] = Chunk(r.at, r.answer, k)
    /\ r.phase = "delete" =>
         \A k \in 0..Last : IF k \in r.doomed THEN Chunk(r.at, r.answer, k) = {}
                            ELSE slices[r.at][k] = Chunk(r.at, r.answer, k)

Behind(r) ==
    \A n \in 1..2 : n < r.number /\ Parts[n] \in enabled => Written(Parts[n], r.answer)

Progress == \A j \in alone : job[j] # Idle => Behind(job[j]) /\ (job[j].at \in Targets => Writing(job[j]))

IInv == Types /\ Lone /\ Progress

\* What a job goes on with behind the nth part: the parts it skips were not
\* asked for.
NextPart(n, A, b) ==
    /\ b \in Running \cup {Idle}
    /\ b # Idle => /\ b.at = Parts[b.number] /\ b.number \in n+1..4
                   /\ b.phase = "service" /\ b.slice = 0 /\ b.answer = A
                   /\ \A k \in n+1..4 : k < b.number => Parts[k] \notin enabled

LEMMA BeginFacts ==
    ASSUME NEW n \in 0..4, NEW A \in Answers
    PROVE  NextPart(n, A, Begin(n, A))
<1>1. CASE After(n) = {}
    BY <1>1 DEF NextPart, Begin
<1>2. CASE After(n) # {}
  <2> DEFINE T == After(n)
             k == CHOOSE x \in T : \A y \in T : x <= y
             b == [at |-> Parts[k], number |-> k, phase |-> "service", slice |-> 0,
                   doomed |-> {}, answer |-> A]
  <2>1. T \in SUBSET Nat /\ T \subseteq n+1..4 /\ n+1..4 \subseteq 1..4
      BY DEF After
  <2>2. \E x \in T : \A y \in T : x <= y
    <3> HIDE DEF T
    <3> QED BY <1>2, <2>1, Least DEF T
  <2>3. k \in T /\ \A y \in T : k <= y
      BY <2>2
  <2>4. Begin(n, A) = b
      BY <1>2 DEF Begin
  <2> HIDE DEF k
  <2>5. k \in 1..4 /\ k \in n+1..4 /\ Parts[k] \in PartNames
      BY <2>1, <2>3 DEF PartNames
  <2>6. b \in Running
      BY <2>5 DEF Running
  <2>7. \A x \in n+1..4 : x < k => Parts[x] \notin enabled
      BY <2>1, <2>3, <2>5 DEF After
  <2> QED BY <2>4, <2>5, <2>6, <2>7 DEF NextPart
<1> QED BY <1>1, <1>2

LEMMA PartFacts ==
    /\ Parts[1] = "all" /\ Parts[2] = "boot" /\ Parts[3] = "proxy" /\ Parts[4] = "log"
    /\ "idle" \notin PartNames
    /\ \A k \in 1..4 : Parts[k] \in Targets => k \in 1..2
BY DEF Parts, PartNames, Targets

LEMMA RunningIsNotIdle == \A r \in Running : r # Idle
BY PartFacts DEF Running, Idle

LEMMA InitInv == Init => IInv
<1> SUFFICES ASSUME Init PROVE IInv
    OBVIOUS
<1>1. sabakan \in Answers
    BY InitialAssumption DEF Init, Answers
<1>2. slices \in [Targets -> [0..Last -> SUBSET Slots]]
    BY DEF Init, Last
<1>3. job \in [Jobs -> Running \cup {Idle}] /\ \A j \in Jobs : job[j] = Idle
    BY DEF Init
<1> QED BY <1>1, <1>2, <1>3 DEF Init, IInv, Types, Lone, Progress

\* A step of a job concerns no other one that is alone.
LEMMA Mine ==
    ASSUME Lone, NEW j \in Jobs, job[j] # Idle, NEW i \in alone
    PROVE  i = j
BY DEF Lone

\* To show of a step of a job: its new state is one of a job, and goes with the
\* objects when no job overlaps it.
LEMMA JobMoves ==
    ASSUME IInv, NEW j \in Jobs, job[j] # Idle, NEW s \in Running \cup {Idle},
           s # Idle => s.at = Parts[s.number],
           job' = [job EXCEPT ![j] = s], alone' = alone, sabakan' = sabakan,
           slices' \in [Targets -> [0..Last -> SUBSET Slots]],
           j \in alone /\ s # Idle => Behind(s)' /\ (s.at \in Targets => Writing(s)')
    PROVE  IInv'
<1>1. job' \in [Jobs -> Running \cup {Idle}] /\ job'[j] = s /\ \A i \in Jobs \ {j} : job'[i] = job[i]
    BY DEF IInv, Types
<1>2. Types'
    BY <1>1 DEF IInv, Types
<1>3. Lone'
  <2>1. \A i \in alone : i = j
      BY Mine DEF IInv
  <2> QED BY <1>1, <2>1 DEF IInv, Lone
<1>4. Progress'
  <2>1. SUFFICES ASSUME NEW i \in alone', job'[i] # Idle
                 PROVE  Behind(job[i])' /\ (job'[i].at \in Targets => Writing(job[i])')
      BY DEF Progress
  <2>2. i = j
      BY <2>1, Mine DEF IInv
  <2>3. job'[i] = s
      BY <1>1, <2>2
  <2>4. Behind(s)' /\ (s.at \in Targets => Writing(s)')
      BY <2>1, <2>2, <2>3
  <2>5. Behind(job[i])'
      BY <2>3, <2>4 DEF Behind
  <2>6. s.at \in Targets => Writing(job[i])'
      BY <2>3, <2>4 DEF Writing
  <2> QED BY <2>3, <2>5, <2>6
<1> QED BY <1>2, <1>3, <1>4 DEF IInv

\* A job at work.
LEMMA AtWork ==
    ASSUME IInv, NEW j \in Jobs, job[j].at \in PartNames
    PROVE  /\ job[j] # Idle /\ job[j] \in Running /\ job[j].at = Parts[job[j].number]
           /\ job[j].number \in 1..4 /\ job[j].slice \in Nat /\ job[j].answer \in Answers
           /\ job[j].doomed \in SUBSET (0..Last)
           /\ j \in alone => Behind(job[j]) /\ (job[j].at \in Targets => Writing(job[j]))
<1>1. Idle.at = "idle"
    BY DEF Idle
<1>2. job[j] # Idle
    BY <1>1, PartFacts
<1>3. job[j] \in Running
    BY <1>2 DEF IInv, Types
<1> QED BY <1>2, <1>3 DEF IInv, Types, Progress, Running

LEMMA LastType == Last \in Nat
BY MachinesAssumption, FS_CardinalityType DEF Last

LEMMA TargetsAreParts == Targets \subseteq PartNames
BY PartFacts DEF Targets, PartNames

LEMMA ApplyServiceInv ==
    ASSUME IInv, NEW j \in Jobs, ApplyService(j)
    PROVE  IInv'
<1> DEFINE r == job[j]
<1>1. r.at \in PartNames /\ r.at \in Targets
    BY TargetsAreParts DEF ApplyService
<1>2. PICK s : s = [r EXCEPT !.phase = "slices"]
    OBVIOUS
<1>3. /\ s \in Running /\ s.at = r.at /\ s.number = r.number /\ s.phase = "slices"
      /\ s.slice = r.slice /\ s.answer = r.answer
    BY <1>1, <1>2, AtWork DEF Running
<1>4. ASSUME j \in alone PROVE Behind(s)' /\ Writing(s)'
  <2>0. Behind(r) /\ Writing(r)
      BY <1>1, <1>4, AtWork
  <2>1. enabled' = enabled /\ slices' = slices /\ objects' = objects \cup {r.at}
      BY DEF ApplyService
  <2>2. Behind(s)'
      BY <1>3, <2>0, <2>1 DEF Behind, Written
  <2>3. s.slice = 0 /\ \A k \in 0..Last : ~(k < s.slice)
      BY <1>3, <2>0, LastType DEF ApplyService, Writing
  <2>4. Writing(s)'
      BY <1>3, <2>1, <2>3 DEF Writing
  <2> QED BY <2>2, <2>4
<1>5. job' = [job EXCEPT ![j] = s] /\ alone' = alone /\ sabakan' = sabakan /\ slices' = slices
    BY <1>2 DEF ApplyService, SetJob
<1> QED BY <1>1, <1>3, <1>4, <1>5, AtWork, JobMoves DEF IInv, Types

LEMMA ApplySliceInv ==
    ASSUME IInv, NEW j \in Jobs, ApplySlice(j)
    PROVE  IInv'
<1> DEFINE r == job[j]  t == r.at  n == r.slice
<1>1. t \in PartNames /\ t \in Targets
    BY TargetsAreParts DEF ApplySlice
<1>2. r.phase = "slices" /\ Chunk(t, r.answer, n) # {} /\ n \in Nat /\ r.answer \in Answers
    BY <1>1, AtWork DEF ApplySlice
<1>3. n \in 0..Last
    BY <1>2, ChunksAreRight
<1>4. Chunk(t, r.answer, n) \in SUBSET Slots
    BY <1>2 DEF Chunk, Listed, Answers, Machine, Here
<1>5. slices \in [Targets -> [0..Last -> SUBSET Slots]]
    BY DEF IInv, Types
<1>6. /\ slices' = [slices EXCEPT ![t][n] = Chunk(t, r.answer, n)]
      /\ enabled' = enabled /\ objects' = objects /\ alone' = alone /\ sabakan' = sabakan
    BY DEF ApplySlice
<1>7. /\ slices' \in [Targets -> [0..Last -> SUBSET Slots]]
      /\ slices'[t][n] = Chunk(t, r.answer, n)
      /\ \A k \in 0..Last : k # n => slices'[t][k] = slices[t][k]
      /\ \A u \in Targets : u # t => slices'[u] = slices[u]
    BY <1>1, <1>3, <1>4, <1>5, <1>6
<1>8. PICK s : s = [r EXCEPT !.slice = n + 1]
    OBVIOUS
<1>9. /\ s \in Running /\ s.at = t /\ s.number = r.number /\ s.phase = "slices"
      /\ s.slice = n + 1 /\ s.answer = r.answer
    BY <1>1, <1>2, <1>8, AtWork DEF Running
<1>10. ASSUME j \in alone PROVE Behind(s)' /\ Writing(s)'
  <2>1. Behind(r) /\ Writing(r)
      BY <1>1, <1>10, AtWork
  <2>2. \A k \in 1..2 : k < r.number => Parts[k] \in Targets /\ Parts[k] # t
      BY <1>1, AtWork, PartFacts DEF Targets
  <2>3. Behind(s)'
      BY <1>6, <1>7, <1>9, <2>1, <2>2 DEF Behind, Written
  <2>4. ASSUME NEW k \in 0..Last, k < n + 1 PROVE slices'[t][k] = Chunk(t, r.answer, k)
    <3>1. k \in Nat
        OBVIOUS
    <3>2. CASE k = n
        BY <1>7, <3>2
    <3>3. CASE k < n
        BY <1>2, <1>7, <2>1, <2>4, <3>3 DEF Writing
    <3> QED BY <1>2, <2>4, <3>1, <3>2, <3>3
  <2>5. t \in objects'
      BY <1>2, <1>6, <2>1 DEF Writing
  <2>6. Writing(s)'
      BY <1>9, <2>4, <2>5 DEF Writing
  <2> QED BY <2>3, <2>6
<1>11. job' = [job EXCEPT ![j] = s]
    BY <1>8 DEF ApplySlice, SetJob
<1>12. r # Idle /\ t = Parts[r.number]
    BY <1>1, AtWork
<1> QED BY <1>6, <1>7, <1>9, <1>10, <1>11, <1>12, JobMoves

\* The end of a target, or one of its slices less to delete.
LEMMA GoOnInv ==
    ASSUME IInv, NEW j \in Jobs, NEW doomed \in SUBSET (0..Last), GoOn(j, doomed),
           job[j].at \in Targets, alone' = alone, sabakan' = sabakan, enabled' = enabled,
           objects' = objects, slices' \in [Targets -> [0..Last -> SUBSET Slots]],
           \A u \in Targets : u # job[j].at => slices'[u] = slices[u],
           job[j].phase # "service",
           j \in alone => \A k \in 0..Last :
               IF k \in doomed THEN Chunk(job[j].at, job[j].answer, k) = {}
               ELSE slices'[job[j].at][k] = Chunk(job[j].at, job[j].answer, k)
    PROVE  IInv'
<1>0. PICK r : r = job[j]
    OBVIOUS
<1> DEFINE t == r.at
<1>1. t \in PartNames /\ t \in Targets /\ r.phase # "service"
    BY <1>0, TargetsAreParts
<1>2. /\ r # Idle /\ r \in Running /\ t = Parts[r.number] /\ r.number \in 1..4
      /\ r.answer \in Answers
      /\ j \in alone => Behind(r) /\ Writing(r)
    BY <1>0, <1>1, AtWork
<1>3. \A k \in 1..2 : k < r.number => Parts[k] \in Targets /\ Parts[k] # t
    BY <1>2, PartFacts DEF Targets
<1>4. j \in alone => t \in objects
    BY <1>1, <1>2 DEF Writing
<1>5. r.number \in 1..2
    BY <1>1, <1>2, PartFacts
<1>6. j \in alone => \A n \in 1..2 : n < r.number /\ Parts[n] \in enabled => Written(Parts[n], r.answer)'
    BY <1>0, <1>2, <1>3 DEF Behind, Written
<1>7. CASE doomed = {}
  <2>1. PICK s : s = Begin(r.number, r.answer)
      OBVIOUS
  <2>2. NextPart(r.number, r.answer, s)
      BY <1>2, <2>1, BeginFacts
  <2>3. job' = [job EXCEPT ![j] = s]
      BY <1>0, <1>7, <2>1 DEF GoOn, SetJob
  <2>4. ASSUME j \in alone, s # Idle PROVE Behind(s)' /\ Writing(s)'
    <3>1. /\ s.number \in r.number+1..4 /\ s.phase = "service" /\ s.slice = 0 /\ s.answer = r.answer
          /\ \A k \in r.number+1..4 : k < s.number => Parts[k] \notin enabled
        BY <2>2, <2>4 DEF NextPart
    <3>2. Written(t, r.answer)'
        BY <1>0, <1>4, <1>7, <2>4 DEF Written
    <3>3. ASSUME NEW n \in 1..2, n < s.number, Parts[n] \in enabled
          PROVE  Written(Parts[n], r.answer)'
      <4>1. n < r.number \/ n = r.number \/ n \in r.number+1..4
          BY <1>2
      <4>2. n < r.number \/ n = r.number
          BY <3>1, <3>3, <4>1
      <4>3. CASE n < r.number
          BY <1>6, <2>4, <3>3, <4>3
      <4>4. CASE n = r.number
          BY <1>2, <3>2, <4>4 DEF Written
      <4> QED BY <4>2, <4>3, <4>4
    <3>4. Behind(s)'
        BY <3>1, <3>3 DEF Behind, Written
    <3>5. Writing(s)'
        BY <3>1 DEF Writing
    <3> QED BY <3>4, <3>5
  <2>5. s \in Running \cup {Idle} /\ (s # Idle => s.at = Parts[s.number])
      BY <2>2 DEF NextPart
  <2> QED BY <1>0, <1>2, <2>3, <2>4, <2>5, JobMoves
<1>8. CASE doomed # {}
  <2>1. PICK s : s = [r EXCEPT !.phase = "delete", !.doomed = doomed]
      OBVIOUS
  <2>2. job' = [job EXCEPT ![j] = s]
      BY <1>0, <1>8, <2>1 DEF GoOn, SetJob
  <2>3. /\ s \in Running /\ s.at = t /\ s.number = r.number /\ s.phase = "delete"
        /\ s.doomed = doomed /\ s.answer = r.answer
      BY <1>2, <2>1 DEF Running
  <2>4. ASSUME j \in alone PROVE Behind(s)' /\ Writing(s)'
    <3>1. Behind(s)'
        BY <1>6, <2>3, <2>4 DEF Behind, Written
    <3>2. Writing(s)'
        BY <1>0, <1>4, <2>3, <2>4 DEF Writing
    <3> QED BY <3>1, <3>2
  <2>5. s.at = Parts[s.number]
      BY <1>2, <2>3
  <2> QED BY <1>0, <1>2, <2>2, <2>3, <2>4, <2>5, JobMoves
<1> QED BY <1>7, <1>8

\* Everything behind the first chunk that is empty is to go.
LEMMA ListSlicesInv ==
    ASSUME IInv, NEW j \in Jobs, ListSlices(j)
    PROVE  IInv'
<1>0. PICK r : r = job[j]
    OBVIOUS
<1> DEFINE t == r.at  D == Doomed(t, r.slice)
<1>1. t \in PartNames /\ t \in Targets /\ r.phase = "slices" /\ Chunk(t, r.answer, r.slice) = {}
    BY <1>0, TargetsAreParts DEF ListSlices
<1>2. r.slice \in Nat /\ r.answer \in Answers /\ (j \in alone => Writing(r))
    BY <1>0, <1>1, AtWork
<1>3. slices \in [Targets -> [0..Last -> SUBSET Slots]]
    BY DEF IInv, Types
<1>4. D \in SUBSET (0..Last) /\ \A k \in 0..Last : k \in D <=> k >= r.slice /\ slices[t][k] # {}
    BY <1>1, <1>3 DEF Doomed
<1>5. \A k \in 0..Last : k \in Nat /\ (k >= r.slice => Chunk(t, r.answer, k) = {})
  <2>1. \A k \in 0..Last : k \in Nat
      BY LastType
  <2>2. \A k \in Nat : k >= r.slice => Chunk(t, r.answer, k) = {}
      BY <1>1, <1>2, ChunksAreRight
  <2> QED BY <2>1, <2>2
<1>6. ASSUME j \in alone, NEW k \in 0..Last
      PROVE  IF k \in D THEN Chunk(t, r.answer, k) = {} ELSE slices[t][k] = Chunk(t, r.answer, k)
  <2>1. CASE k < r.slice
      BY <1>1, <1>2, <1>4, <1>5, <1>6, <2>1 DEF Writing
  <2>2. CASE k >= r.slice
      BY <1>4, <1>5, <2>2
  <2> QED BY <1>2, <1>5, <2>1, <2>2
<1>7. /\ GoOn(j, D) /\ alone' = alone /\ sabakan' = sabakan /\ enabled' = enabled
      /\ objects' = objects /\ slices' = slices
    BY <1>0 DEF ListSlices, clusterVars
<1> HIDE DEF D
<1> QED BY <1>0, <1>1, <1>3, <1>4, <1>6, <1>7, GoOnInv

LEMMA DeleteSliceInv ==
    ASSUME IInv, NEW j \in Jobs, DeleteSlice(j)
    PROVE  IInv'
<1>0. PICK r : r = job[j]
    OBVIOUS
<1> DEFINE t == r.at
<1>1. t \in PartNames /\ t \in Targets /\ r.phase = "delete"
    BY <1>0, TargetsAreParts DEF DeleteSlice
<1>2. r.doomed \in SUBSET (0..Last) /\ (j \in alone => Writing(r))
    BY <1>0, <1>1, AtWork
<1>3. slices \in [Targets -> [0..Last -> SUBSET Slots]]
    BY DEF IInv, Types
<1>4. PICK n \in r.doomed : slices' = [slices EXCEPT ![t][n] = {}] /\ GoOn(j, r.doomed \ {n})
    BY <1>0 DEF DeleteSlice
<1>5. n \in 0..Last
    BY <1>2
<1>6. /\ slices' \in [Targets -> [0..Last -> SUBSET Slots]] /\ slices'[t][n] = {}
      /\ \A k \in 0..Last : k # n => slices'[t][k] = slices[t][k]
      /\ \A u \in Targets : u # t => slices'[u] = slices[u]
    BY <1>1, <1>3, <1>4, <1>5
<1>7. PICK D : D = r.doomed \ {n}
    OBVIOUS
<1>8. ASSUME j \in alone, NEW k \in 0..Last
      PROVE  IF k \in D THEN Chunk(t, r.answer, k) = {} ELSE slices'[t][k] = Chunk(t, r.answer, k)
    BY <1>1, <1>2, <1>6, <1>7, <1>8 DEF Writing
<1>9. /\ GoOn(j, D) /\ D \in SUBSET (0..Last)
      /\ alone' = alone /\ sabakan' = sabakan /\ enabled' = enabled /\ objects' = objects
    BY <1>2, <1>4, <1>7 DEF DeleteSlice
<1> QED BY <1>0, <1>1, <1>6, <1>8, <1>9, GoOnInv

LEMMA ConfigMapInv ==
    ASSUME IInv, NEW j \in Jobs, applyConfigMap(j)
    PROVE  IInv'
<1>0. PICK r : r = job[j]
    OBVIOUS
<1>1. r.at \in {"proxy", "log"} /\ r.at \in PartNames
    BY <1>0, PartFacts DEF applyConfigMap, PartNames
<1>2. /\ r # Idle /\ r.at = Parts[r.number] /\ r.number \in 1..4 /\ r.answer \in Answers
      /\ j \in alone => Behind(r)
    BY <1>0, <1>1, AtWork
<1>3. r.number \in {3, 4}
    BY <1>1, <1>2, PartFacts
<1>4. PICK s : s = Begin(r.number, r.answer)
    OBVIOUS
<1>5. NextPart(r.number, r.answer, s)
    BY <1>2, <1>4, BeginFacts
<1>6. /\ job' = [job EXCEPT ![j] = s] /\ alone' = alone /\ sabakan' = sabakan
      /\ enabled' = enabled /\ slices' = slices /\ objects \subseteq objects'
    BY <1>0, <1>4 DEF applyConfigMap, SetJob
<1>7. ASSUME j \in alone, s # Idle PROVE Behind(s)' /\ Writing(s)'
  <2>1. s.answer = r.answer /\ s.phase = "service" /\ s.slice = 0
      BY <1>5, <1>7 DEF NextPart
  <2>2. \A n \in 1..2 : Parts[n] \in enabled => Written(Parts[n], r.answer)
      BY <1>2, <1>3, <1>7 DEF Behind
  <2>3. Behind(s)'
      BY <1>6, <2>1, <2>2 DEF Behind, Written
  <2>4. Writing(s)'
      BY <2>1 DEF Writing
  <2> QED BY <2>3, <2>4
<1>8. s \in Running \cup {Idle} /\ (s # Idle => s.at = Parts[s.number])
    BY <1>5 DEF NextPart
<1>9. slices' \in [Targets -> [0..Last -> SUBSET Slots]]
    BY <1>6 DEF IInv, Types
<1> QED BY <1>0, <1>2, <1>6, <1>7, <1>8, <1>9, JobMoves

\* A job that fails is no longer there to have listed anything.
LEMMA JobFailsInv ==
    ASSUME IInv, NEW j \in Jobs, JobFails(j)
    PROVE  IInv'
<1>1. /\ job[j] # Idle /\ job' = [job EXCEPT ![j] = Idle]
      /\ alone' = alone /\ sabakan' = sabakan /\ slices' = slices
    BY DEF JobFails, SetJob, clusterVars
<1>2. slices' \in [Targets -> [0..Last -> SUBSET Slots]]
    BY <1>1 DEF IInv, Types
<1>3. PICK s : s = Idle
    OBVIOUS
<1>4. s \in Running \cup {Idle} /\ ~(s # Idle)
    BY <1>3
<1> QED BY <1>1, <1>2, <1>3, <1>4, JobMoves

\* A job starts, alone or among others.
LEMMA GetMachinesInv ==
    ASSUME IInv, NEW j \in Jobs, GetMachines(j)
    PROVE  IInv'
<1>1. PICK s : s = Begin(0, sabakan)
    OBVIOUS
<1>2. sabakan \in Answers
    BY DEF IInv, Types
<1>3. NextPart(0, sabakan, s)
    BY <1>1, <1>2, BeginFacts
<1>4. /\ job' = [job EXCEPT ![j] = s] /\ sabakan' = sabakan /\ slices' = slices
      /\ enabled' = enabled
    BY <1>1 DEF GetMachines, SetJob, clusterVars
<1>5. s \in Running \cup {Idle} /\ (s # Idle => s.at = Parts[s.number])
    BY <1>3 DEF NextPart
<1>6. job' \in [Jobs -> Running \cup {Idle}] /\ job'[j] = s /\ \A i \in Jobs \ {j} : job'[i] = job[i]
    BY <1>4, <1>5 DEF IInv, Types
<1>7. Types'
    BY <1>4, <1>5, <1>6 DEF IInv, Types
<1>8. CASE alone' = {}
    BY <1>7, <1>8 DEF IInv, Lone, Progress
<1>9. CASE alone' # {}
  <2>1. alone' = {j} /\ \A i \in Jobs : job[i] = Idle
      BY <1>9 DEF GetMachines
  <2>2. Lone'
      BY <1>6, <2>1 DEF Lone
  <2>3. ASSUME s # Idle PROVE Behind(s)' /\ Writing(s)'
    <3>1. /\ s.phase = "service" /\ s.slice = 0 /\ s.number \in 1..4
          /\ \A k \in 1..4 : k < s.number => Parts[k] \notin enabled
        BY <1>3, <2>3 DEF NextPart
    <3> QED BY <1>4, <3>1 DEF Behind, Writing
  <2>4. Behind(job[j])' \/ s = Idle
      BY <1>6, <2>3 DEF Behind
  <2>5. Writing(job[j])' \/ s = Idle
      BY <1>6, <2>3 DEF Writing
  <2>6. Progress'
      BY <1>6, <2>1, <2>4, <2>5 DEF Progress
  <2> QED BY <1>7, <2>2, <2>6 DEF IInv
<1> QED BY <1>8, <1>9

\* What the steps of the others leave alone.
LEMMA OthersInv ==
    ASSUME IInv, enabled' = enabled, sabakan' \in Answers, objects' = objects, slices' = slices,
           job' = job, alone' = alone
    PROVE  IInv'
<1>1. Types' /\ Lone'
    BY DEF IInv, Types, Lone
<1>2. Progress'
    BY DEF IInv, Progress, Behind, Writing, Written
<1> QED BY <1>1, <1>2 DEF IInv

LEMMA StepInv == IInv /\ [Next]_vars => IInv'
<1> SUFFICES ASSUME IInv, [Next]_vars PROVE IInv'
    OBVIOUS
<1>0. sabakan \in Answers
    BY DEF IInv, Types
<1>1. ASSUME NEW j \in Jobs, GetMachines(j) PROVE IInv'
    BY <1>1, GetMachinesInv
<1>2. ASSUME NEW j \in Jobs, JobStep(j) PROVE IInv'
    BY <1>2, ApplyServiceInv, ApplySliceInv, ListSlicesInv, DeleteSliceInv, ConfigMapInv DEF JobStep
<1>3. ASSUME NEW j \in Jobs, JobFails(j) PROVE IInv'
    BY <1>3, JobFailsInv
<1>4. CASE ProxyStep \/ ProxyFails
    BY <1>0, <1>4, OthersInv
       DEF ProxyStep, ProxyFails, updateCertificate, updateResolveMap, updateResolveMapFails, clusterVars
<1>5. ASSUME NEW m \in Serials, ChangeMachine(m) PROVE IInv'
  <2>1. sabakan' \in Answers
    <3>1. PICK spec \in Shapes[m] \cup {Absent} : sabakan' = [sabakan EXCEPT ![m] = spec]
        BY <1>5 DEF ChangeMachine
    <3>2. spec \in Machine \cup {Absent}
        BY ShapesAssumption
    <3>3. Valid(sabakan')
        BY <1>5 DEF ChangeMachine
    <3> QED BY <1>0, <3>1, <3>2, <3>3 DEF Answers
  <2> QED BY <1>5, <2>1, OthersInv DEF ChangeMachine, clusterVars
<1>6. CASE UNCHANGED vars
    BY <1>0, <1>6, OthersInv DEF vars, clusterVars
<1> QED BY <1>1, <1>2, <1>3, <1>4, <1>5, <1>6 DEF Next

\* For any machines, any number of overlapping and failing jobs and any slice
\* size: a job that was alone leaves each target that it is through with listing
\* exactly the machines of its answer, each once, in slices of the allowed size.
THEOREM ListsAreComplete == Spec => []SuccessMeansListed
<1>1. IInv => SuccessMeansListed
  <2> SUFFICES ASSUME IInv, NEW j \in alone, NEW n \in 1..2,
                      job[j] # Idle, n < job[j].number, Parts[n] \in enabled
               PROVE  LET t == Parts[n]
                          ips == {job[j].answer[m].slot : m \in Listed(t, job[j].answer)}
                      IN  /\ t \in objects
                          /\ UNION {slices[t][k] : k \in DOMAIN slices[t]} = ips
                          /\ \A k, l \in DOMAIN slices[t] :
                                k # l => slices[t][k] \cap slices[t][l] = {}
                          /\ \A k \in DOMAIN slices[t] : Cardinality(slices[t][k]) <= MaxEndpoints
      BY DEF SuccessMeansListed
  <2> DEFINE A == job[j].answer  t == Parts[n]
  <2>1. A \in Answers /\ t \in Targets
      BY PartFacts DEF IInv, Types, Lone, Running, Targets
  <2>2. t \in objects /\ \A k \in 0..Last : slices[t][k] = Chunk(t, A, k)
      BY DEF IInv, Progress, Behind, Written
  <2> HIDE DEF A, t
  <2>3. DOMAIN slices[t] = 0..Last
      BY <2>1 DEF IInv, Types
  <2>4. /\ UNION {Chunk(t, A, k) : k \in 0..Last} = {A[m].slot : m \in Listed(t, A)}
        /\ \A k, l \in Nat : k # l => Chunk(t, A, k) \cap Chunk(t, A, l) = {}
        /\ \A k \in Nat : Cardinality(Chunk(t, A, k)) <= MaxEndpoints
      BY <2>1, ChunksAreRight
  <2>5. \A k \in 0..Last : k \in Nat
      BY LastType
  <2>6. UNION {slices[t][k] : k \in DOMAIN slices[t]} = {A[m].slot : m \in Listed(t, A)}
      BY <2>2, <2>3, <2>4
  <2>7. /\ \A k, l \in DOMAIN slices[t] : k # l => slices[t][k] \cap slices[t][l] = {}
        /\ \A k \in DOMAIN slices[t] : Cardinality(slices[t][k]) <= MaxEndpoints
      BY <2>2, <2>3, <2>4, <2>5
  <2> QED BY <2>2, <2>6, <2>7 DEF A, t
<1> QED BY <1>1, InitInv, StepInv, PTL DEF Spec
=============================================================================
