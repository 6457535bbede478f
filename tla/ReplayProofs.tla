---------------------------- MODULE ReplayProofs ----------------------------
(***************************************************************************)
(* Proofs about what the two engines replay bar by bar over a window, for   *)
(* every history, every bar and every configuration.                        *)
(*                                                                          *)
(* SetupLog: a setup that is shown has the lifecycle that the bars since    *)
(* its trigger give it; a pullback is the first return; what is visible     *)
(* stays visible; no analysis contradicts an earlier one; and the log       *)
(* passes its audit.                                                        *)
(*                                                                          *)
(* StructureLog: no active level was traded beyond; the break of a pivot    *)
(* and the end of its level agree; and two windows find the same breaks, so *)
(* that the log differs from a later analysis in directions only.           *)
(*                                                                          *)
(* The replay of a window is a fold over its bars.  Replays are compared    *)
(* bar by bar, as functions from the bars of the window to what was seen.   *)
(***************************************************************************)
EXTENDS SetupLog, StructureLog, TLAPS, FiniteSetTheorems, WellFoundedInduction

(* The naturals are well-founded.                                           *)
LEMMA SmallestOf ==
    ASSUME NEW N, N \subseteq Nat, N # {}
    PROVE  \E n \in N : \A m \in N : n <= m
<1>1. \E n \in N : \A m \in N : ~(<<m, n>> \in OpToRel(<, Nat))
    BY WFMin, NatLessThanWellFounded
<1>2. \A m, n \in Nat : m < n => <<m, n>> \in OpToRel(<, Nat)
    BY DEF OpToRel
<1>3. \E n \in N : \A m \in N : ~(m < n)
    BY <1>1, <1>2
<1> QED
    BY <1>3

LEMMA MinIsSmallest ==
    ASSUME NEW N, N \subseteq Nat, N # {}
    PROVE  Min(N) \in N /\ \A m \in N : Min(N) <= m
BY SmallestOf DEF Min

(* Induction over the bars of a window.                                     *)
LEMMA BarInduction ==
    ASSUME NEW s \in Nat, NEW m \in Nat, NEW P,
           s \in P, \A j \in (s + 1)..m : j - 1 \in P => j \in P
    PROVE  \A j \in s..m : j \in P
<1> DEFINE Bad == {j \in s..m : j \notin P}
<1> SUFFICES ASSUME Bad # {} PROVE FALSE
    OBVIOUS
<1>1. PICK n \in Bad : \A j \in Bad : n <= j
    <2>1. Bad \subseteq Nat
        OBVIOUS
    <2> HIDE DEF Bad
    <2> QED
        BY <2>1, SmallestOf
<1>2. n # s /\ n \in (s + 1)..m /\ n - 1 \in s..m
    OBVIOUS
<1>3. n - 1 \in P
    BY <1>1, <1>2
<1> QED
    BY <1>2, <1>3

-----------------------------------------------------------------------------
(* The replay bar by bar.                                                   *)

\* R[j] is what the replay that begins after bar s has seen at bar j.
IsReplay(R, b, s, m) ==
    /\ R[s] = NothingSeen
    /\ \A j \in (s + 1)..m : R[j] = ReplayBar(R[j - 1], j, b[j - 1], b[j])

LEMMA ReplayExists ==
    ASSUME NEW b, NEW s \in Nat, NEW m \in Nat, s <= m
    PROVE  \E R : IsReplay(R, b, s, m)
<1> DEFINE Reached == {k \in Nat : \E R : IsReplay(R, b, s, k)}
<1>1. s \in Reached
    <2>1. IsReplay([j \in {s} |-> NothingSeen], b, s, s)
        BY DEF IsReplay
    <2> QED
        BY <2>1
<1>2. ASSUME NEW k \in (s + 1)..m, k - 1 \in Reached PROVE k \in Reached
    <2>1. PICK R : IsReplay(R, b, s, k - 1)
        BY <1>2
    <2> DEFINE Q == [j \in s..k |-> IF j = k THEN ReplayBar(R[k - 1], k, b[k - 1], b[k]) ELSE R[j]]
    <2>2. Q[s] = NothingSeen
        BY <2>1 DEF IsReplay
    <2>3. ASSUME NEW j \in (s + 1)..k PROVE Q[j] = ReplayBar(Q[j - 1], j, b[j - 1], b[j])
        <3>1. j - 1 \in s..k /\ j - 1 # k /\ Q[j - 1] = R[j - 1]
            OBVIOUS
        <3>2. CASE j = k
            <4>1. Q[k] = ReplayBar(R[k - 1], k, b[k - 1], b[k])
                OBVIOUS
            <4> HIDE DEF Q
            <4> QED
                BY <3>1, <3>2, <4>1
        <3>3. CASE j # k
            <4>1. j \in (s + 1)..(k - 1) /\ Q[j] = R[j]
                BY <3>3
            <4> HIDE DEF Q
            <4> QED
                BY <2>1, <3>1, <4>1 DEF IsReplay
        <3> QED
            BY <3>2, <3>3
    <2>4. IsReplay(Q, b, s, k)
        <3> HIDE DEF Q
        <3> QED
            BY <2>2, <2>3 DEF IsReplay
    <2>5. k \in Nat
        OBVIOUS
    <2> HIDE DEF Q
    <2> QED
        BY <2>4, <2>5
<1>3. m \in s..m
    OBVIOUS
<1> HIDE DEF Reached
<1>4. m \in Reached
    BY <1>1, <1>2, <1>3, BarInduction
<1> QED
    BY <1>4 DEF Reached

\* There is only one, and it reads nothing but the bars from s on.
LEMMA ReplayIsUnique ==
    ASSUME NEW b, NEW c, NEW s \in Nat, NEW m \in Nat,
           \A j \in s..m : b[j] = c[j],
           NEW R, IsReplay(R, b, s, m), NEW Q, IsReplay(Q, c, s, m)
    PROVE  \A j \in s..m : R[j] = Q[j]
<1> DEFINE Same == {j \in Nat : R[j] = Q[j]}
<1>1. s \in Same
    BY DEF IsReplay
<1>2. ASSUME NEW j \in (s + 1)..m, j - 1 \in Same PROVE j \in Same
    <2>1. j - 1 \in s..m /\ j \in s..m
        OBVIOUS
    <2>2. b[j - 1] = c[j - 1] /\ b[j] = c[j]
        BY <2>1
    <2> QED
        BY <1>2, <2>2 DEF IsReplay
<1> HIDE DEF Same
<1>3. \A j \in s..m : j \in Same
    BY <1>1, <1>2, BarInduction
<1> QED
    BY <1>3 DEF Same

\* The replay that begins later or ends earlier is part of it.
LEMMA ReplayPart ==
    ASSUME NEW R, NEW b, NEW s \in Nat, NEW m \in Nat, NEW k \in s..m, IsReplay(R, b, s, m)
    PROVE  IsReplay(R, b, s, k)
BY DEF IsReplay

-----------------------------------------------------------------------------
(* The fold of the replay is that function.                                 *)

LEMMA MaxIsLargest ==
    ASSUME NEW k \in Nat, NEW T \in SUBSET (1..k), T # {}
    PROVE  Max(T) \in T /\ \A m \in T : m <= Max(T)
<1> DEFINE Below == {k - x : x \in T}
<1>1. PICK n \in Below : \A m \in Below : n <= m
    <2>0. \A x \in T : k - x \in Nat
        OBVIOUS
    <2>1. Below \subseteq Nat /\ Below # {}
        BY <2>0
    <2> HIDE DEF Below
    <2> QED
        BY <2>1, SmallestOf
<1>2. PICK x \in T : n = k - x
    BY <1>1
<1>3. \A y \in T : x >= y
    <2> TAKE y \in T
    <2>1. k - y \in Below
        OBVIOUS
    <2>2. n <= k - y
        BY <1>1, <2>1
    <2> QED
        BY <1>2, <2>2
<1>4. Max(T) \in T /\ \A y \in T : Max(T) >= y
    BY <1>3 DEF Max
<1> QED
    BY <1>4

\* One step of the fold, and its equation over all sets of positions.
FoldBar(seen, b, j) == ReplayBar(seen, j, b[j - 1], b[j])

FoldStep(F, b, at, T) == FoldBar(F[T \ {Max(T)}], b, at[Max(T)])

FoldIter(F, b, at) ==
    [T \in SUBSET DOMAIN at |-> IF T = {} THEN NothingSeen ELSE FoldStep(F, b, at, T)]

LEMMA FoldExists ==
    ASSUME NEW b, NEW at, NEW k \in Nat, DOMAIN at = 1..k
    PROVE  \E F : F = FoldIter(F, b, at)
<1> DEFINE D == 1..k
           Small(n) == {T \in SUBSET D : Cardinality(T) <= n}
           Solves(F, n) == F = [T \in Small(n) |-> IF T = {} THEN NothingSeen ELSE FoldStep(F, b, at, T)]
           Solved == {n \in Nat : \E F : Solves(F, n)}
<1>0. IsFiniteSet(D)
    BY FS_Interval
<1>1. \A T \in SUBSET D : IsFiniteSet(T) /\ Cardinality(T) \in Nat
    BY <1>0, FS_Subset, FS_CardinalityType
<1>2. \A T \in SUBSET D : Cardinality(T) = 0 <=> T = {}
    BY <1>1, FS_EmptySet
<1>3. ASSUME NEW T \in SUBSET D, T # {}
      PROVE  /\ Max(T) \in T /\ T \ {Max(T)} \in SUBSET D
             /\ Cardinality(T \ {Max(T)}) = Cardinality(T) - 1
    <2>1. Max(T) \in T
        BY <1>3, MaxIsLargest
    <2> QED
        BY <1>1, <2>1, FS_RemoveElement
<1>4. 0 \in Solved
    <2>1. Small(0) = {{}}
        BY <1>1, <1>2
    <2>2. Solves([T \in {{}} |-> NothingSeen], 0)
        BY <2>1
    <2> HIDE DEF Solves
    <2> QED
        BY <2>2
<1>5. ASSUME NEW n \in Nat, NEW F, Solves(F, n) PROVE n + 1 \in Solved
    <2> DEFINE G == [T \in Small(n + 1) |-> IF T = {} THEN NothingSeen ELSE FoldStep(F, b, at, T)]
    <2>1. \A T \in Small(n + 1) : T # {} => T \ {Max(T)} \in Small(n)
        BY <1>1, <1>3
    <2>2. \A T \in Small(n) : T \in Small(n + 1) /\ F[T] = G[T]
        <3>1. \A T \in Small(n) : T \in Small(n + 1)
            BY <1>1
        <3>2. \A T \in Small(n) : F[T] = IF T = {} THEN NothingSeen ELSE FoldStep(F, b, at, T)
            <4> HIDE DEF Small
            <4> QED
                BY <1>5
        <3> HIDE DEF Small
        <3> QED
            BY <3>1, <3>2
    <2>3. ASSUME NEW T \in Small(n + 1), T # {} PROVE FoldStep(F, b, at, T) = FoldStep(G, b, at, T)
        <3>1. F[T \ {Max(T)}] = G[T \ {Max(T)}]
            <4> HIDE DEF Small, G
            <4> QED
                BY <2>1, <2>2, <2>3
        <3> HIDE DEF Small, G
        <3> QED
            BY <3>1 DEF FoldStep
    <2>4. Solves(G, n + 1)
        <3>1. G = [T \in Small(n + 1) |-> IF T = {} THEN NothingSeen ELSE FoldStep(G, b, at, T)]
            <4> DEFINE H == [T \in Small(n + 1) |-> IF T = {} THEN NothingSeen ELSE FoldStep(G, b, at, T)]
            <4>1. \A T \in Small(n + 1) : G[T] = H[T]
                <5> HIDE DEF Small
                <5> QED
                    BY <2>3
            <4> QED
                BY <4>1
        <3> HIDE DEF G
        <3> QED
            BY <3>1
    <2>5. n + 1 \in Nat
        OBVIOUS
    <2> HIDE DEF Solves, G
    <2> QED
        BY <2>4, <2>5
<1>6. \A n \in 0..k : n \in Solved
    <2>1. \A j \in (0 + 1)..k : j - 1 \in Solved => j \in Solved
        <3> SUFFICES ASSUME NEW j \in (0 + 1)..k, j - 1 \in Solved PROVE j \in Solved
            OBVIOUS
        <3>1. PICK F : Solves(F, j - 1)
            OBVIOUS
        <3>2. j - 1 \in Nat /\ (j - 1) + 1 = j
            OBVIOUS
        <3> HIDE DEF Solves, Solved
        <3>3. (j - 1) + 1 \in Solved
            BY <1>5, <3>1, <3>2
        <3> QED
            BY <3>2, <3>3
    <2> HIDE DEF Solved
    <2> QED
        BY <1>4, <2>1, BarInduction
<1>7. Small(k) = SUBSET D
    <2>1. Cardinality(D) = k /\ IsFiniteSet(D)
        BY FS_Interval
    <2> QED
        BY <1>1, <2>1, FS_Subset
<1>8. PICK F : Solves(F, k)
    <2>1. k \in Solved
        <3>1. k \in 0..k
            OBVIOUS
        <3> HIDE DEF Solved
        <3> QED
            BY <1>6, <3>1
    <2> QED
        BY <2>1
<1> HIDE DEF Small
<1> QED
    BY <1>7, <1>8 DEF FoldIter

FoldOf(b, at) ==
    FoldLeft(LAMBDA seen, j : ReplayBar(seen, j, b[j - 1], b[j]), NothingSeen, at)

LEMMA FoldedIs ==
    ASSUME NEW b, NEW at, NEW k \in Nat, DOMAIN at = 1..k
    PROVE  \E F : F = FoldIter(F, b, at) /\ FoldOf(b, at) = F[1..k]
<1> DEFINE Iter(F) == [T \in SUBSET DOMAIN at |->
                         IF T = {} THEN NothingSeen
                         ELSE ReplayBar(F[T \ {Max(T)}], at[Max(T)], b[at[Max(T)] - 1], b[at[Max(T)]])]
           C == CHOOSE F : F = Iter(F)
<1>1. \A F : FoldIter(F, b, at) = Iter(F)
    BY DEF FoldIter, FoldStep, FoldBar
<1>2. PICK F : F = FoldIter(F, b, at)
    BY FoldExists
<1>3. C = Iter(C)
    <2>1. F = Iter(F)
        BY <1>1, <1>2
    <2> HIDE DEF Iter
    <2> QED
        BY <2>1
<1>4. FoldOf(b, at) = C[DOMAIN at]
    BY DEF FoldOf, FoldLeft, MapThenFoldSet
<1> HIDE DEF C
<1> QED
    BY <1>1, <1>3, <1>4

\* Over the window of a replay, F follows the replay on the sets 1..i.
LEMMA FoldFollows ==
    ASSUME NEW b, NEW s \in Nat, NEW k \in Nat, NEW at, at = [i \in 1..k |-> s + i],
           NEW F, F = FoldIter(F, b, at), NEW R, IsReplay(R, b, s, s + k)
    PROVE  F[1..k] = R[s + k]
<1> DEFINE Along == {i \in Nat : F[1..i] = R[s + i]}
<1>1. 0 \in Along
    <2>1. 1..0 = {} /\ 1..0 \in SUBSET DOMAIN at
        OBVIOUS
    <2>2. F[1..0] = NothingSeen
        BY <2>1 DEF FoldIter
    <2> QED
        BY <2>2 DEF IsReplay
<1>2. ASSUME NEW i \in (0 + 1)..k, i - 1 \in Along PROVE i \in Along
    <2>1. 1..i \in SUBSET DOMAIN at /\ 1..i # {} /\ i \in Nat
        <3>1. DOMAIN at = 1..k /\ i \in Nat /\ i <= k /\ 1 <= i
            OBVIOUS
        <3>2. 1..i \subseteq 1..k /\ 1 \in 1..i
            BY <3>1
        <3> QED
            BY <3>1, <3>2
    <2>2. Max(1..i) = i
        <3>1. Max(1..i) \in 1..i /\ \A m \in 1..i : m <= Max(1..i)
            BY <2>1, MaxIsLargest
        <3> QED
            BY <3>1
    <2>3. (1..i) \ {i} = 1..(i - 1)
        OBVIOUS
    <2>4. F[1..i] = FoldStep(F, b, at, 1..i)
        BY <2>1 DEF FoldIter
    <2>5. F[1..i] = FoldBar(R[s + (i - 1)], b, s + i)
        <3>1. F[1..(i - 1)] = R[s + (i - 1)]
            BY <1>2
        <3>2. at[i] = s + i
            BY <2>1
        <3>3. FoldStep(F, b, at, 1..i) = FoldBar(F[1..(i - 1)], b, at[i])
            BY <2>2, <2>3 DEF FoldStep
        <3> QED
            BY <2>4, <3>1, <3>2, <3>3
    <2>6. s + i \in (s + 1)..(s + k) /\ (s + i) - 1 = s + (i - 1)
        OBVIOUS
    <2>7. R[s + i] = FoldBar(R[s + (i - 1)], b, s + i)
        <3>1. \A j \in (s + 1)..(s + k) : R[j] = FoldBar(R[j - 1], b, j)
            BY DEF IsReplay, FoldBar
        <3> QED
            BY <2>6, <3>1
    <2> QED
        BY <2>1, <2>5, <2>7
<1>3. k \in 0..k
    OBVIOUS
<1> HIDE DEF Along
<1>4. k \in Along
    BY <1>1, <1>2, <1>3, BarInduction
<1> QED
    BY <1>4 DEF Along

\* The bar before the window of an analysis of n.
Origin(n) == n - LookbackBars - 1

LEMMA WindowSize == LookbackBars \in Nat /\ RequiredBars \in Nat /\ RequiredBars >= LookbackBars + 2
BY SetupConfigAssumption DEF LookbackBars, RequiredBars

\* The setups of a snapshot are those of the replay bar by bar.
LEMMA ReplayedIs ==
    ASSUME NEW b, NEW n \in Nat, n >= RequiredBars, NEW R, IsReplay(R, b, Origin(n), n)
    PROVE  Origin(n) \in Nat /\ Origin(n) >= 1 /\ Replayed(b, n) = R[n]
<1> DEFINE k == LookbackBars + 1
           s == n - LookbackBars - 1
           at == [i \in 1..(LookbackBars + 1) |-> n - LookbackBars - 1 + i]
<1>1. k \in Nat /\ s \in Nat /\ s >= 1 /\ s + k = n
    BY WindowSize
<1>2. at = [i \in 1..k |-> s + i] /\ DOMAIN at = 1..k
    OBVIOUS
<1>3. IsReplay(R, b, s, s + k)
    BY <1>1 DEF Origin
<1>4. Replayed(b, n) = FoldOf(b, at)
    BY DEF Replayed, FoldOf
<1>5. \E F : F = FoldIter(F, b, at) /\ FoldOf(b, at) = F[1..k]
    <2> HIDE DEF k, at
    <2> QED
        BY <1>1, <1>2, FoldedIs
<1>6. PICK F : F = FoldIter(F, b, at) /\ Replayed(b, n) = F[1..k]
    <2> HIDE DEF k, at
    <2> QED
        BY <1>4, <1>5
<1>7. F[1..k] = R[s + k]
    <2> HIDE DEF k, at, s
    <2> QED
        BY <1>1, <1>2, <1>3, <1>6, FoldFollows
<1> QED
    BY <1>1, <1>6, <1>7 DEF Origin

-----------------------------------------------------------------------------
(* The life of a setup, as the bars tell it.                                *)

Records == [status : {"candidate", "confirmed", "invalidated", "expired"}, at : Nat]

IsSetup(d) ==
    /\ d = [type |-> d.type, direction |-> d.direction, trigger |-> d.trigger, level |-> d.level,
            created |-> d.created, fail |-> d.fail, pass |-> d.pass, holds |-> d.holds, log |-> d.log]
    /\ d.log \in Seq(Records) /\ d.log # <<>>

\* A setup and what it became.
Same(d, e) ==
    /\ d.type = e.type /\ d.direction = e.direction /\ d.trigger = e.trigger /\ d.level = e.level
    /\ d.created = e.created /\ d.fail = e.fail /\ d.pass = e.pass

LostBy(d, b, n) == {j \in (d.created + 1)..n : j <= d.created + TTL /\ Lost(d, b[j])}

Passes(d, b, j) ==
    CASE d.type = "breakout" -> j - d.created >= HoldBars
      [] d.type = "sweep_reversal" /\ SweepByStructure ->
           \E break \in b[j].breaks : break.direction = d.direction
      [] OTHER -> Beyond(d.direction, b[j].c, d.pass)

PassedBy(d, b, n) ==
    {j \in (d.created + 1)..n :
        j <= d.created + TTL /\ (\A i \in LostBy(d, b, n) : j < i) /\ Passes(d, b, j)}

First(S) == {m \in S : \A i \in S : m <= i}

Ends(d, b, n) ==
    IF LostBy(d, b, n) = {} /\ d.created + TTL <= n THEN {d.created + TTL} ELSE {}

At(status, S) == {[status |-> status, at |-> m] : m \in S}

Story(d, b, n) ==
    At("candidate", {d.created}) \cup At("confirmed", First(PassedBy(d, b, n)))
        \cup At("invalidated", First(LostBy(d, b, n))) \cup At("expired", Ends(d, b, n))

StatusBy(d, b, n) ==
    IF LostBy(d, b, n) # {} THEN "invalidated"
    ELSE IF d.created + TTL <= n THEN "expired"
    ELSE IF PassedBy(d, b, n) # {} THEN "confirmed" ELSE "candidate"

FollowsStory(d, b, n) ==
    /\ ToSet(d.log) = Story(d, b, n)
    /\ Status(d) = StatusBy(d, b, n)
    /\ Status(d) = "candidate" => d.holds = n - d.created

LEMMA SameStory ==
    ASSUME NEW d, NEW e, Same(d, e), NEW b, NEW n
    PROVE  /\ LostBy(d, b, n) = LostBy(e, b, n) /\ PassedBy(d, b, n) = PassedBy(e, b, n)
           /\ Story(d, b, n) = Story(e, b, n) /\ StatusBy(d, b, n) = StatusBy(e, b, n)
<1>1. LostBy(d, b, n) = LostBy(e, b, n)
    BY DEF Same, LostBy, Lost
<1>2. PassedBy(d, b, n) = PassedBy(e, b, n)
    <2>1. \A j : Passes(d, b, j) = Passes(e, b, j)
        BY DEF Same, Passes
    <2> QED
        BY <1>1, <2>1 DEF Same, PassedBy
<1>3. Ends(d, b, n) = Ends(e, b, n)
    BY <1>1 DEF Same, Ends
<1> QED
    BY <1>1, <1>2, <1>3 DEF Same, Story, StatusBy

\* A bar adds at most itself to what happened.
LEMMA LifeGrows ==
    ASSUME NEW d, NEW b, NEW j \in Nat, d.created \in Nat, d.created < j
    PROVE  /\ LostBy(d, b, j) = LostBy(d, b, j - 1)
                 \cup (IF j <= d.created + TTL /\ Lost(d, b[j]) THEN {j} ELSE {})
           /\ PassedBy(d, b, j) = PassedBy(d, b, j - 1)
                 \cup (IF /\ j <= d.created + TTL /\ LostBy(d, b, j - 1) = {}
                          /\ ~Lost(d, b[j]) /\ Passes(d, b, j) THEN {j} ELSE {})
<1>0. (d.created + 1)..j = (d.created + 1)..(j - 1) \cup {j}
    OBVIOUS
<1>1. LostBy(d, b, j) = LostBy(d, b, j - 1)
                 \cup (IF j <= d.created + TTL /\ Lost(d, b[j]) THEN {j} ELSE {})
    BY <1>0 DEF LostBy
<1>2. \A i \in LostBy(d, b, j - 1) : i \in Nat /\ i < j
    BY DEF LostBy
<1>3. ASSUME NEW p \in (d.created + 1)..(j - 1)
      PROVE  (\A i \in LostBy(d, b, j) : p < i) <=> (\A i \in LostBy(d, b, j - 1) : p < i)
    <2>1. p < j
        OBVIOUS
    <2> QED
        BY <1>1, <2>1
<1>4. (\A i \in LostBy(d, b, j) : j < i) <=> LostBy(d, b, j) = {}
    BY <1>1, <1>2
<1> QED
    BY <1>0, <1>1, <1>3, <1>4 DEF PassedBy

LEMMA FirstGrows ==
    ASSUME NEW j \in Nat, NEW S \in SUBSET (0..(j - 1))
    PROVE  /\ S # {} => First(S \cup {j}) = First(S)
           /\ S = {} => First(S \cup {j}) = {j}
<1>1. CASE S = {}
    BY <1>1 DEF First
<1>2. CASE S # {}
    <2>1. \A m \in S : m < j /\ m \in Nat
        OBVIOUS
    <2>2. PICK x \in S : TRUE
        BY <1>2
    <2>3. ~(\A i \in S \cup {j} : j <= i)
        BY <2>1, <2>2
    <2>4. \A m \in S : (\A i \in S \cup {j} : m <= i) <=> (\A i \in S : m <= i)
        BY <2>1
    <2> QED
        BY <1>2, <2>3, <2>4 DEF First
<1> QED
    BY <1>1, <1>2

LEMMA Appended ==
    ASSUME NEW S, NEW s \in Seq(S), NEW x \in S
    PROVE  /\ Append(s, x) \in Seq(S) /\ Append(s, x) # <<>>
           /\ ToSet(Append(s, x)) = ToSet(s) \cup {x} /\ Last(Append(s, x)) = x
<1> DEFINE t == Append(s, x)
<1>1. /\ t \in Seq(S) /\ Len(t) = Len(s) + 1 /\ DOMAIN t = 1..(Len(s) + 1) /\ DOMAIN s = 1..Len(s)
      /\ \A i \in 1..Len(s) : t[i] = s[i]
      /\ t[Len(s) + 1] = x
    OBVIOUS
<1> HIDE DEF t
<1>2. ToSet(t) = ToSet(s) \cup {x}
    BY <1>1 DEF ToSet
<1>3. Last(t) = x /\ t # <<>>
    BY <1>1 DEF Last
<1> QED
    BY <1>1, <1>2, <1>3 DEF t

(* Step at bar j does what the bar does to the story.                       *)
LEMMA ToKeeps ==
    ASSUME NEW d, IsSetup(d), NEW j \in Nat,
           NEW status \in {"confirmed", "invalidated", "expired"}
    PROVE  /\ IsSetup(To(d, status, j)) /\ Same(To(d, status, j), d)
           /\ To(d, status, j).holds = d.holds
           /\ ToSet(To(d, status, j).log) = ToSet(d.log) \cup {[status |-> status, at |-> j]}
           /\ Status(To(d, status, j)) = status
<1> DEFINE log == Append(d.log, [status |-> status, at |-> j])
           t == [type |-> d.type, direction |-> d.direction, trigger |-> d.trigger, level |-> d.level,
                 created |-> d.created, fail |-> d.fail, pass |-> d.pass, holds |-> d.holds, log |-> log]
<1>1. To(d, status, j) = t
    <2> DEFINE r == [type |-> d.type, direction |-> d.direction, trigger |-> d.trigger,
                     level |-> d.level, created |-> d.created, fail |-> d.fail,
                     pass |-> d.pass, holds |-> d.holds, log |-> d.log]
    <2>1. d = r
        BY DEF IsSetup
    <2>2. [r EXCEPT !.log = log] = t
        <3> HIDE DEF log
        <3> QED
            OBVIOUS
    <2>3. To(d, status, j) = [d EXCEPT !.log = log]
        BY DEF To
    <2> HIDE DEF r, t, log
    <2> QED
        BY <2>1, <2>2, <2>3
<1>2. /\ log \in Seq(Records) /\ log # <<>> /\ Last(log) = [status |-> status, at |-> j]
      /\ ToSet(log) = ToSet(d.log) \cup {[status |-> status, at |-> j]}
    <2>1. [status |-> status, at |-> j] \in Records
        BY DEF Records
    <2> QED
        BY <2>1, Appended DEF IsSetup
<1> HIDE DEF log
<1>3. IsSetup(t) /\ Same(t, d) /\ t.holds = d.holds /\ t.log = log
    BY <1>2 DEF IsSetup, Same
<1> HIDE DEF t
<1> QED
    BY <1>1, <1>2, <1>3 DEF Status

Held(d) == [d EXCEPT !.holds = IF Status(d) = "candidate" THEN @ + 1 ELSE @]

LEMMA HeldKeeps ==
    ASSUME NEW d, IsSetup(d)
    PROVE  /\ IsSetup(Held(d)) /\ Same(Held(d), d) /\ Held(d).log = d.log
           /\ Status(Held(d)) = Status(d)
           /\ Status(d) = "candidate" => Held(d).holds = d.holds + 1
<1> DEFINE h == IF Status(d) = "candidate" THEN d.holds + 1 ELSE d.holds
           t == [type |-> d.type, direction |-> d.direction, trigger |-> d.trigger, level |-> d.level,
                 created |-> d.created, fail |-> d.fail, pass |-> d.pass, holds |-> h, log |-> d.log]
<1>1. Held(d) = t
    BY DEF Held, IsSetup
<1>2. h = IF Status(d) = "candidate" THEN d.holds + 1 ELSE d.holds
    OBVIOUS
<1> HIDE DEF h
<1>3. IsSetup(t) /\ Same(t, d) /\ t.holds = h /\ t.log = d.log
    BY DEF IsSetup, Same
<1> HIDE DEF t
<1> QED
    BY <1>1, <1>2, <1>3 DEF Status

\* What Step makes of an open setup on a later bar.
Confirmed(d, j, bar) == IF Confirms(d, bar) THEN To(Held(d), "confirmed", j) ELSE Held(d)

LEMMA StepCases ==
    ASSUME NEW d, NEW j, NEW bar
    PROVE  Step(d, j, bar) = IF ~IsOpen(d) \/ j <= d.created THEN d
                             ELSE IF Lost(d, bar) THEN To(d, "invalidated", j)
                             ELSE IF j - d.created >= TTL THEN To(Confirmed(d, j, bar), "expired", j)
                             ELSE Confirmed(d, j, bar)
BY DEF Step, Confirmed, Held

LEMMA ConfirmedKeeps ==
    ASSUME NEW d, IsSetup(d), NEW j \in Nat, NEW bar
    PROVE  /\ IsSetup(Confirmed(d, j, bar)) /\ Same(Confirmed(d, j, bar), d)
           /\ Confirms(d, bar) =>
                /\ ToSet(Confirmed(d, j, bar).log) = ToSet(d.log) \cup {[status |-> "confirmed", at |-> j]}
                /\ Status(Confirmed(d, j, bar)) = "confirmed"
           /\ ~Confirms(d, bar) =>
                /\ Confirmed(d, j, bar).log = d.log /\ Status(Confirmed(d, j, bar)) = Status(d)
                /\ Status(d) = "candidate" => Confirmed(d, j, bar).holds = d.holds + 1
<1>1. CASE Confirms(d, bar)
    <2>1. Confirmed(d, j, bar) = To(Held(d), "confirmed", j)
        BY <1>1 DEF Confirmed
    <2>2. /\ IsSetup(To(Held(d), "confirmed", j)) /\ Same(To(Held(d), "confirmed", j), Held(d))
          /\ ToSet(To(Held(d), "confirmed", j).log) = ToSet(Held(d).log) \cup {[status |-> "confirmed", at |-> j]}
          /\ Status(To(Held(d), "confirmed", j)) = "confirmed"
        BY HeldKeeps, ToKeeps
    <2> QED
        BY <1>1, <2>1, <2>2, HeldKeeps DEF Same
<1>2. CASE ~Confirms(d, bar)
    BY <1>2, HeldKeeps DEF Confirmed
<1> QED
    BY <1>1, <1>2

\* Step keeps what a setup is and only adds to its log.
LEMMA StepKeeps ==
    ASSUME NEW d, IsSetup(d), NEW j \in Nat, NEW bar
    PROVE  IsSetup(Step(d, j, bar)) /\ Same(Step(d, j, bar), d)
<1>1. CASE ~IsOpen(d) \/ j <= d.created
    BY <1>1, StepCases DEF Same
<1>2. CASE ~(~IsOpen(d) \/ j <= d.created) /\ Lost(d, bar)
    <2>1. Step(d, j, bar) = To(d, "invalidated", j)
        BY <1>2, StepCases
    <2> QED
        BY <2>1, ToKeeps
<1>3. CASE ~(~IsOpen(d) \/ j <= d.created) /\ ~Lost(d, bar)
    <2>1. Step(d, j, bar) \in {To(Confirmed(d, j, bar), "expired", j), Confirmed(d, j, bar)}
        BY <1>3, StepCases
    <2>2. IsSetup(Confirmed(d, j, bar)) /\ Same(Confirmed(d, j, bar), d)
        BY ConfirmedKeeps
    <2>3. /\ IsSetup(To(Confirmed(d, j, bar), "expired", j))
          /\ Same(To(Confirmed(d, j, bar), "expired", j), Confirmed(d, j, bar))
        BY <2>2, ToKeeps
    <2> QED
        BY <2>1, <2>2, <2>3 DEF Same
<1> QED
    BY <1>1, <1>2, <1>3

\* A setup is confirmed by the first bar that passes.
LEMMA ConfirmsFirst ==
    ASSUME NEW d, NEW b, NEW j \in Nat, d.created \in Nat, d.created < j,
           Status(d) = IF PassedBy(d, b, j - 1) # {} THEN "confirmed" ELSE "candidate",
           Status(d) = "candidate" => d.holds = (j - 1) - d.created
    PROVE  Confirms(d, b[j]) <=> PassedBy(d, b, j - 1) = {} /\ Passes(d, b, j)
<1>1. CASE PassedBy(d, b, j - 1) # {}
    BY <1>1 DEF Confirms
<1>2. CASE PassedBy(d, b, j - 1) = {}
    <2>1. Status(d) = "candidate" /\ d.holds + 1 = j - d.created
        BY <1>2
    <2> QED
        BY <1>2, <2>1 DEF Confirms, Passes
<1> QED
    BY <1>1, <1>2

LEMMA AtSets ==
    ASSUME NEW status
    PROVE  At(status, {}) = {} /\ \A m : At(status, {m}) = {[status |-> status, at |-> m]}
BY DEF At

LEMMA StepStory ==
    ASSUME NEW d, IsSetup(d), NEW b, NEW j \in Nat, d.created \in Nat, d.created < j,
           FollowsStory(d, b, j - 1)
    PROVE  FollowsStory(Step(d, j, b[j]), b, j)
<1> DEFINE e == Step(d, j, b[j])
           L0 == LostBy(d, b, j - 1)
           L1 == LostBy(d, b, j)
           P0 == PassedBy(d, b, j - 1)
           P1 == PassedBy(d, b, j)
           end == d.created + TTL
           Goal == /\ ToSet(e.log) = Story(d, b, j)
                   /\ Status(e) = StatusBy(d, b, j)
                   /\ Status(e) = "candidate" => e.holds = j - d.created
<1>1. /\ L1 = L0 \cup (IF j <= end /\ Lost(d, b[j]) THEN {j} ELSE {})
      /\ P1 = P0 \cup (IF j <= end /\ L0 = {} /\ ~Lost(d, b[j]) /\ Passes(d, b, j) THEN {j} ELSE {})
    BY LifeGrows
<1>2. L0 \in SUBSET (0..(j - 1)) /\ P0 \in SUBSET (0..(j - 1))
    BY DEF LostBy, PassedBy
<1>3. TTL \in Nat /\ end \in Nat
    BY SetupConfigAssumption
<1>4. e = IF ~IsOpen(d) THEN d
          ELSE IF Lost(d, b[j]) THEN To(d, "invalidated", j)
          ELSE IF j - d.created >= TTL THEN To(Confirmed(d, j, b[j]), "expired", j)
          ELSE Confirmed(d, j, b[j])
    BY StepCases
<1>5. /\ Story(d, b, j - 1) = At("candidate", {d.created}) \cup At("confirmed", First(P0))
                                \cup At("invalidated", First(L0)) \cup At("expired", Ends(d, b, j - 1))
      /\ Story(d, b, j) = At("candidate", {d.created}) \cup At("confirmed", First(P1))
                                \cup At("invalidated", First(L1)) \cup At("expired", Ends(d, b, j))
    BY DEF Story
<1>6. /\ ToSet(d.log) = Story(d, b, j - 1) /\ Status(d) = StatusBy(d, b, j - 1)
      /\ Status(d) = "candidate" => d.holds = (j - 1) - d.created
    BY DEF FollowsStory
<1>7. First({}) = {}
    BY DEF First
<1>8. ASSUME L0 # {} \/ end <= j - 1 PROVE Goal
    <2>1. e = d
        <3>1. Status(d) \in Terminal
            BY <1>6, <1>8 DEF StatusBy, Terminal
        <3> QED
            BY <1>4, <3>1 DEF IsOpen
    <2>2. First(L1) = First(L0)
        <3>1. CASE L0 # {}
            BY <1>1, <1>2, <3>1, FirstGrows
        <3>2. CASE L0 = {}
            <4>1. ~(j <= end)
                BY <1>3, <1>8, <3>2
            <4> QED
                BY <1>1, <4>1
        <3> QED
            BY <3>1, <3>2
    <2>3. P1 = P0
        <3>1. ~(j <= end) \/ L0 # {}
            BY <1>3, <1>8
        <3> QED
            BY <1>1, <3>1
    <2>4. L1 = {} <=> L0 = {}
        <3>1. L0 = {} => ~(j <= end)
            BY <1>3, <1>8
        <3> QED
            BY <1>1, <3>1
    <2>5. L1 = {} => end <= j - 1 /\ end <= j
        BY <1>3, <1>8, <2>4
    <2>6. Ends(d, b, j) = Ends(d, b, j - 1)
        BY <2>4, <2>5 DEF Ends
    <2>7. StatusBy(d, b, j) = StatusBy(d, b, j - 1) /\ StatusBy(d, b, j) # "candidate"
        BY <2>4, <2>5 DEF StatusBy
    <2> HIDE DEF e, L0, L1, P0, P1, end
    <2> QED
        BY <1>5, <1>6, <2>1, <2>2, <2>3, <2>6, <2>7
<1>9. ASSUME L0 = {}, ~(end <= j - 1) PROVE Goal
    <2>0. j <= end
        BY <1>3, <1>9
    <2>1. Status(d) = IF P0 # {} THEN "confirmed" ELSE "candidate"
        BY <1>6, <1>9 DEF StatusBy
    <2>2. IsOpen(d)
        BY <2>1 DEF IsOpen, Terminal
    <2>3. Ends(d, b, j - 1) = {}
        BY <1>9 DEF Ends
    <2>4. ToSet(d.log) = At("candidate", {d.created}) \cup At("confirmed", First(P0))
        <3> HIDE DEF L0
        <3> QED
            BY <1>5, <1>6, <1>7, <1>9, <2>3, AtSets
    <2>5. CASE Lost(d, b[j])
        <3>1. L1 = {j} /\ P1 = P0 /\ First(L1) = {j}
            BY <1>1, <1>2, <1>9, <2>0, <2>5, FirstGrows
        <3>2. Ends(d, b, j) = {} /\ StatusBy(d, b, j) = "invalidated"
            BY <3>1 DEF Ends, StatusBy
        <3>3. /\ ToSet(e.log) = ToSet(d.log) \cup {[status |-> "invalidated", at |-> j]}
              /\ Status(e) = "invalidated"
            <4>1. e = To(d, "invalidated", j)
                BY <1>4, <2>2, <2>5
            <4> HIDE DEF e
            <4> QED
                BY <4>1, ToKeeps
        <3> HIDE DEF e, L0, L1, P0, P1, end
        <3> QED
            BY <1>5, <2>4, <3>1, <3>2, <3>3, AtSets
    <2>6. CASE ~Lost(d, b[j])
        <3>1. L1 = {} /\ P1 = P0 \cup (IF Passes(d, b, j) THEN {j} ELSE {})
            BY <1>1, <1>9, <2>0, <2>6
        <3>2. Confirms(d, b[j]) <=> P0 = {} /\ Passes(d, b, j)
            BY <1>6, <2>1, ConfirmsFirst
        <3> DEFINE f == Confirmed(d, j, b[j])
        <3>3. /\ ToSet(f.log) = At("candidate", {d.created}) \cup At("confirmed", First(P1))
              /\ Status(f) = IF P1 # {} THEN "confirmed" ELSE "candidate"
              /\ Status(f) = "candidate" => f.holds = j - d.created
            <4>1. CASE Confirms(d, b[j])
                <5>1. P0 = {} /\ P1 = {j} /\ First(P1) = {j} /\ First(P0) = {}
                    BY <1>7, <3>1, <3>2, <4>1, FirstGrows DEF First
                <5>2. /\ ToSet(f.log) = ToSet(d.log) \cup {[status |-> "confirmed", at |-> j]}
                      /\ Status(f) = "confirmed"
                    BY <4>1, ConfirmedKeeps
                <5> HIDE DEF f, P0, P1
                <5> QED
                    BY <2>4, <5>1, <5>2, AtSets
            <4>2. CASE ~Confirms(d, b[j])
                <5>1. First(P1) = First(P0) /\ (P1 = {} <=> P0 = {})
                    BY <1>2, <3>1, <3>2, <4>2, FirstGrows
                <5>2. /\ f.log = d.log /\ Status(f) = Status(d)
                      /\ Status(d) = "candidate" => f.holds = d.holds + 1
                    BY <4>2, ConfirmedKeeps
                <5>3. Status(f) = "candidate" => f.holds = j - d.created
                    <6> HIDE DEF f
                    <6> QED
                        BY <1>6, <5>2
                <5> HIDE DEF f, P0, P1
                <5> QED
                    BY <2>1, <2>4, <5>1, <5>2, <5>3
            <4> QED
                BY <4>1, <4>2
        <3>4. IsSetup(f)
            BY ConfirmedKeeps
        <3>5. CASE j - d.created >= TTL
            <4>1. end = j
                BY <1>3, <2>0, <3>5
            <4>2. Ends(d, b, j) = {j} /\ StatusBy(d, b, j) = "expired"
                BY <3>1, <4>1 DEF Ends, StatusBy
            <4>3. e = To(f, "expired", j)
                BY <1>4, <2>2, <2>6, <3>5
            <4>4. /\ ToSet(e.log) = ToSet(f.log) \cup {[status |-> "expired", at |-> j]}
                  /\ Status(e) = "expired"
                <5> HIDE DEF e, f
                <5> QED
                    BY <3>4, <4>3, ToKeeps
            <4> HIDE DEF e, f, L0, L1, P0, P1, end
            <4>5. At("invalidated", First(L1)) = {}
                BY <1>7, <3>1, AtSets
            <4>6. At("expired", Ends(d, b, j)) = {[status |-> "expired", at |-> j]}
                BY <4>2, AtSets
            <4>7. ToSet(e.log) = Story(d, b, j)
                BY <1>5, <3>3, <4>4, <4>5, <4>6
            <4> QED
                BY <4>2, <4>4, <4>7
        <3>6. CASE ~(j - d.created >= TTL)
            <4>1. e = f
                BY <1>4, <2>2, <2>6, <3>6
            <4>2. ~(end <= j)
                BY <1>3, <3>6
            <4>3. Ends(d, b, j) = {} /\ StatusBy(d, b, j) = IF P1 # {} THEN "confirmed" ELSE "candidate"
                BY <3>1, <4>2 DEF Ends, StatusBy
            <4> HIDE DEF e, f, L0, L1, P0, P1, end
            <4> QED
                BY <1>5, <1>7, <3>1, <3>3, <4>1, <4>3, AtSets
        <3> QED
            BY <3>5, <3>6
    <2> QED
        BY <2>5, <2>6
<1>10. Goal
    BY <1>8, <1>9
<1>11. Same(e, d)
    BY StepKeeps
<1> HIDE DEF e
<1>12. Story(e, b, j) = Story(d, b, j) /\ StatusBy(e, b, j) = StatusBy(d, b, j) /\ e.created = d.created
    BY <1>11, SameStory DEF Same
<1>13. FollowsStory(e, b, j)
    BY <1>10, <1>12 DEF FollowsStory
<1> QED
    BY <1>13 DEF e

-----------------------------------------------------------------------------
(* Where setups come from: what their names and the bars fix.               *)

\* The bars at which price had left the level before the setup was created.
LeftAt(d, b) == {j \in d.trigger..(d.created - 1) : Departs(d.direction, d.level, b[j])}

Back(d, b, j) == ~Beyond(d.direction, Near(d.direction, b[j]), d.level + d.direction * Zone)

IsFirstReturn(d, b) ==
    /\ LeftAt(d, b) # {}
    /\ d.created - d.trigger <= TTL
    /\ \A j \in (d.trigger + 1)..d.created : ~Beyond(-d.direction, b[j].c, d.fail)
    /\ \A j \in (d.trigger + 1)..d.created :
          (\E i \in LeftAt(d, b) : i < j) => (Back(d, b, j) <=> j = d.created)

IsBorn(d, b) ==
    /\ d.type \in {"breakout", "sweep_reversal", "pullback", "range_rejection"}
    /\ d.trigger \in Nat /\ d.created \in Nat /\ d.trigger <= d.created
    /\ d.type # "pullback" => d.created = d.trigger
    /\ d.type \in {"breakout", "range_rejection"} => d.fail = d.level
    /\ d.type = "breakout" => d.pass = d.level
    /\ d.type # "breakout" => d.pass = Far(d.direction, b[d.created])
    /\ d.type = "sweep_reversal" => d.fail = Far(-d.direction, b[d.created])
    /\ d.type = "pullback" => d.fail = d.level - d.direction * Zone /\ IsFirstReturn(d, b)

LEMMA SameBorn ==
    ASSUME NEW d, NEW e, Same(d, e), NEW b, IsBorn(e, b)
    PROVE  IsBorn(d, b)
<1>1. LeftAt(d, b) = LeftAt(e, b)
    BY DEF LeftAt, Same
<1>2. \A j : Back(d, b, j) = Back(e, b, j)
    BY DEF Back, Same
<1>3. IsFirstReturn(e, b) => IsFirstReturn(d, b)
    BY <1>1, <1>2 DEF IsFirstReturn, Same
<1> QED
    BY <1>3 DEF IsBorn, Same

LEMMA NewFollowsStory ==
    ASSUME NEW type, NEW direction, NEW trigger, NEW level, NEW j \in Nat, NEW fail, NEW pass, NEW b,
           NEW new, new = NewSetup(type, direction, trigger, level, j, fail, pass)
    PROVE  /\ IsSetup(new) /\ new.type = type /\ new.direction = direction /\ new.trigger = trigger
           /\ new.level = level /\ new.created = j /\ new.fail = fail /\ new.pass = pass
           /\ FollowsStory(new, b, j)
<1> DEFINE log == <<[status |-> "candidate", at |-> j]>>
           d == [type |-> type, direction |-> direction, trigger |-> trigger, level |-> level,
                 created |-> j, fail |-> fail, pass |-> pass, holds |-> 0, log |-> log]
<1>1. new = d
    BY DEF NewSetup
<1>2. /\ log \in Seq(Records) /\ log # <<>> /\ ToSet(log) = {[status |-> "candidate", at |-> j]}
      /\ Last(log) = [status |-> "candidate", at |-> j]
    BY DEF Records, ToSet, Last
<1>3. TTL \in Nat \ {0}
    BY SetupConfigAssumption
<1> HIDE DEF log
<1>4. IsSetup(d) /\ d.log = log /\ d.created = j /\ d.holds = 0
    BY <1>2 DEF IsSetup
<1>5. /\ d.type = type /\ d.direction = direction /\ d.trigger = trigger
      /\ d.level = level /\ d.created = j /\ d.fail = fail /\ d.pass = pass
    OBVIOUS
<1> HIDE DEF d
<1>6. LostBy(d, b, j) = {} /\ PassedBy(d, b, j) = {} /\ ~(d.created + TTL <= j)
    BY <1>3, <1>4 DEF LostBy, PassedBy
<1>7. Ends(d, b, j) = {} /\ StatusBy(d, b, j) = "candidate" /\ First({}) = {}
    BY <1>6 DEF Ends, StatusBy, First
<1>8. Story(d, b, j) = {[status |-> "candidate", at |-> j]}
    BY <1>4, <1>6, <1>7, AtSets DEF Story
<1>9. FollowsStory(d, b, j)
    BY <1>2, <1>4, <1>7, <1>8 DEF FollowsStory, Status
<1> QED
    BY <1>1, <1>4, <1>5, <1>9

(* An arm whose level was broken at created and has been waiting since.     *)
IsArm(a) == a = [direction |-> a.direction, level |-> a.level, created |-> a.created, departed |-> a.departed]

IsWaiting(a, b, n) ==
    /\ IsArm(a)
    /\ a.created \in Nat /\ a.created <= n /\ n - a.created <= TTL
    /\ a.departed <=> \E i \in a.created..n : Departs(a.direction, a.level, b[i])
    /\ \A j \in (a.created + 1)..n : ~ArmLost(a, b[j])
    /\ \A j \in (a.created + 1)..n :
          (\E i \in a.created..(j - 1) : Departs(a.direction, a.level, b[i])) => ~Back(a, b, j)

LEMMA NewArmWaits ==
    ASSUME NEW break, NEW b, NEW j \in Nat
    PROVE  IsWaiting(NewArm(break, j, b[j]), b, j) /\ NewArm(break, j, b[j]).created = j
<1> DEFINE a == NewArm(break, j, b[j])
<1>1. /\ IsArm(a) /\ a.created = j
      /\ a.departed = Departs(a.direction, a.level, b[j])
    BY DEF NewArm, IsArm
<1>2. TTL \in Nat
    BY SetupConfigAssumption
<1> HIDE DEF a
<1>3. a.departed <=> \E i \in a.created..j : Departs(a.direction, a.level, b[i])
    BY <1>1
<1> QED
    BY <1>1, <1>2, <1>3 DEF IsWaiting, a

LEMMA ArmsKept ==
    ASSUME NEW a, NEW b, NEW j \in Nat, IsWaiting(a, b, j - 1),
           ~Touched(a, j, b[j]), j - a.created <= TTL, ~ArmLost(a, b[j])
    PROVE  LET k == [a EXCEPT !.departed = @ \/ Departs(a.direction, a.level, b[j])]
           IN  IsWaiting(k, b, j) /\ k.created = a.created
<1> DEFINE k == [a EXCEPT !.departed = @ \/ Departs(a.direction, a.level, b[j])]
<1>1. /\ IsArm(k) /\ k.created = a.created /\ k.direction = a.direction /\ k.level = a.level
      /\ k.departed = (a.departed \/ Departs(a.direction, a.level, b[j]))
    <2> DEFINE left == a.departed \/ Departs(a.direction, a.level, b[j])
               r == [direction |-> a.direction, level |-> a.level, created |-> a.created,
                     departed |-> a.departed]
    <2>1. a = r
        BY DEF IsWaiting, IsArm
    <2>2. [r EXCEPT !.departed = left] = [direction |-> a.direction, level |-> a.level,
                                          created |-> a.created, departed |-> left]
        <3> HIDE DEF left
        <3> QED
            OBVIOUS
    <2>3. k = [r EXCEPT !.departed = left]
        BY <2>1
    <2> HIDE DEF r, left, k
    <2>4. k = [direction |-> a.direction, level |-> a.level, created |-> a.created, departed |-> left]
        BY <2>2, <2>3
    <2>5. IsArm(k) /\ k.created = a.created /\ k.direction = a.direction /\ k.level = a.level
          /\ k.departed = left
        BY <2>4 DEF IsArm
    <2> QED
        BY <2>5 DEF left
<1> HIDE DEF k
<1>2. /\ a.created \in Nat /\ a.created <= j - 1
      /\ a.departed <=> \E i \in a.created..(j - 1) : Departs(a.direction, a.level, b[i])
      /\ \A i \in (a.created + 1)..(j - 1) : ~ArmLost(a, b[i])
      /\ \A i \in (a.created + 1)..(j - 1) :
            (\E m \in a.created..(i - 1) : Departs(a.direction, a.level, b[m])) => ~Back(a, b, i)
    BY DEF IsWaiting
<1>3. a.created..j = a.created..(j - 1) \cup {j}
      /\ (a.created + 1)..j = (a.created + 1)..(j - 1) \cup {j}
    BY <1>2
<1>4. k.departed <=> \E i \in k.created..j : Departs(k.direction, k.level, b[i])
    BY <1>1, <1>2, <1>3
<1>5. \A i \in (k.created + 1)..j : ~ArmLost(k, b[i])
    <2>1. \A i : ArmLost(k, b[i]) <=> ArmLost(a, b[i])
        BY <1>1 DEF ArmLost
    <2> QED
        BY <1>1, <1>2, <1>3, <2>1
<1>6. ASSUME NEW i \in (k.created + 1)..j,
             \E m \in k.created..(i - 1) : Departs(k.direction, k.level, b[m])
      PROVE  ~Back(k, b, i)
    <2>1. Back(k, b, i) <=> Back(a, b, i)
        BY <1>1 DEF Back
    <2>2. CASE i # j
        <3>1. i \in (a.created + 1)..(j - 1)
            BY <1>1, <1>3, <2>2
        <3> QED
            BY <1>1, <1>2, <1>6, <2>1, <3>1
    <2>3. CASE i = j
        <3>1. a.departed
            BY <1>1, <1>2, <1>6, <2>3
        <3>2. ~Back(a, b, j)
            BY <3>1 DEF Touched, Back
        <3> QED
            BY <2>1, <2>3, <3>2
    <2> QED
        BY <2>2, <2>3
<1>7. IsWaiting(k, b, j)
    BY <1>1, <1>2, <1>4, <1>5, <1>6 DEF IsWaiting
<1> QED
    BY <1>1, <1>7 DEF k

\* A touched arm gives the pullback of the first return.
IsTouched(a, b, j, d) ==
    IsWaiting(a, b, j - 1) /\ Touched(a, j, b[j]) /\ d = Pullback(a, j, b[j])

LEMMA TouchedIsBorn ==
    ASSUME NEW a, NEW b, NEW j \in Nat, NEW d, IsTouched(a, b, j, d)
    PROVE  /\ IsSetup(d) /\ IsBorn(d, b) /\ FollowsStory(d, b, j)
           /\ d.type = "pullback" /\ d.trigger = a.created /\ d.created = j
<1> DEFINE fail == a.level - a.direction * Zone
           pass == Far(a.direction, b[j])
<1>new. d = NewSetup("pullback", a.direction, a.created, a.level, j, fail, pass)
    BY DEF Pullback, IsTouched
<1> HIDE DEF fail, pass
<1>pullback. /\ IsSetup(d) /\ d.type = "pullback" /\ d.direction = a.direction /\ d.trigger = a.created
      /\ d.level = a.level /\ d.created = j /\ d.fail = fail /\ d.pass = pass
      /\ FollowsStory(d, b, j)
    BY <1>new, NewFollowsStory
<1>1. /\ IsSetup(d) /\ d.type = "pullback" /\ d.direction = a.direction /\ d.trigger = a.created
      /\ d.level = a.level /\ d.created = j /\ d.fail = a.level - a.direction * Zone
      /\ d.pass = Far(a.direction, b[j]) /\ FollowsStory(d, b, j)
    BY <1>pullback DEF fail, pass
<1>2. /\ a.created \in Nat /\ a.created <= j - 1
      /\ a.departed <=> \E i \in a.created..(j - 1) : Departs(a.direction, a.level, b[i])
      /\ \A i \in (a.created + 1)..(j - 1) : ~ArmLost(a, b[i])
      /\ \A i \in (a.created + 1)..(j - 1) :
            (\E m \in a.created..(i - 1) : Departs(a.direction, a.level, b[m])) => ~Back(a, b, i)
    BY DEF IsWaiting, IsTouched
<1>3. (a.created + 1)..j = (a.created + 1)..(j - 1) \cup {j}
    BY <1>2
<1>4. a.departed /\ ~ArmLost(a, b[j]) /\ Back(a, b, j) /\ j - a.created <= TTL
    BY DEF Touched, Back, IsTouched
<1>5. LeftAt(d, b) = {i \in a.created..(j - 1) : Departs(a.direction, a.level, b[i])}
    BY <1>1 DEF LeftAt
<1>6. \A i \in (a.created + 1)..j : ~Beyond(-d.direction, b[i].c, d.fail)
    <2>1. \A i : ~ArmLost(a, b[i]) => ~Beyond(-d.direction, b[i].c, d.fail)
        BY <1>1 DEF ArmLost
    <2> QED
        BY <1>2, <1>3, <1>4, <2>1
<1>7. ASSUME NEW i \in (a.created + 1)..j, \E m \in LeftAt(d, b) : m < i
      PROVE  Back(d, b, i) <=> i = j
    <2>1. Back(d, b, i) <=> Back(a, b, i)
        BY <1>1 DEF Back
    <2>2. CASE i = j
        BY <1>4, <2>1, <2>2
    <2>3. CASE i # j
        <3>1. i \in (a.created + 1)..(j - 1)
            BY <1>3, <2>3
        <3>2. \E m \in a.created..(i - 1) : Departs(a.direction, a.level, b[m])
            BY <1>2, <1>5, <1>7, <3>1
        <3> QED
            BY <1>2, <2>1, <2>3, <3>1, <3>2
    <2> QED
        BY <2>2, <2>3
<1>8. IsFirstReturn(d, b)
    BY <1>1, <1>2, <1>4, <1>5, <1>6, <1>7 DEF IsFirstReturn
<1>9. IsBorn(d, b)
    BY <1>1, <1>2, <1>8 DEF IsBorn
<1> QED
    BY <1>1, <1>9

-----------------------------------------------------------------------------
(* One bar of the replay.                                                   *)

Stepped(seen, j, bar) ==
    {Step(d, j, bar) : d \in seen.setups}
        \cup {Pullback(a, j, bar) : a \in {x \in seen.arms : Touched(x, j, bar)}}

Bos(bar) == {break \in bar.breaks : break.type = "bos"}

Fresh(j, bar) ==
    IF bar.ready THEN {Breakout(break, j) : break \in Bos(bar)}
                      \cup {Sweep(sweep, j, bar) : sweep \in bar.sweeps}
    ELSE {}

Rejected(seen, j, prev, bar) ==
    IF bar.ready THEN Rejections(Stepped(seen, j, bar), j, prev, bar) ELSE {}

FreshArms(j, bar) == IF bar.ready THEN {NewArm(break, j, bar) : break \in Bos(bar)} ELSE {}

LEMMA ReplayBarIs ==
    ASSUME NEW seen, NEW j, NEW prev, NEW bar
    PROVE  /\ ReplayBar(seen, j, prev, bar).setups
                = Stepped(seen, j, bar) \cup Fresh(j, bar) \cup Rejected(seen, j, prev, bar)
           /\ ReplayBar(seen, j, prev, bar).arms = KeptArms(seen.arms, j, bar) \cup FreshArms(j, bar)
<1> DEFINE S == Stepped(seen, j, bar)
           A == KeptArms(seen.arms, j, bar)
<1>1. ReplayBar(seen, j, prev, bar) = Triggered([setups |-> S, arms |-> A], j, prev, bar)
    BY DEF ReplayBar, Stepped
<1> HIDE DEF S, A
<1>2. CASE bar.ready
    <2>1. Triggered([setups |-> S, arms |-> A], j, prev, bar)
            = [setups |-> S \cup {Breakout(break, j) : break \in Bos(bar)}
                            \cup {Sweep(sweep, j, bar) : sweep \in bar.sweeps}
                            \cup Rejections(S, j, prev, bar),
               arms |-> A \cup {NewArm(break, j, bar) : break \in Bos(bar)}]
        BY <1>2 DEF Triggered, Bos
    <2>2. /\ Fresh(j, bar) = {Breakout(break, j) : break \in Bos(bar)}
                               \cup {Sweep(sweep, j, bar) : sweep \in bar.sweeps}
          /\ FreshArms(j, bar) = {NewArm(break, j, bar) : break \in Bos(bar)}
        BY <1>2 DEF Fresh, FreshArms
    <2>3. Rejected(seen, j, prev, bar) = Rejections(S, j, prev, bar)
        BY <1>2 DEF Rejected, S
    <2> QED
        BY <1>1, <2>1, <2>2, <2>3 DEF S, A
<1>3. CASE ~bar.ready
    <2>1. Triggered([setups |-> S, arms |-> A], j, prev, bar) = [setups |-> S, arms |-> A]
        BY <1>3 DEF Triggered
    <2>2. Fresh(j, bar) = {} /\ FreshArms(j, bar) = {} /\ Rejected(seen, j, prev, bar) = {}
        BY <1>3 DEF Fresh, FreshArms, Rejected
    <2> QED
        BY <1>1, <2>1, <2>2 DEF S, A
<1> QED
    BY <1>2, <1>3

\* What is known of a setup and an arm that a replay from s on has at bar n.
IsKnown(d, b, s, n) ==
    /\ IsSetup(d) /\ IsBorn(d, b) /\ d.trigger > s /\ d.created <= n /\ FollowsStory(d, b, n)

SeenIs(seen, b, s, n) ==
    /\ \A d \in seen.setups : IsKnown(d, b, s, n)
    /\ \A a \in seen.arms : IsWaiting(a, b, n) /\ a.created > s

\* A new setup of a trigger.
LEMMA FreshIsKnown ==
    ASSUME NEW b, NEW s \in Nat, NEW j \in Nat, j > s, NEW d \in Fresh(j, b[j])
    PROVE  IsKnown(d, b, s, j) /\ d.type # "range_rejection"
<1>1. CASE \E break \in Bos(b[j]) : d = Breakout(break, j)
    <2>1. PICK break \in Bos(b[j]) : d = Breakout(break, j)
        BY <1>1
    <2>2. d = NewSetup("breakout", break.direction, j, break.level, j, break.level, break.level)
        BY <2>1 DEF Breakout
    <2>3. /\ IsSetup(d) /\ d.type = "breakout" /\ d.trigger = j /\ d.created = j
          /\ d.level = break.level /\ d.fail = break.level /\ d.pass = break.level
          /\ FollowsStory(d, b, j)
        BY <2>2, NewFollowsStory
    <2> QED
        BY <2>3 DEF IsKnown, IsBorn
<1>2. CASE \E sweep \in b[j].sweeps : d = Sweep(sweep, j, b[j])
    <2>1. PICK sweep \in b[j].sweeps : d = Sweep(sweep, j, b[j])
        BY <1>2
    <2> DEFINE direction == IF sweep.side = "buy" THEN -1 ELSE 1
    <2>2. d = NewSetup("sweep_reversal", direction, j, sweep.level, j,
                       Far(-direction, b[j]), Far(direction, b[j]))
        BY <2>1 DEF Sweep
    <2> HIDE DEF direction
    <2>3. /\ IsSetup(d) /\ d.type = "sweep_reversal" /\ d.trigger = j /\ d.created = j
          /\ d.direction = direction /\ d.fail = Far(-direction, b[j]) /\ d.pass = Far(direction, b[j])
          /\ FollowsStory(d, b, j)
        BY <2>2, NewFollowsStory
    <2> QED
        BY <2>3 DEF IsKnown, IsBorn
<1> QED
    BY <1>1, <1>2 DEF Fresh

LEMMA RejectionIsKnown ==
    ASSUME NEW b, NEW s \in Nat, NEW j \in Nat, j > s, NEW all, NEW prev,
           NEW d \in Rejections(all, j, prev, b[j])
    PROVE  IsKnown(d, b, s, j) /\ d.type = "range_rejection"
<1>1. PICK side \in {<<-1, Top(prev)>>, <<1, Bottom(prev)>>} :
           d = NewSetup("range_rejection", side[1], j, side[2], j, side[2], Far(side[1], b[j]))
    BY DEF Rejections
<1>2. /\ IsSetup(d) /\ d.type = "range_rejection" /\ d.trigger = j /\ d.created = j
      /\ d.direction = side[1] /\ d.level = side[2] /\ d.fail = side[2] /\ d.pass = Far(side[1], b[j])
      /\ FollowsStory(d, b, j)
    BY <1>1, NewFollowsStory
<1> QED
    BY <1>2 DEF IsKnown, IsBorn

\* A known setup is known after its step.
LEMMA StepIsKnown ==
    ASSUME NEW b, NEW s \in Nat, NEW j \in Nat, j > s, NEW d, IsKnown(d, b, s, j - 1)
    PROVE  IsKnown(Step(d, j, b[j]), b, s, j)
<1>1. /\ IsSetup(d) /\ IsBorn(d, b) /\ d.trigger > s /\ d.created <= j - 1 /\ FollowsStory(d, b, j - 1)
    BY DEF IsKnown
<1>2. d.created \in Nat /\ d.created < j
    BY <1>1 DEF IsBorn
<1>3. FollowsStory(Step(d, j, b[j]), b, j)
    BY <1>1, <1>2, StepStory
<1>4. IsSetup(Step(d, j, b[j])) /\ Same(Step(d, j, b[j]), d)
    BY <1>1, StepKeeps
<1>5. IsBorn(Step(d, j, b[j]), b)
    BY <1>1, <1>4, SameBorn
<1> QED
    BY <1>1, <1>2, <1>3, <1>4, <1>5 DEF IsKnown, Same

LEMMA BarSeen ==
    ASSUME NEW b, NEW s \in Nat, NEW j \in Nat, j > s, NEW seen, SeenIs(seen, b, s, j - 1), NEW prev
    PROVE  SeenIs(ReplayBar(seen, j, prev, b[j]), b, s, j)
<1> DEFINE next == ReplayBar(seen, j, prev, b[j])
<1>1. ASSUME NEW d \in next.setups PROVE IsKnown(d, b, s, j)
    <2>1. d \in Stepped(seen, j, b[j]) \cup Fresh(j, b[j]) \cup Rejected(seen, j, prev, b[j])
        BY <1>1, ReplayBarIs
    <2>2. CASE \E e \in seen.setups : d = Step(e, j, b[j])
        <3>1. PICK e \in seen.setups : d = Step(e, j, b[j])
            BY <2>2
        <3>2. IsKnown(e, b, s, j - 1)
            BY DEF SeenIs
        <3> QED
            BY <3>1, <3>2, StepIsKnown
    <2>3. CASE \E a \in seen.arms : Touched(a, j, b[j]) /\ d = Pullback(a, j, b[j])
        <3>1. PICK a \in seen.arms : Touched(a, j, b[j]) /\ d = Pullback(a, j, b[j])
            BY <2>3
        <3>2. IsWaiting(a, b, j - 1) /\ a.created > s
            BY DEF SeenIs
        <3>3. IsSetup(d) /\ IsBorn(d, b) /\ FollowsStory(d, b, j) /\ d.trigger = a.created /\ d.created = j
            <4>1. IsTouched(a, b, j, d)
                BY <3>1, <3>2 DEF IsTouched
            <4> QED
                BY <4>1, TouchedIsBorn
        <3> QED
            BY <3>2, <3>3 DEF IsKnown
    <2>4. CASE d \in Fresh(j, b[j])
        BY <2>4, FreshIsKnown
    <2>5. CASE d \in Rejected(seen, j, prev, b[j])
        <3>1. d \in Rejections(Stepped(seen, j, b[j]), j, prev, b[j])
            BY <2>5 DEF Rejected
        <3> QED
            BY <3>1, RejectionIsKnown
    <2> QED
        BY <2>1, <2>2, <2>3, <2>4, <2>5 DEF Stepped
<1>2. ASSUME NEW a \in next.arms PROVE IsWaiting(a, b, j) /\ a.created > s
    <2>1. a \in KeptArms(seen.arms, j, b[j]) \cup FreshArms(j, b[j])
        BY <1>2, ReplayBarIs
    <2>2. CASE a \in KeptArms(seen.arms, j, b[j])
        <3>1. PICK x \in seen.arms :
                  /\ ~Touched(x, j, b[j]) /\ j - x.created <= TTL /\ ~ArmLost(x, b[j])
                  /\ a = [x EXCEPT !.departed = @ \/ Departs(x.direction, x.level, b[j])]
            BY <2>2 DEF KeptArms
        <3>2. IsWaiting(x, b, j - 1) /\ x.created > s
            BY DEF SeenIs
        <3>3. IsWaiting(a, b, j) /\ a.created = x.created
            BY <3>1, <3>2, ArmsKept
        <3> QED
            BY <3>2, <3>3
    <2>3. CASE a \in FreshArms(j, b[j])
        <3>1. PICK break \in Bos(b[j]) : a = NewArm(break, j, b[j])
            BY <2>3 DEF FreshArms
        <3> QED
            BY <3>1, NewArmWaits
    <2> QED
        BY <2>1, <2>2, <2>3
<1> HIDE DEF next
<1>3. SeenIs(next, b, s, j)
    BY <1>1, <1>2 DEF SeenIs
<1> QED
    BY <1>3 DEF next

LEMMA ReplaySeen ==
    ASSUME NEW b, NEW s \in Nat, NEW m \in Nat, NEW R, IsReplay(R, b, s, m)
    PROVE  \A j \in s..m : SeenIs(R[j], b, s, j)
<1> DEFINE Good == {j \in Nat : SeenIs(R[j], b, s, j)}
<1>1. s \in Good
    <2>1. NothingSeen.setups = {} /\ NothingSeen.arms = {}
        BY DEF NothingSeen
    <2> QED
        BY <2>1 DEF IsReplay, SeenIs
<1>2. ASSUME NEW j \in (s + 1)..m, j - 1 \in Good PROVE j \in Good
    <2>1. j \in Nat /\ j > s
        OBVIOUS
    <2>2. R[j] = ReplayBar(R[j - 1], j, b[j - 1], b[j])
        BY DEF IsReplay
    <2>3. SeenIs(R[j - 1], b, s, j - 1)
        BY <1>2
    <2>4. SeenIs(R[j], b, s, j)
        BY <2>1, <2>2, <2>3, BarSeen
    <2> QED
        BY <2>1, <2>4
<1> HIDE DEF Good
<1>3. \A j \in s..m : j \in Good
    BY <1>1, <1>2, BarInduction
<1> QED
    BY <1>3 DEF Good

-----------------------------------------------------------------------------
(* Two replays of different windows.                                        *)

\* What x has of triggers after t, y has too, except for range rejections.
Within(x, y, t) ==
    /\ \A d \in x.setups : d.type # "range_rejection" /\ d.trigger > t => d \in y.setups
    /\ \A a \in x.arms : a.created > t => a \in y.arms

LEMMA BarWithin ==
    ASSUME NEW b, NEW s \in Nat, NEW t \in Nat, NEW j \in Nat, j > s,
           NEW x, SeenIs(x, b, s, j - 1), NEW y, Within(x, y, t), NEW prev
    PROVE  Within(ReplayBar(x, j, prev, b[j]), ReplayBar(y, j, prev, b[j]), t)
<1> DEFINE p == ReplayBar(x, j, prev, b[j])
           q == ReplayBar(y, j, prev, b[j])
<1>1. ASSUME NEW d \in p.setups, d.type # "range_rejection", d.trigger > t PROVE d \in q.setups
    <2>1. d \in Stepped(x, j, b[j]) \cup Fresh(j, b[j]) \cup Rejected(x, j, prev, b[j])
        BY <1>1, ReplayBarIs
    <2>2. \A z : z \in Stepped(y, j, b[j]) \cup Fresh(j, b[j]) => z \in q.setups
        BY ReplayBarIs
    <2> HIDE DEF p, q
    <2>3. CASE \E e \in x.setups : d = Step(e, j, b[j])
        <3>1. PICK e \in x.setups : d = Step(e, j, b[j])
            BY <2>3
        <3>2. IsSetup(e)
            BY DEF SeenIs, IsKnown
        <3>3. d.type = e.type /\ d.trigger = e.trigger
            BY <3>1, <3>2, StepKeeps DEF Same
        <3>4. e \in y.setups
            BY <1>1, <3>3 DEF Within
        <3> QED
            BY <2>2, <3>1, <3>4 DEF Stepped
    <2>4. CASE \E a \in x.arms : Touched(a, j, b[j]) /\ d = Pullback(a, j, b[j])
        <3>1. PICK a \in x.arms : Touched(a, j, b[j]) /\ d = Pullback(a, j, b[j])
            BY <2>4
        <3>2. IsWaiting(a, b, j - 1)
            BY DEF SeenIs
        <3>3. d.trigger = a.created
            <4>1. IsTouched(a, b, j, d)
                BY <3>1, <3>2 DEF IsTouched
            <4> QED
                BY <4>1, TouchedIsBorn
        <3>4. a \in y.arms
            BY <1>1, <3>1, <3>3 DEF Within
        <3> QED
            BY <2>2, <3>1, <3>4 DEF Stepped
    <2>5. CASE d \in Fresh(j, b[j])
        BY <2>2, <2>5
    <2>6. CASE d \in Rejected(x, j, prev, b[j])
        <3>1. d \in Rejections(Stepped(x, j, b[j]), j, prev, b[j])
            BY <2>6 DEF Rejected
        <3>2. d.type = "range_rejection"
            BY <3>1, RejectionIsKnown
        <3> QED
            BY <1>1, <3>2
    <2> QED
        BY <2>1, <2>3, <2>4, <2>5, <2>6 DEF Stepped
<1>2. ASSUME NEW a \in p.arms, a.created > t PROVE a \in q.arms
    <2>1. a \in KeptArms(x.arms, j, b[j]) \cup FreshArms(j, b[j])
        BY <1>2, ReplayBarIs
    <2>2. \A z : z \in KeptArms(y.arms, j, b[j]) \cup FreshArms(j, b[j]) => z \in q.arms
        BY ReplayBarIs
    <2> HIDE DEF p, q
    <2>3. CASE a \in KeptArms(x.arms, j, b[j])
        <3>1. PICK e \in x.arms :
                  /\ ~Touched(e, j, b[j]) /\ j - e.created <= TTL /\ ~ArmLost(e, b[j])
                  /\ a = [e EXCEPT !.departed = @ \/ Departs(e.direction, e.level, b[j])]
            BY <2>3 DEF KeptArms
        <3>2. IsWaiting(e, b, j - 1)
            BY DEF SeenIs
        <3>3. a.created = e.created
            BY <3>1, <3>2, ArmsKept
        <3>4. e \in y.arms
            BY <1>2, <3>3 DEF Within
        <3>5. a \in KeptArms(y.arms, j, b[j])
            BY <3>1, <3>4 DEF KeptArms
        <3> QED
            BY <2>2, <3>5
    <2>4. CASE a \in FreshArms(j, b[j])
        BY <2>2, <2>4
    <2> QED
        BY <2>1, <2>3, <2>4
<1> HIDE DEF p, q
<1>3. Within(p, q, t)
    BY <1>1, <1>2 DEF Within
<1> QED
    BY <1>3 DEF p, q

\* The replay that begins later has the setups of its triggers too.
LEMMA LaterReplayHas ==
    ASSUME NEW b, NEW s \in Nat, NEW t \in Nat, s <= t, NEW m \in Nat, t <= m,
           NEW R, IsReplay(R, b, s, m), NEW Q, IsReplay(Q, b, t, m)
    PROVE  \A j \in t..m : Within(R[j], Q[j], t)
<1> DEFINE Good == {j \in Nat : Within(R[j], Q[j], t)}
<1>1. t \in Good
    <2>1. SeenIs(R[t], b, s, t)
        BY ReplaySeen
    <2>2. \A d \in R[t].setups : ~(d.trigger > t)
        BY <2>1 DEF SeenIs, IsKnown, IsBorn
    <2>3. \A a \in R[t].arms : ~(a.created > t)
        BY <2>1 DEF SeenIs, IsWaiting
    <2> QED
        BY <2>2, <2>3 DEF Within
<1>2. ASSUME NEW j \in (t + 1)..m, j - 1 \in Good PROVE j \in Good
    <2>1. j \in Nat /\ j > s /\ j \in (s + 1)..m /\ j - 1 \in s..m
        OBVIOUS
    <2>2. R[j] = ReplayBar(R[j - 1], j, b[j - 1], b[j]) /\ Q[j] = ReplayBar(Q[j - 1], j, b[j - 1], b[j])
        BY <2>1 DEF IsReplay
    <2>3. SeenIs(R[j - 1], b, s, j - 1)
        BY <2>1, ReplaySeen
    <2>4. Within(R[j - 1], Q[j - 1], t)
        BY <1>2
    <2>5. Within(R[j], Q[j], t)
        BY <2>1, <2>2, <2>3, <2>4, BarWithin
    <2> QED
        BY <2>1, <2>5
<1> HIDE DEF Good
<1>3. \A j \in t..m : j \in Good
    BY <1>1, <1>2, BarInduction
<1> QED
    BY <1>3 DEF Good

\* A setup stays in the replay.
LEMMA SetupsStay ==
    ASSUME NEW b, NEW s \in Nat, NEW m \in Nat, NEW R, IsReplay(R, b, s, m),
           NEW j \in s..m, NEW d \in R[j].setups
    PROVE  \A n \in j..m : \E e \in R[n].setups : Same(e, d)
<1> DEFINE Good == {n \in Nat : \E e \in R[n].setups : Same(e, d)}
<1>1. j \in Good
    BY DEF Same
<1>2. ASSUME NEW n \in (j + 1)..m, n - 1 \in Good PROVE n \in Good
    <2>1. n \in (s + 1)..m /\ n - 1 \in s..m /\ n \in Nat
        OBVIOUS
    <2>2. PICK e \in R[n - 1].setups : Same(e, d)
        BY <1>2
    <2>3. IsSetup(e)
        BY <2>1, ReplaySeen DEF SeenIs, IsKnown
    <2>4. Step(e, n, b[n]) \in R[n].setups
        <3>1. R[n] = ReplayBar(R[n - 1], n, b[n - 1], b[n])
            BY <2>1 DEF IsReplay
        <3> QED
            BY <3>1, ReplayBarIs DEF Stepped
    <2>5. Same(Step(e, n, b[n]), e)
        BY <2>1, <2>3, StepKeeps
    <2>6. Same(Step(e, n, b[n]), d)
        BY <2>2, <2>5 DEF Same
    <2> QED
        BY <2>1, <2>4, <2>6
<1> HIDE DEF Good
<1>3. j \in Nat
    OBVIOUS
<1>4. \A n \in j..m : n \in Good
    BY <1>1, <1>2, <1>3, BarInduction
<1> QED
    BY <1>4 DEF Good

\* Its log is only extended.
LEMMA LongerIsPrefix ==
    ASSUME NEW S, NEW s \in Seq(S), NEW x \in S, NEW y \in S
    PROVE  /\ IsPrefix(s, s) /\ IsPrefix(s, Append(s, x))
           /\ IsPrefix(s, Append(Append(s, x), y))
<1>1. ASSUME NEW t \in Seq(S), Len(s) <= Len(t), \A i \in 1..Len(s) : t[i] = s[i]
      PROVE  IsPrefix(s, t)
    <2>1. SubSeq(s, 1, Len(s)) = SubSeq(t, 1, Len(s))
        <3>1. Len(s) \in Nat
            OBVIOUS
        <3>2. /\ SubSeq(s, 1, Len(s)) = [i \in 1..Len(s) |-> s[i]]
              /\ SubSeq(t, 1, Len(s)) = [i \in 1..Len(s) |-> t[i]]
            BY <1>1, <3>1
        <3> QED
            BY <1>1, <3>2
    <2> QED
        BY <1>1, <2>1 DEF IsPrefix
<1>2. \A t \in Seq(S), z \in S :
         /\ Append(t, z) \in Seq(S) /\ Len(Append(t, z)) = Len(t) + 1
         /\ \A i \in 1..Len(t) : Append(t, z)[i] = t[i]
    OBVIOUS
<1>3. IsPrefix(s, s)
    BY <1>1
<1>4. IsPrefix(s, Append(s, x))
    <2> DEFINE t == Append(s, x)
    <2>1. t \in Seq(S) /\ Len(t) = Len(s) + 1 /\ Len(s) \in Nat /\ \A i \in 1..Len(s) : t[i] = s[i]
        BY <1>2
    <2> HIDE DEF t
    <2>2. IsPrefix(s, t)
        BY <1>1, <2>1
    <2> QED
        BY <2>2 DEF t
<1>5. IsPrefix(s, Append(Append(s, x), y))
    <2> DEFINE t == Append(s, x)
    <2>1. t \in Seq(S) /\ Len(t) = Len(s) + 1 /\ \A i \in 1..Len(s) : t[i] = s[i]
        BY <1>2
    <2> HIDE DEF t
    <2>2. /\ Append(t, y) \in Seq(S) /\ Len(Append(t, y)) = Len(t) + 1
          /\ \A i \in 1..Len(t) : Append(t, y)[i] = t[i]
        BY <1>2, <2>1
    <2>3. Len(s) \in Nat
        OBVIOUS
    <2>4. Len(s) <= Len(Append(t, y)) /\ \A i \in 1..Len(s) : Append(t, y)[i] = s[i]
        BY <2>1, <2>2, <2>3
    <2>5. IsPrefix(s, Append(t, y))
        BY <1>1, <2>2, <2>4
    <2> QED
        BY <2>5 DEF t
<1> QED
    BY <1>3, <1>4, <1>5

LEMMA StepExtends ==
    ASSUME NEW d, IsSetup(d), NEW j \in Nat, NEW bar
    PROVE  IsPrefix(d.log, Step(d, j, bar).log)
<1> DEFINE Mark(status) == [status |-> status, at |-> j]
<1>1. \A status \in {"confirmed", "invalidated", "expired"} : Mark(status) \in Records
    BY DEF Records
<1>2. \A e, status : IsSetup(e) => To(e, status, j).log = Append(e.log, Mark(status))
    BY DEF To, IsSetup
<1>3. IsSetup(Held(d)) /\ Held(d).log = d.log
    BY HeldKeeps
<1>4. Confirmed(d, j, bar).log \in {d.log, Append(d.log, Mark("confirmed"))}
    BY <1>2, <1>3 DEF Confirmed
<1>5. IsSetup(Confirmed(d, j, bar))
    BY ConfirmedKeeps
<1>6. To(Confirmed(d, j, bar), "expired", j).log
        \in {Append(d.log, Mark("expired")), Append(Append(d.log, Mark("confirmed")), Mark("expired"))}
    BY <1>2, <1>4, <1>5
<1>7. To(d, "invalidated", j).log = Append(d.log, Mark("invalidated"))
    BY <1>2
<1> HIDE DEF Mark
<1>8. Step(d, j, bar) \in {d, To(d, "invalidated", j), To(Confirmed(d, j, bar), "expired", j),
                           Confirmed(d, j, bar)}
    BY StepCases
<1>9. Step(d, j, bar).log
        \in {d.log, Append(d.log, Mark("confirmed")), Append(d.log, Mark("invalidated")),
             Append(d.log, Mark("expired")), Append(Append(d.log, Mark("confirmed")), Mark("expired"))}
    BY <1>4, <1>6, <1>7, <1>8
<1>10. d.log \in Seq(Records)
    BY DEF IsSetup
<1> QED
    BY <1>1, <1>9, <1>10, LongerIsPrefix

-----------------------------------------------------------------------------
(* Snapshots.                                                               *)

LEMMA ShownIs ==
    ASSUME NEW b, NEW n \in Nat, n >= RequiredBars, NEW R, IsReplay(R, b, Origin(n), n)
    PROVE  /\ Origin(n) \in Nat /\ Origin(n) >= 1 /\ Origin(n) < n
           /\ Shown(b, n) = {d \in R[n].setups : d.created >= Horizon(n)}
<1>1. Origin(n) \in Nat /\ Origin(n) >= 1 /\ Replayed(b, n) = R[n]
    BY ReplayedIs
<1>2. Origin(n) < n
    BY WindowSize DEF Origin
<1>3. n \in Int /\ RequiredBars \in Int
    BY WindowSize
<1>4. ~(n < RequiredBars)
    BY <1>3
<1> QED
    BY <1>1, <1>2, <1>4 DEF Shown

LEMMA WindowReplay ==
    ASSUME NEW b, NEW n \in Nat, n >= RequiredBars
    PROVE  Origin(n) \in Nat /\ Origin(n) >= 1 /\ Origin(n) < n /\ \E R : IsReplay(R, b, Origin(n), n)
<1>1. Origin(n) \in Nat /\ Origin(n) >= 1 /\ Origin(n) < n
    BY WindowSize DEF Origin
<1> QED
    BY <1>1, ReplayExists

LEMMA ShownIsKnown ==
    ASSUME NEW b, NEW n \in Nat, NEW d \in Shown(b, n)
    PROVE  /\ n >= RequiredBars /\ Origin(n) \in Nat /\ Origin(n) >= 1
           /\ IsKnown(d, b, Origin(n), n) /\ d.created >= Horizon(n)
<1>1. n >= RequiredBars
    BY WindowSize DEF Shown
<1>2. PICK R : IsReplay(R, b, Origin(n), n)
    BY <1>1, WindowReplay
<1>3. Origin(n) \in Nat /\ Origin(n) >= 1 /\ Origin(n) < n /\ d \in R[n].setups /\ d.created >= Horizon(n)
    BY <1>1, <1>2, ShownIs
<1>4. n \in Origin(n)..n
    BY <1>3
<1>5. SeenIs(R[n], b, Origin(n), n)
    BY <1>2, <1>3, <1>4, ReplaySeen
<1> QED
    BY <1>1, <1>3, <1>5 DEF SeenIs

\* A new bar changes no earlier snapshot.
LEMMA ShownStays ==
    ASSUME NEW b, NEW c, NEW n \in Nat, \A j \in 1..n : b[j] = c[j]
    PROVE  Shown(b, n) = Shown(c, n)
<1>1. CASE n < RequiredBars
    BY <1>1 DEF Shown
<1>2. CASE n >= RequiredBars
    <2>1. PICK R : IsReplay(R, b, Origin(n), n)
        BY <1>2, WindowReplay
    <2>2. PICK Q : IsReplay(Q, c, Origin(n), n)
        BY <1>2, WindowReplay
    <2>3. Origin(n) \in Nat /\ Origin(n) >= 1 /\ Origin(n) < n
        BY <1>2, WindowReplay
    <2>4. \A j \in Origin(n)..n : b[j] = c[j]
        BY <2>3
    <2>5. n \in Origin(n)..n
        BY <2>3
    <2>6. R[n] = Q[n]
        BY <2>1, <2>2, <2>3, <2>4, <2>5, ReplayIsUnique
    <2>7. Shown(b, n) = {d \in R[n].setups : d.created >= Horizon(n)}
        BY <1>2, <2>1, ShownIs
    <2>8. Shown(c, n) = {d \in Q[n].setups : d.created >= Horizon(n)}
        BY <1>2, <2>2, ShownIs
    <2> QED
        BY <2>6, <2>7, <2>8
<1> QED
    BY <1>1, <1>2, WindowSize

\* The trigger of a setup that is recent enough lies in the window.
LEMMA TriggerInWindow ==
    ASSUME NEW d, NEW b, IsBorn(d, b), NEW n \in Nat, d.created >= Horizon(n)
    PROVE  d.trigger > Origin(n)
<1>1. TTL \in Nat /\ RecentClosed \in Nat
    BY SetupConfigAssumption
<1>2. d.trigger \in Nat /\ d.created \in Nat /\ d.created - d.trigger <= TTL
    BY <1>1 DEF IsBorn, IsFirstReturn
<1> QED
    BY <1>1, <1>2 DEF Origin, Horizon, LookbackBars

\* A setup of an earlier snapshot that is recent enough is in a later one.
LEMMA ShownPersists ==
    ASSUME NEW b, NEW m \in Nat, NEW n \in Nat, m <= n, NEW d \in Shown(b, m),
           d.type # "range_rejection", d.created >= Horizon(n)
    PROVE  \E e \in Shown(b, n) : Same(e, d)
<1>1. m >= RequiredBars /\ IsKnown(d, b, Origin(m), m)
    BY ShownIsKnown
<1>2. n >= RequiredBars
    BY <1>1, WindowSize
<1>3. /\ Origin(m) \in Nat /\ Origin(m) < m /\ Origin(n) \in Nat /\ Origin(n) < n
      /\ Origin(m) <= Origin(n)
    BY <1>1, <1>2, WindowReplay, WindowSize DEF Origin
<1>4. PICK R : IsReplay(R, b, Origin(m), n)
    BY <1>3, ReplayExists
<1>5. PICK Q : IsReplay(Q, b, Origin(n), n)
    BY <1>3, ReplayExists
<1>6. d \in R[m].setups
    <2>1. IsReplay(R, b, Origin(m), m)
        <3>1. m \in Origin(m)..n
            BY <1>3
        <3> QED
            BY <1>3, <1>4, <3>1, ReplayPart
    <2> QED
        BY <1>1, <2>1, ShownIs
<1>7. PICK e \in R[n].setups : Same(e, d)
    <2>1. m \in Origin(m)..n /\ n \in m..n
        BY <1>3
    <2> QED
        BY <1>3, <1>4, <1>6, <2>1, SetupsStay
<1>8. IsBorn(e, b)
    BY <1>1, <1>7, SameBorn DEF IsKnown
<1>9. e.trigger > Origin(n)
    BY <1>7, <1>8, TriggerInWindow DEF Same
<1>10. Within(R[n], Q[n], Origin(n))
    <2>1. n \in Origin(n)..n
        BY <1>3
    <2> QED
        BY <1>3, <1>4, <1>5, <2>1, LaterReplayHas
<1>11. e \in Q[n].setups
    BY <1>7, <1>9, <1>10 DEF Within, Same
<1>12. e \in Shown(b, n)
    BY <1>2, <1>5, <1>7, <1>11, ShownIs DEF Same
<1> QED
    BY <1>7, <1>12

\* And with its log extended, in the next one.
LEMMA ShownNext ==
    ASSUME NEW b, NEW n \in Nat, NEW k \in Nat, k = n + 1, NEW d \in Shown(b, n),
           d.type # "range_rejection", d.created >= Horizon(k)
    PROVE  \E e \in Shown(b, k) : Same(e, d) /\ IsPrefix(d.log, e.log)
<1>1. n >= RequiredBars /\ IsKnown(d, b, Origin(n), n)
    BY ShownIsKnown
<1>2. k >= RequiredBars
    BY <1>1, WindowSize
<1>3. /\ Origin(n) \in Nat /\ Origin(n) < n /\ Origin(k) \in Nat /\ Origin(k) < k
      /\ Origin(n) <= Origin(k) /\ Origin(n) <= k /\ Origin(k) <= k
    BY <1>1, <1>2, WindowReplay, WindowSize DEF Origin
<1>4. PICK R : IsReplay(R, b, Origin(n), k)
    BY <1>3, ReplayExists
<1>5. PICK Q : IsReplay(Q, b, Origin(k), k)
    BY <1>3, ReplayExists
<1>6. d \in R[n].setups
    <2>1. IsReplay(R, b, Origin(n), n)
        <3>1. n \in Origin(n)..(k)
            BY <1>3
        <3> QED
            BY <1>3, <1>4, <3>1, ReplayPart
    <2> QED
        BY <1>1, <2>1, ShownIs
<1> DEFINE e == Step(d, k, b[k])
<1>7. e \in R[k].setups
    <2>1. k \in (Origin(n) + 1)..(k) /\ k - 1 = n
        BY <1>3
    <2>2. R[k] = ReplayBar(R[n], k, b[n], b[k])
        BY <1>4, <2>1 DEF IsReplay
    <2> QED
        BY <1>6, <2>2, ReplayBarIs DEF Stepped
<1>8. Same(e, d) /\ IsPrefix(d.log, e.log)
    BY <1>1, <1>2, StepKeeps, StepExtends DEF IsKnown
<1> HIDE DEF e
<1>9. IsBorn(e, b)
    BY <1>1, <1>8, SameBorn DEF IsKnown
<1>10. e.trigger > Origin(k)
    BY <1>2, <1>8, <1>9, TriggerInWindow DEF Same
<1>11. Within(R[k], Q[k], Origin(k))
    <2>1. k \in Origin(k)..(k)
        BY <1>3
    <2> QED
        BY <1>2, <1>3, <1>4, <1>5, <2>1, LaterReplayHas
<1>12. e \in Q[k].setups
    BY <1>7, <1>8, <1>10, <1>11 DEF Within, Same
<1>13. e \in Shown(b, k)
    BY <1>2, <1>5, <1>8, <1>12, ShownIs DEF Same
<1> QED
    BY <1>8, <1>13

-----------------------------------------------------------------------------
(* A name and the bars fix a setup, and the bars fix its history.           *)

\* Of two first returns to the same level neither is the earlier one.
LEMMA OneFirstReturn ==
    ASSUME NEW d, NEW e, NEW b, d.trigger \in Nat, d.created \in Nat, e.created \in Nat,
           IsFirstReturn(d, b), IsFirstReturn(e, b),
           d.trigger = e.trigger, d.direction = e.direction, d.level = e.level
    PROVE  ~(d.created < e.created)
<1> SUFFICES ASSUME d.created < e.created PROVE FALSE
    OBVIOUS
<1>1. PICK i \in LeftAt(d, b) : TRUE
    BY DEF IsFirstReturn
<1>2. i \in d.trigger..(d.created - 1) /\ Departs(d.direction, d.level, b[i])
    BY <1>1 DEF LeftAt
<1>3. i \in LeftAt(e, b)
    BY <1>2 DEF LeftAt
<1>4. /\ d.created \in (d.trigger + 1)..d.created /\ d.created \in (e.trigger + 1)..e.created
      /\ i < d.created
    BY <1>2
<1>5. Back(d, b, d.created)
    BY <1>1, <1>4 DEF IsFirstReturn
<1>6. ~Back(e, b, d.created)
    BY <1>3, <1>4 DEF IsFirstReturn
<1> QED
    BY <1>5, <1>6 DEF Back

LEMMA NameFixesSetup ==
    ASSUME NEW d, NEW e, NEW b, IsBorn(d, b), IsBorn(e, b), Id(d) = Id(e)
    PROVE  Same(d, e)
<1>1. d.type = e.type /\ d.direction = e.direction /\ d.trigger = e.trigger /\ d.level = e.level
    <2> DEFINE p == Id(d)
               q == Id(e)
    <2>1. p.type = q.type /\ p.direction = q.direction /\ p.trigger = q.trigger /\ p.level = q.level
        OBVIOUS
    <2> QED
        BY <2>1 DEF Id
<1>2. d.created = e.created
    <2>1. CASE d.type # "pullback"
        BY <1>1, <2>1 DEF IsBorn
    <2>2. CASE d.type = "pullback"
        <3>1. /\ d.trigger \in Nat /\ d.created \in Nat /\ e.created \in Nat
              /\ IsFirstReturn(d, b) /\ IsFirstReturn(e, b)
            BY <1>1, <2>2 DEF IsBorn
        <3>2. ~(d.created < e.created) /\ ~(e.created < d.created)
            BY <1>1, <3>1, OneFirstReturn
        <3> QED
            BY <3>1, <3>2
    <2> QED
        BY <2>1, <2>2
<1>3. d.fail = e.fail /\ d.pass = e.pass
    BY <1>1, <1>2 DEF IsBorn
<1> QED
    BY <1>1, <1>2, <1>3 DEF Same

\* What had happened by n is what has happened by m, up to n.
LEMMA LifeCut ==
    ASSUME NEW d, d.created \in Nat, NEW b, NEW n \in Nat, NEW m \in Nat, n <= m
    PROVE  /\ LostBy(d, b, n) = {j \in LostBy(d, b, m) : j <= n}
           /\ PassedBy(d, b, n) = {j \in PassedBy(d, b, m) : j <= n}
<1>1. (d.created + 1)..n = {j \in (d.created + 1)..m : j <= n}
    OBVIOUS
<1>2. LostBy(d, b, n) = {j \in LostBy(d, b, m) : j <= n}
    BY <1>1 DEF LostBy
<1>3. \A i \in LostBy(d, b, m) : i \in Nat
    BY DEF LostBy
<1>4. ASSUME NEW j \in (d.created + 1)..n
      PROVE  (\A i \in LostBy(d, b, n) : j < i) <=> (\A i \in LostBy(d, b, m) : j < i)
    <2>1. j \in Nat /\ j <= n
        OBVIOUS
    <2>2. \A i \in LostBy(d, b, m) : ~(i <= n) => j < i
        BY <1>3, <2>1
    <2> QED
        BY <1>2, <2>2
<1> QED
    BY <1>1, <1>2, <1>4 DEF PassedBy

LEMMA StoryHas ==
    ASSUME NEW d, NEW b, NEW n, NEW f \in Story(d, b, n)
    PROVE  /\ f = [status |-> f.status, at |-> f.at]
           /\ \/ f.status = "candidate" /\ f.at = d.created
              \/ f.status = "confirmed" /\ f.at \in First(PassedBy(d, b, n))
              \/ f.status = "invalidated" /\ f.at \in First(LostBy(d, b, n))
              \/ f.status = "expired" /\ f.at \in Ends(d, b, n)
<1>1. \A status, S : f \in At(status, S)
          => f = [status |-> f.status, at |-> f.at] /\ f.status = status /\ f.at \in S
    BY DEF At
<1>2. \/ f \in At("candidate", {d.created}) \/ f \in At("confirmed", First(PassedBy(d, b, n)))
      \/ f \in At("invalidated", First(LostBy(d, b, n))) \/ f \in At("expired", Ends(d, b, n))
    BY DEF Story
<1>3. CASE f \in At("candidate", {d.created})
    BY <1>1, <1>3
<1>4. CASE f \in At("confirmed", First(PassedBy(d, b, n)))
    BY <1>1, <1>4
<1>5. CASE f \in At("invalidated", First(LostBy(d, b, n)))
    BY <1>1, <1>5
<1>6. CASE f \in At("expired", Ends(d, b, n))
    BY <1>1, <1>6
<1> QED
    BY <1>2, <1>3, <1>4, <1>5, <1>6

\* What has happened stays, and it happens once.
LEMMA StoryStays ==
    ASSUME NEW d, d.created \in Nat, NEW b, NEW n \in Nat, NEW m \in Nat, n <= m
    PROVE  Story(d, b, n) \subseteq Story(d, b, m)
<1>1. ASSUME NEW S \in SUBSET Nat PROVE First({j \in S : j <= n}) \subseteq First(S)
    <2> SUFFICES ASSUME NEW p \in First({j \in S : j <= n}), NEW i \in S PROVE p \in S /\ p <= i
        BY DEF First
    <2>1. p \in S /\ p <= n /\ (i <= n => p <= i)
        BY DEF First
    <2>2. i \in Nat /\ p \in Nat
        BY <2>1
    <2> QED
        BY <2>1, <2>2
<1>2. LostBy(d, b, m) \in SUBSET Nat /\ PassedBy(d, b, m) \in SUBSET Nat
    BY DEF LostBy, PassedBy
<1>3. /\ First(LostBy(d, b, n)) \subseteq First(LostBy(d, b, m))
      /\ First(PassedBy(d, b, n)) \subseteq First(PassedBy(d, b, m))
    BY <1>1, <1>2, LifeCut
<1>4. Ends(d, b, n) \subseteq Ends(d, b, m)
    <2> SUFFICES ASSUME LostBy(d, b, n) = {}, d.created + TTL <= n
                 PROVE  LostBy(d, b, m) = {} /\ d.created + TTL <= m
        BY DEF Ends
    <2>1. d.created + TTL \in Nat
        BY SetupConfigAssumption
    <2>2. \A j \in LostBy(d, b, m) : j \in Nat /\ j <= d.created + TTL
        BY DEF LostBy
    <2>3. \A j \in LostBy(d, b, m) : j <= n
        BY <2>1, <2>2
    <2> QED
        BY <2>1, <2>3, LifeCut
<1>5. \A status, S, T : S \subseteq T => At(status, S) \subseteq At(status, T)
    BY DEF At
<1>6. /\ At("confirmed", First(PassedBy(d, b, n))) \subseteq At("confirmed", First(PassedBy(d, b, m)))
      /\ At("invalidated", First(LostBy(d, b, n))) \subseteq At("invalidated", First(LostBy(d, b, m)))
      /\ At("expired", Ends(d, b, n)) \subseteq At("expired", Ends(d, b, m))
    BY <1>3, <1>4, <1>5
<1> QED
    BY <1>6 DEF Story

LEMMA OneOfEach ==
    ASSUME NEW d, d.created \in Nat, NEW b, NEW n \in Nat,
           NEW f \in Story(d, b, n), NEW g \in Story(d, b, n), f.status = g.status
    PROVE  f = g
<1>1. LostBy(d, b, n) \in SUBSET Nat /\ PassedBy(d, b, n) \in SUBSET Nat
    BY DEF LostBy, PassedBy
<1>2. \A S \in SUBSET Nat : \A p, q \in First(S) : p = q
    <2> SUFFICES ASSUME NEW S \in SUBSET Nat, NEW p \in First(S), NEW q \in First(S) PROVE p = q
        OBVIOUS
    <2>1. p \in Nat /\ q \in Nat /\ p <= q /\ q <= p
        BY DEF First
    <2> QED
        BY <2>1
<1>3. \A p, q \in Ends(d, b, n) : p = q
    BY DEF Ends
<1>4. f = [status |-> f.status, at |-> f.at] /\ g = [status |-> g.status, at |-> g.at]
    BY StoryHas
<1>5. \/ f.status = "candidate" /\ f.at = d.created
      \/ f.status = "confirmed" /\ f.at \in First(PassedBy(d, b, n))
      \/ f.status = "invalidated" /\ f.at \in First(LostBy(d, b, n))
      \/ f.status = "expired" /\ f.at \in Ends(d, b, n)
    BY StoryHas
<1>6. \/ g.status = "candidate" /\ g.at = d.created
      \/ g.status = "confirmed" /\ g.at \in First(PassedBy(d, b, n))
      \/ g.status = "invalidated" /\ g.at \in First(LostBy(d, b, n))
      \/ g.status = "expired" /\ g.at \in Ends(d, b, n)
    BY StoryHas
<1>7. f.at = g.at
    BY <1>1, <1>2, <1>3, <1>5, <1>6
<1> QED
    BY <1>4, <1>7

\* Two snapshots tell the same of a setup that has the same name in both.
LEMMA ShownAgree ==
    ASSUME NEW b, NEW n \in Nat, NEW d \in Shown(b, n), NEW m \in Nat, NEW e \in Shown(b, m),
           Id(d) = Id(e)
    PROVE  /\ Same(d, e) /\ d.created \in Nat /\ Identity(d) = Identity(e)
           /\ \A f \in ToSet(d.log), g \in ToSet(e.log) : f.status = g.status => f = g
<1>1. IsBorn(d, b) /\ IsBorn(e, b) /\ FollowsStory(d, b, n) /\ FollowsStory(e, b, m)
    BY ShownIsKnown DEF IsKnown
<1>2. Same(d, e)
    BY <1>1, NameFixesSetup
<1>3. ToSet(d.log) = Story(d, b, n) /\ ToSet(e.log) = Story(d, b, m)
    BY <1>1, <1>2, SameStory DEF FollowsStory
<1>4. d.created \in Nat
    BY <1>1 DEF IsBorn
<1>5. Identity(d) = Identity(e)
    BY <1>2 DEF Identity, Same
<1>6. ASSUME NEW f \in Story(d, b, n), NEW g \in Story(d, b, m), f.status = g.status
      PROVE  f = g
    <2>1. CASE n <= m
        <3>1. f \in Story(d, b, m)
            BY <1>4, <1>6, <2>1, StoryStays
        <3> QED
            BY <1>4, <1>6, <3>1, OneOfEach
    <2>2. CASE m <= n
        <3>1. g \in Story(d, b, n)
            BY <1>4, <1>6, <2>2, StoryStays
        <3> QED
            BY <1>4, <1>6, <3>1, OneOfEach
    <2> QED
        BY <2>1, <2>2
<1> QED
    BY <1>2, <1>3, <1>4, <1>5, <1>6

-----------------------------------------------------------------------------
(* What an analysis sees.                                                   *)

ViewInv ==
    /\ bars \in Seq(ToSet(bars)) /\ Len(bars) >= RequiredBars - 1
    /\ shown = Shown(bars, Len(bars))
    /\ before = Shown(bars, Len(bars) - 1)

LEMMA BarAppended ==
    ASSUME NEW b, b \in Seq(ToSet(b)), NEW x
    PROVE  /\ Append(b, x) \in Seq(ToSet(Append(b, x))) /\ Len(Append(b, x)) = Len(b) + 1
           /\ Len(b) \in Nat /\ \A j \in 1..Len(b) : Append(b, x)[j] = b[j]
<1> DEFINE S == ToSet(b) \cup {x}
<1>1. b \in Seq(S)
    <2>1. Len(b) \in Nat /\ DOMAIN b = 1..Len(b) /\ b = [i \in 1..Len(b) |-> b[i]]
        OBVIOUS
    <2>2. \A i \in 1..Len(b) : b[i] \in S
        BY <2>1 DEF ToSet
    <2> HIDE DEF S
    <2>3. [i \in 1..Len(b) |-> b[i]] \in Seq(S)
        BY <2>1, <2>2
    <2> QED
        BY <2>1, <2>3
<1>2. x \in S
    OBVIOUS
<1>3. ToSet(Append(b, x)) = ToSet(b) \cup {x} /\ Append(b, x) \in Seq(S)
    <2> HIDE DEF S
    <2>1. ToSet(Append(b, x)) = ToSet(b) \cup {x} /\ Append(b, x) \in Seq(S)
        BY <1>1, <1>2, Appended
    <2> QED
        BY <2>1
<1>4. Len(Append(b, x)) = Len(b) + 1 /\ Len(b) \in Nat /\ \A j \in 1..Len(b) : Append(b, x)[j] = b[j]
    BY <1>1
<1> QED
    BY <1>3, <1>4

LEMMA ViewInit == Init => ViewInv
BY SetupLogAssumption DEF Init, ViewInv

LEMMA BarsGrow ==
    ASSUME ViewInv, BarCloses
    PROVE  /\ bars' \in Seq(ToSet(bars')) /\ Len(bars') = Len(bars) + 1 /\ Len(bars) \in Nat
           /\ \A j \in 1..Len(bars) : bars'[j] = bars[j]
<1>1. PICK bar \in Bars : bars' = Append(bars, Closed(Last(bars), bar))
    BY DEF BarCloses
<1>2. bars \in Seq(ToSet(bars))
    BY DEF ViewInv
<1> QED
    BY <1>1, <1>2, BarAppended

LEMMA ViewStep == ViewInv /\ [Next]_vars => ViewInv'
<1> SUFFICES ASSUME ViewInv, [Next]_vars PROVE ViewInv'
    OBVIOUS
<1>1. CASE BarCloses
    <2>1. /\ bars' \in Seq(ToSet(bars')) /\ Len(bars') = Len(bars) + 1 /\ Len(bars) \in Nat
          /\ \A j \in 1..Len(bars) : bars'[j] = bars[j]
        BY <1>1, BarsGrow
    <2>2. shown' = Shown(bars', Len(bars')) /\ before' = shown
        BY <1>1 DEF BarCloses
    <2>3. Shown(bars, Len(bars)) = Shown(bars', Len(bars))
        BY <2>1, ShownStays
    <2>4. Len(bars') - 1 = Len(bars) /\ Len(bars') >= RequiredBars - 1
        BY <2>1, WindowSize DEF ViewInv
    <2> QED
        BY <2>1, <2>2, <2>3, <2>4 DEF ViewInv
<1>2. CASE Analyse(Len(bars), shown) \/ Analyse(Len(bars) - 1, before)
    BY <1>2 DEF Analyse, views, ViewInv
<1>3. CASE UNCHANGED vars
    BY <1>3 DEF vars, views, ViewInv
<1> QED
    BY <1>1, <1>2, <1>3 DEF Next

LEMMA Views == Spec => []ViewInv
BY ViewInit, ViewStep, PTL DEF Spec

LEMMA ViewIsKnown ==
    ASSUME ViewInv
    PROVE  /\ Len(bars) \in Nat /\ Len(bars) - 1 \in Nat
           /\ \A d \in shown : IsKnown(d, bars, Origin(Len(bars)), Len(bars))
<1>1. Len(bars) \in Nat /\ Len(bars) - 1 \in Nat
    BY WindowSize DEF ViewInv
<1> QED
    BY <1>1, ShownIsKnown DEF ViewInv

\* What is visible stays visible with the same identity, and its log is only
\* extended, while it is recent enough: two lives and the time of display are
\* a window that forgets no trigger (SetupConfig.lookback_bars, config.py:41).
THEOREM VisibleStaysVisible == Spec => []TriggersAreNotForgotten
<1>1. ViewInv => TriggersAreNotForgotten
    <2> SUFFICES ASSUME ViewInv, NEW d \in before, d.type # "range_rejection", d.created >= Horizon(Now)
                 PROVE  \E later \in shown : Identity(later) = Identity(d) /\ IsPrefix(d.log, later.log)
        BY DEF TriggersAreNotForgotten, Stays
    <2>1. Len(bars) \in Nat /\ Len(bars) - 1 \in Nat /\ Len(bars) = (Len(bars) - 1) + 1
        BY ViewIsKnown
    <2>2. d \in Shown(bars, Len(bars) - 1) /\ shown = Shown(bars, Len(bars)) /\ Now = Len(bars)
        BY DEF ViewInv, Now
    <2>3. PICK e \in Shown(bars, Len(bars)) : Same(e, d) /\ IsPrefix(d.log, e.log)
        BY <2>1, <2>2, ShownNext
    <2>4. Identity(e) = Identity(d)
        BY <2>3 DEF Identity, Id, Same
    <2> QED
        BY <2>2, <2>3, <2>4
<1> QED
    BY <1>1, Views, PTL

LEMMA FirstIsMin ==
    ASSUME NEW S \in SUBSET Nat
    PROVE  First(S) = IF S = {} THEN {} ELSE {Min(S)}
<1>1. CASE S = {}
    BY <1>1 DEF First
<1>2. CASE S # {}
    <2>1. Min(S) \in S /\ \A m \in S : Min(S) <= m
        BY <1>2, MinIsSmallest
    <2>2. \A m \in First(S) : m = Min(S)
        <3> TAKE m \in First(S)
        <3>1. m \in Nat /\ Min(S) \in Nat /\ m <= Min(S) /\ Min(S) <= m
            BY <2>1 DEF First
        <3> QED
            BY <3>1
    <2>3. Min(S) \in First(S)
        BY <2>1 DEF First
    <2> QED
        BY <1>2, <2>2, <2>3
<1> QED
    BY <1>1, <1>2

\* The times at which the log has a status.
LEMMA TimesOf ==
    ASSUME NEW d, NEW b, NEW n
    PROVE  LET Times(status) == {t.at : t \in {u \in Story(d, b, n) : u.status = status}}
           IN  /\ Times("confirmed") = First(PassedBy(d, b, n))
               /\ Times("invalidated") = First(LostBy(d, b, n))
               /\ Times("expired") = Ends(d, b, n)
<1>1. \A f \in Story(d, b, n) :
          /\ f.status = "confirmed" => f.at \in First(PassedBy(d, b, n))
          /\ f.status = "invalidated" => f.at \in First(LostBy(d, b, n))
          /\ f.status = "expired" => f.at \in Ends(d, b, n)
    <2> TAKE f \in Story(d, b, n)
    <2>1. \/ f.status = "candidate" /\ f.at = d.created
          \/ f.status = "confirmed" /\ f.at \in First(PassedBy(d, b, n))
          \/ f.status = "invalidated" /\ f.at \in First(LostBy(d, b, n))
          \/ f.status = "expired" /\ f.at \in Ends(d, b, n)
        BY StoryHas
    <2> QED
        BY <2>1
<1>2. /\ \A m \in First(PassedBy(d, b, n)) : [status |-> "confirmed", at |-> m] \in Story(d, b, n)
      /\ \A m \in First(LostBy(d, b, n)) : [status |-> "invalidated", at |-> m] \in Story(d, b, n)
      /\ \A m \in Ends(d, b, n) : [status |-> "expired", at |-> m] \in Story(d, b, n)
    BY DEF Story, At
<1>3. \A status, m : [status |-> status, at |-> m].status = status /\ [status |-> status, at |-> m].at = m
    OBVIOUS
<1>4. {t.at : t \in {u \in Story(d, b, n) : u.status = "confirmed"}} = First(PassedBy(d, b, n))
    BY <1>1, <1>2, <1>3
<1>5. {t.at : t \in {u \in Story(d, b, n) : u.status = "invalidated"}} = First(LostBy(d, b, n))
    BY <1>1, <1>2, <1>3
<1>6. {t.at : t \in {u \in Story(d, b, n) : u.status = "expired"}} = Ends(d, b, n)
    BY <1>1, <1>2, <1>3
<1> QED
    BY <1>4, <1>5, <1>6

\* The lifecycle of a setup that is shown, whatever the order of its events
\* within a bar: the first loss, the first confirmation before it, the end of
\* life (SetupEngine._step).
THEOREM LifecycleIsFirstEvents == Spec => []OutcomeIsFirstEvent
<1>1. ViewInv => OutcomeIsFirstEvent
    <2> SUFFICES ASSUME ViewInv, NEW d \in shown
                 PROVE  /\ FirstIs(d, "invalidated", LostAt(d))
                        /\ FirstIs(d, "confirmed", PassedAt(d))
                        /\ FirstIs(d, "expired",
                                   IF LostAt(d) = {} THEN Life(d) \cap {d.created + TTL} ELSE {})
        BY DEF OutcomeIsFirstEvent
    <2> DEFINE end == d.created + TTL
    <2>1. IsKnown(d, bars, Origin(Now), Now) /\ Now \in Nat
        BY ViewIsKnown DEF Now
    <2>2. d.created \in Nat /\ end \in Nat /\ end >= d.created + 1
        BY <2>1, SetupConfigAssumption DEF IsKnown, IsBorn
    <2>3. ToSet(d.log) = Story(d, bars, Now)
        BY <2>1 DEF IsKnown, FollowsStory
    <2>4. Life(d) = {j \in (d.created + 1)..Now : j <= end}
        <3>1. Min({Now, end}) \in {Now, end} /\ Min({Now, end}) <= Now /\ Min({Now, end}) <= end
            <4>1. {Now, end} \subseteq Nat /\ {Now, end} # {}
                BY <2>1, <2>2
            <4> HIDE DEF end
            <4> QED
                BY <4>1, MinIsSmallest
        <3> DEFINE min == Min({Now, end})
        <3>2. Life(d) = (d.created + 1)..min
            BY DEF Life
        <3> HIDE DEF min, end
        <3>3. min \in {Now, end} /\ min <= Now /\ min <= end
            BY <3>1 DEF min
        <3> QED
            BY <2>1, <2>2, <3>2, <3>3
    <2>5. LostAt(d) = LostBy(d, bars, Now)
        <3> HIDE DEF end
        <3> QED
            BY <2>4 DEF LostAt, LostBy, end
    <2>6. PassedAt(d) = PassedBy(d, bars, Now)
        <3>1. PassedAt(d) = {j \in Life(d) : (\A i \in LostAt(d) : j < i) /\ Passes(d, bars, j)}
            BY DEF PassedAt, Passes
        <3> QED
            BY <2>4, <2>5, <3>1 DEF PassedBy
    <2>7. LostBy(d, bars, Now) \in SUBSET Nat /\ PassedBy(d, bars, Now) \in SUBSET Nat
        BY <2>2 DEF LostBy, PassedBy
    <2> DEFINE Ended == IF LostAt(d) = {} THEN Life(d) \cap {end} ELSE {}
    <2>8. Ended = Ends(d, bars, Now) /\ Ended = IF Ended = {} THEN {} ELSE {Min(Ended)}
        <3>1. Life(d) \cap {end} = IF end <= Now THEN {end} ELSE {}
            BY <2>1, <2>2, <2>4
        <3>2. Ended = Ends(d, bars, Now)
            BY <2>5, <3>1 DEF Ends
        <3>3. Ended = {} \/ Ended = {end}
            BY <3>1
        <3>4. Min({end}) = end
            <4> HIDE DEF end
            <4>1. {end} \subseteq Nat /\ {end} # {}
                BY <2>2
            <4>2. Min({end}) \in {end}
                BY <4>1, MinIsSmallest
            <4> QED
                BY <4>2
        <3> HIDE DEF Ended, end
        <3> QED
            BY <3>2, <3>3, <3>4
    <2>9. /\ {t.at : t \in {u \in Story(d, bars, Now) : u.status = "confirmed"}} = First(PassedBy(d, bars, Now))
          /\ {t.at : t \in {u \in Story(d, bars, Now) : u.status = "invalidated"}} = First(LostBy(d, bars, Now))
          /\ {t.at : t \in {u \in Story(d, bars, Now) : u.status = "expired"}} = Ends(d, bars, Now)
        BY TimesOf
    <2>10. FirstIs(d, "invalidated", LostAt(d))
        BY <2>3, <2>5, <2>7, <2>9, FirstIsMin DEF FirstIs
    <2>11. FirstIs(d, "confirmed", PassedAt(d))
        BY <2>3, <2>6, <2>7, <2>9, FirstIsMin DEF FirstIs
    <2>12. FirstIs(d, "expired", Ended)
        <3> HIDE DEF Ended
        <3> QED
            BY <2>3, <2>8, <2>9 DEF FirstIs
    <2> QED
        BY <2>10, <2>11, <2>12
<1> QED
    BY <1>1, Views, PTL

\* A pullback is the first return to a level after price left it, with no loss
\* of the level and within the life of the arm (SetupEngine._arm_step).
THEOREM PullbacksAreFirstReturns == Spec => []PullbackIsFirstReturn
<1>1. ViewInv => PullbackIsFirstReturn
    <2> SUFFICES ASSUME ViewInv, NEW d \in shown, d.type = "pullback"
                 PROVE  LET direction == d.direction
                            left  == {j \in d.trigger..(d.created - 1) : Departs(direction, d.level, bars[j])}
                            Came(j) == ~Beyond(direction, Near(direction, bars[j]), d.level + direction * Zone)
                        IN  /\ left # {}
                            /\ d.created - d.trigger <= TTL
                            /\ \A j \in (d.trigger + 1)..d.created : ~Beyond(-direction, bars[j].c, d.fail)
                            /\ {j \in (Min(left) + 1)..d.created : Came(j)} = {d.created}
        BY DEF PullbackIsFirstReturn
    <2> DEFINE left == LeftAt(d, bars)
    <2>1. IsBorn(d, bars)
        BY ViewIsKnown DEF IsKnown
    <2>2. d.trigger \in Nat /\ d.created \in Nat /\ IsFirstReturn(d, bars)
        BY <2>1 DEF IsBorn
    <2>3. left # {} /\ left \subseteq Nat
        BY <2>2 DEF IsFirstReturn, LeftAt
    <2>4. Min(left) \in left
        <3> HIDE DEF left
        <3> QED
            BY <2>3, MinIsSmallest
    <2>5. Min(left) \in d.trigger..(d.created - 1)
        BY <2>4 DEF LeftAt
    <2>6. \A j \in (Min(left) + 1)..d.created : Back(d, bars, j) <=> j = d.created
        <3> HIDE DEF left
        <3> TAKE j \in (Min(left) + 1)..d.created
        <3>1. j \in (d.trigger + 1)..d.created /\ Min(left) < j
            BY <2>2, <2>5
        <3> QED
            BY <2>2, <2>4, <3>1 DEF IsFirstReturn, left
    <2>7. d.created \in (Min(left) + 1)..d.created
        <3> HIDE DEF left
        <3> QED
            BY <2>2, <2>5
    <2>8. {j \in (Min(left) + 1)..d.created : Back(d, bars, j)} = {d.created}
        <3> HIDE DEF left
        <3> QED
            BY <2>6, <2>7
    <2> QED
        BY <2>2, <2>8 DEF IsFirstReturn, LeftAt, Back
<1> QED
    BY <1>1, Views, PTL

-----------------------------------------------------------------------------
(* The log: every row was shown by a saved analysis, and every saved        *)
(* analysis has its rows.                                                   *)

LogInv ==
    /\ snapshots \subseteq Nat /\ \A n \in snapshots : n <= Len(bars)
    /\ setup_conflicts = {}
    /\ \A row \in setups : \E n \in snapshots : \E d \in Shown(bars, n) : row = Identity(d)
    /\ \A f \in setup_events :
          \E n \in snapshots : \E d \in Shown(bars, n) : IsLegal(d) /\ f \in Facts(d, n)
    /\ \A n \in snapshots : \A d \in Shown(bars, n) :
          Identity(d) \in setups /\ Facts(d, n) \subseteq setup_events

LEMMA LogInit == Init => LogInv
BY DEF Init, LogInv

\* The facts of a setup are its log under its name.
LEMMA FactsAre ==
    ASSUME NEW d, NEW n, NEW f
    PROVE  f \in Facts(d, n) <=>
             \E t \in ToSet(d.log) : f = [id |-> Id(d), status |-> t.status, at |-> t.at]
BY DEF Facts

\* Facts of two snapshots with the same name and status are the same.
LEMMA FactsAgree ==
    ASSUME NEW b, NEW n \in Nat, NEW d \in Shown(b, n), NEW m \in Nat, NEW e \in Shown(b, m),
           NEW f \in Facts(d, n), NEW g \in Facts(e, m), f.id = g.id, f.status = g.status
    PROVE  f = g
<1>1. PICK t \in ToSet(d.log) : f = [id |-> Id(d), status |-> t.status, at |-> t.at]
    BY FactsAre
<1>2. PICK u \in ToSet(e.log) : g = [id |-> Id(e), status |-> u.status, at |-> u.at]
    BY FactsAre
<1>3. Id(d) = Id(e) /\ t.status = u.status
    BY <1>1, <1>2
<1>4. t = u
    BY <1>3, ShownAgree
<1> QED
    BY <1>1, <1>2, <1>3, <1>4

LEMMA SaveStep ==
    ASSUME LogInv, Len(bars) \in Nat, NEW n \in Nat, n <= Len(bars), NEW snapshot,
           snapshot = Shown(bars, n), Analyse(n, snapshot)
    PROVE  LogInv'
<1> DEFINE known == {d \in snapshot : \E row \in setups : row.id = Id(d)}
           other == {d \in known : Identity(d) \notin setups}
           facts == UNION {Facts(d, n) : d \in snapshot \ other}
           told(fact) == \E row \in setup_events : row.id = fact.id /\ row.status = fact.status
<1>1. /\ snapshots' = snapshots \cup {n}
      /\ setups' = setups \cup {Identity(d) : d \in snapshot \ known}
      /\ setup_events' = setup_events \cup {fact \in facts : ~told(fact)}
      /\ setup_conflicts' = setup_conflicts
             \cup {[id |-> Id(d), seen |-> n, kind |-> "identity"] : d \in other}
             \cup {[id |-> fact.id, seen |-> n, kind |-> "transition"] :
                     fact \in {f \in facts : told(f) /\ f \notin setup_events}}
      /\ bars' = bars
      /\ \A d \in snapshot : IsLegal(d)
    BY DEF Analyse, Save
<1>2. ASSUME NEW d \in known PROVE Identity(d) \in setups
    <2>1. PICK row \in setups : row.id = Id(d)
        OBVIOUS
    <2>2. PICK m \in snapshots : \E e \in Shown(bars, m) : row = Identity(e)
        BY DEF LogInv
    <2>3. PICK e \in Shown(bars, m) : row = Identity(e)
        BY <2>2
    <2>4. Id(e) = Id(d) /\ m \in Nat
        BY <2>1, <2>3 DEF Identity, LogInv
    <2>5. d \in Shown(bars, n)
        OBVIOUS
    <2>6. Identity(e) = Identity(d)
        BY <2>4, <2>5, ShownAgree
    <2> QED
        BY <2>3, <2>6
<1>3. other = {}
    BY <1>2
<1>4. \A f : f \in facts <=> \E d \in snapshot : f \in Facts(d, n)
    <2> HIDE DEF other
    <2> QED
        BY <1>3
<1>5. ASSUME NEW f \in facts, told(f) PROVE f \in setup_events
    <2>1. PICK row \in setup_events : row.id = f.id /\ row.status = f.status
        BY <1>5
    <2>2. PICK d \in snapshot : f \in Facts(d, n)
        BY <1>4
    <2>3. PICK m \in snapshots : \E e \in Shown(bars, m) : row \in Facts(e, m)
        BY DEF LogInv
    <2>4. PICK e \in Shown(bars, m) : row \in Facts(e, m)
        BY <2>3
    <2>5. m \in Nat
        BY DEF LogInv
    <2> HIDE DEF facts
    <2>6. row = f
        BY <2>1, <2>2, <2>4, <2>5, FactsAgree
    <2> QED
        BY <2>6
<1> HIDE DEF facts
<1>6. setup_conflicts' = {}
    <2>1. {f \in facts : told(f) /\ f \notin setup_events} = {}
        BY <1>5
    <2> HIDE DEF other, told
    <2> QED
        BY <1>1, <1>3, <2>1 DEF LogInv
<1>7. snapshots' \subseteq Nat /\ \A m \in snapshots' : m <= Len(bars')
    BY <1>1 DEF LogInv
<1>8. \A row \in setups' : \E m \in snapshots' : \E d \in Shown(bars', m) : row = Identity(d)
    <2> TAKE row \in setups'
    <2>1. CASE row \in setups
        BY <1>1, <2>1 DEF LogInv
    <2>2. CASE row \notin setups
        <3>1. \E d \in snapshot : row = Identity(d)
            BY <1>1, <2>2
        <3> QED
            BY <1>1, <3>1
    <2> QED
        BY <2>1, <2>2
<1>9. \A f \in setup_events' :
          \E m \in snapshots' : \E d \in Shown(bars', m) : IsLegal(d) /\ f \in Facts(d, m)
    <2> TAKE f \in setup_events'
    <2>1. CASE f \in setup_events
        BY <1>1, <2>1 DEF LogInv
    <2>2. CASE f \notin setup_events
        <3>1. f \in facts
            BY <1>1, <2>2
        <3>2. \E d \in snapshot : f \in Facts(d, n)
            BY <1>4, <3>1
        <3> QED
            BY <1>1, <3>2
    <2> QED
        BY <2>1, <2>2
<1>10. \A m \in snapshots' : \A d \in Shown(bars', m) :
           Identity(d) \in setups' /\ Facts(d, m) \subseteq setup_events'
    <2> TAKE m \in snapshots'
    <2> TAKE d \in Shown(bars', m)
    <2>1. CASE m \in snapshots
        <3>1. d \in Shown(bars, m)
            BY <1>1
        <3>2. Identity(d) \in setups /\ Facts(d, m) \subseteq setup_events
            BY <2>1, <3>1 DEF LogInv
        <3> QED
            BY <1>1, <3>2
    <2>2. CASE m = n
        <3>1. d \in snapshot
            BY <1>1, <2>2
        <3>2. Identity(d) \in setups'
            BY <1>1, <1>2, <3>1
        <3>3. Facts(d, m) \subseteq setup_events'
            <4> SUFFICES ASSUME NEW f \in Facts(d, m) PROVE f \in setup_events'
                OBVIOUS
            <4>1. f \in facts
                BY <1>4, <2>2, <3>1
            <4> HIDE DEF told
            <4> QED
                BY <1>1, <1>5, <4>1
        <3> QED
            BY <3>2, <3>3
    <2> QED
        BY <1>1, <2>1, <2>2
<1> QED
    BY <1>6, <1>7, <1>8, <1>9, <1>10 DEF LogInv

LEMMA LogStep == ViewInv /\ LogInv /\ [Next]_vars => LogInv'
<1> SUFFICES ASSUME ViewInv, LogInv, [Next]_vars PROVE LogInv'
    OBVIOUS
<1>1. Len(bars) \in Nat /\ Len(bars) - 1 \in Nat /\ Len(bars) - 1 <= Len(bars)
    BY ViewIsKnown
<1>2. CASE BarCloses
    <2>1. Len(bars') = Len(bars) + 1 /\ \A j \in 1..Len(bars) : bars'[j] = bars[j]
        BY <1>2, BarsGrow
    <2>2. \A n \in snapshots : n \in Nat /\ n <= Len(bars)
        BY DEF LogInv
    <2>3. ASSUME NEW n \in snapshots PROVE Shown(bars', n) = Shown(bars, n)
        <3>1. \A j \in 1..n : bars'[j] = bars[j]
            BY <1>1, <2>1, <2>2
        <3> QED
            BY <2>2, <3>1, ShownStays
    <2>4. UNCHANGED tables
        BY <1>2 DEF BarCloses
    <2>5. \A n \in snapshots' : n <= Len(bars')
        BY <1>1, <2>1, <2>2, <2>4 DEF tables
    <2> QED
        BY <2>3, <2>4, <2>5 DEF LogInv, tables
<1>3. CASE Analyse(Len(bars), shown)
    BY <1>1, <1>3, SaveStep DEF ViewInv
<1>4. CASE Analyse(Len(bars) - 1, before)
    BY <1>1, <1>4, SaveStep DEF ViewInv
<1>5. CASE UNCHANGED vars
    BY <1>5 DEF vars, tables, LogInv
<1> QED
    BY <1>2, <1>3, <1>4, <1>5 DEF Next

LEMMA Logs == Spec => [](ViewInv /\ LogInv)
<1>1. Init => ViewInv /\ LogInv
    BY ViewInit, LogInit
<1>2. ViewInv /\ LogInv /\ [Next]_vars => (ViewInv /\ LogInv)'
    BY ViewStep, LogStep
<1> QED
    BY <1>1, <1>2, PTL DEF Spec

\* No analysis, live or late, contradicts what an earlier one recorded
\* (SQLiteSetupStore.save).
THEOREM NothingIsContradicted == Spec => []NoConflicts
<1>1. LogInv => NoConflicts
    BY DEF LogInv, NoConflicts
<1> QED
    BY <1>1, Logs, PTL

-----------------------------------------------------------------------------
(* The audit of the log.                                                    *)

\* A legal log has no two entries of one time.
LEMMA LegalIsOrdered ==
    ASSUME NEW d, IsSetup(d), IsLegal(d), NEW t \in ToSet(d.log), NEW u \in ToSet(d.log), t # u
    PROVE  t.at # u.at
<1> DEFINE log == d.log
<1>1. log \in Seq(Records)
    BY DEF IsSetup
<1> HIDE DEF log
<1>2. \A i \in 1..Len(log) : log[i].at \in Nat
    <2>1. \A i \in 1..Len(log) : log[i] \in Records
        BY <1>1
    <2> QED
        BY <2>1 DEF Records
<1>3. Len(log) \in Nat /\ DOMAIN log = 1..Len(log)
    BY <1>1
<1>4. ASSUME NEW i \in 1..Len(log)
      PROVE  \A k \in i..Len(log) : k # i => log[i].at < log[k].at
    <2> DEFINE Good == {k \in Nat : k # i => log[i].at < log[k].at}
    <2>1. i \in Good /\ i \in Nat
        OBVIOUS
    <2>2. ASSUME NEW k \in (i + 1)..Len(log), k - 1 \in Good PROVE k \in Good
        <3>1. /\ k - 1 \in 1..(Len(log) - 1) /\ (k - 1) + 1 = k /\ k \in 1..Len(log)
              /\ k - 1 \in 1..Len(log) /\ k \in Nat
            BY <1>3
        <3>2. log[k - 1].at < log[k].at
            BY <3>1 DEF IsLegal, log
        <3>3. log[i].at \in Nat /\ log[k - 1].at \in Nat /\ log[k].at \in Nat
            BY <1>2, <3>1
        <3>4. log[i].at < log[k].at
            <4>1. CASE k - 1 = i
                BY <3>2, <4>1
            <4>2. CASE k - 1 # i
                <5>1. log[i].at < log[k - 1].at
                    BY <2>2, <4>2
                <5> QED
                    BY <3>2, <3>3, <5>1
            <4> QED
                BY <4>1, <4>2
        <3> QED
            BY <3>1, <3>4
    <2> HIDE DEF Good
    <2>3. \A k \in i..Len(log) : k \in Good
        BY <1>3, <2>1, <2>2, BarInduction
    <2> QED
        BY <2>3 DEF Good
<1>5. PICK i \in 1..Len(log) : t = log[i]
    BY <1>3 DEF ToSet, log
<1>6. PICK k \in 1..Len(log) : u = log[k]
    BY <1>3 DEF ToSet, log
<1>7. i # k
    BY <1>5, <1>6
<1>8. log[i].at < log[k].at \/ log[k].at < log[i].at
    <2>1. CASE i < k
        BY <1>4, <2>1
    <2>2. CASE k < i
        BY <1>4, <2>2
    <2> QED
        BY <1>7, <2>1, <2>2
<1>9. log[i].at \in Nat /\ log[k].at \in Nat
    BY <1>2
<1> QED
    BY <1>5, <1>6, <1>8, <1>9

\* An event of a setup d is in its story, and when it was recorded the story
\* had no two events at one time.
IsEventOf(f, d, n) ==
    /\ f = [id |-> Id(d), status |-> f.status, at |-> f.at]
    /\ [status |-> f.status, at |-> f.at] \in Story(d, bars, n)
    /\ \A t, u \in Story(d, bars, n) : t # u => t.at # u.at

LEMMA EventIsTold ==
    ASSUME ViewInv, LogInv, NEW m \in Nat, NEW d \in Shown(bars, m),
           NEW f \in setup_events, f.id = Id(d)
    PROVE  \E n \in Nat : n <= Len(bars) /\ IsEventOf(f, d, n)
<1>1. PICK n \in snapshots : \E e \in Shown(bars, n) : IsLegal(e) /\ f \in Facts(e, n)
    BY DEF LogInv
<1>2. PICK e \in Shown(bars, n) : IsLegal(e) /\ f \in Facts(e, n)
    BY <1>1
<1>3. n \in Nat /\ n <= Len(bars)
    BY DEF LogInv
<1>4. PICK t \in ToSet(e.log) : f = [id |-> Id(e), status |-> t.status, at |-> t.at]
    BY <1>2, FactsAre
<1>5. Id(e) = Id(d)
    BY <1>4
<1>6. Same(e, d)
    BY <1>3, <1>5, ShownAgree
<1>7. IsSetup(e) /\ ToSet(e.log) = Story(e, bars, n)
    BY <1>3, ShownIsKnown DEF IsKnown, FollowsStory
<1>8. Story(e, bars, n) = Story(d, bars, n)
    BY <1>6, SameStory
<1>9. \A x, y \in Story(d, bars, n) : x # y => x.at # y.at
    BY <1>2, <1>7, <1>8, LegalIsOrdered
<1>10. t \in Story(d, bars, n) /\ t = [status |-> t.status, at |-> t.at]
    BY <1>4, <1>7, <1>8, StoryHas
<1>11. /\ f = [id |-> Id(d), status |-> f.status, at |-> f.at]
       /\ f.status = t.status /\ f.at = t.at
    BY <1>4, <1>5
<1>12. IsEventOf(f, d, n)
    BY <1>9, <1>10, <1>11 DEF IsEventOf
<1> QED
    BY <1>3, <1>12

\* The events of one setup: there is one of each rank, in the order of time.
LEMMA EventsInOrder ==
    ASSUME NEW d, d.created \in Nat, NEW N \in Nat, NEW n \in Nat, n <= N, NEW m \in Nat, m <= N,
           NEW f, IsEventOf(f, d, n), NEW g, IsEventOf(g, d, m)
    PROVE  /\ f.status \in DOMAIN Rank /\ f.at \in Nat /\ Rank[f.status] \in 0..2
           /\ f.status \in Terminal <=> Rank[f.status] = 2
           /\ Rank[f.status] < Rank[g.status] => f.at < g.at
           /\ Rank[f.status] = Rank[g.status] => f = g
<1> DEFINE t == [status |-> f.status, at |-> f.at]
           u == [status |-> g.status, at |-> g.at]
           end == d.created + TTL
           L == LostBy(d, bars, N)
           P == PassedBy(d, bars, N)
<1>1. t \in Story(d, bars, N) /\ u \in Story(d, bars, N)
    BY StoryStays DEF IsEventOf
<1>2. \/ f.status = "candidate" /\ f.at = d.created
      \/ f.status = "confirmed" /\ f.at \in First(P)
      \/ f.status = "invalidated" /\ f.at \in First(L)
      \/ f.status = "expired" /\ f.at \in Ends(d, bars, N)
    <2>1. t.status = f.status /\ t.at = f.at
        OBVIOUS
    <2> HIDE DEF t
    <2> QED
        BY <1>1, <2>1, StoryHas
<1>3. \/ g.status = "candidate" /\ g.at = d.created
      \/ g.status = "confirmed" /\ g.at \in First(P)
      \/ g.status = "invalidated" /\ g.at \in First(L)
      \/ g.status = "expired" /\ g.at \in Ends(d, bars, N)
    <2>1. u.status = g.status /\ u.at = g.at
        OBVIOUS
    <2> HIDE DEF u
    <2> QED
        BY <1>1, <2>1, StoryHas
<1>4. end \in Nat /\ d.created < end
    BY SetupConfigAssumption
<1>5. \A p \in First(P) : p \in Nat /\ p \in P /\ d.created < p /\ p <= end /\ \A l \in L : p < l
    BY DEF First, PassedBy
<1>6. \A l \in First(L) : l \in Nat /\ l \in L /\ d.created < l
    BY DEF First, LostBy
<1>7. \A x \in Ends(d, bars, N) : x = end /\ L = {} /\ end <= N
    BY DEF Ends
<1> HIDE DEF t, u, L, P, end
<1>8. f.at \in Nat
    BY <1>2, <1>4, <1>5, <1>6, <1>7
<1>9. /\ Rank["candidate"] = 0 /\ Rank["confirmed"] = 1 /\ Rank["invalidated"] = 2 /\ Rank["expired"] = 2
      /\ DOMAIN Rank = {"candidate", "confirmed", "invalidated", "expired"}
    BY DEF Rank
<1>10. /\ f.status \in DOMAIN Rank /\ Rank[f.status] \in 0..2
       /\ f.status \in Terminal <=> Rank[f.status] = 2
    BY <1>2, <1>9 DEF Terminal
<1>11. f.status = g.status => f = g
    <2> SUFFICES ASSUME f.status = g.status PROVE f = g
        OBVIOUS
    <2>1. t.status = u.status
        BY DEF t, u
    <2>2. t = u
        BY <1>1, <2>1, OneOfEach
    <2>3. t.at = f.at /\ u.at = g.at
        BY DEF t, u
    <2>4. f = [id |-> Id(d), status |-> f.status, at |-> f.at] /\ g = [id |-> Id(d), status |-> g.status, at |-> g.at]
        BY DEF IsEventOf
    <2>5. f.at = g.at
        BY <2>2, <2>3
    <2> QED
        BY <2>4, <2>5
<1>12. ~(f.status = "invalidated" /\ g.status = "expired") /\ ~(f.status = "expired" /\ g.status = "invalidated")
    BY <1>2, <1>3, <1>6, <1>7
<1>13. f.status = "confirmed" /\ g.status = "expired" => f.at < g.at
    <2> SUFFICES ASSUME f.status = "confirmed", g.status = "expired", f.at >= end PROVE FALSE
        BY <1>2, <1>3, <1>4, <1>5, <1>7
    <2>1. f.at = end /\ L = {}
        BY <1>2, <1>3, <1>4, <1>5, <1>7
    <2>2. t \in Story(d, bars, n) /\ t.status = "confirmed" /\ t.at = end
        BY <2>1 DEF IsEventOf, t
    <2>3. end \in PassedBy(d, bars, n)
        BY <2>2, StoryHas DEF First
    <2>4. end <= n
        BY <1>4, <2>3 DEF PassedBy
    <2>5. LostBy(d, bars, n) = {}
        BY <2>1, LifeCut DEF L
    <2>6. Ends(d, bars, n) = {end}
        BY <2>4, <2>5 DEF Ends, end
    <2>7. [status |-> "expired", at |-> end] \in Story(d, bars, n)
        BY <2>6 DEF Story, At
    <2>8. [status |-> "expired", at |-> end].status = "expired" /\ [status |-> "expired", at |-> end].at = end
        OBVIOUS
    <2> QED
        BY <2>2, <2>7, <2>8 DEF IsEventOf
<1>14. Rank[f.status] < Rank[g.status] => f.at < g.at
    <2> SUFFICES ASSUME Rank[f.status] < Rank[g.status] PROVE f.at < g.at
        OBVIOUS
    <2>1. CASE f.status = "candidate"
        BY <1>2, <1>3, <1>4, <1>5, <1>6, <1>7, <1>9, <2>1
    <2>2. CASE f.status = "confirmed"
        <3>1. g.status \in {"invalidated", "expired"}
            BY <1>3, <1>9, <2>2
        <3> QED
            BY <1>2, <1>3, <1>5, <1>6, <1>13, <2>2, <3>1
    <2> QED
        BY <1>2, <1>3, <1>9, <2>1, <2>2
<1>15. Rank[f.status] = Rank[g.status] => f = g
    BY <1>2, <1>3, <1>9, <1>11, <1>12
<1> QED
    BY <1>8, <1>10, <1>14, <1>15

\* The diagnosis finds nothing in the events of a setup that was saved.
LEMMA NothingIsFound ==
    ASSUME ViewInv, LogInv, NEW row \in setups
    PROVE  Findings(row) = {}
<1>1. PICK m \in snapshots : \E e \in Shown(bars, m) : row = Identity(e)
    BY DEF LogInv
<1>2. PICK d \in Shown(bars, m) : row = Identity(d)
    BY <1>1
<1>3. m \in Nat /\ m <= Len(bars) /\ Len(bars) \in Nat /\ row.id = Id(d)
    BY <1>2, ViewIsKnown DEF LogInv, Identity
<1>4. d.created \in Nat /\ ToSet(d.log) = Story(d, bars, m)
    BY <1>3, ShownIsKnown DEF IsKnown, IsBorn, FollowsStory
<1> DEFINE events == EventsOf(row)
           ended  == {event \in events : event.status \in Terminal}
<1>5. \A f \in events : \E n \in Nat : n <= Len(bars) /\ IsEventOf(f, d, n)
    <2> TAKE f \in events
    <2>1. f \in setup_events /\ f.id = Id(d)
        BY <1>3 DEF EventsOf
    <2> QED
        BY <1>3, <2>1, EventIsTold
<1>6. ASSUME NEW f \in events, NEW g \in events
      PROVE  /\ f.at \in Nat /\ g.at \in Nat /\ Rank[f.status] \in 0..2 /\ Rank[g.status] \in 0..2
             /\ f.status \in Terminal <=> Rank[f.status] = 2
             /\ Rank[f.status] < Rank[g.status] => f.at < g.at
             /\ Rank[f.status] = Rank[g.status] => f = g
    <2>1. PICK n \in Nat : n <= Len(bars) /\ IsEventOf(f, d, n)
        BY <1>5
    <2>2. PICK k \in Nat : k <= Len(bars) /\ IsEventOf(g, d, k)
        BY <1>5
    <2>3. /\ f.at \in Nat /\ Rank[f.status] \in 0..2
          /\ f.status \in Terminal <=> Rank[f.status] = 2
          /\ Rank[f.status] < Rank[g.status] => f.at < g.at
          /\ Rank[f.status] = Rank[g.status] => f = g
        BY <1>3, <1>4, <2>1, <2>2, EventsInOrder
    <2>4. g.at \in Nat /\ Rank[g.status] \in 0..2
        BY <1>3, <1>4, <2>2, EventsInOrder
    <2> QED
        BY <2>3, <2>4
<1>7. \E f \in events : f.status = "candidate"
    <2> DEFINE t == [status |-> "candidate", at |-> d.created]
               f == [id |-> Id(d), status |-> t.status, at |-> t.at]
    <2>1. t \in ToSet(d.log)
        BY <1>4 DEF Story, At
    <2>2. f \in Facts(d, m)
        BY <2>1, FactsAre
    <2>3. f \in setup_events
        BY <2>2 DEF LogInv
    <2>4. f.id = Id(d) /\ f.status = "candidate"
        OBVIOUS
    <2> HIDE DEF f
    <2> QED
        BY <1>3, <2>3, <2>4 DEF EventsOf
<1> HIDE DEF events
<1>8. \A f \in ended, g \in ended : f = g
    BY <1>6
<1>9. Cardinality(ended) = 0 \/ Cardinality(ended) = 1
    <2>1. CASE ended = {}
        BY <2>1, FS_EmptySet
    <2>2. CASE ended # {}
        <3>1. PICK f \in ended : TRUE
            BY <2>2
        <3>2. ended = {f}
            BY <1>8, <3>1
        <3>3. Cardinality({f}) = 1
            BY FS_Singleton
        <3> QED
            BY <3>2, <3>3
    <2> QED
        BY <2>1, <2>2
<1>10. ASSUME NEW e \in ended, NEW f \in events \ {e} PROVE ~(f.at >= e.at)
    <2>1. /\ f.at \in Nat /\ e.at \in Nat /\ Rank[f.status] \in 0..2 /\ Rank[e.status] \in 0..2
          /\ Rank[f.status] < Rank[e.status] => f.at < e.at
          /\ Rank[f.status] = Rank[e.status] => f = e
        BY <1>6
    <2>2. Rank[e.status] = 2
        BY <1>6
    <2>3. Rank[f.status] < Rank[e.status]
        BY <2>1, <2>2
    <2> QED
        BY <2>1, <2>3
<1>11. ASSUME NEW e \in events, NEW f \in events, e # f
       PROVE  ~(e.at = f.at \/ (e.at < f.at /\ Rank[e.status] > Rank[f.status]))
    <2>1. /\ f.at \in Nat /\ e.at \in Nat /\ Rank[f.status] \in 0..2 /\ Rank[e.status] \in 0..2
          /\ Rank[f.status] < Rank[e.status] => f.at < e.at
          /\ Rank[f.status] = Rank[e.status] => f = e
        BY <1>6
    <2>2. Rank[e.status] < Rank[f.status] => e.at < f.at
        BY <1>6
    <2> QED
        BY <1>11, <2>1, <2>2
<1>12. ~(Cardinality(ended) > 1)
    BY <1>9
<1> QED
    BY <1>7, <1>10, <1>11, <1>12 DEF Findings, events

\* By the end of its life the story of a setup has an end.
LEMMA StoryEnds ==
    ASSUME NEW d, d.created \in Nat, NEW b, NEW n \in Nat, d.created + TTL <= n
    PROVE  \E t \in Story(d, b, n) : t.status \in Terminal
<1>1. CASE LostBy(d, b, n) = {}
    <2> DEFINE t == [status |-> "expired", at |-> d.created + TTL]
    <2>1. t \in Story(d, b, n)
        BY <1>1 DEF Story, At, Ends
    <2>2. t.status \in Terminal
        BY DEF Terminal
    <2> QED
        BY <2>1, <2>2
<1>2. CASE LostBy(d, b, n) # {}
    <2> DEFINE first == Min(LostBy(d, b, n))
               t == [status |-> "invalidated", at |-> first]
    <2>1. LostBy(d, b, n) \subseteq Nat
        BY DEF LostBy
    <2>2. first \in First(LostBy(d, b, n))
        BY <1>2, <2>1, MinIsSmallest DEF First
    <2>3. t \in Story(d, b, n)
        BY <2>2 DEF Story, At
    <2>4. t.status \in Terminal
        BY DEF Terminal
    <2> QED
        BY <2>3, <2>4
<1> QED
    BY <1>1, <1>2

\* A setup that an analysis showed after the end of its life has its end in the log.
LEMMA EndIsRecorded ==
    ASSUME ViewInv, LogInv, NEW row \in StillActive, NEW n \in snapshots,
           NEW d \in Shown(bars, n), Id(d) = row.id, d.created + TTL <= n
    PROVE  FALSE
<1>1. n \in Nat
    BY DEF LogInv
<1>2. d.created \in Nat /\ ToSet(d.log) = Story(d, bars, n)
    BY <1>1, ShownIsKnown DEF IsKnown, IsBorn, FollowsStory
<1>3. PICK t \in Story(d, bars, n) : t.status \in Terminal
    BY <1>1, <1>2, StoryEnds
<1> DEFINE f == [id |-> Id(d), status |-> t.status, at |-> t.at]
<1>4. f \in Facts(d, n)
    BY <1>2, <1>3, FactsAre
<1>5. f \in setup_events
    BY <1>4 DEF LogInv
<1>6. f.id = row.id /\ f.status \in Terminal
    BY <1>3
<1> HIDE DEF f
<1> QED
    BY <1>5, <1>6 DEF StillActive, EventsOf

\* The log that irregular and late analyses leave is one that the diagnosis of
\* the data quality accepts (_check_setups, app/analytics/quality.py), and a
\* setup that was analysed while it was closed and still shown is not counted
\* as active (live_setup_funnel, app/analytics/engine.py).
THEOREM TheLogPassesItsAudit == Spec => []LogPassesAudit
<1>1. ASSUME ViewInv, LogInv PROVE LogPassesAudit
    <2>1. \A row \in setups : Findings(row) = {}
        BY <1>1, NothingIsFound
    <2>2. ASSUME NEW row \in StillActive, NEW n \in snapshots, row.id.type # "range_rejection",
                 row.created + TTL <= n, n <= row.created + TTL + RecentClosed
          PROVE  FALSE
        <3>1. row \in setups
            BY DEF StillActive
        <3>2. PICK m \in snapshots : \E e \in Shown(bars, m) : row = Identity(e)
            BY <1>1, <3>1 DEF LogInv
        <3>3. PICK d \in Shown(bars, m) : row = Identity(d)
            BY <3>2
        <3>4. /\ row.id = Id(d) /\ row.created = d.created /\ d.type # "range_rejection"
              /\ m \in Nat /\ n \in Nat
            BY <1>1, <2>2, <3>3 DEF Identity, Id, LogInv
        <3>5. d.created \in Nat /\ TTL \in Nat /\ RecentClosed \in Nat
            BY <3>4, ShownIsKnown, SetupConfigAssumption DEF IsKnown, IsBorn
        <3>6. CASE m <= n
            <4>1. d.created >= Horizon(n)
                BY <2>2, <3>4, <3>5 DEF Horizon
            <4>2. PICK e \in Shown(bars, n) : Same(e, d)
                BY <3>4, <3>6, <4>1, ShownPersists
            <4>3. Id(e) = row.id /\ e.created + TTL <= n
                BY <2>2, <3>4, <4>2 DEF Same, Id
            <4> QED
                BY <1>1, <2>2, <4>2, <4>3, EndIsRecorded
        <3>7. CASE n <= m
            <4>1. d.created + TTL <= m
                BY <2>2, <3>4, <3>5, <3>7
            <4> QED
                BY <1>1, <2>2, <3>2, <3>4, <4>1, EndIsRecorded
        <3> QED
            BY <3>4, <3>6, <3>7
    <2> QED
        BY <2>1, <2>2 DEF LogPassesAudit
<1> QED
    BY <1>1, Logs, PTL

-----------------------------------------------------------------------------
(* The replay of structure, bar by bar.                                     *)

\* One bar, and what becomes known at its close.
StructureStep(b, first, st, t) == SwingsKnown(b, first, ReplayCandle(b, st, t), t)

\* R[t] is the state of the replay from bar first after bar t.
IsStructure(R, b, first, n) ==
    /\ R[first - 1] = StartState
    /\ \A t \in first..n : R[t] = StructureStep(b, first, R[t - 1], t)

\* The equation of the replay.
StructureIter(R, b, first, n) ==
    [t \in first - 1..n |-> IF t = first - 1 THEN StartState ELSE StructureStep(b, first, R[t - 1], t)]

LEMMA StructureExists ==
    ASSUME NEW b, NEW first \in Nat \ {0}, NEW n \in Nat, first - 1 <= n
    PROVE  \E R : R = StructureIter(R, b, first, n)
<1> DEFINE s == first - 1
           Solves(R, k) == R = [t \in s..k |-> IF t = s THEN StartState ELSE StructureStep(b, first, R[t - 1], t)]
           Solved == {k \in Nat : \E R : Solves(R, k)}
<1>1. s \in Nat /\ s + 1 = first /\ n \in s..n
    OBVIOUS
<1> HIDE DEF s
<1>2. s \in Solved
    <2>1. Solves([t \in s..s |-> StartState], s)
        BY <1>1
    <2> HIDE DEF Solves
    <2> QED
        BY <1>1, <2>1
<1>3. ASSUME NEW k \in (s + 1)..n, k - 1 \in Solved PROVE k \in Solved
    <2>1. PICK R : Solves(R, k - 1)
        BY <1>3
    <2>2. k \in Nat /\ k - 1 \in s..(k - 1)
        BY <1>1
    <2> DEFINE Q == [t \in s..k |-> IF t = s THEN StartState ELSE StructureStep(b, first, R[t - 1], t)]
    <2>3. \A t \in s..(k - 1) : Q[t] = R[t]
        <3> TAKE t \in s..(k - 1)
        <3>1. t \in s..k
            BY <1>1, <2>2
        <3>2. Q[t] = IF t = s THEN StartState ELSE StructureStep(b, first, R[t - 1], t)
            BY <3>1
        <3>3. R[t] = IF t = s THEN StartState ELSE StructureStep(b, first, R[t - 1], t)
            <4> DEFINE H == [u \in s..(k - 1) |-> IF u = s THEN StartState ELSE StructureStep(b, first, R[u - 1], u)]
            <4>1. R = H
                BY <2>1
            <4>2. H[t] = IF t = s THEN StartState ELSE StructureStep(b, first, R[t - 1], t)
                OBVIOUS
            <4> HIDE DEF H
            <4> QED
                BY <4>1, <4>2
        <3> HIDE DEF Q, Solves
        <3> QED
            BY <3>2, <3>3
    <2>4. \A t \in s..k : t # s => t - 1 \in s..(k - 1)
        BY <1>1, <2>2
    <2>5. \A t \in s..k : Q[t] = IF t = s THEN StartState ELSE StructureStep(b, first, Q[t - 1], t)
        <3> TAKE t \in s..k
        <3>1. Q[t] = IF t = s THEN StartState ELSE StructureStep(b, first, R[t - 1], t)
            OBVIOUS
        <3>2. t # s => Q[t - 1] = R[t - 1]
            BY <2>3, <2>4
        <3> HIDE DEF Q
        <3> QED
            BY <3>1, <3>2
    <2>6. Solves(Q, k)
        <3> DEFINE H == [t \in s..k |-> IF t = s THEN StartState ELSE StructureStep(b, first, Q[t - 1], t)]
        <3>1. Q = [t \in s..k |-> Q[t]]
            OBVIOUS
        <3>2. \A t \in s..k : H[t] = Q[t]
            <4> HIDE DEF Q
            <4> QED
                BY <2>5
        <3>3. H = [t \in s..k |-> H[t]]
            OBVIOUS
        <3>4. H = Q
            <4> HIDE DEF H, Q
            <4> QED
                BY <3>1, <3>2, <3>3
        <3> HIDE DEF Q
        <3> QED
            BY <3>4
    <2> HIDE DEF Solves, Q
    <2> QED
        BY <2>2, <2>6
<1>4. n \in Solved
    <2> HIDE DEF Solved
    <2> QED
        BY <1>1, <1>2, <1>3, BarInduction
<1>5. PICK R : Solves(R, n)
    BY <1>4
<1> QED
    BY <1>5 DEF s, StructureIter

LEMMA ReplayIs ==
    ASSUME NEW b, NEW first \in Nat \ {0}, Len(b) \in Nat, first - 1 <= Len(b)
    PROVE  \E R : IsStructure(R, b, first, Len(b)) /\ Replay(b, first) = R[Len(b)]
<1> DEFINE n == Len(b)
           Iter(R) == [t \in first - 1..n |->
                         IF t = first - 1 THEN StartState
                         ELSE SwingsKnown(b, first, ReplayCandle(b, R[t - 1], t), t)]
           C == CHOOSE R : R = Iter(R)
<1>0. \A R : StructureIter(R, b, first, n) = Iter(R)
    BY DEF StructureIter, StructureStep
<1>1. PICK R : R = StructureIter(R, b, first, n)
    BY StructureExists
<1>2. C = Iter(C)
    <2>1. R = Iter(R)
        BY <1>0, <1>1
    <2> HIDE DEF Iter
    <2> QED
        BY <2>1
<1>3. Replay(b, first) = C[n]
    BY DEF Replay
<1> HIDE DEF C
<1>4. IsStructure(C, b, first, n)
    <2>1. C[first - 1] = StartState
        BY <1>2
    <2>2. ASSUME NEW t \in first..n PROVE C[t] = StructureStep(b, first, C[t - 1], t)
        <3>1. t \in first - 1..n /\ t # first - 1
            OBVIOUS
        <3> QED
            BY <1>2, <3>1 DEF StructureStep
    <2> QED
        BY <2>1, <2>2 DEF IsStructure
<1> QED
    BY <1>3, <1>4

-----------------------------------------------------------------------------
(* Levels: the price is that of the first extreme, and no bar since then    *)
(* traded beyond an active one.                                             *)

CandlesTo(b, n) == \A t \in 1..n : IsCandle(b[t])

LEMMA CandlePrices ==
    ASSUME NEW side \in Sides, NEW bar, IsCandle(bar)
    PROVE  /\ Extreme(side, bar) \in Int /\ CloseOf(side, bar) \in Int
           /\ CloseOf(side, bar) <= Extreme(side, bar)
<1>1. CASE side = 1
    BY <1>1 DEF IsCandle, Extreme, CloseOf
<1>2. CASE side = -1
    <2>1. bar.l \in Int /\ bar.c \in Int /\ -1 * bar.c = -bar.c /\ bar.l <= bar.c
        BY DEF IsCandle
    <2> QED
        BY <1>2, <2>1 DEF Extreme, CloseOf
<1> QED
    BY <1>1, <1>2 DEF Sides

LevelStatus == {"active", "merged", "swept", "invalidated", "expired"}

LevelType ==
    [side : Sides, eq : BOOLEAN, members : Seq(Nat), price : Int,
     created : Nat, updated : Nat, status : LevelStatus]

Untouched(b, t, side, i) == \A u \in i + 1..t : ~(Extreme(side, b[u]) > Extreme(side, b[i]))

LevelOk(b, t, lv) ==
    /\ lv \in LevelType
    /\ IF lv.eq THEN Len(lv.members) >= 2 ELSE Len(lv.members) = 1
    /\ lv.updated <= t
    /\ Head(lv.members) \in 1..t
    /\ lv.price = Extreme(lv.side, b[Head(lv.members)])
    /\ lv.status = "active" => Untouched(b, t, lv.side, Head(lv.members))

LevelsOk(b, t, levels) == \A lv \in levels : LevelOk(b, t, lv)

LEMMA HeadIs == ASSUME NEW s \in Seq(Nat), Len(s) >= 1 PROVE Head(s) = s[1] /\ s[1] \in Nat
OBVIOUS

LEMMA SettledIs ==
    ASSUME NEW lv \in LevelType, NEW status \in LevelStatus, NEW t \in Nat
    PROVE  /\ Settled(lv, status, t) \in LevelType
           /\ Settled(lv, status, t).status = status /\ Settled(lv, status, t).updated = t
           /\ Settled(lv, status, t).side = lv.side /\ Settled(lv, status, t).eq = lv.eq
           /\ Settled(lv, status, t).members = lv.members /\ Settled(lv, status, t).price = lv.price
           /\ Settled(lv, status, t).created = lv.created
<1> DEFINE x == [lv EXCEPT !.status = status, !.updated = t]
<1>1. x \in LevelType
    BY DEF LevelType
<1>2. /\ x.status = status /\ x.updated = t /\ x.side = lv.side /\ x.eq = lv.eq
      /\ x.members = lv.members /\ x.price = lv.price /\ x.created = lv.created
    BY DEF LevelType
<1> HIDE DEF x
<1>3. Settled(lv, status, t) = x
    BY DEF Settled, x
<1> QED
    BY <1>1, <1>2, <1>3

LEMMA SettledOk ==
    ASSUME NEW b, NEW t \in Nat, NEW lv, LevelOk(b, t, lv),
           NEW status \in LevelStatus \ {"active"}
    PROVE  LevelOk(b, t, Settled(lv, status, t))
<1>1. lv \in LevelType /\ status \in LevelStatus /\ status # "active"
    BY DEF LevelOk
<1>2. t <= t
    OBVIOUS
<1> DEFINE x == Settled(lv, status, t)
<1>3. /\ x \in LevelType /\ x.status = status /\ x.updated = t
      /\ x.side = lv.side /\ x.eq = lv.eq /\ x.members = lv.members /\ x.price = lv.price
    BY <1>1, SettledIs
<1> HIDE DEF x
<1>4. LevelOk(b, t, x)
    BY <1>1, <1>2, <1>3 DEF LevelOk
<1> QED
    BY <1>4 DEF x

LEMMA InteractedOk ==
    ASSUME NEW b, NEW t \in Nat \ {0}, CandlesTo(b, t), NEW lv, LevelOk(b, t - 1, lv)
    PROVE  LevelOk(b, t, Interacted(lv, b[t], t))
<1> DEFINE h == Head(lv.members)
<1>1. lv \in LevelType /\ h \in 1..(t - 1) /\ lv.updated <= t - 1
    BY DEF LevelOk
<1>2. CASE lv.status # "active" \/ ~Pierced(lv, b[t])
    <2>1. lv.status = "active" => Untouched(b, t, lv.side, h)
        <3> SUFFICES ASSUME lv.status = "active", NEW u \in h + 1..t
                     PROVE  ~(Extreme(lv.side, b[u]) > Extreme(lv.side, b[h]))
            BY DEF Untouched
        <3>1. CASE u = t
            BY <1>2, <3>1 DEF Pierced, LevelOk
        <3>2. CASE u # t
            <4>1. u \in h + 1..(t - 1)
                BY <1>1, <3>2
            <4> QED
                BY <4>1 DEF LevelOk, Untouched
        <3> QED
            BY <3>1, <3>2
    <2>2. Interacted(lv, b[t], t) = lv
        BY <1>2 DEF Interacted
    <2>3. h \in 1..t /\ lv.updated <= t
        BY <1>1 DEF LevelType
    <2> QED
        BY <2>1, <2>2, <2>3 DEF LevelOk
<1>3. CASE lv.status = "active" /\ Pierced(lv, b[t])
    <2>1. PICK status \in {"swept", "invalidated"} : Interacted(lv, b[t], t) = Settled(lv, status, t)
        BY <1>3 DEF Interacted
    <2>2. h \in 1..t /\ t \in Nat /\ t <= t
        BY <1>1
    <2>3. status \in LevelStatus /\ status # "active"
        BY DEF LevelStatus
    <2> DEFINE x == Settled(lv, status, t)
    <2>4. /\ x \in LevelType /\ x.status = status /\ x.updated = t
          /\ x.side = lv.side /\ x.eq = lv.eq /\ x.members = lv.members /\ x.price = lv.price
        BY <1>1, <2>2, <2>3, SettledIs
    <2> HIDE DEF x
    <2>5. LevelOk(b, t, x)
        BY <1>1, <2>2, <2>3, <2>4 DEF LevelOk
    <2> QED
        BY <2>1, <2>5 DEF x
<1> QED
    BY <1>2, <1>3

LEMMA LargestOf ==
    ASSUME NEW t \in Nat, NEW N, N \subseteq 0..t, N # {}
    PROVE  \E n \in N : \A m \in N : m <= n
<1> DEFINE Below == {t - x : x \in N}
<1>0. \A x \in N : t - x \in Nat
    OBVIOUS
<1>1. Below \subseteq Nat /\ Below # {}
    BY <1>0
<1>2. PICK k \in Below : \A m \in Below : k <= m
    <2> HIDE DEF Below
    <2> QED
        BY <1>1, SmallestOf
<1>3. PICK n \in N : k = t - n
    BY <1>2
<1>4. \A m \in N : m <= n
    <2> TAKE m \in N
    <2>1. t - m \in Below
        OBVIOUS
    <2>2. k <= t - m
        BY <1>2, <2>1
    <2> QED
        BY <1>3, <2>2
<1> QED
    BY <1>4

LEMMA LastIsThere ==
    ASSUME NEW b, NEW t \in Nat, NEW S, S # {}, LevelsOk(b, t, S)
    PROVE  LastUpdated(S) \in S /\ LastFormed(S) \in S
<1>1. \E lv \in S : \A other \in S : other.updated <= lv.updated
    <2> DEFINE N == {lv.updated : lv \in S}
    <2>1. N # {} /\ N \subseteq 0..t
        BY DEF LevelsOk, LevelOk, LevelType
    <2>2. \E n \in N : \A m \in N : m <= n
        <3> HIDE DEF N
        <3> QED
            BY <2>1, LargestOf
    <2> QED
        BY <2>2
<1>2. \E lv \in S : \A other \in S : Head(other.members) <= Head(lv.members)
    <2> DEFINE N == {Head(lv.members) : lv \in S}
    <2>1. N # {} /\ N \subseteq 0..t
        BY DEF LevelsOk, LevelOk
    <2>2. \E n \in N : \A m \in N : m <= n
        <3> HIDE DEF N
        <3> QED
            BY <2>1, LargestOf
    <2> QED
        BY <2>2
<1> QED
    BY <1>1, <1>2 DEF LastUpdated, LastFormed

LEMMA OwnOk ==
    ASSUME NEW b, NEW t \in Nat, CandlesTo(b, t), NEW side \in Sides, NEW i \in 1..t, Untouched(b, t, side, i)
    PROVE  LevelOk(b, t, Level(side, FALSE, <<i>>, Extreme(side, b[i]), t))
<1>1. Extreme(side, b[i]) \in Int
    BY CandlePrices DEF CandlesTo
<1>2. <<i>> \in Seq(Nat) /\ Len(<<i>>) = 1 /\ Head(<<i>>) = i /\ t <= t
    OBVIOUS
<1> DEFINE x == Level(side, FALSE, <<i>>, Extreme(side, b[i]), t)
<1>3. /\ x \in LevelType /\ x.side = side /\ x.eq = FALSE /\ x.members = <<i>>
      /\ x.price = Extreme(side, b[i]) /\ x.updated = t
    BY <1>1, <1>2 DEF Level, LevelType, LevelStatus
<1> HIDE DEF x
<1>4. LevelOk(b, t, x)
    BY <1>2, <1>3 DEF LevelOk
<1> QED
    BY <1>4 DEF x

\* No later extreme lies beyond the first one of an active level.
LEMMA FirstIsOuter ==
    ASSUME NEW b, NEW t \in Nat, CandlesTo(b, t), NEW lv, LevelOk(b, t, lv), lv.status = "active",
           NEW i \in 1..t, Head(lv.members) < i
    PROVE  OuterEdge(lv.price, Extreme(lv.side, b[i])) = lv.price
<1>1. /\ lv.side \in Sides /\ Head(lv.members) \in 1..t
      /\ lv.price = Extreme(lv.side, b[Head(lv.members)])
    BY DEF LevelOk, LevelType
<1>2. Extreme(lv.side, b[i]) \in Int /\ lv.price \in Int
    BY <1>1, CandlePrices DEF CandlesTo
<1>3. i \in Head(lv.members) + 1..t
    BY <1>1
<1>4. ~(Extreme(lv.side, b[i]) > lv.price)
    BY <1>1, <1>3 DEF LevelOk, Untouched
<1> QED
    BY <1>2, <1>4 DEF OuterEdge

LEMMA JoinedOk ==
    ASSUME NEW b, NEW t \in Nat, CandlesTo(b, t), NEW lv, LevelOk(b, t, lv), lv.eq, lv.status = "active",
           NEW i \in 1..t, Head(lv.members) < i,
           NEW own, own.side = lv.side, own.price = Extreme(lv.side, b[i]), Head(own.members) = i,
           NEW x, x = WithMember(lv, own, t)
    PROVE  LevelOk(b, t, x) /\ x.side = lv.side /\ x.eq /\ Head(x.members) = Head(lv.members)
<1>1. OuterEdge(lv.price, Extreme(lv.side, b[i])) = lv.price
    BY FirstIsOuter
<1>2. lv \in LevelType /\ Len(lv.members) >= 2
    BY DEF LevelOk
<1> DEFINE m == Append(lv.members, i)
<1>3. m \in Seq(Nat) /\ Len(m) >= 2 /\ Head(m) = Head(lv.members)
    BY <1>2 DEF LevelType
<1> HIDE DEF m
<1>4. x = [lv EXCEPT !.members = m, !.price = lv.price, !.updated = t]
    BY <1>1 DEF m, WithMember
<1>5. /\ x \in LevelType /\ x.members = m /\ x.price = lv.price /\ x.updated = t
      /\ x.side = lv.side /\ x.eq = lv.eq /\ x.status = lv.status
    BY <1>2, <1>3, <1>4 DEF LevelType
<1>6. t <= t
    OBVIOUS
<1> QED
    BY <1>3, <1>5, <1>6 DEF LevelOk

LEMMA PairedOk ==
    ASSUME NEW b, NEW t \in Nat, CandlesTo(b, t), NEW lv, LevelOk(b, t, lv), lv.status = "active",
           NEW i \in 1..t, Head(lv.members) < i,
           NEW own, own.side = lv.side, own.price = Extreme(lv.side, b[i]), Head(own.members) = i,
           NEW x, x = PairOf(lv, own, t)
    PROVE  LevelOk(b, t, x) /\ x.side = lv.side /\ x.eq /\ Head(x.members) = Head(lv.members)
<1>1. OuterEdge(lv.price, Extreme(lv.side, b[i])) = lv.price
    BY FirstIsOuter
<1>2. lv \in LevelType /\ Head(lv.members) \in 1..t
    BY DEF LevelOk
<1> DEFINE m == <<Head(lv.members), i>>
<1>3. m \in Seq(Nat) /\ Len(m) = 2 /\ Head(m) = Head(lv.members)
    BY <1>2
<1> HIDE DEF m
<1>4. x = Level(lv.side, TRUE, m, lv.price, t)
    BY <1>1 DEF m, PairOf
<1>5. /\ x \in LevelType /\ x.members = m /\ x.price = lv.price /\ x.updated = t
      /\ x.side = lv.side /\ x.eq = TRUE /\ x.status = "active"
    BY <1>2, <1>3, <1>4 DEF LevelType, Level, LevelStatus
<1>6. t <= t /\ Len(m) >= 2
    BY <1>3
<1>7. LevelOk(b, t, x)
    BY <1>2, <1>3, <1>5, <1>6 DEF LevelOk
<1> QED
    BY <1>3, <1>5, <1>7

\* Where the levels come from when the pivot i becomes known.
FromSwing(levels, side, i, x) ==
    \/ x \in levels
    \/ x.side = side /\ Head(x.members) = i /\ x.status \in {"active", "merged"}
    \/ /\ x.side = side /\ (x.eq \/ x.status = "merged")
       /\ \E lv \in levels : lv.side = side /\ Head(lv.members) = Head(x.members)

LEMMA WithSwingIs ==
    ASSUME NEW b, NEW t \in Nat, CandlesTo(b, t), NEW levels, LevelsOk(b, t, levels),
           NEW side \in Sides, NEW i \in 1..t, Untouched(b, t, side, i),
           \A lv \in levels : lv.side = side => Head(lv.members) < i
    PROVE  \A x \in WithSwing(b, levels, side, i, t) : LevelOk(b, t, x) /\ FromSwing(levels, side, i, x)
<1> DEFINE own == Level(side, FALSE, <<i>>, Extreme(side, b[i]), t)
           clusters == Clusters(b, levels, side, i)
           singles == Singles(b, levels, side, i)
           From(x) == LevelOk(b, t, x) /\ FromSwing(levels, side, i, x)
<1>1. LevelOk(b, t, own) /\ own \in LevelType
    BY OwnOk DEF LevelOk
<1>2. /\ own.side = side /\ own.members = <<i>> /\ Head(own.members) = i /\ own.status = "active"
      /\ own.price = Extreme(side, b[i])
    BY DEF Level
<1> HIDE DEF own
<1>3. \A x \in levels : From(x)
    BY DEF LevelsOk, FromSwing
<1>4. From(own)
    BY <1>1, <1>2 DEF FromSwing
<1>5. From(Settled(own, "merged", t))
    <2>1. LevelOk(b, t, Settled(own, "merged", t))
        BY <1>1, SettledOk DEF LevelStatus
    <2>2. /\ Settled(own, "merged", t).status = "merged" /\ Settled(own, "merged", t).side = side
          /\ Settled(own, "merged", t).members = own.members
        <3>1. "merged" \in LevelStatus
            BY DEF LevelStatus
        <3> QED
            BY <1>1, <1>2, <3>1, SettledIs
    <2> QED
        BY <1>2, <2>1, <2>2 DEF FromSwing
<1>6. CASE t >= AtrFrom /\ clusters # {}
    <2> DEFINE lv == LastUpdated(clusters)
               x == WithMember(lv, own, t)
    <2>1. lv \in clusters
        <3>1. LevelsOk(b, t, clusters)
            BY DEF LevelsOk, Clusters, NearBy, Active
        <3> QED
            BY <1>6, <3>1, LastIsThere
    <2> HIDE DEF lv
    <2>2. lv \in levels /\ lv.status = "active" /\ lv.side = side /\ lv.eq
        BY <2>1 DEF Clusters, NearBy, Active
    <2>3. LevelOk(b, t, lv) /\ Head(lv.members) < i
        BY <2>2 DEF LevelsOk
    <2>4. LevelOk(b, t, x) /\ x.side = side /\ x.eq /\ Head(x.members) = Head(lv.members)
        BY <1>2, <2>2, <2>3, JoinedOk
    <2>5. WithSwing(b, levels, side, i, t) = (levels \ {lv}) \cup {Settled(own, "merged", t), x}
        BY <1>2, <1>6, <2>2 DEF WithSwing, Join, own, lv
    <2> HIDE DEF x
    <2>6. From(x)
        BY <2>2, <2>4 DEF FromSwing
    <2> HIDE DEF From
    <2>7. \A y \in WithSwing(b, levels, side, i, t) : From(y)
        BY <1>3, <1>5, <2>5, <2>6
    <2> QED
        BY <2>7 DEF From
<1>7. CASE ~(t >= AtrFrom /\ clusters # {}) /\ t >= AtrFrom /\ singles # {}
    <2> DEFINE lv == LastFormed(singles)
               x == PairOf(lv, own, t)
    <2>1. lv \in singles
        <3>1. LevelsOk(b, t, singles)
            BY DEF LevelsOk, Singles, NearBy, Active
        <3> QED
            BY <1>7, <3>1, LastIsThere
    <2> HIDE DEF lv
    <2>2. lv \in levels /\ lv.status = "active" /\ lv.side = side
        BY <2>1 DEF Singles, NearBy, Active
    <2>3. LevelOk(b, t, lv) /\ Head(lv.members) < i /\ lv \in LevelType
        BY <2>2 DEF LevelsOk, LevelOk
    <2>4. LevelOk(b, t, x) /\ x.side = side /\ x.eq /\ Head(x.members) = Head(lv.members)
        BY <1>2, <2>2, <2>3, PairedOk
    <2>5. WithSwing(b, levels, side, i, t) =
            (levels \ {lv}) \cup {Settled(own, "merged", t), Settled(lv, "merged", t), x}
        BY <1>2, <1>7, <2>2 DEF WithSwing, Pair, own, lv
    <2> HIDE DEF x
    <2>6. From(x)
        BY <2>2, <2>4 DEF FromSwing
    <2>7. From(Settled(lv, "merged", t))
        <3>1. LevelOk(b, t, Settled(lv, "merged", t))
            BY <2>3, SettledOk DEF LevelStatus
        <3>2. /\ Settled(lv, "merged", t).status = "merged" /\ Settled(lv, "merged", t).side = side
              /\ Settled(lv, "merged", t).members = lv.members
            <4>1. "merged" \in LevelStatus
                BY DEF LevelStatus
            <4> QED
                BY <2>2, <2>3, <4>1, SettledIs
        <3> QED
            BY <2>2, <3>1, <3>2 DEF FromSwing
    <2> HIDE DEF From
    <2>8. \A y \in WithSwing(b, levels, side, i, t) : From(y)
        BY <1>3, <1>5, <2>5, <2>6, <2>7
    <2> QED
        BY <2>8 DEF From
<1>8. CASE ~(t >= AtrFrom /\ clusters # {}) /\ ~(t >= AtrFrom /\ singles # {})
    <2>1. WithSwing(b, levels, side, i, t) = levels \cup {own}
        BY <1>8 DEF WithSwing, own
    <2> HIDE DEF From
    <2>2. \A y \in WithSwing(b, levels, side, i, t) : From(y)
        BY <1>3, <1>4, <2>1
    <2> QED
        BY <2>2 DEF From
<1> QED
    BY <1>6, <1>7, <1>8

-----------------------------------------------------------------------------
(* The state of the replay and what each part of a bar makes of it.         *)

StateOf(trend, ref, broken, levels, events, sweeps) ==
    [trend |-> trend, ref |-> ref, broken |-> broken,
     levels |-> levels, events |-> events, sweeps |-> sweeps]

IsState(st) ==
    /\ st = StateOf(st.trend, st.ref, st.broken, st.levels, st.events, st.sweeps)
    /\ st.ref \in [Sides -> Nat] /\ st.broken \in [Sides -> BOOLEAN]

LEMMA StateFields ==
    ASSUME NEW trend, NEW ref, NEW broken, NEW levels, NEW events, NEW sweeps,
           NEW st, st = StateOf(trend, ref, broken, levels, events, sweeps)
    PROVE  /\ st.trend = trend /\ st.ref = ref /\ st.broken = broken
           /\ st.levels = levels /\ st.events = events /\ st.sweeps = sweeps
BY DEF StateOf

PutTrend(st, x) == [st EXCEPT !.trend = x]
PutRef(st, x) == [st EXCEPT !.ref = x]
PutBroken(st, x) == [st EXCEPT !.broken = x]
PutLevels(st, x) == [st EXCEPT !.levels = x]
PutEvents(st, x) == [st EXCEPT !.events = x]
PutSweeps(st, x) == [st EXCEPT !.sweeps = x]

LEMMA StateChanges ==
    ASSUME NEW trend, NEW ref, NEW broken, NEW levels, NEW events, NEW sweeps, NEW x,
           NEW st, st = StateOf(trend, ref, broken, levels, events, sweeps)
    PROVE  /\ PutTrend(st, x) = StateOf(x, ref, broken, levels, events, sweeps)
           /\ PutRef(st, x) = StateOf(trend, x, broken, levels, events, sweeps)
           /\ PutBroken(st, x) = StateOf(trend, ref, x, levels, events, sweeps)
           /\ PutLevels(st, x) = StateOf(trend, ref, broken, x, events, sweeps)
           /\ PutEvents(st, x) = StateOf(trend, ref, broken, levels, x, sweeps)
           /\ PutSweeps(st, x) = StateOf(trend, ref, broken, levels, events, x)
<1>1. PutTrend(st, x) = StateOf(x, ref, broken, levels, events, sweeps)
    BY DEF StateOf, PutTrend
<1>2. PutRef(st, x) = StateOf(trend, x, broken, levels, events, sweeps)
    BY DEF StateOf, PutRef
<1>3. PutBroken(st, x) = StateOf(trend, ref, x, levels, events, sweeps)
    BY DEF StateOf, PutBroken
<1>4. PutLevels(st, x) = StateOf(trend, ref, broken, x, events, sweeps)
    BY DEF StateOf, PutLevels
<1>5. PutEvents(st, x) = StateOf(trend, ref, broken, levels, x, sweeps)
    BY DEF StateOf, PutEvents
<1>6. PutSweeps(st, x) = StateOf(trend, ref, broken, levels, events, x)
    BY DEF StateOf, PutSweeps
<1> QED
    BY <1>1, <1>2, <1>3, <1>4, <1>5, <1>6

LEMMA NewState ==
    ASSUME NEW trend, NEW ref \in [Sides -> Nat], NEW broken \in [Sides -> BOOLEAN],
           NEW levels, NEW events, NEW sweeps
    PROVE  IsState(StateOf(trend, ref, broken, levels, events, sweeps))
<1> DEFINE st == StateOf(trend, ref, broken, levels, events, sweeps)
<1>1. /\ st.trend = trend /\ st.ref = ref /\ st.broken = broken
      /\ st.levels = levels /\ st.events = events /\ st.sweeps = sweeps
    BY StateFields
<1>2. st = StateOf(trend, ref, broken, levels, events, sweeps)
    OBVIOUS
<1> HIDE DEF st
<1>3. IsState(st)
    BY <1>1, <1>2 DEF IsState
<1> QED
    BY <1>3 DEF st

LEMMA StartIs == IsState(StartState)
<1>1. [s \in Sides |-> 0] \in [Sides -> Nat] /\ [s \in Sides |-> FALSE] \in [Sides -> BOOLEAN]
    OBVIOUS
<1>2. StartState = StateOf(0, [s \in Sides |-> 0], [s \in Sides |-> FALSE], {}, <<>>, {})
    BY DEF StartState, StateOf
<1> QED
    BY <1>1, <1>2, NewState

LEMMA OnSwingIs ==
    ASSUME NEW b, NEW st, IsState(st), NEW side \in Sides, NEW i \in Nat, NEW t
    PROVE  /\ IsState(OnSwing(b, st, side, i, t))
           /\ OnSwing(b, st, side, i, t) =
                StateOf(st.trend, [st.ref EXCEPT ![side] = i], [st.broken EXCEPT ![side] = FALSE],
                        WithSwing(b, st.levels, side, i, t), st.events, st.sweeps)
<1> DEFINE ref == [st.ref EXCEPT ![side] = i]
           broken == [st.broken EXCEPT ![side] = FALSE]
           levels == WithSwing(b, st.levels, side, i, t)
           one == PutRef(st, ref)
           two == PutBroken(one, broken)
<1>1. OnSwing(b, st, side, i, t) = PutLevels(two, levels)
    <2>1. OnSwing(b, st, side, i, t) = [st EXCEPT !.ref[side] = i, !.broken[side] = FALSE, !.levels = levels]
        BY DEF OnSwing
    <2> HIDE DEF levels
    <2> QED
        BY <2>1 DEF PutRef, PutBroken, PutLevels
<1>2. ref \in [Sides -> Nat] /\ broken \in [Sides -> BOOLEAN]
    BY DEF IsState
<1>3. one = StateOf(st.trend, ref, st.broken, st.levels, st.events, st.sweeps)
    BY StateChanges DEF IsState
<1> HIDE DEF ref, broken, levels, one
<1>4. two = StateOf(st.trend, ref, broken, st.levels, st.events, st.sweeps)
    BY <1>3, StateChanges
<1> HIDE DEF two
<1>5. PutLevels(two, levels) = StateOf(st.trend, ref, broken, levels, st.events, st.sweeps)
    BY <1>4, StateChanges
<1>6. IsState(PutLevels(two, levels))
    BY <1>2, <1>5, NewState
<1>7. /\ IsState(OnSwing(b, st, side, i, t))
      /\ OnSwing(b, st, side, i, t) = StateOf(st.trend, ref, broken, levels, st.events, st.sweeps)
    BY <1>1, <1>5, <1>6
<1> QED
    BY <1>7 DEF ref, broken, levels

InteractedLevels(levels, bar, t) == {Interacted(lv, bar, t) : lv \in levels}
SweepsOf(st, bar, t) == {[id |-> <<LevelId(lv), t>>, price |-> lv.price] : lv \in Swept(st, bar)}

LEMMA InteractIs ==
    ASSUME NEW st, IsState(st), NEW bar, NEW t
    PROVE  /\ IsState(Interact(st, bar, t))
           /\ Interact(st, bar, t) =
                StateOf(st.trend, st.ref, st.broken, InteractedLevels(st.levels, bar, t),
                        st.events, st.sweeps \cup SweepsOf(st, bar, t))
<1> DEFINE levels == InteractedLevels(st.levels, bar, t)
           sweeps == st.sweeps \cup SweepsOf(st, bar, t)
           one == PutLevels(st, levels)
<1>1. Interact(st, bar, t) = [st EXCEPT !.levels = levels, !.sweeps = sweeps]
    BY DEF Interact, InteractedLevels, SweepsOf
<1> HIDE DEF levels, sweeps
<1>2. Interact(st, bar, t) = PutSweeps(one, sweeps)
    BY <1>1 DEF PutLevels, PutSweeps
<1>3. one = StateOf(st.trend, st.ref, st.broken, levels, st.events, st.sweeps)
    BY StateChanges DEF IsState
<1> HIDE DEF one
<1>4. PutSweeps(one, sweeps) = StateOf(st.trend, st.ref, st.broken, levels, st.events, sweeps)
    BY <1>3, StateChanges
<1>5. st.ref \in [Sides -> Nat] /\ st.broken \in [Sides -> BOOLEAN]
    BY DEF IsState
<1> QED
    BY <1>2, <1>4, <1>5, NewState DEF levels, sweeps

ExpiredLevels(levels, t) ==
    {IF lv.status = "active" /\ t - lv.created >= LevelExpiry THEN Settled(lv, "expired", t) ELSE lv : lv \in levels}

LEMMA ExpiredIs ==
    ASSUME NEW st, IsState(st), NEW t
    PROVE  /\ IsState(Expired(st, t))
           /\ Expired(st, t) = StateOf(st.trend, st.ref, st.broken, ExpiredLevels(st.levels, t), st.events, st.sweeps)
<1> DEFINE levels == ExpiredLevels(st.levels, t)
<1>1. Expired(st, t) = PutLevels(st, levels)
    BY DEF Expired, ExpiredLevels, PutLevels
<1> HIDE DEF levels
<1>2. PutLevels(st, levels) = StateOf(st.trend, st.ref, st.broken, levels, st.events, st.sweeps)
    BY StateChanges DEF IsState
<1>3. st.ref \in [Sides -> Nat] /\ st.broken \in [Sides -> BOOLEAN]
    BY DEF IsState
<1> QED
    BY <1>1, <1>2, <1>3, NewState DEF levels

\* The event that a break of bar t adds.
NewBreak(st, side, t) ==
    [id |-> <<side, st.ref[side], t>>, prior |-> st.trend, label |-> Label(st.trend, side)]

LEMMA BreakOfIs ==
    ASSUME NEW b, NEW st, IsState(st), NEW side \in Sides, NEW t, Breaks(b, st, side, t)
    PROVE  /\ IsState(BreakOf(b, st, side, t))
           /\ BreakOf(b, st, side, t) =
                StateOf(side, st.ref, [st.broken EXCEPT ![side] = TRUE], st.levels,
                        Append(st.events, NewBreak(st, side, t)), st.sweeps)
<1> DEFINE events == Append(st.events, NewBreak(st, side, t))
           broken == [st.broken EXCEPT ![side] = TRUE]
           one == PutEvents(st, events)
           two == PutTrend(one, side)
<1>1. BreakOf(b, st, side, t) = [st EXCEPT !.events = events, !.trend = side, !.broken[side] = TRUE]
    BY DEF BreakOf, NewBreak
<1>2. BreakOf(b, st, side, t) = PutBroken(two, broken)
    <2> HIDE DEF events
    <2> QED
        BY <1>1 DEF PutEvents, PutTrend, PutBroken
<1>3. broken \in [Sides -> BOOLEAN] /\ st.ref \in [Sides -> Nat]
    BY DEF IsState
<1> HIDE DEF events, broken
<1>4. one = StateOf(st.trend, st.ref, st.broken, st.levels, events, st.sweeps)
    BY StateChanges DEF IsState
<1> HIDE DEF one
<1>5. two = StateOf(side, st.ref, st.broken, st.levels, events, st.sweeps)
    BY <1>4, StateChanges
<1> HIDE DEF two
<1>6. PutBroken(two, broken) = StateOf(side, st.ref, broken, st.levels, events, st.sweeps)
    BY <1>5, StateChanges
<1>7. IsState(PutBroken(two, broken))
    BY <1>3, <1>6, NewState
<1>8. /\ IsState(BreakOf(b, st, side, t))
      /\ BreakOf(b, st, side, t) = StateOf(side, st.ref, broken, st.levels, events, st.sweeps)
    BY <1>2, <1>6, <1>7
<1> QED
    BY <1>8 DEF events, broken

LEMMA OneBreakIs ==
    ASSUME NEW b, NEW st, IsState(st), NEW side \in Sides, NEW t
    PROVE  /\ Breaks(b, st, side, t) =>
                /\ BreakOf(b, st, side, t).trend = side
                /\ BreakOf(b, st, side, t).events = Append(st.events, NewBreak(st, side, t))
           /\ ~Breaks(b, st, side, t) => BreakOf(b, st, side, t) = st
<1>1. CASE Breaks(b, st, side, t)
    <2> DEFINE broken == [st.broken EXCEPT ![side] = TRUE]
               events == Append(st.events, NewBreak(st, side, t))
               x == BreakOf(b, st, side, t)
    <2>1. x = StateOf(side, st.ref, broken, st.levels, events, st.sweeps)
        BY <1>1, BreakOfIs
    <2> HIDE DEF broken, events, x
    <2>2. x.trend = side /\ x.events = events
        BY <2>1, StateFields
    <2> QED
        BY <1>1, <2>2 DEF events, x
<1>2. CASE ~Breaks(b, st, side, t)
    BY <1>2 DEF BreakOf
<1> QED
    BY <1>1, <1>2

LEMMA OneBreak ==
    ASSUME NEW b, NEW st, IsState(st), NEW side \in Sides, NEW t
    PROVE  /\ IsState(BreakOf(b, st, side, t)) /\ BreakOf(b, st, side, t).ref = st.ref
           /\ BreakOf(b, st, side, t).levels = st.levels /\ BreakOf(b, st, side, t).sweeps = st.sweeps
           /\ \A s \in Sides : BreakOf(b, st, side, t).broken[s] <=>
                                  st.broken[s] \/ (s = side /\ Breaks(b, st, side, t))
<1> DEFINE x == BreakOf(b, st, side, t)
<1>1. CASE Breaks(b, st, side, t)
    <2> DEFINE broken == [st.broken EXCEPT ![side] = TRUE]
               events == Append(st.events, NewBreak(st, side, t))
    <2>1. IsState(x) /\ x = StateOf(side, st.ref, broken, st.levels, events, st.sweeps)
        BY <1>1, BreakOfIs
    <2>2. \A s \in Sides : broken[s] <=> st.broken[s] \/ s = side
        BY DEF IsState
    <2> HIDE DEF broken, events, x
    <2>3. /\ x.ref = st.ref /\ x.levels = st.levels /\ x.sweeps = st.sweeps /\ x.broken = broken
        BY <2>1, StateFields
    <2>4. /\ IsState(x) /\ x.ref = st.ref /\ x.levels = st.levels /\ x.sweeps = st.sweeps
          /\ \A s \in Sides : x.broken[s] <=> st.broken[s] \/ (s = side /\ Breaks(b, st, side, t))
        BY <1>1, <2>1, <2>2, <2>3
    <2> QED
        BY <2>4 DEF x
<1>2. CASE ~Breaks(b, st, side, t)
    <2>1. x = st
        BY <1>2 DEF BreakOf
    <2> HIDE DEF x
    <2>2. /\ IsState(x) /\ x.ref = st.ref /\ x.levels = st.levels /\ x.sweeps = st.sweeps
          /\ \A s \in Sides : x.broken[s] <=> st.broken[s] \/ (s = side /\ Breaks(b, st, side, t))
        BY <1>2, <2>1
    <2> QED
        BY <2>2 DEF x
<1> QED
    BY <1>1, <1>2

\* The breaks of a bar, bullish first.
Broken(b, st, t) == BreakOf(b, BreakOf(b, st, 1, t), -1, t)

LEMMA TwoBreaks ==
    ASSUME NEW b, NEW st, IsState(st), NEW t
    PROVE  /\ IsState(BreakOf(b, st, 1, t)) /\ IsState(Broken(b, st, t))
           /\ BreakOf(b, st, 1, t).ref = st.ref /\ Broken(b, st, t).ref = st.ref
           /\ Broken(b, st, t).levels = st.levels /\ Broken(b, st, t).sweeps = st.sweeps
           /\ Breaks(b, BreakOf(b, st, 1, t), -1, t) <=> Breaks(b, st, -1, t)
           /\ \A s \in Sides : Broken(b, st, t).broken[s] <=> st.broken[s] \/ Breaks(b, st, s, t)
<1> DEFINE up == 1
           down == -1
           one == BreakOf(b, st, up, t)
           x == BreakOf(b, one, down, t)
<1>1. up \in Sides /\ down \in Sides /\ up # down /\ \A s \in Sides : s = up \/ s = down
    BY DEF Sides
<1>0. Broken(b, st, t) = x
    BY DEF Broken
<1> HIDE DEF up, down, x
<1>2. /\ IsState(one) /\ one.ref = st.ref /\ one.levels = st.levels /\ one.sweeps = st.sweeps
      /\ \A s \in Sides : one.broken[s] <=> st.broken[s] \/ (s = up /\ Breaks(b, st, up, t))
    BY <1>1, OneBreak
<1>3. Breaks(b, one, down, t) <=> Breaks(b, st, down, t)
    <2> HIDE DEF one
    <2> QED
        BY <1>1, <1>2 DEF Breaks
<1>4. /\ IsState(x) /\ x.ref = one.ref /\ x.levels = one.levels /\ x.sweeps = one.sweeps
      /\ \A s \in Sides : x.broken[s] <=> one.broken[s] \/ (s = down /\ Breaks(b, one, down, t))
    <2> HIDE DEF one
    <2> QED
        BY <1>1, <1>2, OneBreak DEF x
<1> HIDE DEF one
<1>5. \A s \in Sides : x.broken[s] <=> st.broken[s] \/ Breaks(b, st, s, t)
    BY <1>1, <1>2, <1>3, <1>4
<1>6. /\ IsState(one) /\ IsState(Broken(b, st, t))
      /\ one.ref = st.ref /\ Broken(b, st, t).ref = st.ref
      /\ Broken(b, st, t).levels = st.levels /\ Broken(b, st, t).sweeps = st.sweeps
    BY <1>0, <1>2, <1>4
<1>7. \A s \in Sides : Broken(b, st, t).broken[s] <=> st.broken[s] \/ Breaks(b, st, s, t)
    BY <1>0, <1>5
<1> QED
    BY <1>3, <1>6, <1>7 DEF one, up, down

-----------------------------------------------------------------------------
(* The levels and the last pivots of a replay.                              *)

HeadsOk(st) == \A lv \in st.levels : Head(lv.members) <= st.ref[lv.side]

Agree(st) ==
    \A lv \in st.levels : ~lv.eq /\ Head(lv.members) = st.ref[lv.side] =>
        /\ lv.status = "active" => ~st.broken[lv.side]
        /\ lv.status = "invalidated" => st.broken[lv.side]

SweepOk(b, t, x) ==
    \E side \in Sides, eq \in BOOLEAN, m \in Seq(Nat), u \in Nat :
        /\ Len(m) >= 1 /\ m[1] \in 1..t
        /\ x = [id |-> <<<<side, eq, m>>, u>>, price |-> Extreme(side, b[m[1]])]

LevelsInv(b, t, st) ==
    /\ IsState(st)
    /\ LevelsOk(b, t, st.levels) /\ HeadsOk(st) /\ Agree(st)
    /\ \A x \in st.sweeps : SweepOk(b, t, x)

LEMMA SweepIsOk ==
    ASSUME NEW b, NEW t \in Nat \ {0}, NEW lv, LevelOk(b, t - 1, lv)
    PROVE  SweepOk(b, t, [id |-> <<LevelId(lv), t>>, price |-> lv.price])
<1>1. /\ lv.side \in Sides /\ lv.eq \in BOOLEAN /\ lv.members \in Seq(Nat)
      /\ Len(lv.members) >= (IF lv.eq THEN 2 ELSE 1)
      /\ Head(lv.members) \in 1..(t - 1) /\ lv.price = Extreme(lv.side, b[Head(lv.members)])
    BY DEF LevelOk, LevelType
<1> DEFINE m == SubSeq(lv.members, 1, IF lv.eq THEN 2 ELSE 1)
<1>2. m \in Seq(Nat) /\ Len(m) >= 1 /\ m[1] = Head(lv.members)
    <2>1. CASE lv.eq
        BY <1>1, <2>1
    <2>2. CASE ~lv.eq
        BY <1>1, <2>2
    <2> QED
        BY <2>1, <2>2
<1>3. LevelId(lv) = <<lv.side, lv.eq, m>>
    BY DEF LevelId
<1> HIDE DEF m
<1>4. m[1] \in 1..t
    BY <1>1, <1>2
<1> QED
    BY <1>1, <1>2, <1>3, <1>4 DEF SweepOk

\* What the levels of a bar are made from.
LEMMA InteractedIs ==
    ASSUME NEW b, NEW t \in Nat \ {0}, CandlesTo(b, t), NEW lv, LevelOk(b, t - 1, lv),
           NEW x, x = Interacted(lv, b[t], t)
    PROVE  /\ x.side = lv.side /\ x.eq = lv.eq /\ x.members = lv.members /\ x.price = lv.price
           /\ x.status = "active" => lv.status = "active"
           /\ x.status = "invalidated" => \/ lv.status = "invalidated"
                                          \/ CloseOf(lv.side, b[t]) > lv.price
<1>1. lv \in LevelType
    BY DEF LevelOk
<1>2. CASE lv.status # "active" \/ ~Pierced(lv, b[t])
    BY <1>2 DEF Interacted
<1>3. CASE lv.status = "active" /\ Pierced(lv, b[t])
    <2>1. PICK status \in {"swept", "invalidated"} :
            x = Settled(lv, status, t) /\ (status = "invalidated" => ~ClosedBack(lv, b[t]))
        BY <1>3 DEF Interacted
    <2>2. status \in LevelStatus
        BY DEF LevelStatus
    <2>3. /\ x.side = lv.side /\ x.eq = lv.eq /\ x.members = lv.members /\ x.price = lv.price
          /\ x.status = status
        BY <1>1, <2>1, <2>2, SettledIs
    <2>4. CloseOf(lv.side, b[t]) \in Int /\ lv.price \in Int
        BY <1>1, CandlePrices DEF CandlesTo, LevelType
    <2> QED
        BY <2>1, <2>3, <2>4 DEF ClosedBack
<1> QED
    BY <1>2, <1>3

\* What an expired level was.
WasLevel(lv, x) ==
    /\ x.side = lv.side /\ x.eq = lv.eq /\ x.members = lv.members
    /\ x.status = lv.status \/ x.status = "expired"

LEMMA ExpiredLevelIs ==
    ASSUME NEW b, NEW t \in Nat, NEW levels, LevelsOk(b, t, levels)
    PROVE  /\ LevelsOk(b, t, ExpiredLevels(levels, t))
           /\ \A x \in ExpiredLevels(levels, t) : \E lv \in levels : WasLevel(lv, x)
<1> SUFFICES ASSUME NEW x \in ExpiredLevels(levels, t)
             PROVE  LevelOk(b, t, x) /\ \E lv \in levels : WasLevel(lv, x)
    BY DEF LevelsOk
<1>1. PICK lv \in levels : x = lv \/ x = Settled(lv, "expired", t)
    BY DEF ExpiredLevels
<1>2. LevelOk(b, t, lv) /\ lv \in LevelType /\ "expired" \in LevelStatus /\ "expired" # "active"
    BY DEF LevelsOk, LevelOk, LevelStatus
<1>3. CASE x = lv
    BY <1>2, <1>3 DEF WasLevel
<1>4. CASE x = Settled(lv, "expired", t)
    <2>1. LevelOk(b, t, x)
        BY <1>2, <1>4, SettledOk
    <2>2. x.side = lv.side /\ x.eq = lv.eq /\ x.members = lv.members /\ x.status = "expired"
        BY <1>2, <1>4, SettledIs
    <2> QED
        BY <2>1, <2>2 DEF WasLevel
<1> QED
    BY <1>1, <1>3, <1>4

LEMMA CandleKeeps ==
    ASSUME NEW b, NEW t \in Nat \ {0}, CandlesTo(b, t), NEW st, LevelsInv(b, t - 1, st),
           NEW x, x = ReplayCandle(b, st, t)
    PROVE  LevelsInv(b, t, x) /\ x.ref = st.ref
<1> DEFINE seen == Interact(st, b[t], t)
           two == Broken(b, seen, t)
<1>0. x = Expired(two, t)
    BY DEF ReplayCandle, Broken
<1>1. /\ IsState(seen)
      /\ seen = StateOf(st.trend, st.ref, st.broken, InteractedLevels(st.levels, b[t], t),
                        st.events, st.sweeps \cup SweepsOf(st, b[t], t))
    BY InteractIs DEF LevelsInv
<1>2. /\ seen.ref = st.ref /\ seen.broken = st.broken /\ seen.levels = InteractedLevels(st.levels, b[t], t)
      /\ seen.sweeps = st.sweeps \cup SweepsOf(st, b[t], t)
    BY <1>1, StateFields
<1> HIDE DEF seen
<1>3. /\ IsState(two) /\ two.ref = seen.ref /\ two.levels = seen.levels /\ two.sweeps = seen.sweeps
      /\ \A s \in Sides : two.broken[s] <=> seen.broken[s] \/ Breaks(b, seen, s, t)
    <2>1. IsState(seen)
        BY <1>1
    <2>2. /\ IsState(Broken(b, seen, t)) /\ Broken(b, seen, t).ref = seen.ref
          /\ Broken(b, seen, t).levels = seen.levels /\ Broken(b, seen, t).sweeps = seen.sweeps
        BY <2>1, TwoBreaks
    <2>3. \A s \in Sides : Broken(b, seen, t).broken[s] <=> seen.broken[s] \/ Breaks(b, seen, s, t)
        BY <2>1, TwoBreaks
    <2> QED
        BY <2>2, <2>3
<1> HIDE DEF two
<1>4. /\ IsState(x)
      /\ x = StateOf(two.trend, two.ref, two.broken, ExpiredLevels(two.levels, t), two.events, two.sweeps)
    BY <1>0, <1>3, ExpiredIs
<1>5. /\ x.ref = st.ref /\ x.broken = two.broken /\ x.levels = ExpiredLevels(seen.levels, t)
      /\ x.sweeps = seen.sweeps
    BY <1>2, <1>3, <1>4, StateFields
<1>6. \A lv \in st.levels : LevelOk(b, t - 1, lv)
    BY DEF LevelsInv, LevelsOk
<1>7. \A lv \in seen.levels : LevelOk(b, t, lv)
    BY <1>2, <1>6, InteractedOk DEF InteractedLevels
<1>a. LevelsOk(b, t, seen.levels)
    BY <1>7 DEF LevelsOk
<1>8. \A lv \in seen.levels : ~lv.eq /\ Head(lv.members) = st.ref[lv.side] =>
        /\ lv.status = "active" => ~two.broken[lv.side]
        /\ lv.status = "invalidated" => two.broken[lv.side]
    <2> SUFFICES ASSUME NEW lv \in seen.levels, ~lv.eq, Head(lv.members) = st.ref[lv.side]
                 PROVE  /\ lv.status = "active" => ~two.broken[lv.side]
                        /\ lv.status = "invalidated" => two.broken[lv.side]
        OBVIOUS
    <2>1. PICK old \in st.levels : lv = Interacted(old, b[t], t)
        BY <1>2 DEF InteractedLevels
    <2>2. /\ lv.side = old.side /\ lv.eq = old.eq /\ lv.members = old.members /\ lv.price = old.price
          /\ lv.status = "active" => old.status = "active"
          /\ lv.status = "invalidated" => old.status = "invalidated" \/ CloseOf(old.side, b[t]) > old.price
        BY <1>6, <2>1, InteractedIs
    <2>3. /\ old.status = "active" => ~st.broken[lv.side]
          /\ old.status = "invalidated" => st.broken[lv.side]
        BY <2>2 DEF LevelsInv, Agree
    <2>4. /\ lv.side \in Sides /\ st.ref[lv.side] \in 1..(t - 1)
          /\ lv.price = Extreme(lv.side, b[st.ref[lv.side]])
        BY <1>6, <2>2 DEF LevelOk, LevelType
    <2>5. /\ Extreme(lv.side, b[t]) \in Int /\ CloseOf(lv.side, b[t]) \in Int /\ lv.price \in Int
          /\ CloseOf(lv.side, b[t]) <= Extreme(lv.side, b[t])
        BY <2>4, CandlePrices DEF CandlesTo
    <2>6. Breaks(b, seen, lv.side, t) <=>
            /\ ~st.broken[lv.side]
            /\ (IF ByWick THEN Extreme(lv.side, b[t]) ELSE CloseOf(lv.side, b[t])) > lv.price
        BY <1>2, <2>4 DEF Breaks
    <2>7. ASSUME lv.status = "active" PROVE ~two.broken[lv.side]
        <3>1. t \in Head(lv.members) + 1..t
            BY <2>4
        <3>2. ~(Extreme(lv.side, b[t]) > lv.price)
            BY <1>7, <2>4, <2>7, <3>1 DEF LevelOk, Untouched
        <3> QED
            BY <1>2, <1>3, <2>2, <2>3, <2>4, <2>5, <2>6, <2>7, <3>2
    <2>8. ASSUME lv.status = "invalidated" PROVE two.broken[lv.side]
        <3>1. st.broken[lv.side] \/ CloseOf(lv.side, b[t]) > lv.price
            BY <2>2, <2>3, <2>8
        <3> QED
            BY <1>2, <1>3, <2>4, <2>5, <2>6, <3>1
    <2> QED
        BY <2>7, <2>8
<1>9. LevelsOk(b, t, x.levels) /\ \A lv \in x.levels : \E mid \in seen.levels : WasLevel(mid, lv)
    BY <1>5, <1>a, ExpiredLevelIs
<1>10. HeadsOk(x) /\ Agree(x)
    <2> SUFFICES ASSUME NEW lv \in x.levels
                 PROVE  /\ Head(lv.members) <= x.ref[lv.side]
                        /\ ~lv.eq /\ Head(lv.members) = x.ref[lv.side] =>
                              /\ lv.status = "active" => ~x.broken[lv.side]
                              /\ lv.status = "invalidated" => x.broken[lv.side]
        BY DEF HeadsOk, Agree
    <2>1. PICK mid \in seen.levels : WasLevel(mid, lv)
        BY <1>9
    <2>5. /\ lv.side = mid.side /\ lv.eq = mid.eq /\ lv.members = mid.members
          /\ lv.status = mid.status \/ lv.status = "expired"
        BY <2>1 DEF WasLevel
    <2>2. PICK old \in st.levels : mid = Interacted(old, b[t], t)
        BY <1>2 DEF InteractedLevels
    <2>3. mid.side = old.side /\ mid.members = old.members
        BY <1>6, <2>2, InteractedIs
    <2>4. Head(lv.members) <= x.ref[lv.side]
        BY <1>5, <2>3, <2>5 DEF LevelsInv, HeadsOk
    <2> QED
        BY <1>5, <1>8, <2>4, <2>5
<1>11. \A s \in x.sweeps : SweepOk(b, t, s)
    <2> SUFFICES ASSUME NEW s \in st.sweeps \cup SweepsOf(st, b[t], t) PROVE SweepOk(b, t, s)
        BY <1>2, <1>5
    <2>1. CASE s \in st.sweeps
        <3>1. SweepOk(b, t - 1, s)
            BY <2>1 DEF LevelsInv
        <3>2. \A k : k \in 1..(t - 1) => k \in 1..t
            OBVIOUS
        <3> QED
            BY <3>1, <3>2 DEF SweepOk
    <2>2. CASE s \in SweepsOf(st, b[t], t)
        <3>1. PICK lv \in st.levels : s = [id |-> <<LevelId(lv), t>>, price |-> lv.price]
            BY <2>2 DEF SweepsOf, Swept, Active
        <3> QED
            BY <1>6, <3>1, SweepIsOk
    <2> QED
        BY <2>1, <2>2
<1> QED
    BY <1>4, <1>5, <1>9, <1>10, <1>11 DEF LevelsInv

\* The last pivot of a side, known at the close of bar t.
PivotIn(first, t, r) == r = 0 \/ (first + SwingLeft <= r /\ r <= t - SwingRight)

RefsIn(first, t, ref) == \A s \in Sides : PivotIn(first, t, ref[s])

LEMMA PivotUntouched ==
    ASSUME NEW b, NEW first \in Nat \ {0}, NEW side \in Sides, NEW t \in Nat, CandlesTo(b, t),
           IsPivot(b, first, side, t - SwingRight)
    PROVE  /\ t - SwingRight \in 1..t /\ PivotIn(first, t, t - SwingRight)
           /\ Untouched(b, t, side, t - SwingRight)
<1> DEFINE i == t - SwingRight
<1>1. i \in Int /\ i + SwingRight = t /\ SwingLeft \in Nat /\ SwingRight \in Nat
    BY StructureConfigAssumption
<1>2. i - SwingLeft >= first /\ \A j \in i + 1..t : Extreme(side, b[i]) >= Extreme(side, b[j])
    BY <1>1 DEF IsPivot
<1> HIDE DEF i
<1>3. i \in 1..t /\ first + SwingLeft <= i
    BY <1>1, <1>2
<1>4. Untouched(b, t, side, i)
    <2> SUFFICES ASSUME NEW u \in i + 1..t PROVE ~(Extreme(side, b[u]) > Extreme(side, b[i]))
        BY DEF Untouched
    <2>1. u \in 1..t
        BY <1>3
    <2>2. Extreme(side, b[u]) \in Int /\ Extreme(side, b[i]) \in Int
        BY <1>3, <2>1, CandlePrices DEF CandlesTo
    <2> QED
        BY <1>2, <2>2
<1>5. PivotIn(first, t, i)
    BY <1>1, <1>3 DEF PivotIn, i
<1> QED
    BY <1>3, <1>4, <1>5 DEF i

LEMMA OnSwingKeeps ==
    ASSUME NEW b, NEW t \in Nat, CandlesTo(b, t), NEW st, LevelsInv(b, t, st),
           NEW side \in Sides, NEW i \in 1..t, st.ref[side] < i, Untouched(b, t, side, i)
    PROVE  /\ LevelsInv(b, t, OnSwing(b, st, side, i, t))
           /\ OnSwing(b, st, side, i, t).ref = [st.ref EXCEPT ![side] = i]
<1> DEFINE x == OnSwing(b, st, side, i, t)
           levels == WithSwing(b, st.levels, side, i, t)
           ref == [st.ref EXCEPT ![side] = i]
           broken == [st.broken EXCEPT ![side] = FALSE]
<1>0. IsState(st) /\ i \in Nat
    BY DEF LevelsInv
<1>1. IsState(x) /\ x = StateOf(st.trend, ref, broken, levels, st.events, st.sweeps)
    BY <1>0, OnSwingIs
<1>2. /\ ref[side] = i /\ broken[side] = FALSE
      /\ \A s \in Sides : s # side => ref[s] = st.ref[s] /\ broken[s] = st.broken[s]
    BY <1>0 DEF IsState
<1>a. \A s \in Sides : st.ref[s] \in Nat /\ ref[s] \in Nat
    BY <1>0 DEF IsState
<1> HIDE DEF x, ref, broken
<1>3. \A lv \in st.levels : /\ lv.side \in Sides /\ Head(lv.members) \in Nat
                            /\ Head(lv.members) <= st.ref[lv.side]
    BY DEF LevelsInv, LevelsOk, LevelOk, LevelType, HeadsOk
<1>4. \A y \in levels : LevelOk(b, t, y) /\ FromSwing(st.levels, side, i, y)
    <2>1. LevelsOk(b, t, st.levels)
        BY DEF LevelsInv
    <2>2. \A lv \in st.levels : lv.side = side => Head(lv.members) < i
        BY <1>0, <1>3, <1>a
    <2> QED
        BY <2>1, <2>2, WithSwingIs
<1> HIDE DEF levels
<1>5. /\ x.ref = ref /\ x.broken = broken /\ x.levels = levels /\ x.sweeps = st.sweeps
    BY <1>1, StateFields
<1>6. ASSUME NEW y \in levels
      PROVE  /\ Head(y.members) <= ref[y.side]
             /\ ~y.eq /\ Head(y.members) = ref[y.side] =>
                   /\ y.status = "active" => ~broken[y.side]
                   /\ y.status = "invalidated" => broken[y.side]
    <2>1. CASE y \in st.levels
        <3>1. CASE y.side = side
            BY <1>0, <1>2, <1>3, <1>a, <2>1, <3>1
        <3>2. CASE y.side # side
            <4>1. y.side \in Sides /\ ref[y.side] = st.ref[y.side] /\ broken[y.side] = st.broken[y.side]
                BY <1>2, <1>3, <2>1, <3>2
            <4> QED
                BY <1>3, <2>1, <4>1 DEF LevelsInv, Agree
        <3> QED
            BY <3>1, <3>2
    <2>2. CASE y.side = side /\ Head(y.members) = i /\ y.status \in {"active", "merged"}
        BY <1>2, <2>2
    <2>3. CASE /\ y.side = side /\ (y.eq \/ y.status = "merged")
               /\ \E lv \in st.levels : lv.side = side /\ Head(lv.members) = Head(y.members)
        BY <1>0, <1>2, <1>3, <1>a, <2>3
    <2> QED
        BY <1>4, <2>1, <2>2, <2>3 DEF FromSwing
<1>7. LevelsInv(b, t, x)
    <2>1. LevelsOk(b, t, x.levels)
        BY <1>4, <1>5 DEF LevelsOk
    <2>2. HeadsOk(x) /\ Agree(x)
        BY <1>5, <1>6 DEF HeadsOk, Agree
    <2>3. \A s \in x.sweeps : SweepOk(b, t, s)
        BY <1>5 DEF LevelsInv
    <2> QED
        BY <1>1, <2>1, <2>2, <2>3 DEF LevelsInv
<1> QED
    BY <1>5, <1>7 DEF x, ref

\* The pivot of a side, if one becomes known.
OneSwing(b, first, st, side, t) ==
    IF IsPivot(b, first, side, t - SwingRight) THEN OnSwing(b, st, side, t - SwingRight, t) ELSE st

LEMMA OneSwingKeeps ==
    ASSUME NEW b, NEW first \in Nat \ {0}, NEW t \in Nat \ {0}, CandlesTo(b, t), NEW st, LevelsInv(b, t, st),
           NEW side \in Sides, PivotIn(first, t - 1, st.ref[side])
    PROVE  /\ LevelsInv(b, t, OneSwing(b, first, st, side, t))
           /\ PivotIn(first, t, OneSwing(b, first, st, side, t).ref[side])
           /\ \A s \in Sides : s # side => OneSwing(b, first, st, side, t).ref[s] = st.ref[s]
<1> DEFINE i == t - SwingRight
           x == OneSwing(b, first, st, side, t)
<1>1. st.ref \in [Sides -> Nat] /\ SwingLeft \in Nat /\ SwingRight \in Nat
    BY StructureConfigAssumption DEF LevelsInv, IsState
<1>2. CASE IsPivot(b, first, side, i)
    <2>1. i \in 1..t /\ PivotIn(first, t, i) /\ Untouched(b, t, side, i)
        BY <1>2, PivotUntouched
    <2>2. st.ref[side] < i
        BY <1>1, <2>1 DEF PivotIn
    <2>3. x = OnSwing(b, st, side, i, t)
        BY <1>2 DEF OneSwing
    <2> HIDE DEF i, x
    <2>4. LevelsInv(b, t, x) /\ x.ref = [st.ref EXCEPT ![side] = i]
        BY <2>1, <2>2, <2>3, OnSwingKeeps
    <2>5. LevelsInv(b, t, x) /\ PivotIn(first, t, x.ref[side])
          /\ \A s \in Sides : s # side => x.ref[s] = st.ref[s]
        BY <1>1, <2>1, <2>4
    <2> QED
        BY <2>5 DEF x
<1>3. CASE ~IsPivot(b, first, side, i)
    <2>1. x = st
        BY <1>3 DEF OneSwing
    <2>2. PivotIn(first, t, st.ref[side])
        BY <1>1 DEF PivotIn
    <2> HIDE DEF x
    <2>3. LevelsInv(b, t, x) /\ PivotIn(first, t, x.ref[side])
          /\ \A s \in Sides : s # side => x.ref[s] = st.ref[s]
        BY <2>1, <2>2
    <2> QED
        BY <2>3 DEF x
<1> QED
    BY <1>2, <1>3

LEMMA SwingsKnownIs ==
    ASSUME NEW b, NEW first, NEW st, NEW t
    PROVE  SwingsKnown(b, first, st, t) = OneSwing(b, first, OneSwing(b, first, st, 1, t), -1, t)
BY DEF SwingsKnown, OneSwing

LEMMA SwingsKeep ==
    ASSUME NEW b, NEW first \in Nat \ {0}, NEW t \in Nat \ {0}, CandlesTo(b, t), NEW st, LevelsInv(b, t, st),
           RefsIn(first, t - 1, st.ref)
    PROVE  LevelsInv(b, t, SwingsKnown(b, first, st, t)) /\ RefsIn(first, t, SwingsKnown(b, first, st, t).ref)
<1> DEFINE up == 1
           down == -1
           one == OneSwing(b, first, st, up, t)
           x == OneSwing(b, first, one, down, t)
<1>1. up \in Sides /\ down \in Sides /\ up # down /\ \A s \in Sides : s = up \/ s = down
    BY DEF Sides
<1>2. SwingsKnown(b, first, st, t) = x
    BY SwingsKnownIs
<1> HIDE DEF up, down, x
<1>3. /\ LevelsInv(b, t, one) /\ PivotIn(first, t, one.ref[up])
      /\ \A s \in Sides : s # up => one.ref[s] = st.ref[s]
    BY <1>1, OneSwingKeeps DEF RefsIn
<1> HIDE DEF one
<1>4. PivotIn(first, t - 1, one.ref[down])
    BY <1>1, <1>3 DEF RefsIn
<1>5. /\ LevelsInv(b, t, x) /\ PivotIn(first, t, x.ref[down])
      /\ \A s \in Sides : s # down => x.ref[s] = one.ref[s]
    BY <1>1, <1>3, <1>4, OneSwingKeeps DEF x
<1>6. RefsIn(first, t, x.ref)
    BY <1>1, <1>3, <1>5 DEF RefsIn
<1> QED
    BY <1>2, <1>5, <1>6

\* Every state of a replay.
StructureInv(b, first, t, st) == LevelsInv(b, t, st) /\ RefsIn(first, t, st.ref)

LEMMA StructureKept ==
    ASSUME NEW b, NEW n \in Nat, CandlesTo(b, n), NEW first \in Nat \ {0}, first - 1 <= n,
           NEW R, IsStructure(R, b, first, n)
    PROVE  \A t \in first - 1..n : StructureInv(b, first, t, R[t])
<1> DEFINE s == first - 1
           P == {t \in s..n : StructureInv(b, first, t, R[t])}
<1>1. s \in Nat /\ s + 1 = first
    OBVIOUS
<1>2. s \in P
    <2>1. R[s] = StartState
        BY DEF IsStructure
    <2>2. /\ StartState.levels = {} /\ StartState.sweeps = {}
          /\ \A side \in Sides : StartState.ref[side] = 0
        BY DEF StartState
    <2>3. StructureInv(b, first, s, StartState)
        BY <2>2, StartIs DEF StructureInv, LevelsInv, LevelsOk, HeadsOk, Agree, RefsIn, PivotIn
    <2> QED
        BY <1>1, <2>1, <2>3
<1>3. ASSUME NEW t \in (s + 1)..n, t - 1 \in P PROVE t \in P
    <2>1. t \in Nat \ {0} /\ t \in s..n /\ t \in first..n
        BY <1>1
    <2>2. CandlesTo(b, t)
        BY <2>1 DEF CandlesTo
    <2>3. LevelsInv(b, t - 1, R[t - 1]) /\ RefsIn(first, t - 1, R[t - 1].ref)
        BY <1>3 DEF StructureInv
    <2> DEFINE y == ReplayCandle(b, R[t - 1], t)
    <2>4. R[t] = SwingsKnown(b, first, y, t)
        BY <2>1 DEF IsStructure, StructureStep
    <2>5. LevelsInv(b, t, y) /\ y.ref = R[t - 1].ref
        BY <2>1, <2>2, <2>3, CandleKeeps
    <2> HIDE DEF y
    <2>6. LevelsInv(b, t, SwingsKnown(b, first, y, t)) /\ RefsIn(first, t, SwingsKnown(b, first, y, t).ref)
        BY <2>1, <2>2, <2>3, <2>5, SwingsKeep
    <2>7. StructureInv(b, first, t, R[t])
        BY <2>4, <2>6 DEF StructureInv
    <2> QED
        BY <2>1, <2>7
<1>4. \A t \in s..n : t \in P
    <2> HIDE DEF P, s
    <2> QED
        BY <1>1, <1>2, <1>3, BarInduction
<1> QED
    BY <1>4

-----------------------------------------------------------------------------
(* What is analysed.                                                        *)

LEMMA WindowIs ==
    ASSUME NEW n \in Nat
    PROVE  /\ WindowStart(n) \in Nat \ {0} /\ WindowStart(n) - 1 <= n
           /\ n >= MinBars => WindowStart(n) <= n
BY StructureConfigAssumption DEF WindowStart

\* The snapshot, field by field.
LastEvents(st) ==
    SubSeq(st.events, IF Len(st.events) > RecentEvents THEN Len(st.events) - RecentEvents + 1 ELSE 1, Len(st.events))
LastSweeps(st, n) == {s \in st.sweeps : s.id[2] > n - RecentSweepBars}

LEMMA SnapshotIs ==
    ASSUME NEW b, Len(b) \in Nat, NEW st, IsState(st), st = Replay(b, WindowStart(Len(b)))
    PROVE  Snapshot(b) = IF Len(b) < MinBars THEN StartState
                         ELSE StateOf(st.trend, st.ref, st.broken, st.levels, LastEvents(st), LastSweeps(st, Len(b)))
<1> DEFINE n == Len(b)
           events == LastEvents(st)
           sweeps == LastSweeps(st, n)
           one == PutEvents(st, events)
<1>1. Snapshot(b) = IF n < MinBars THEN StartState ELSE [st EXCEPT !.events = events, !.sweeps = sweeps]
    BY DEF Snapshot, LastEvents, LastSweeps
<1> HIDE DEF events, sweeps
<1>2. [st EXCEPT !.events = events, !.sweeps = sweeps] = PutSweeps(one, sweeps)
    BY DEF PutEvents, PutSweeps
<1>3. one = StateOf(st.trend, st.ref, st.broken, st.levels, events, st.sweeps)
    BY StateChanges DEF IsState
<1> HIDE DEF one
<1>4. PutSweeps(one, sweeps) = StateOf(st.trend, st.ref, st.broken, st.levels, events, sweeps)
    BY <1>3, StateChanges
<1> QED
    BY <1>1, <1>2, <1>4 DEF events, sweeps

LEMMA SnapshotOk ==
    ASSUME NEW b, Len(b) \in Nat, CandlesTo(b, Len(b))
    PROVE  LevelsInv(b, Len(b), Snapshot(b))
<1> DEFINE n == Len(b)
           first == WindowStart(n)
           st == Replay(b, first)
           x == Snapshot(b)
<1>1. first \in Nat \ {0} /\ first - 1 <= n /\ n \in first - 1..n
    BY WindowIs
<1>2. LevelsInv(b, n, st)
    <2>1. PICK R : IsStructure(R, b, first, n) /\ st = R[n]
        BY <1>1, ReplayIs
    <2> HIDE DEF first, st
    <2> QED
        BY <1>1, <2>1, StructureKept DEF StructureInv
<1>3. IsState(st) /\ st.ref \in [Sides -> Nat] /\ st.broken \in [Sides -> BOOLEAN]
    BY <1>2 DEF LevelsInv, IsState
<1>4. CASE n < MinBars
    <2>1. x = StartState
        BY <1>4 DEF Snapshot
    <2>2. StartState.levels = {} /\ StartState.sweeps = {}
        BY DEF StartState
    <2>3. LevelsInv(b, n, StartState)
        BY <2>2, StartIs DEF LevelsInv, LevelsOk, HeadsOk, Agree
    <2> QED
        BY <2>1, <2>3
<1>5. CASE ~(n < MinBars)
    <2>1. x = StateOf(st.trend, st.ref, st.broken, st.levels, LastEvents(st), LastSweeps(st, n))
        BY <1>3, <1>5, SnapshotIs
    <2> HIDE DEF x, st
    <2>2. IsState(x)
        BY <1>3, <2>1, NewState
    <2>3. x.ref = st.ref /\ x.broken = st.broken /\ x.levels = st.levels /\ x.sweeps \subseteq st.sweeps
        <3>1. x.ref = st.ref /\ x.broken = st.broken /\ x.levels = st.levels /\ x.sweeps = LastSweeps(st, n)
            BY <2>1, StateFields
        <3> QED
            BY <3>1 DEF LastSweeps
    <2>4. LevelsInv(b, n, x)
        BY <1>2, <2>2, <2>3 DEF LevelsInv, LevelsOk, HeadsOk, Agree
    <2> QED
        BY <2>4 DEF x
<1> QED
    BY <1>4, <1>5

CandleSet == {bar \in [l : Int, h : Int, c : Int] : IsCandle(bar)}

\* What is analysed is the window that ends at the last bar.
StructureTypeOK ==
    /\ candles \in Seq(CandleSet)
    /\ view = Snapshot(candles)
    /\ analysed \subseteq 0..Len(candles)

LEMMA AreCandles ==
    ASSUME NEW b \in Seq(CandleSet)
    PROVE  Len(b) \in Nat /\ CandlesTo(b, Len(b))
<1>1. Len(b) \in Nat /\ \A u \in 1..Len(b) : b[u] \in CandleSet
    OBVIOUS
<1> QED
    BY <1>1 DEF CandlesTo, CandleSet

LEMMA StructureTypes == StructureSpec => []StructureTypeOK
<1>1. StructureInit => StructureTypeOK
    <2> SUFFICES ASSUME StructureInit PROVE StructureTypeOK
        OBVIOUS
    <2>1. candles \in Seq(ToSet(candles)) /\ \A u \in DOMAIN candles : IsCandle(candles[u])
        BY CandlesAssumption DEF StructureInit
    <2>2. Len(candles) \in Nat /\ \A u \in 1..Len(candles) : candles[u] \in CandleSet
        <3>1. \A bar : IsCandle(bar) => bar \in CandleSet
            BY DEF IsCandle, CandleSet
        <3> QED
            BY <2>1, <3>1
    <2>3. candles \in Seq(CandleSet)
        BY <2>1, <2>2
    <2> QED
        BY <2>3 DEF StructureTypeOK, StructureInit
<1>2. StructureTypeOK /\ [StructureNext]_structure_vars => StructureTypeOK'
    <2> SUFFICES ASSUME StructureTypeOK, [StructureNext]_structure_vars PROVE StructureTypeOK'
        OBVIOUS
    <2>1. CASE CandleCloses
        <3>1. PICK bar \in Candles : candles' = Append(candles, bar)
            BY <2>1 DEF CandleCloses
        <3>2. bar \in CandleSet
            BY CandlesAssumption DEF CandleSet, IsCandle
        <3>3. candles' \in Seq(CandleSet) /\ Len(candles') = Len(candles) + 1 /\ Len(candles) \in Nat
            BY <3>1, <3>2 DEF StructureTypeOK
        <3>4. analysed' = analysed /\ view' = Snapshot(candles')
            BY <2>1 DEF CandleCloses, structure_tables
        <3> QED
            BY <3>3, <3>4 DEF StructureTypeOK
    <2>2. CASE SaveStructure
        <3>1. Len(candles) \in 0..Len(candles)
            BY DEF StructureTypeOK
        <3> QED
            BY <2>2, <3>1 DEF StructureTypeOK, SaveStructure
    <2>3. CASE UNCHANGED structure_vars
        BY <2>3 DEF StructureTypeOK, structure_vars, structure_tables
    <2> QED
        BY <2>1, <2>2, <2>3 DEF StructureNext
<1> QED
    BY <1>1, <1>2, PTL DEF StructureSpec

\* No active level is one that was traded beyond: pivots become known late
\* (_on_swing) and levels are settled bar by bar (_interact).
THEOREM ActiveLevelsAreUntouched == StructureSpec => []ActiveIsUntouched
<1>1. StructureTypeOK => ActiveIsUntouched
    <2> SUFFICES ASSUME StructureTypeOK, NEW lv \in Active(view.levels), NEW t \in Head(lv.members) + 1..Len(candles)
                 PROVE  ~Pierced(lv, candles[t])
        BY DEF ActiveIsUntouched
    <2>1. LevelOk(candles, Len(candles), lv) /\ lv.status = "active"
        <3>1. LevelsInv(candles, Len(candles), view)
            BY AreCandles, SnapshotOk DEF StructureTypeOK
        <3> QED
            BY <3>1 DEF LevelsInv, LevelsOk, Active
    <2> QED
        BY <2>1 DEF LevelOk, Untouched, Pierced
<1> QED
    BY <1>1, StructureTypes, PTL

\* The level of the last pivot and its break agree at every bar (_interact,
\* _breaks), however the pivots, levels and breaks of the window came about.
THEOREM BreaksAndLevelsAgree == StructureSpec => []BreakAndLevelAgree
<1>1. StructureTypeOK => BreakAndLevelAgree
    <2> SUFFICES ASSUME StructureTypeOK PROVE BreakAndLevelAgree
        OBVIOUS
    <2>1. LevelsInv(candles, Len(candles), view)
        BY AreCandles, SnapshotOk DEF StructureTypeOK
    <2> QED
        BY <2>1 DEF LevelsInv, Agree, BreakAndLevelAgree
<1> QED
    BY <1>1, StructureTypes, PTL

-----------------------------------------------------------------------------
(* A replay reads no bar after the one it is at.                            *)

SameTo(b, c, t) == \A u \in 1..t : b[u] = c[u]

LEMMA SameBreakOf ==
    ASSUME NEW b, NEW c, NEW t \in Nat \ {0}, SameTo(b, c, t), NEW st, NEW side \in Sides,
           st.ref[side] \in 0..t
    PROVE  BreakOf(b, st, side, t) = BreakOf(c, st, side, t)
<1>1. b[t] = c[t] /\ (st.ref[side] # 0 => b[st.ref[side]] = c[st.ref[side]])
    BY DEF SameTo
<1>2. Breaks(b, st, side, t) <=> Breaks(c, st, side, t)
    BY <1>1 DEF Breaks
<1> QED
    BY <1>2 DEF BreakOf

LEMMA SameCandle ==
    ASSUME NEW b, NEW c, NEW t \in Nat \ {0}, SameTo(b, c, t), NEW st, IsState(st),
           \A side \in Sides : st.ref[side] \in 0..t
    PROVE  ReplayCandle(b, st, t) = ReplayCandle(c, st, t)
<1> DEFINE seen == Interact(st, b[t], t)
           up == 1
           down == -1
           one == BreakOf(b, seen, up, t)
<1>1. up \in Sides /\ down \in Sides
    BY DEF Sides
<1>2. seen = Interact(st, c[t], t)
    BY DEF SameTo
<1>3. IsState(seen) /\ seen.ref = st.ref
    <2>1. /\ IsState(seen)
          /\ seen = StateOf(st.trend, st.ref, st.broken, InteractedLevels(st.levels, b[t], t),
                            st.events, st.sweeps \cup SweepsOf(st, b[t], t))
        BY InteractIs
    <2> HIDE DEF seen
    <2> QED
        BY <2>1, StateFields
<1>4. ReplayCandle(b, st, t) = Expired(BreakOf(b, BreakOf(b, seen, up, t), down, t), t)
    BY DEF ReplayCandle
<1>5. ReplayCandle(c, st, t) = Expired(BreakOf(c, BreakOf(c, seen, up, t), down, t), t)
    BY <1>2 DEF ReplayCandle
<1> HIDE DEF seen, up, down
<1>6. one = BreakOf(c, seen, up, t)
    BY <1>1, <1>3, SameBreakOf
<1>7. one.ref = seen.ref
    BY <1>1, <1>3, OneBreak
<1> HIDE DEF one
<1>8. BreakOf(b, one, down, t) = BreakOf(c, one, down, t)
    BY <1>1, <1>3, <1>7, SameBreakOf
<1> QED
    BY <1>4, <1>5, <1>6, <1>8 DEF one

LEMMA SamePivot ==
    ASSUME NEW b, NEW c, NEW t \in Nat \ {0}, Len(b) \in Nat, Len(c) \in Nat, t <= Len(b), t <= Len(c),
           SameTo(b, c, t), NEW first \in Nat \ {0}, NEW side
    PROVE  IsPivot(b, first, side, t - SwingRight) <=> IsPivot(c, first, side, t - SwingRight)
<1> DEFINE i == t - SwingRight
<1>1. i \in Int /\ i + SwingRight = t /\ SwingLeft \in Nat \ {0} /\ SwingRight \in Nat \ {0}
    BY StructureConfigAssumption
<1> HIDE DEF i
<1>2. i - SwingLeft >= first => \A j \in i - SwingLeft..t : b[j] = c[j]
    BY <1>1 DEF SameTo
<1>3. \A x, y : Len(x) \in Nat /\ Len(y) \in Nat /\ t <= Len(x) /\ t <= Len(y)
                /\ (i - SwingLeft >= first => \A j \in i - SwingLeft..t : x[j] = y[j])
                /\ IsPivot(x, first, side, i) => IsPivot(y, first, side, i)
    <2> SUFFICES ASSUME NEW x, NEW y, Len(x) \in Nat, Len(y) \in Nat, t <= Len(x), t <= Len(y),
                        i - SwingLeft >= first => \A j \in i - SwingLeft..t : x[j] = y[j],
                        IsPivot(x, first, side, i)
                 PROVE  IsPivot(y, first, side, i)
        OBVIOUS
    <2>1. i - SwingLeft >= first /\ \A j \in i - SwingLeft..t : x[j] = y[j]
        BY DEF IsPivot
    <2>2. i + SwingRight <= Len(y) /\ x[i] = y[i]
        <3>1. i - SwingLeft <= i /\ i <= t
            BY <1>1
        <3>2. i \in i - SwingLeft..t
            BY <1>1, <3>1
        <3> QED
            BY <1>1, <2>1, <3>2
    <2>3. ASSUME NEW j \in i - SwingLeft..i - 1 PROVE Extreme(side, y[i]) > Extreme(side, y[j])
        <3>1. x[j] = y[j]
            BY <1>1, <2>1
        <3> QED
            BY <2>2, <3>1 DEF IsPivot
    <2>4. ASSUME NEW j \in i + 1..i + SwingRight PROVE Extreme(side, y[i]) >= Extreme(side, y[j])
        <3>1. x[j] = y[j]
            BY <1>1, <2>1
        <3> QED
            BY <2>2, <3>1 DEF IsPivot
    <2> QED
        BY <2>1, <2>2, <2>3, <2>4 DEF IsPivot
<1>4. i - SwingLeft >= first => \A j \in i - SwingLeft..t : c[j] = b[j]
    BY <1>2
<1>5. IsPivot(b, first, side, i) <=> IsPivot(c, first, side, i)
    BY <1>2, <1>3, <1>4
<1> QED
    BY <1>5 DEF i

LEMMA SameWithSwing ==
    ASSUME NEW b, NEW c, NEW t \in Nat \ {0}, SameTo(b, c, t), NEW levels, LevelsOk(b, t, levels),
           NEW side, NEW i \in 1..t
    PROVE  WithSwing(b, levels, side, i, t) = WithSwing(c, levels, side, i, t)
<1>1. b[i] = c[i] /\ \A lv \in levels : b[Head(lv.members)] = c[Head(lv.members)]
    BY DEF SameTo, LevelsOk, LevelOk
<1>2. \A lv \in NearBy(levels, side, i) : lv \in levels
    BY DEF NearBy, Active
<1>3. Clusters(b, levels, side, i) = Clusters(c, levels, side, i)
    BY <1>1, <1>2 DEF Clusters
<1>4. Singles(b, levels, side, i) = Singles(c, levels, side, i)
    BY <1>1 DEF Singles
<1> QED
    BY <1>1, <1>3, <1>4 DEF WithSwing

LEMMA SameOneSwing ==
    ASSUME NEW b, NEW c, NEW t \in Nat \ {0}, Len(b) \in Nat, Len(c) \in Nat, t <= Len(b), t <= Len(c),
           SameTo(b, c, t), CandlesTo(b, t), NEW first \in Nat \ {0}, NEW side \in Sides,
           NEW st, LevelsInv(b, t, st)
    PROVE  OneSwing(b, first, st, side, t) = OneSwing(c, first, st, side, t)
<1> DEFINE i == t - SwingRight
<1>1. IsPivot(b, first, side, i) <=> IsPivot(c, first, side, i)
    BY SamePivot
<1>2. CASE IsPivot(b, first, side, i)
    <2>1. i \in 1..t /\ LevelsOk(b, t, st.levels)
        BY <1>2, PivotUntouched DEF LevelsInv
    <2> HIDE DEF i
    <2>2. WithSwing(b, st.levels, side, i, t) = WithSwing(c, st.levels, side, i, t)
        BY <2>1, SameWithSwing
    <2>3. OnSwing(b, st, side, i, t) = OnSwing(c, st, side, i, t)
        BY <2>2 DEF OnSwing
    <2> QED
        BY <1>1, <2>3 DEF OneSwing, i
<1>3. CASE ~IsPivot(b, first, side, i)
    BY <1>1, <1>3 DEF OneSwing
<1> QED
    BY <1>2, <1>3

LEMMA SameStep ==
    ASSUME NEW b, NEW c, NEW t \in Nat \ {0}, Len(b) \in Nat, Len(c) \in Nat, t <= Len(b), t <= Len(c),
           SameTo(b, c, t), CandlesTo(b, t), NEW first \in Nat \ {0},
           NEW st, StructureInv(b, first, t - 1, st)
    PROVE  StructureStep(b, first, st, t) = StructureStep(c, first, st, t)
<1> DEFINE x == ReplayCandle(b, st, t)
           up == 1
           down == -1
           one == OneSwing(b, first, x, up, t)
<1>1. up \in Sides /\ down \in Sides /\ up # down
    BY DEF Sides
<1>2. LevelsInv(b, t - 1, st) /\ RefsIn(first, t - 1, st.ref)
    BY DEF StructureInv
<1>3. \A side \in Sides : st.ref[side] \in 0..t
    <2> TAKE side \in Sides
    <2>1. st.ref[side] \in Nat /\ PivotIn(first, t - 1, st.ref[side])
        BY <1>2 DEF LevelsInv, IsState, RefsIn
    <2> QED
        BY <2>1, StructureConfigAssumption DEF PivotIn
<1>4. x = ReplayCandle(c, st, t)
    BY <1>2, <1>3, SameCandle DEF LevelsInv
<1>5. LevelsInv(b, t, x) /\ x.ref = st.ref
    BY <1>2, CandleKeeps
<1>6. StructureStep(b, first, st, t) = OneSwing(b, first, one, down, t)
    BY SwingsKnownIs DEF StructureStep
<1>7. StructureStep(c, first, st, t) = OneSwing(c, first, OneSwing(c, first, x, up, t), down, t)
    BY <1>4, SwingsKnownIs DEF StructureStep
<1> HIDE DEF x, up, down
<1>8. one = OneSwing(c, first, x, up, t)
    BY <1>1, <1>5, SameOneSwing
<1>9. LevelsInv(b, t, one)
    BY <1>1, <1>2, <1>5, OneSwingKeeps DEF RefsIn
<1> HIDE DEF one
<1>10. OneSwing(b, first, one, down, t) = OneSwing(c, first, one, down, t)
    BY <1>1, <1>9, SameOneSwing
<1> QED
    BY <1>6, <1>7, <1>8, <1>10

\* The replay of the first m bars is the replay of all of them after bar m.
LEMMA ReplayOfPrefix ==
    ASSUME NEW b \in Seq(CandleSet), NEW m \in 0..Len(b), NEW first \in Nat \ {0}, first - 1 <= m,
           NEW R, IsStructure(R, b, first, Len(b))
    PROVE  Replay(SubSeq(b, 1, m), first) = R[m]
<1> DEFINE n == Len(b)
           c == SubSeq(b, 1, m)
           s == first - 1
<1>1. n \in Nat /\ m \in Nat /\ m <= n /\ s \in Nat /\ s + 1 = first /\ s <= m /\ CandlesTo(b, n)
    BY AreCandles
<1>2. c \in Seq(CandleSet) /\ Len(c) = m /\ \A u \in 1..m : c[u] = b[u]
    BY <1>1
<1> HIDE DEF c, s, n
<1>3. CandlesTo(c, m) /\ CandlesTo(b, m)
    BY <1>1, <1>2 DEF CandlesTo
<1>4. PICK Q : IsStructure(Q, c, first, m) /\ Replay(c, first) = Q[m]
    BY <1>1, <1>2, ReplayIs DEF s
<1>5. \A t \in s..m : StructureInv(c, first, t, Q[t])
    BY <1>1, <1>3, <1>4, StructureKept DEF s
<1> DEFINE P == {t \in s..m : Q[t] = R[t]}
<1>6. s \in P
    BY <1>1, <1>4 DEF IsStructure, s
<1>7. ASSUME NEW t \in (s + 1)..m, t - 1 \in P PROVE t \in P
    <2>1. t \in Nat \ {0} /\ t \in first..m /\ t \in first..n /\ t - 1 \in s..m /\ t <= m /\ t <= n /\ t \in s..m
        BY <1>1
    <2>2. SameTo(c, b, t) /\ CandlesTo(c, t)
        <3>1. \A u \in 1..t : u \in 1..m
            BY <1>1, <2>1
        <3> QED
            BY <1>2, <1>3, <3>1 DEF SameTo, CandlesTo
    <2>3. StructureInv(c, first, t - 1, Q[t - 1])
        BY <1>5, <2>1
    <2>4. StructureStep(c, first, Q[t - 1], t) = StructureStep(b, first, Q[t - 1], t)
        BY <1>1, <1>2, <2>1, <2>2, <2>3, SameStep DEF n
    <2>5. Q[t] = StructureStep(c, first, Q[t - 1], t)
        BY <1>4, <2>1 DEF IsStructure
    <2>6. R[t] = StructureStep(b, first, R[t - 1], t)
        BY <2>1 DEF IsStructure, n
    <2>7. Q[t - 1] = R[t - 1]
        BY <1>7
    <2> QED
        BY <2>1, <2>4, <2>5, <2>6, <2>7
<1>8. \A t \in s..m : t \in P
    <2> HIDE DEF P
    <2> QED
        BY <1>1, <1>6, <1>7, BarInduction
<1>9. m \in s..m
    BY <1>1
<1> QED
    BY <1>4, <1>8, <1>9 DEF c

-----------------------------------------------------------------------------
(* What the tables hold: rows that an analysis showed, the first of each    *)
(* event, and everything that a saved analysis showed.                      *)

RowsAt(b, m) == Rows(Snapshot(SubSeq(b, 1, m)))

WasShown(b, done, row) == \E m \in done : row \in RowsAt(b, m)

\* A conflict is a row of an analysis after the one that recorded the event.
IsConflict(b, done, rows, row) ==
    \E m \in done, n \in done, first \in rows :
        /\ m <= n /\ first.id = row.id /\ first # row
        /\ first \in RowsAt(b, m) /\ row \in RowsAt(b, n)

StructureTablesOk ==
    /\ \A row \in structure_events : WasShown(candles, analysed, row)
    /\ \A row \in structure_event_conflicts : IsConflict(candles, analysed, structure_events, row)
    /\ \A n \in analysed : \A row \in RowsAt(candles, n) : Known(row.id)

LEMMA RowsAtStay ==
    ASSUME StructureTypeOK, NEW bar, candles' = Append(candles, bar), candles' \in Seq(CandleSet)
    PROVE  \A m \in analysed : RowsAt(candles', m) = RowsAt(candles, m)
<1> TAKE m \in analysed
<1>1. m \in 0..Len(candles) /\ candles \in Seq(CandleSet) /\ bar \in CandleSet
    <2>1. candles \in Seq(CandleSet) /\ m \in 0..Len(candles) /\ Len(candles) \in Nat
        BY DEF StructureTypeOK
    <2>2. candles'[Len(candles) + 1] = bar /\ Len(candles') = Len(candles) + 1
        BY <2>1
    <2> QED
        BY <2>1, <2>2
<1>2. SubSeq(candles', 1, m) = SubSeq(candles, 1, m)
    BY <1>1
<1> QED
    BY <1>2 DEF RowsAt

LEMMA WholeIsShown ==
    ASSUME NEW b \in Seq(CandleSet)
    PROVE  RowsAt(b, Len(b)) = Rows(Snapshot(b))
<1>1. SubSeq(b, 1, Len(b)) = b
    OBVIOUS
<1> QED
    BY <1>1 DEF RowsAt

LEMMA StructureTablesKept ==
    ASSUME StructureTypeOK, StructureTypeOK', StructureTablesOk, [StructureNext]_structure_vars
    PROVE  StructureTablesOk'
<1>1. CASE CandleCloses
    <2>1. PICK bar : candles' = Append(candles, bar)
        BY <1>1 DEF CandleCloses
    <2>2. \A m \in analysed : RowsAt(candles', m) = RowsAt(candles, m)
        BY <2>1, RowsAtStay DEF StructureTypeOK
    <2>3. /\ analysed' = analysed /\ structure_events' = structure_events
          /\ structure_event_conflicts' = structure_event_conflicts
        BY <1>1 DEF CandleCloses, structure_tables
    <2>4. \A row \in structure_events : WasShown(candles', analysed, row)
        BY <2>2 DEF StructureTablesOk, WasShown
    <2>5. \A row \in structure_event_conflicts : IsConflict(candles', analysed, structure_events, row)
        BY <2>2 DEF StructureTablesOk, IsConflict
    <2>6. \A n \in analysed : \A row \in RowsAt(candles', n) : Known(row.id)
        BY <2>2 DEF StructureTablesOk
    <2> QED
        BY <2>3, <2>4, <2>5, <2>6 DEF StructureTablesOk, Known
<1>2. CASE SaveStructure
    <2> DEFINE n == Len(candles)
    <2>1. /\ candles' = candles /\ analysed' = analysed \cup {n}
          /\ structure_events' = structure_events \cup {row \in Rows(view) : ~Known(row.id)}
          /\ structure_event_conflicts' = structure_event_conflicts \cup
                 {row \in Rows(view) : Known(row.id) /\ row \notin structure_events}
        BY <1>2 DEF SaveStructure
    <2>2. Rows(view) = RowsAt(candles, n) /\ analysed \subseteq 0..n /\ n \in Nat
        BY WholeIsShown DEF StructureTypeOK
    <2> HIDE DEF n
    <2>3. \A row \in structure_events' : WasShown(candles, analysed', row)
        BY <2>1, <2>2 DEF StructureTablesOk, WasShown
    <2>4. ASSUME NEW row \in structure_event_conflicts'
          PROVE  IsConflict(candles, analysed', structure_events', row)
        <3>1. CASE row \in structure_event_conflicts
            BY <2>1, <3>1 DEF StructureTablesOk, IsConflict
        <3>2. CASE row \in Rows(view) /\ Known(row.id) /\ row \notin structure_events
            <4>1. PICK first \in structure_events : first.id = row.id
                BY <3>2 DEF Known
            <4>2. PICK m \in analysed : first \in RowsAt(candles, m)
                BY DEF StructureTablesOk, WasShown
            <4>3. m <= n /\ row \in RowsAt(candles, n) /\ first # row
                BY <2>2, <3>2
            <4>4. m \in analysed' /\ n \in analysed' /\ first \in structure_events'
                BY <2>1
            <4> QED
                BY <4>1, <4>2, <4>3, <4>4 DEF IsConflict
        <3> QED
            BY <2>1, <3>1, <3>2
    <2>5. ASSUME NEW k \in analysed', NEW row \in RowsAt(candles, k) PROVE Known(row.id)'
        <3>1. CASE k \in analysed
            BY <2>1, <3>1 DEF StructureTablesOk, Known
        <3>2. CASE k = n
            BY <2>1, <2>2, <3>2 DEF Known
        <3> QED
            BY <2>1, <3>1, <3>2
    <2> QED
        BY <2>1, <2>3, <2>4, <2>5 DEF StructureTablesOk
<1>3. CASE UNCHANGED structure_vars
    BY <1>3 DEF structure_vars, structure_tables, StructureTablesOk, Known
<1> QED
    BY <1>1, <1>2, <1>3 DEF StructureNext

LEMMA StructureTables == StructureSpec => [](StructureTypeOK /\ StructureTablesOk)
<1>1. StructureInit => StructureTablesOk
    BY DEF StructureInit, StructureTablesOk
<1>2. StructureTypeOK /\ StructureTypeOK' /\ StructureTablesOk /\ [StructureNext]_structure_vars => StructureTablesOk'
    BY StructureTablesKept
<1> QED
    BY <1>1, <1>2, StructureTypes, PTL DEF StructureSpec

-----------------------------------------------------------------------------
(* The breaks of a replay: which pivots they break, and in which order.     *)

Priors == {-1, 0, 1}

BreakAt(side, pivot, u, prior) ==
    [id |-> <<side, pivot, u>>, prior |-> prior, label |-> Label(prior, side)]

BreakSet == {BreakAt(side, pivot, u, prior) : side \in Sides, pivot \in Nat, u \in Nat, prior \in Priors}

LEMMA BreakFields ==
    ASSUME NEW e \in BreakSet
    PROVE  /\ e.id[1] \in Sides /\ e.id[2] \in Nat /\ e.id[3] \in Nat /\ e.prior \in Priors
           /\ e.id = <<e.id[1], e.id[2], e.id[3]>>
           /\ e = BreakAt(e.id[1], e.id[2], e.id[3], e.prior)
           /\ e.label = Label(e.prior, e.id[1])
<1>1. PICK side \in Sides, pivot \in Nat, u \in Nat, prior \in Priors : e = BreakAt(side, pivot, u, prior)
    BY DEF BreakSet
<1>2. e.id = <<side, pivot, u>> /\ e.prior = prior /\ e.label = Label(prior, side)
    BY <1>1 DEF BreakAt
<1>3. e.id[1] = side /\ e.id[2] = pivot /\ e.id[3] = u
    BY <1>2
<1> QED
    BY <1>1, <1>2, <1>3

\* A pivot that is referred to is broken once.
EventOk(first, t, st, e) ==
    /\ first + SwingLeft <= e.id[2] /\ e.id[2] < e.id[3] /\ e.id[3] <= t
    /\ e.id[2] <= st.ref[e.id[1]]
    /\ e.id[2] = st.ref[e.id[1]] => st.broken[e.id[1]]

InOrder(events) ==
    \A p, q \in 1..Len(events) :
        p < q => events[p].id[3] <= events[q].id[3] /\ events[p].id # events[q].id

EventsInv(first, t, st) ==
    /\ st.trend \in Priors /\ st.events \in Seq(BreakSet)
    /\ \A p \in 1..Len(st.events) : EventOk(first, t, st, st.events[p])
    /\ InOrder(st.events)

LEMMA EventsOfBreak ==
    ASSUME NEW first \in Nat \ {0}, NEW t \in Nat \ {0}, NEW b, NEW st, IsState(st), EventsInv(first, t, st),
           NEW side \in Sides, PivotIn(first, t - 1, st.ref[side])
    PROVE  EventsInv(first, t, BreakOf(b, st, side, t))
<1> DEFINE x == BreakOf(b, st, side, t)
           e == BreakAt(side, st.ref[side], t, st.trend)
           k == Len(st.events)
<1>0. st.ref \in [Sides -> Nat] /\ st.broken \in [Sides -> BOOLEAN]
    BY DEF IsState
<1>1. CASE Breaks(b, st, side, t)
    <2>1. NewBreak(st, side, t) = e
        BY DEF NewBreak, BreakAt
    <2>2. x.trend = side /\ x.events = Append(st.events, e)
        BY <1>1, <2>1, OneBreakIs
    <2>3. x.ref = st.ref /\ \A s \in Sides : x.broken[s] <=> st.broken[s] \/ s = side
        BY <1>1, OneBreak
    <2>4. e \in BreakSet
        BY <1>0 DEF BreakSet, EventsInv
    <2>5. e.id = <<side, st.ref[side], t>> /\ e.id[1] = side /\ e.id[2] = st.ref[side] /\ e.id[3] = t
        BY DEF BreakAt
    <2> HIDE DEF e, x
    <2>6. /\ k \in Nat /\ x.events \in Seq(BreakSet) /\ Len(x.events) = k + 1
          /\ \A p \in 1..k : x.events[p] = st.events[p] /\ st.events[p] \in BreakSet
          /\ x.events[k + 1] = e
        BY <2>2, <2>4 DEF EventsInv
    <2> HIDE DEF k
    <2>7. first + SwingLeft <= st.ref[side] /\ st.ref[side] < t /\ ~st.broken[side]
        BY <1>0, <1>1, StructureConfigAssumption DEF Breaks, PivotIn
    <2>8. \A p \in 1..k : EventOk(first, t, st, st.events[p])
        BY DEF EventsInv, k
    <2>9. \A p \in 1..k : /\ st.events[p].id[1] \in Sides /\ st.events[p].id[3] \in Nat
                          /\ st.events[p].id[3] <= t /\ st.events[p].id # e.id
        <3> TAKE p \in 1..k
        <3>1. EventOk(first, t, st, st.events[p]) /\ st.events[p] \in BreakSet
            BY <2>6, <2>8
        <3> QED
            BY <2>5, <2>7, <3>1, BreakFields DEF EventOk
    <2>10. \A p \in 1..k + 1 : EventOk(first, t, x, x.events[p])
        <3> TAKE p \in 1..k + 1
        <3>1. CASE p = k + 1
            <4>1. EventOk(first, t, x, e)
                BY <1>0, <2>3, <2>5, <2>7 DEF EventOk
            <4> QED
                BY <2>6, <3>1, <4>1
        <3>2. CASE p # k + 1
            <4>1. p \in 1..k
                BY <2>6, <3>2
            <4>2. EventOk(first, t, st, st.events[p]) /\ x.events[p] = st.events[p] /\ st.events[p].id[1] \in Sides
                BY <2>6, <2>8, <2>9, <4>1
            <4> QED
                BY <2>3, <4>2 DEF EventOk
        <3> QED
            BY <3>1, <3>2
    <2>11. InOrder(x.events)
        <3> SUFFICES ASSUME NEW p \in 1..k + 1, NEW q \in 1..k + 1, p < q
                     PROVE  x.events[p].id[3] <= x.events[q].id[3] /\ x.events[p].id # x.events[q].id
            BY <2>6 DEF InOrder
        <3>1. p \in 1..k /\ x.events[p] = st.events[p]
            BY <2>6
        <3>2. CASE q = k + 1
            BY <2>5, <2>6, <2>9, <3>1, <3>2
        <3>3. CASE q # k + 1
            <4>1. q \in 1..k /\ x.events[q] = st.events[q]
                BY <2>6, <3>3
            <4> QED
                BY <3>1, <4>1 DEF EventsInv, InOrder, k
        <3> QED
            BY <3>2, <3>3
    <2>12. EventsInv(first, t, x)
        <3>1. side \in Priors
            BY DEF Priors, Sides
        <3> QED
            BY <2>2, <2>6, <2>10, <2>11, <3>1 DEF EventsInv
    <2> QED
        BY <2>12 DEF x
<1>2. CASE ~Breaks(b, st, side, t)
    <2>1. x = st
        BY <1>2 DEF BreakOf
    <2> QED
        BY <2>1
<1> QED
    BY <1>1, <1>2

\* What only the levels and the sweeps are changed of.
SameBreaks(x, st) == x.trend = st.trend /\ x.ref = st.ref /\ x.broken = st.broken /\ x.events = st.events

LEMMA InteractKeepsBreaks ==
    ASSUME NEW st, IsState(st), NEW bar, NEW t
    PROVE  IsState(Interact(st, bar, t)) /\ SameBreaks(Interact(st, bar, t), st)
<1> DEFINE x == Interact(st, bar, t)
<1>1. /\ IsState(x)
      /\ x = StateOf(st.trend, st.ref, st.broken, InteractedLevels(st.levels, bar, t),
                     st.events, st.sweeps \cup SweepsOf(st, bar, t))
    BY InteractIs
<1> HIDE DEF x
<1>2. x.trend = st.trend /\ x.ref = st.ref /\ x.broken = st.broken /\ x.events = st.events
    BY <1>1, StateFields
<1> QED
    BY <1>1, <1>2 DEF SameBreaks, x

LEMMA ExpiredKeepsBreaks ==
    ASSUME NEW st, IsState(st), NEW t
    PROVE  IsState(Expired(st, t)) /\ SameBreaks(Expired(st, t), st)
<1> DEFINE x == Expired(st, t)
<1>1. /\ IsState(x)
      /\ x = StateOf(st.trend, st.ref, st.broken, ExpiredLevels(st.levels, t), st.events, st.sweeps)
    BY ExpiredIs
<1> HIDE DEF x
<1>2. x.trend = st.trend /\ x.ref = st.ref /\ x.broken = st.broken /\ x.events = st.events
    BY <1>1, StateFields
<1> QED
    BY <1>1, <1>2 DEF SameBreaks, x

\* The pivot that becomes known is the last of its side.
LEMMA OneSwingIs ==
    ASSUME NEW b, NEW first, NEW t \in Nat, NEW st, IsState(st), NEW side \in Sides,
           IsPivot(b, first, side, t - SwingRight) => t - SwingRight \in Nat
    PROVE  /\ IsState(OneSwing(b, first, st, side, t))
           /\ OneSwing(b, first, st, side, t).trend = st.trend
           /\ OneSwing(b, first, st, side, t).events = st.events
           /\ \A s \in Sides :
                IF s = side /\ IsPivot(b, first, side, t - SwingRight)
                THEN /\ OneSwing(b, first, st, side, t).ref[s] = t - SwingRight
                     /\ ~OneSwing(b, first, st, side, t).broken[s]
                ELSE /\ OneSwing(b, first, st, side, t).ref[s] = st.ref[s]
                     /\ OneSwing(b, first, st, side, t).broken[s] = st.broken[s]
<1> DEFINE x == OneSwing(b, first, st, side, t)
           i == t - SwingRight
<1>1. CASE IsPivot(b, first, side, i)
    <2> DEFINE ref == [st.ref EXCEPT ![side] = i]
               broken == [st.broken EXCEPT ![side] = FALSE]
               levels == WithSwing(b, st.levels, side, i, t)
    <2>0. x = OnSwing(b, st, side, i, t) /\ i \in Nat
        BY <1>1 DEF OneSwing
    <2>2. /\ ref[side] = i /\ ~broken[side]
          /\ \A s \in Sides : s # side => ref[s] = st.ref[s] /\ broken[s] = st.broken[s]
        BY DEF IsState
    <2> HIDE DEF x, i
    <2>1. IsState(x) /\ x = StateOf(st.trend, ref, broken, levels, st.events, st.sweeps)
        BY <2>0, OnSwingIs
    <2> HIDE DEF ref, broken, levels
    <2>3. x.trend = st.trend /\ x.events = st.events /\ x.ref = ref /\ x.broken = broken
        BY <2>1, StateFields
    <2>4. \A s \in Sides : IF s = side /\ IsPivot(b, first, side, i)
                           THEN x.ref[s] = i /\ ~x.broken[s]
                           ELSE x.ref[s] = st.ref[s] /\ x.broken[s] = st.broken[s]
        BY <1>1, <2>2, <2>3
    <2> QED
        BY <2>1, <2>3, <2>4 DEF x, i
<1>2. CASE ~IsPivot(b, first, side, i)
    <2>1. x = st
        BY <1>2 DEF OneSwing
    <2> HIDE DEF x
    <2>2. /\ IsState(x) /\ x.trend = st.trend /\ x.events = st.events
          /\ \A s \in Sides : IF s = side /\ IsPivot(b, first, side, i)
                              THEN x.ref[s] = i /\ ~x.broken[s]
                              ELSE x.ref[s] = st.ref[s] /\ x.broken[s] = st.broken[s]
        BY <1>2, <2>1
    <2> QED
        BY <2>2 DEF x
<1> QED
    BY <1>1, <1>2

Up == 1
Down == -1

LEMMA TwoSides == Up \in Sides /\ Down \in Sides /\ Up # Down /\ \A s \in Sides : s = Up \/ s = Down
BY DEF Up, Down, Sides

\* The parts of one bar: what only levels see, the breaks, the pivots.
StepParts(b, first, t, st, seen, one, two, x, three) ==
    /\ IsState(seen) /\ IsState(one) /\ IsState(two) /\ IsState(x) /\ IsState(three)
    /\ SameBreaks(seen, st) /\ one = BreakOf(b, seen, Up, t) /\ two = BreakOf(b, one, Down, t)
    /\ SameBreaks(x, two) /\ three = OneSwing(b, first, x, Up, t)
    /\ StructureStep(b, first, st, t) = OneSwing(b, first, three, Down, t)
    /\ one.ref = st.ref /\ two.ref = st.ref /\ three.ref[Down] = st.ref[Down]

LEMMA StepHasParts ==
    ASSUME NEW b, NEW first \in Nat \ {0}, NEW t \in Nat \ {0}, CandlesTo(b, t),
           NEW st, IsState(st)
    PROVE  \E seen, one, two, x, three : StepParts(b, first, t, st, seen, one, two, x, three)
<1> DEFINE seen == Interact(st, b[t], t)
           one == BreakOf(b, seen, Up, t)
           two == BreakOf(b, one, Down, t)
           x == Expired(two, t)
           three == OneSwing(b, first, x, Up, t)
<1>1. StructureStep(b, first, st, t) = OneSwing(b, first, three, Down, t)
    <2>1. ReplayCandle(b, st, t) = x
        BY DEF ReplayCandle, Up, Down
    <2> HIDE DEF x
    <2>2. SwingsKnown(b, first, x, t) = OneSwing(b, first, three, Down, t)
        BY SwingsKnownIs DEF Up, Down
    <2> QED
        BY <2>1, <2>2 DEF StructureStep
<1>2. IsState(seen) /\ SameBreaks(seen, st)
    BY InteractKeepsBreaks
<1> HIDE DEF seen
<1>3. IsState(one) /\ one.ref = seen.ref
    BY <1>2, TwoSides, OneBreak
<1> HIDE DEF one
<1>4. IsState(two) /\ two.ref = one.ref
    BY <1>3, TwoSides, OneBreak
<1> HIDE DEF two
<1>5. IsState(x) /\ SameBreaks(x, two)
    BY <1>4, ExpiredKeepsBreaks
<1> HIDE DEF x
<1>6. IsState(three) /\ three.ref[Down] = x.ref[Down]
    <2>1. IsPivot(b, first, Up, t - SwingRight) => t - SwingRight \in Nat
        BY TwoSides, PivotUntouched
    <2> QED
        BY <1>5, <2>1, TwoSides, OneSwingIs
<1>7. seen.ref = st.ref /\ x.ref = two.ref
    BY <1>2, <1>5 DEF SameBreaks
<1>8. StepParts(b, first, t, st, seen, one, two, x, three)
    BY <1>1, <1>2, <1>3, <1>4, <1>5, <1>6, <1>7 DEF StepParts, one, two, three
<1> QED
    BY <1>8

LEMMA EventsSame ==
    ASSUME NEW first, NEW t, NEW st, NEW x, SameBreaks(x, st), EventsInv(first, t, st)
    PROVE  EventsInv(first, t, x)
BY DEF SameBreaks, EventsInv, EventOk

LEMMA SwingKeeps ==
    ASSUME NEW b, NEW first \in Nat \ {0}, NEW t \in Nat \ {0}, CandlesTo(b, t), NEW st, IsState(st), NEW side \in Sides
    PROVE  /\ OneSwing(b, first, st, side, t).trend = st.trend
           /\ OneSwing(b, first, st, side, t).events = st.events
<1> DEFINE i == t - SwingRight
           x == OneSwing(b, first, st, side, t)
<1>1. CASE IsPivot(b, first, side, i)
    <2> DEFINE ref == [st.ref EXCEPT ![side] = i]
               broken == [st.broken EXCEPT ![side] = FALSE]
               levels == WithSwing(b, st.levels, side, i, t)
    <2>1. i \in Nat /\ x = OnSwing(b, st, side, i, t)
        BY <1>1, PivotUntouched DEF OneSwing
    <2> HIDE DEF i, x
    <2>2. x = StateOf(st.trend, ref, broken, levels, st.events, st.sweeps)
        BY <2>1, OnSwingIs
    <2> HIDE DEF ref, broken, levels
    <2>3. x.trend = st.trend /\ x.events = st.events
        BY <2>2, StateFields
    <2> QED
        BY <2>3 DEF x
<1>2. CASE ~IsPivot(b, first, side, i)
    BY <1>2 DEF OneSwing
<1> QED
    BY <1>1, <1>2

LEMMA EventsOfSwing ==
    ASSUME NEW b, NEW first \in Nat \ {0}, NEW t \in Nat \ {0}, CandlesTo(b, t),
           NEW st, IsState(st), EventsInv(first, t, st),
           NEW side \in Sides, PivotIn(first, t - 1, st.ref[side])
    PROVE  EventsInv(first, t, OneSwing(b, first, st, side, t))
<1> DEFINE x == OneSwing(b, first, st, side, t)
           i == t - SwingRight
<1>1. IsPivot(b, first, side, i) => i \in Nat
    BY PivotUntouched
<1>2. st.ref \in [Sides -> Nat]
    BY DEF IsState
<1>3. IsPivot(b, first, side, i) => st.ref[side] < i
    <2>1. IsPivot(b, first, side, i) => PivotIn(first, t, i) /\ i \in 1..t
        BY PivotUntouched
    <2> QED
        BY <1>2, <2>1, StructureConfigAssumption DEF PivotIn
<1>4. /\ x.trend = st.trend /\ x.events = st.events
      /\ \A s \in Sides : IF s = side /\ IsPivot(b, first, side, i) THEN x.ref[s] = i /\ ~x.broken[s]
                          ELSE x.ref[s] = st.ref[s] /\ x.broken[s] = st.broken[s]
    <2>1. x.trend = st.trend /\ x.events = st.events
        BY SwingKeeps
    <2>2. \A s \in Sides : IF s = side /\ IsPivot(b, first, side, i) THEN x.ref[s] = i /\ ~x.broken[s]
                           ELSE x.ref[s] = st.ref[s] /\ x.broken[s] = st.broken[s]
        BY <1>1, OneSwingIs
    <2> QED
        BY <2>1, <2>2
<1> HIDE DEF x, i
<1>5. ASSUME NEW p \in 1..Len(st.events) PROVE EventOk(first, t, x, st.events[p])
    <2> DEFINE e == st.events[p]
    <2>1. EventOk(first, t, st, e) /\ e \in BreakSet
        BY DEF EventsInv
    <2> HIDE DEF e
    <2>2. e.id[1] \in Sides /\ e.id[2] \in Nat
        BY <2>1, BreakFields
    <2>3. EventOk(first, t, x, e)
        <3>1. CASE e.id[1] = side /\ IsPivot(b, first, side, i)
            BY <1>1, <1>2, <1>3, <1>4, <2>1, <2>2, <3>1 DEF EventOk
        <3>2. CASE ~(e.id[1] = side /\ IsPivot(b, first, side, i))
            BY <1>4, <2>1, <2>2, <3>2 DEF EventOk
        <3> QED
            BY <3>1, <3>2
    <2> QED
        BY <2>3 DEF e
<1>6. EventsInv(first, t, x)
    BY <1>4, <1>5 DEF EventsInv
<1> QED
    BY <1>6 DEF x

LEMMA LaterEvents ==
    ASSUME NEW first, NEW t \in Nat \ {0}, NEW st, EventsInv(first, t - 1, st)
    PROVE  EventsInv(first, t, st)
<1> SUFFICES ASSUME NEW p \in 1..Len(st.events) PROVE EventOk(first, t, st, st.events[p])
    BY DEF EventsInv
<1>1. st.events[p] \in BreakSet /\ EventOk(first, t - 1, st, st.events[p])
    BY DEF EventsInv
<1>2. st.events[p].id[3] \in Nat
    BY <1>1, BreakFields
<1> QED
    BY <1>1, <1>2 DEF EventOk

LEMMA ToSetOfAppend ==
    ASSUME NEW S, NEW s \in Seq(S), NEW e \in S
    PROVE  ToSet(Append(s, e)) = ToSet(s) \cup {e}
<1>1. /\ Len(Append(s, e)) = Len(s) + 1 /\ Len(s) \in Nat /\ Append(s, e) \in Seq(S)
      /\ Append(s, e)[Len(s) + 1] = e /\ \A k \in 1..Len(s) : Append(s, e)[k] = s[k]
    OBVIOUS
<1>2. DOMAIN s = 1..Len(s) /\ DOMAIN Append(s, e) = 1..Len(s) + 1
    BY <1>1
<1>3. \A k : k \in 1..Len(s) + 1 <=> k \in 1..Len(s) \/ k = Len(s) + 1
    BY <1>1
<1> DEFINE s2 == Append(s, e)
<1> HIDE DEF s2
<1>4. ToSet(s) = {s[k] : k \in 1..Len(s)} /\ ToSet(s2) = {s2[k] : k \in 1..Len(s) + 1}
    BY <1>2 DEF ToSet, s2
<1>5. \A k \in 1..Len(s) : s2[k] = s[k]
    BY <1>1 DEF s2
<1>6. s2[Len(s) + 1] = e
    BY <1>1 DEF s2
<1>7. ToSet(s2) = ToSet(s) \cup {e}
    BY <1>3, <1>4, <1>5, <1>6
<1> QED
    BY <1>7 DEF s2

\* The events of a break, as a set.
Added(b, st, side, t) == IF Breaks(b, st, side, t) THEN {BreakAt(side, st.ref[side], t, st.trend)} ELSE {}

LEMMA BreakAdds ==
    ASSUME NEW first, NEW t \in Nat, NEW b, NEW st, IsState(st), EventsInv(first, t, st), NEW side \in Sides
    PROVE  ToSet(BreakOf(b, st, side, t).events) = ToSet(st.events) \cup Added(b, st, side, t)
<1> DEFINE e == BreakAt(side, st.ref[side], t, st.trend)
           x == BreakOf(b, st, side, t)
<1>1. CASE Breaks(b, st, side, t)
    <2>1. NewBreak(st, side, t) = e
        BY DEF NewBreak, BreakAt
    <2>2. x.events = Append(st.events, e)
        BY <1>1, <2>1, OneBreakIs
    <2>3. e \in BreakSet /\ st.events \in Seq(BreakSet)
        BY DEF BreakSet, EventsInv, IsState
    <2> HIDE DEF e, x
    <2>4. ToSet(x.events) = ToSet(st.events) \cup {e}
        BY <2>2, <2>3, ToSetOfAppend
    <2> QED
        BY <1>1, <2>4 DEF e, x, Added
<1>2. CASE ~Breaks(b, st, side, t)
    <2>1. x = st
        BY <1>2 DEF BreakOf
    <2> QED
        BY <1>2, <2>1 DEF Added
<1> QED
    BY <1>1, <1>2

\* What holds of every event of a state.
LEMMA EventsAre ==
    ASSUME NEW first, NEW t, NEW st, EventsInv(first, t, st)
    PROVE  \A e \in ToSet(st.events) : e \in BreakSet /\ EventOk(first, t, st, e)
<1> TAKE e \in ToSet(st.events)
<1>1. st.events \in Seq(BreakSet)
    BY DEF EventsInv
<1>2. PICK p \in 1..Len(st.events) : e = st.events[p]
    BY <1>1 DEF ToSet
<1> QED
    BY <1>1, <1>2 DEF EventsInv

\* A pivot is broken once: the event is not there yet.
LEMMA BreakIsNew ==
    ASSUME NEW first, NEW t, NEW b, NEW st, EventsInv(first, t, st), NEW side, Breaks(b, st, side, t)
    PROVE  \A e \in ToSet(st.events) : e.id # <<side, st.ref[side], t>>
<1> SUFFICES ASSUME NEW e \in ToSet(st.events), e.id = <<side, st.ref[side], t>> PROVE FALSE
    OBVIOUS
<1>1. e.id[1] = side /\ e.id[2] = st.ref[side]
    OBVIOUS
<1>2. EventOk(first, t, st, e)
    BY EventsAre
<1> QED
    BY <1>1, <1>2 DEF EventOk, Breaks

LEMMA EventsOfParts ==
    ASSUME NEW b, NEW first \in Nat \ {0}, NEW t \in Nat \ {0}, CandlesTo(b, t),
           NEW st, RefsIn(first, t - 1, st.ref), EventsInv(first, t - 1, st),
           NEW seen, NEW one, NEW two, NEW x, NEW three, StepParts(b, first, t, st, seen, one, two, x, three)
    PROVE  /\ EventsInv(first, t, seen) /\ EventsInv(first, t, one) /\ EventsInv(first, t, two)
           /\ EventsInv(first, t, x) /\ EventsInv(first, t, three)
           /\ EventsInv(first, t, StructureStep(b, first, st, t))
<1>1. EventsInv(first, t, seen)
    <2>1. EventsInv(first, t, st)
        BY LaterEvents
    <2> QED
        BY <2>1, EventsSame DEF StepParts
<1>2. seen.ref = st.ref /\ one.ref = st.ref /\ x.ref = st.ref /\ three.ref[Down] = st.ref[Down]
    BY DEF StepParts, SameBreaks
<1>3. PivotIn(first, t - 1, st.ref[Up]) /\ PivotIn(first, t - 1, st.ref[Down])
    BY TwoSides DEF RefsIn
<1>4. EventsInv(first, t, one)
    <2>1. IsState(seen) /\ one = BreakOf(b, seen, Up, t)
        BY DEF StepParts
    <2> QED
        BY <1>1, <1>2, <1>3, <2>1, TwoSides, EventsOfBreak
<1>5. EventsInv(first, t, two)
    <2>1. IsState(one) /\ two = BreakOf(b, one, Down, t)
        BY DEF StepParts
    <2> QED
        BY <1>2, <1>3, <1>4, <2>1, TwoSides, EventsOfBreak
<1>6. EventsInv(first, t, x)
    BY <1>5, EventsSame DEF StepParts
<1>7. EventsInv(first, t, three)
    <2>1. IsState(x) /\ three = OneSwing(b, first, x, Up, t)
        BY DEF StepParts
    <2> QED
        BY <1>2, <1>3, <1>6, <2>1, TwoSides, EventsOfSwing
<1>8. EventsInv(first, t, StructureStep(b, first, st, t))
    <2>1. IsState(three) /\ StructureStep(b, first, st, t) = OneSwing(b, first, three, Down, t)
        BY DEF StepParts
    <2>2. EventsInv(first, t, OneSwing(b, first, three, Down, t))
        BY <1>2, <1>3, <1>7, <2>1, TwoSides, EventsOfSwing
    <2> QED
        BY <2>1, <2>2
<1> QED
    BY <1>1, <1>4, <1>5, <1>6, <1>7, <1>8

\* A bar adds breaks at its close, and takes none away.
EventsGrow(st, x, t) ==
    /\ ToSet(st.events) \subseteq ToSet(x.events)
    /\ \A e \in ToSet(x.events) : e \in ToSet(st.events) \/ e.id[3] = t

LEMMA EventsStep ==
    ASSUME NEW b, NEW first \in Nat \ {0}, NEW t \in Nat \ {0}, CandlesTo(b, t),
           NEW st, StructureInv(b, first, t - 1, st), EventsInv(first, t - 1, st)
    PROVE  /\ EventsInv(first, t, StructureStep(b, first, st, t))
           /\ EventsGrow(st, StructureStep(b, first, st, t), t)
<1> DEFINE y == StructureStep(b, first, st, t)
<1>1. IsState(st) /\ RefsIn(first, t - 1, st.ref)
    BY DEF StructureInv, LevelsInv
<1>2. PICK seen, one, two, x, three : StepParts(b, first, t, st, seen, one, two, x, three)
    BY <1>1, StepHasParts
<1>3. EventsInv(first, t, seen) /\ EventsInv(first, t, one) /\ EventsInv(first, t, y)
    BY <1>1, <1>2, EventsOfParts
<1>4. /\ IsState(seen) /\ IsState(one) /\ IsState(x) /\ IsState(three)
      /\ one = BreakOf(b, seen, Up, t) /\ two = BreakOf(b, one, Down, t)
      /\ three = OneSwing(b, first, x, Up, t) /\ y = OneSwing(b, first, three, Down, t)
    BY <1>2 DEF StepParts
<1> HIDE DEF y
<1>5. seen.events = st.events /\ x.events = two.events
    BY <1>2 DEF StepParts, SameBreaks
<1>6. three.events = x.events /\ y.events = three.events
    BY <1>4, TwoSides, SwingKeeps
<1>7. \A s \in Sides : \A w : BreakAt(s, w.ref[s], t, w.trend).id[3] = t
    BY DEF BreakAt
<1>8. ToSet(seen.events) \subseteq ToSet(one.events)
      /\ \A e \in ToSet(one.events) : e \in ToSet(seen.events) \/ e.id[3] = t
    <2>1. ToSet(BreakOf(b, seen, Up, t).events) = ToSet(seen.events) \cup Added(b, seen, Up, t)
        <3>1. IsState(seen) /\ EventsInv(first, t, seen) /\ Up \in Sides /\ t \in Nat
            BY <1>3, <1>4, TwoSides
        <3> QED
            BY ONLY <3>1, BreakAdds
    <2> QED
        BY <1>4, <1>7, <2>1, TwoSides DEF Added
<1>9. ToSet(one.events) \subseteq ToSet(two.events)
      /\ \A e \in ToSet(two.events) : e \in ToSet(one.events) \/ e.id[3] = t
    <2>1. ToSet(BreakOf(b, one, Down, t).events) = ToSet(one.events) \cup Added(b, one, Down, t)
        <3>1. IsState(one) /\ EventsInv(first, t, one) /\ Down \in Sides /\ t \in Nat
            BY <1>3, <1>4, TwoSides
        <3> QED
            BY ONLY <3>1, BreakAdds
    <2> QED
        BY <1>4, <1>7, <2>1, TwoSides DEF Added
<1>10. EventsGrow(st, y, t)
    BY <1>5, <1>6, <1>8, <1>9 DEF EventsGrow
<1> QED
    BY <1>3, <1>10 DEF y

LEMMA EventsKept ==
    ASSUME NEW b, NEW n \in Nat, CandlesTo(b, n), NEW first \in Nat \ {0}, first - 1 <= n,
           NEW R, IsStructure(R, b, first, n)
    PROVE  \A t \in first - 1..n : EventsInv(first, t, R[t])
<1> DEFINE s == first - 1
           P == {t \in s..n : EventsInv(first, t, R[t])}
<1>1. s \in Nat /\ s + 1 = first
    OBVIOUS
<1>2. s \in P
    <2>1. R[s] = StartState
        BY DEF IsStructure
    <2>2. StartState.trend = 0 /\ StartState.events = <<>>
        BY DEF StartState
    <2>3. <<>> \in Seq(BreakSet) /\ Len(<<>>) = 0 /\ 1..0 = {} /\ 0 \in Priors
        BY DEF Priors
    <2>4. EventsInv(first, s, StartState)
        BY <2>2, <2>3 DEF EventsInv, InOrder
    <2> QED
        BY <1>1, <2>1, <2>4
<1>3. ASSUME NEW t \in (s + 1)..n, t - 1 \in P PROVE t \in P
    <2>1. t \in Nat \ {0} /\ t \in s..n /\ t \in first..n /\ t - 1 \in first - 1..n
        BY <1>1
    <2>2. CandlesTo(b, t)
        BY <2>1 DEF CandlesTo
    <2>3. StructureInv(b, first, t - 1, R[t - 1])
        BY <2>1, StructureKept
    <2>4. EventsInv(first, t - 1, R[t - 1])
        BY <1>3
    <2>5. R[t] = StructureStep(b, first, R[t - 1], t)
        BY <2>1 DEF IsStructure
    <2>6. EventsInv(first, t, StructureStep(b, first, R[t - 1], t))
        BY <2>1, <2>2, <2>3, <2>4, EventsStep
    <2> QED
        BY <2>1, <2>5, <2>6
<1>4. \A t \in s..n : t \in P
    <2> HIDE DEF P, s
    <2> QED
        BY <1>1, <1>2, <1>3, BarInduction
<1> QED
    BY <1>4

\* The breaks up to bar m are those that the replay had at bar m.
LEMMA EventsStay ==
    ASSUME NEW b, NEW n \in Nat, CandlesTo(b, n), NEW first \in Nat \ {0},
           NEW m \in first - 1..n, NEW R, IsStructure(R, b, first, n)
    PROVE  \A e : e \in ToSet(R[n].events) /\ e.id[3] <= m <=> e \in ToSet(R[m].events)
<1> DEFINE Remain(t) == \A e : e \in ToSet(R[t].events) /\ e.id[3] <= m <=> e \in ToSet(R[m].events)
           P == {t \in m..n : Remain(t)}
<1>1. m \in Nat /\ first - 1 <= n /\ n \in m..n
    OBVIOUS
<1>2. \A t \in first - 1..n : EventsInv(first, t, R[t]) /\ StructureInv(b, first, t, R[t])
    BY <1>1, EventsKept, StructureKept
<1>3. Remain(m)
    <2>1. EventsInv(first, m, R[m])
        BY <1>2
    <2> QED
        BY <2>1, EventsAre DEF EventOk
<1>4. ASSUME NEW t \in (m + 1)..n, t - 1 \in P PROVE t \in P
    <2>1. t \in Nat \ {0} /\ t \in m..n /\ t \in first..n /\ t - 1 \in first - 1..n /\ m < t
        OBVIOUS
    <2>2. CandlesTo(b, t)
        BY <2>1 DEF CandlesTo
    <2>3. R[t] = StructureStep(b, first, R[t - 1], t)
        BY <2>1 DEF IsStructure
    <2>4. EventsGrow(R[t - 1], StructureStep(b, first, R[t - 1], t), t)
        BY <1>2, <2>1, <2>2, EventsStep
    <2>5. EventsGrow(R[t - 1], R[t], t)
        BY <2>3, <2>4
    <2>6. Remain(t - 1)
        BY <1>4
    <2>7. \A e \in ToSet(R[t].events) : e.id[3] = t => ~(e.id[3] <= m)
        BY <2>1
    <2>8. Remain(t)
        BY <2>5, <2>6, <2>7 DEF EventsGrow
    <2> QED
        BY <2>1, <2>8
<1>5. m \in P
    BY <1>1, <1>3
<1>6. \A t \in m..n : t \in P
    <2> HIDE DEF P
    <2> QED
        BY <1>1, <1>4, <1>5, BarInduction
<1> QED
    BY <1>1, <1>6

-----------------------------------------------------------------------------
(* Two windows, of which the later one begins at bar late: the pivots and   *)
(* breaks that both can see are the same.                                   *)

RefsAgree(late, s1, s2) ==
    \A s \in Sides :
        IF s2.ref[s] # 0 THEN s1.ref[s] = s2.ref[s] /\ (s1.broken[s] <=> s2.broken[s])
        ELSE s1.ref[s] < late + SwingLeft

IdsAgree(late, s1, s2) ==
    /\ \A e2 \in ToSet(s2.events) : \E e1 \in ToSet(s1.events) : e1.id = e2.id
    /\ \A e1 \in ToSet(s1.events) : late + SwingLeft <= e1.id[2] => \E e2 \in ToSet(s2.events) : e2.id = e1.id

\* What the earlier window takes for the first break, the later one does too.
PriorsAgree(s1, s2) ==
    /\ s1.trend = 0 => s2.trend = 0
    /\ \A e1 \in ToSet(s1.events), e2 \in ToSet(s2.events) : e1.id = e2.id /\ e1.prior = 0 => e2.prior = 0

WindowsAgree(late, s1, s2) == RefsAgree(late, s1, s2) /\ IdsAgree(late, s1, s2) /\ PriorsAgree(s1, s2)

LEMMA AgreeSame ==
    ASSUME NEW late, NEW s1, NEW s2, NEW x1, NEW x2, SameBreaks(x1, s1), SameBreaks(x2, s2), WindowsAgree(late, s1, s2)
    PROVE  WindowsAgree(late, x1, x2)
BY DEF SameBreaks, WindowsAgree, RefsAgree, IdsAgree, PriorsAgree

\* What a break makes of a state.
BreakMade(b, st, side, t, x) ==
    IF Breaks(b, st, side, t)
    THEN /\ x.trend = side /\ x.ref = st.ref
         /\ \A s \in Sides : x.broken[s] <=> st.broken[s] \/ s = side
         /\ ToSet(x.events) = ToSet(st.events) \cup {BreakAt(side, st.ref[side], t, st.trend)}
         /\ \A e \in ToSet(st.events) : e.id # <<side, st.ref[side], t>>
    ELSE x = st

LEMMA BreakIsMade ==
    ASSUME NEW first, NEW t \in Nat, NEW b, NEW st, IsState(st), EventsInv(first, t, st), NEW side \in Sides
    PROVE  BreakMade(b, st, side, t, BreakOf(b, st, side, t))
<1> DEFINE x == BreakOf(b, st, side, t)
<1>1. CASE Breaks(b, st, side, t)
    <2>1. x.trend = side
        BY <1>1, OneBreakIs
    <2>2. x.ref = st.ref
        BY OneBreak
    <2>3. \A s \in Sides : x.broken[s] <=> st.broken[s] \/ (s = side /\ Breaks(b, st, side, t))
        BY OneBreak
    <2>4. ToSet(x.events) = ToSet(st.events) \cup Added(b, st, side, t)
        BY BreakAdds
    <2>5. \A e \in ToSet(st.events) : e.id # <<side, st.ref[side], t>>
        BY <1>1, BreakIsNew
    <2> HIDE DEF x
    <2>6. BreakMade(b, st, side, t, x)
        BY <1>1, <2>1, <2>2, <2>3, <2>4, <2>5 DEF BreakMade, Added
    <2> QED
        BY <2>6 DEF x
<1>2. CASE ~Breaks(b, st, side, t)
    <2>1. x = st
        BY <1>2 DEF BreakOf
    <2> QED
        BY <1>2, <2>1 DEF BreakMade
<1> QED
    BY <1>1, <1>2

LEMMA AgreeOfBreak ==
    ASSUME NEW late \in Nat, NEW t \in Nat \ {0}, NEW b,
           NEW s1, NEW s2, IsState(s1), IsState(s2), EventsInv(late, t, s2), WindowsAgree(late, s1, s2),
           NEW side \in Sides, PivotIn(late, t - 1, s2.ref[side]),
           NEW x1, BreakMade(b, s1, side, t, x1), NEW x2, BreakMade(b, s2, side, t, x2)
    PROVE  WindowsAgree(late, x1, x2)
<1> DEFINE n1 == BreakAt(side, s1.ref[side], t, s1.trend)
           n2 == BreakAt(side, s2.ref[side], t, s2.trend)
<1>0. /\ n1.id = <<side, s1.ref[side], t>> /\ n1.prior = s1.trend /\ n1.id[2] = s1.ref[side]
      /\ n2.id = <<side, s2.ref[side], t>> /\ n2.prior = s2.trend
    BY DEF BreakAt
<1>a. side # 0 /\ SwingLeft \in Nat /\ s1.ref \in [Sides -> Nat] /\ s2.ref \in [Sides -> Nat]
    BY StructureConfigAssumption DEF Sides, IsState
<1>b. \A e \in ToSet(s2.events) : late + SwingLeft <= e.id[2] /\ e.id[2] \in Nat
    BY EventsAre, BreakFields DEF EventOk
<1>1. CASE Breaks(b, s2, side, t)
    <2>1. s2.ref[side] # 0 /\ s1.ref[side] = s2.ref[side] /\ Breaks(b, s1, side, t)
        BY <1>1 DEF Breaks, WindowsAgree, RefsAgree
    <2>2. /\ x1.trend = side /\ x1.ref = s1.ref
          /\ \A s \in Sides : x1.broken[s] <=> s1.broken[s] \/ s = side
          /\ ToSet(x1.events) = ToSet(s1.events) \cup {n1}
          /\ \A e \in ToSet(s1.events) : e.id # <<side, s1.ref[side], t>>
        BY <2>1 DEF BreakMade
    <2>3. /\ x2.trend = side /\ x2.ref = s2.ref
          /\ \A s \in Sides : x2.broken[s] <=> s2.broken[s] \/ s = side
          /\ ToSet(x2.events) = ToSet(s2.events) \cup {n2}
          /\ \A e \in ToSet(s2.events) : e.id # <<side, s2.ref[side], t>>
        BY <1>1 DEF BreakMade
    <2>4. n1.id = n2.id
        BY <1>0, <2>1
    <2> HIDE DEF n1, n2
    <2>5. RefsAgree(late, x1, x2)
        BY <2>2, <2>3 DEF WindowsAgree, RefsAgree
    <2>6. IdsAgree(late, x1, x2)
        BY <2>2, <2>3, <2>4 DEF WindowsAgree, IdsAgree
    <2>7. PriorsAgree(x1, x2)
        <3>1. x1.trend = 0 => x2.trend = 0
            BY <1>a, <2>2
        <3>2. ASSUME NEW e1 \in ToSet(x1.events), NEW e2 \in ToSet(x2.events), e1.id = e2.id, e1.prior = 0
              PROVE  e2.prior = 0
            <4>1. CASE e1 \in ToSet(s1.events) /\ e2 \in ToSet(s2.events)
                BY <3>2, <4>1 DEF WindowsAgree, PriorsAgree
            <4>2. CASE e1 \in ToSet(s1.events) /\ e2 = n2
                BY <1>0, <2>2, <2>4, <3>2, <4>2
            <4>3. CASE e1 = n1 /\ e2 \in ToSet(s2.events)
                BY <1>0, <2>3, <2>4, <3>2, <4>3
            <4>4. CASE e1 = n1 /\ e2 = n2
                BY <1>0, <3>2, <4>4 DEF WindowsAgree, PriorsAgree
            <4> QED
                BY <2>2, <2>3, <4>1, <4>2, <4>3, <4>4
        <3> QED
            BY <3>1, <3>2 DEF PriorsAgree
    <2> QED
        BY <2>5, <2>6, <2>7 DEF WindowsAgree
<1>2. CASE ~Breaks(b, s2, side, t) /\ Breaks(b, s1, side, t)
    <2>1. s2.ref[side] = 0 /\ s1.ref[side] < late + SwingLeft
        BY <1>2 DEF Breaks, WindowsAgree, RefsAgree
    <2>2. /\ x1.trend = side /\ x1.ref = s1.ref
          /\ \A s \in Sides : x1.broken[s] <=> s1.broken[s] \/ s = side
          /\ ToSet(x1.events) = ToSet(s1.events) \cup {n1}
        BY <1>2 DEF BreakMade
    <2>3. x2 = s2
        BY <1>2 DEF BreakMade
    <2> HIDE DEF n1, n2
    <2>4. RefsAgree(late, x1, x2)
        BY <2>1, <2>2, <2>3 DEF WindowsAgree, RefsAgree
    <2>5. s1.ref[side] \in Nat /\ ~(late + SwingLeft <= n1.id[2])
        BY <1>0, <1>a, <2>1
    <2>6. IdsAgree(late, x1, x2)
        BY <2>2, <2>3, <2>5 DEF WindowsAgree, IdsAgree
    <2>7. PriorsAgree(x1, x2)
        <3>1. \A e2 \in ToSet(s2.events) : n1.id # e2.id
            BY <1>b, <2>5
        <3> QED
            BY <1>a, <2>2, <2>3, <3>1 DEF WindowsAgree, PriorsAgree
    <2> QED
        BY <2>4, <2>6, <2>7 DEF WindowsAgree
<1>3. CASE ~Breaks(b, s2, side, t) /\ ~Breaks(b, s1, side, t)
    BY <1>3 DEF BreakMade
<1> QED
    BY <1>1, <1>2, <1>3

LEMMA AgreeOfSwing ==
    ASSUME NEW late \in Nat \ {0}, NEW first \in 1..late, NEW t \in Nat \ {0}, NEW b, CandlesTo(b, t),
           NEW s1, NEW s2, IsState(s1), IsState(s2), WindowsAgree(late, s1, s2),
           NEW side \in Sides, PivotIn(late, t - 1, s2.ref[side]),
           NEW x1, x1 = OneSwing(b, first, s1, side, t), NEW x2, x2 = OneSwing(b, late, s2, side, t)
    PROVE  WindowsAgree(late, x1, x2)
<1> DEFINE i == t - SwingRight
           Moved(f, st, x) ==
               \A s \in Sides : IF s = side /\ IsPivot(b, f, side, i) THEN x.ref[s] = i /\ ~x.broken[s]
                                ELSE x.ref[s] = st.ref[s] /\ x.broken[s] = st.broken[s]
<1>0. first \in Nat \ {0} /\ t \in Nat /\ SwingLeft \in Nat /\ SwingRight \in Nat /\ i \in Int
    BY StructureConfigAssumption
<1>1. /\ IsPivot(b, first, side, i) => i \in Nat
      /\ IsPivot(b, late, side, i) => i \in Nat
    BY <1>0, PivotUntouched
<1>2. x1.trend = s1.trend /\ x1.events = s1.events
    BY <1>0, SwingKeeps
<1>3. x2.trend = s2.trend /\ x2.events = s2.events
    BY <1>0, SwingKeeps
<1>4. Moved(first, s1, x1)
    BY ONLY <1>0, <1>1, IsState(s1), side \in Sides, x1 = OneSwing(b, first, s1, side, t), OneSwingIs
<1>5. Moved(late, s2, x2)
    BY ONLY <1>0, <1>1, IsState(s2), side \in Sides, x2 = OneSwing(b, late, s2, side, t), OneSwingIs
<1>6. IsPivot(b, late, side, i) <=> IsPivot(b, first, side, i) /\ late + SwingLeft <= i
    BY <1>0 DEF IsPivot
<1>7. IsPivot(b, late, side, i) => i # 0
    BY <1>0 DEF IsPivot
<1>8. s2.ref[side] \in Nat /\ (s2.ref[side] # 0 => late + SwingLeft <= i)
    BY <1>0 DEF IsState, PivotIn
<1> HIDE DEF i
<1>9. RefsAgree(late, x1, x2)
    <2> SUFFICES ASSUME NEW s \in Sides
                 PROVE  IF x2.ref[s] # 0 THEN x1.ref[s] = x2.ref[s] /\ (x1.broken[s] <=> x2.broken[s])
                        ELSE x1.ref[s] < late + SwingLeft
        BY DEF RefsAgree
    <2>1. IF s2.ref[s] # 0 THEN s1.ref[s] = s2.ref[s] /\ (s1.broken[s] <=> s2.broken[s])
          ELSE s1.ref[s] < late + SwingLeft
        BY DEF WindowsAgree, RefsAgree
    <2>2. CASE s = side /\ IsPivot(b, late, side, i)
        <3>1. /\ x1.ref[s] = i /\ ~x1.broken[s] /\ x2.ref[s] = i /\ ~x2.broken[s]
            BY <1>4, <1>5, <1>6, <2>2
        <3> QED
            BY <1>7, <2>2, <3>1
    <2>3. CASE s = side /\ IsPivot(b, first, side, i) /\ ~IsPivot(b, late, side, i)
        <3>1. x1.ref[s] = i /\ x2.ref[s] = s2.ref[s]
            BY <1>4, <1>5, <2>3
        <3>2. i < late + SwingLeft
            BY <1>0, <1>6, <2>3
        <3> QED
            BY <1>0, <1>8, <2>3, <3>1, <3>2
    <2>4. CASE s # side \/ ~IsPivot(b, first, side, i)
        <3>1. /\ x1.ref[s] = s1.ref[s] /\ x1.broken[s] = s1.broken[s]
              /\ x2.ref[s] = s2.ref[s] /\ x2.broken[s] = s2.broken[s]
            BY <1>4, <1>5, <1>6, <2>4
        <3> QED
            BY <2>1, <3>1
    <2> QED
        BY <1>6, <2>2, <2>3, <2>4
<1>10. IdsAgree(late, x1, x2) /\ PriorsAgree(x1, x2)
    BY <1>2, <1>3 DEF WindowsAgree, IdsAgree, PriorsAgree
<1> QED
    BY <1>9, <1>10 DEF WindowsAgree

LEMMA AgreeStep ==
    ASSUME NEW b, NEW t \in Nat \ {0}, CandlesTo(b, t), NEW late \in Nat \ {0}, NEW first \in 1..late,
           NEW s1, StructureInv(b, first, t - 1, s1), EventsInv(first, t - 1, s1),
           NEW s2, StructureInv(b, late, t - 1, s2), EventsInv(late, t - 1, s2),
           WindowsAgree(late, s1, s2)
    PROVE  WindowsAgree(late, StructureStep(b, first, s1, t), StructureStep(b, late, s2, t))
<1>0. first \in Nat \ {0} /\ late \in Nat /\ t \in Nat /\ Up \in Sides /\ Down \in Sides
    BY TwoSides
<1>1. IsState(s1) /\ RefsIn(first, t - 1, s1.ref) /\ IsState(s2) /\ RefsIn(late, t - 1, s2.ref)
    BY DEF StructureInv, LevelsInv
<1>2. PICK seen1, one1, two1, mid1, three1 : StepParts(b, first, t, s1, seen1, one1, two1, mid1, three1)
    BY <1>0, <1>1, StepHasParts
<1>3. PICK seen2, one2, two2, mid2, three2 : StepParts(b, late, t, s2, seen2, one2, two2, mid2, three2)
    BY <1>0, <1>1, StepHasParts
<1>4. EventsInv(first, t, seen1) /\ EventsInv(first, t, one1)
    BY <1>0, <1>1, <1>2, EventsOfParts
<1>5. EventsInv(late, t, seen2) /\ EventsInv(late, t, one2)
    BY <1>0, <1>1, <1>3, EventsOfParts
<1>6. PivotIn(late, t - 1, s2.ref[Up]) /\ PivotIn(late, t - 1, s2.ref[Down])
    BY <1>0, <1>1 DEF RefsIn
<1>7. seen2.ref = s2.ref /\ one2.ref = s2.ref /\ mid2.ref = s2.ref /\ three2.ref[Down] = s2.ref[Down]
    BY <1>3 DEF StepParts, SameBreaks
<1>8. IsState(seen1) /\ IsState(one1) /\ IsState(mid1) /\ IsState(three1)
    BY <1>2 DEF StepParts
<1>9. IsState(seen2) /\ IsState(one2) /\ IsState(mid2) /\ IsState(three2)
    BY <1>3 DEF StepParts
<1>10. WindowsAgree(late, seen1, seen2)
    BY <1>2, <1>3, AgreeSame DEF StepParts
<1>11. WindowsAgree(late, one1, one2)
    <2>1. one1 = BreakOf(b, seen1, Up, t) /\ one2 = BreakOf(b, seen2, Up, t)
        BY <1>2, <1>3 DEF StepParts
    <2>2. BreakMade(b, seen1, Up, t, one1)
        BY <1>0, <1>4, <1>8, <2>1, BreakIsMade
    <2>3. BreakMade(b, seen2, Up, t, one2)
        BY <1>0, <1>5, <1>9, <2>1, BreakIsMade
    <2>4. PivotIn(late, t - 1, seen2.ref[Up])
        BY <1>6, <1>7
    <2> QED
        BY <1>0, <1>5, <1>8, <1>9, <1>10, <2>2, <2>3, <2>4, AgreeOfBreak
<1>12. WindowsAgree(late, two1, two2)
    <2>1. two1 = BreakOf(b, one1, Down, t) /\ two2 = BreakOf(b, one2, Down, t)
        BY <1>2, <1>3 DEF StepParts
    <2>2. BreakMade(b, one1, Down, t, two1)
        BY <1>0, <1>4, <1>8, <2>1, BreakIsMade
    <2>3. BreakMade(b, one2, Down, t, two2)
        BY <1>0, <1>5, <1>9, <2>1, BreakIsMade
    <2>4. PivotIn(late, t - 1, one2.ref[Down])
        BY <1>6, <1>7
    <2> QED
        BY <1>0, <1>5, <1>8, <1>9, <1>11, <2>2, <2>3, <2>4, AgreeOfBreak
<1>13. WindowsAgree(late, mid1, mid2)
    BY <1>2, <1>3, <1>12, AgreeSame DEF StepParts
<1>14. WindowsAgree(late, three1, three2)
    <2>1. three1 = OneSwing(b, first, mid1, Up, t) /\ three2 = OneSwing(b, late, mid2, Up, t)
        BY <1>2, <1>3 DEF StepParts
    <2>2. PivotIn(late, t - 1, mid2.ref[Up])
        BY <1>6, <1>7
    <2> QED
        BY <1>0, <1>8, <1>9, <1>13, <2>1, <2>2, AgreeOfSwing
<1>15. WindowsAgree(late, OneSwing(b, first, three1, Down, t), OneSwing(b, late, three2, Down, t))
    <2>1. PivotIn(late, t - 1, three2.ref[Down])
        BY <1>6, <1>7
    <2> QED
        BY <1>0, <1>8, <1>9, <1>14, <2>1, AgreeOfSwing
<1> QED
    BY <1>2, <1>3, <1>15 DEF StepParts

LEMMA WindowsKeepAgreeing ==
    ASSUME NEW b, NEW n \in Nat, CandlesTo(b, n), NEW late \in Nat \ {0}, late - 1 <= n, NEW first \in 1..late,
           NEW R1, IsStructure(R1, b, first, n), NEW R2, IsStructure(R2, b, late, n)
    PROVE  \A t \in late - 1..n : WindowsAgree(late, R1[t], R2[t])
<1> DEFINE s == late - 1
           P == {t \in s..n : WindowsAgree(late, R1[t], R2[t])}
<1>1. s \in Nat /\ s + 1 = late /\ first \in Nat \ {0} /\ first - 1 <= n /\ s \in first - 1..n
    OBVIOUS
<1>2. \A t \in first - 1..n : StructureInv(b, first, t, R1[t]) /\ EventsInv(first, t, R1[t])
    BY <1>1, StructureKept, EventsKept
<1>3. \A t \in s..n : StructureInv(b, late, t, R2[t]) /\ EventsInv(late, t, R2[t])
    BY StructureKept, EventsKept
<1>4. WindowsAgree(late, R1[s], R2[s])
    <2>1. R2[s] = StartState
        BY DEF IsStructure
    <2>2. /\ StartState.trend = 0 /\ StartState.events = <<>> /\ ToSet(<<>>) = {}
          /\ \A side \in Sides : StartState.ref[side] = 0
        BY DEF StartState, ToSet
    <2>3. StructureInv(b, first, s, R1[s]) /\ EventsInv(first, s, R1[s])
        BY <1>1, <1>2
    <2>4. RefsAgree(late, R1[s], StartState)
        <3> SUFFICES ASSUME NEW side \in Sides
                     PROVE  IF StartState.ref[side] # 0
                            THEN /\ R1[s].ref[side] = StartState.ref[side]
                                 /\ R1[s].broken[side] <=> StartState.broken[side]
                            ELSE R1[s].ref[side] < late + SwingLeft
            BY DEF RefsAgree
        <3>1. R1[s].ref[side] \in Nat /\ PivotIn(first, s, R1[s].ref[side])
            BY <2>3 DEF StructureInv, LevelsInv, IsState, RefsIn
        <3>2. R1[s].ref[side] < late + SwingLeft
            BY <1>1, <3>1, StructureConfigAssumption DEF PivotIn
        <3> QED
            BY <2>2, <3>2
    <2>5. IdsAgree(late, R1[s], StartState)
        <3>1. \A e \in ToSet(R1[s].events) : ~(late + SwingLeft <= e.id[2])
            <4> TAKE e \in ToSet(R1[s].events)
            <4>1. EventOk(first, s, R1[s], e) /\ e \in BreakSet
                BY <2>3, EventsAre
            <4>2. e.id[2] \in Nat /\ e.id[3] \in Nat /\ e.id[2] < e.id[3] /\ e.id[3] <= s
                BY <4>1, BreakFields DEF EventOk
            <4> QED
                BY <1>1, <4>2, StructureConfigAssumption
        <3> QED
            BY <2>2, <3>1 DEF IdsAgree
    <2>6. PriorsAgree(R1[s], StartState)
        BY <2>2 DEF PriorsAgree
    <2> QED
        BY <2>1, <2>4, <2>5, <2>6 DEF WindowsAgree
<1>5. s \in P
    BY <1>1, <1>4
<1>6. ASSUME NEW t \in (s + 1)..n, t - 1 \in P PROVE t \in P
    <2>1. /\ t \in Nat \ {0} /\ t \in s..n /\ t \in late..n /\ t \in first..n
          /\ t - 1 \in s..n /\ t - 1 \in first - 1..n
        BY <1>1
    <2>2. CandlesTo(b, t)
        BY <2>1 DEF CandlesTo
    <2>3. R1[t] = StructureStep(b, first, R1[t - 1], t) /\ R2[t] = StructureStep(b, late, R2[t - 1], t)
        BY <2>1 DEF IsStructure
    <2>4. WindowsAgree(late, R1[t - 1], R2[t - 1])
        BY <1>6
    <2>5. /\ StructureInv(b, first, t - 1, R1[t - 1]) /\ EventsInv(first, t - 1, R1[t - 1])
          /\ StructureInv(b, late, t - 1, R2[t - 1]) /\ EventsInv(late, t - 1, R2[t - 1])
        BY <1>2, <1>3, <2>1
    <2>6. WindowsAgree(late, StructureStep(b, first, R1[t - 1], t), StructureStep(b, late, R2[t - 1], t))
        BY <2>1, <2>2, <2>4, <2>5, AgreeStep
    <2> QED
        BY <2>1, <2>3, <2>6
<1>7. \A t \in s..n : t \in P
    <2> HIDE DEF P, s
    <2> QED
        BY <1>1, <1>5, <1>6, BarInduction
<1> QED
    BY <1>7

-----------------------------------------------------------------------------
(* What two analyses of one series find.                                    *)

\* What the replay at the close of bar n finds (Found).
BreaksAt(b, n) == ToSet(Replay(SubSeq(b, 1, n), WindowStart(n)).events)

LEMMA WindowsMoveOn ==
    ASSUME NEW n \in Nat, NEW m \in 0..n
    PROVE  WindowStart(m) \in 1..WindowStart(n) /\ WindowStart(m) - 1 <= m
BY StructureConfigAssumption DEF WindowStart

LEMMA ReplayAt ==
    ASSUME NEW b \in Seq(CandleSet), NEW n \in 0..Len(b)
    PROVE  \E R : /\ IsStructure(R, b, WindowStart(n), n)
                  /\ \A m \in 0..n : IsStructure(R, b, WindowStart(n), m)
                  /\ Replay(SubSeq(b, 1, n), WindowStart(n)) = R[n]
<1> DEFINE first == WindowStart(n)
           k == Len(b)
<1>1. k \in Nat /\ n \in Nat /\ n <= k
    OBVIOUS
<1>2. first \in Nat \ {0} /\ first - 1 <= n /\ first - 1 <= k
    BY <1>1, WindowIs
<1> HIDE DEF first
<1>3. PICK R : IsStructure(R, b, first, k)
    BY <1>1, <1>2, ReplayIs
<1>4. Replay(SubSeq(b, 1, n), first) = R[n]
    BY <1>2, <1>3, ReplayOfPrefix
<1>5. \A m \in 0..n : IsStructure(R, b, first, m)
    <2> TAKE m \in 0..n
    <2>1. \A t \in first..m : t \in first..k
        BY <1>1
    <2> QED
        BY <1>3, <2>1 DEF IsStructure
<1> QED
    BY <1>1, <1>4, <1>5 DEF first

LEMMA BreaksAtAre ==
    ASSUME NEW b \in Seq(CandleSet), NEW n \in 0..Len(b)
    PROVE  \A e \in BreaksAt(b, n) : /\ e \in BreakSet
                                     /\ WindowStart(n) + SwingLeft <= e.id[2] /\ e.id[2] < e.id[3] /\ e.id[3] <= n
<1>1. PICK R : IsStructure(R, b, WindowStart(n), n) /\ Replay(SubSeq(b, 1, n), WindowStart(n)) = R[n]
    BY ReplayAt
<1>2. CandlesTo(b, n) /\ n \in Nat
    BY AreCandles DEF CandlesTo
<1>3. WindowStart(n) \in Nat \ {0} /\ n \in WindowStart(n) - 1..n
    BY <1>2, WindowIs
<1>4. EventsInv(WindowStart(n), n, R[n])
    BY <1>1, <1>2, <1>3, EventsKept
<1> QED
    BY <1>1, <1>4, EventsAre DEF BreaksAt, EventOk

LEMMA AnalysesAgree ==
    ASSUME NEW b \in Seq(CandleSet), NEW n \in 0..Len(b), NEW m \in 0..n
    PROVE  /\ \A e2 \in BreaksAt(b, n) : e2.id[3] <= m => \E e1 \in BreaksAt(b, m) : e1.id = e2.id
           /\ \A e1 \in BreaksAt(b, m) : WindowStart(n) + SwingLeft <= e1.id[2] =>
                  \E e2 \in BreaksAt(b, n) : e2.id = e1.id
           /\ \A e1 \in BreaksAt(b, m), e2 \in BreaksAt(b, n) : e1.id = e2.id /\ e1.prior = 0 => e2.prior = 0
<1> DEFINE first == WindowStart(m)
           late == WindowStart(n)
           E1 == BreaksAt(b, m)
           E2 == BreaksAt(b, n)
<1>0. m \in 0..Len(b) /\ n \in Nat /\ m \in Nat /\ m <= n /\ CandlesTo(b, n) /\ CandlesTo(b, m)
    <2>1. Len(b) \in Nat /\ CandlesTo(b, Len(b))
        BY AreCandles
    <2> QED
        BY <2>1 DEF CandlesTo
<1>1. late \in Nat \ {0} /\ first \in 1..late /\ first - 1 <= m /\ late - 1 <= n /\ SwingLeft \in Nat
    BY <1>0, WindowIs, WindowsMoveOn, StructureConfigAssumption
<1>2. \A e \in E1 : e \in BreakSet /\ e.id[2] \in Nat /\ e.id[3] \in Nat /\ e.id[2] < e.id[3] /\ e.id[3] <= m
    BY <1>0, BreaksAtAre, BreakFields
<1>3. \A e \in E2 : /\ e \in BreakSet /\ e.id[2] \in Nat /\ e.id[3] \in Nat
                    /\ late + SwingLeft <= e.id[2] /\ e.id[2] < e.id[3]
    BY <1>0, BreaksAtAre, BreakFields
<1>4. PICK R1 : IsStructure(R1, b, first, m) /\ Replay(SubSeq(b, 1, m), first) = R1[m]
    BY <1>0, ReplayAt
<1>5. PICK R2 : /\ IsStructure(R2, b, late, n) /\ IsStructure(R2, b, late, m)
                /\ Replay(SubSeq(b, 1, n), late) = R2[n]
    BY <1>0, ReplayAt
<1>6. E1 = ToSet(R1[m].events) /\ E2 = ToSet(R2[n].events)
    BY <1>4, <1>5 DEF BreaksAt
<1> HIDE DEF first, late, E1, E2
<1>7. CASE late - 1 <= m
    <2>1. m \in late - 1..n /\ m \in late - 1..m
        BY <1>0, <1>1, <1>7
    <2>2. WindowsAgree(late, R1[m], R2[m])
        BY <1>0, <1>1, <1>4, <1>5, <1>7, <2>1, WindowsKeepAgreeing
    <2>3. \A e : e \in E2 /\ e.id[3] <= m <=> e \in ToSet(R2[m].events)
        BY <1>0, <1>1, <1>5, <1>6, <2>1, EventsStay
    <2>4. \A e2 \in E2 : e2.id[3] <= m => \E e1 \in E1 : e1.id = e2.id
        BY <1>6, <2>2, <2>3 DEF WindowsAgree, IdsAgree
    <2>5. \A e1 \in E1 : late + SwingLeft <= e1.id[2] => \E e2 \in E2 : e2.id = e1.id
        BY <1>6, <2>2, <2>3 DEF WindowsAgree, IdsAgree
    <2>6. \A e1 \in E1, e2 \in E2 : e1.id = e2.id /\ e1.prior = 0 => e2.prior = 0
        <3> SUFFICES ASSUME NEW e1 \in E1, NEW e2 \in E2, e1.id = e2.id, e1.prior = 0
                     PROVE  e2.prior = 0
            OBVIOUS
        <3>1. e2.id[3] <= m
            BY <1>2
        <3>2. e1 \in ToSet(R1[m].events) /\ e2 \in ToSet(R2[m].events)
            BY <1>6, <2>3, <3>1
        <3> QED
            BY <2>2, <3>2 DEF WindowsAgree, PriorsAgree
    <2> QED
        BY <2>4, <2>5, <2>6 DEF late, E1, E2
<1>8. CASE ~(late - 1 <= m)
    <2>1. \A e2 \in E2 : ~(e2.id[3] <= m)
        BY <1>0, <1>1, <1>3, <1>8
    <2>2. \A e1 \in E1 : ~(late + SwingLeft <= e1.id[2])
        BY <1>0, <1>1, <1>2, <1>8
    <2>3. \A e1 \in E1, e2 \in E2 : e1.id # e2.id
        BY <1>2, <2>1
    <2> QED
        BY <2>1, <2>2, <2>3 DEF late, E1, E2
<1> QED
    BY <1>7, <1>8

\* A break is shown unless RecentEvents others came after it.
LEMMA RecentIsShown ==
    ASSUME NEW first, NEW t, NEW st, EventsInv(first, t, st), NEW e \in ToSet(st.events),
           Cardinality({x \in ToSet(st.events) : x.id[3] >= e.id[3]}) <= RecentEvents
    PROVE  e \in ToSet(LastEvents(st))
<1> DEFINE s == st.events
           k == Len(s)
           T == {x \in ToSet(s) : x.id[3] >= e.id[3]}
           from == IF k > RecentEvents THEN k - RecentEvents + 1 ELSE 1
<1>1. /\ s \in Seq(BreakSet) /\ k \in Nat /\ DOMAIN s = 1..k
      /\ \A q \in 1..k : s[q] \in BreakSet /\ s[q] \in ToSet(s)
    BY DEF EventsInv, ToSet
<1>2. PICK p \in 1..k : e = s[p]
    BY <1>1 DEF ToSet
<1>3. RecentEvents \in Nat \ {0} /\ from \in 1..k + 1 /\ from \in Nat
    BY <1>1, StructureConfigAssumption
<1>4. IsFiniteSet(T)
    <2> DEFINE f == [q \in 1..k |-> s[q]]
    <2>1. f \in Surjection(1..k, ToSet(s))
        BY <1>1 DEF Surjection, ToSet
    <2>2. IsFiniteSet(1..k)
        BY <1>1, FS_Interval
    <2> HIDE DEF f
    <2>3. IsFiniteSet(ToSet(s))
        BY <2>1, <2>2, FS_Surjection
    <2> QED
        BY <2>3, FS_Subset
<1>5. \A q \in p..k : s[q] \in T
    <2> TAKE q \in p..k
    <2>1. q \in 1..k
        BY <1>1
    <2>2. s[q].id[3] \in Nat /\ s[p].id[3] \in Nat
        BY <1>1, <2>1, BreakFields
    <2>3. s[q].id[3] >= s[p].id[3]
        BY <2>1, <2>2 DEF EventsInv, InOrder
    <2> QED
        BY <1>1, <1>2, <2>1, <2>3
<1>6. Cardinality(T) \in Nat /\ Cardinality(T) <= RecentEvents
    BY <1>4, FS_CardinalityType
<1>7. ASSUME k - p + 1 > RecentEvents PROVE FALSE
    <2> DEFINE f == [q \in p..k |-> s[q]]
    <2>1. IsFiniteSet(p..k) /\ Cardinality(p..k) = k - p + 1
        BY <1>1, FS_Interval
    <2>2. f \in [p..k -> T]
        BY <1>5
    <2>3. Cardinality(T) < Cardinality(p..k)
        BY <1>1, <1>3, <1>6, <1>7, <2>1
    <2>4. \A q \in p..k : f[q] = s[q]
        OBVIOUS
    <2> HIDE DEF f, T
    <2>5. PICK q, r \in p..k : q # r /\ f[q] = f[r]
        BY <1>4, <2>1, <2>2, <2>3, FS_PigeonHole
    <2>6. s[q] = s[r] /\ q \in 1..k /\ r \in 1..k /\ (q < r \/ r < q)
        BY <1>1, <2>4, <2>5
    <2> QED
        BY <2>6 DEF EventsInv, InOrder
<1>8. p \in from..k
    BY <1>1, <1>3, <1>7
<1> HIDE DEF from
<1>9. e \in ToSet(SubSeq(s, from, k))
    <2> DEFINE u == SubSeq(s, from, k)
    <2>1. Len(u) = k - from + 1 /\ \A j \in 1..k - from + 1 : u[j] = s[from + j - 1]
        BY <1>1, <1>3, <1>8
    <2>2. DOMAIN u = 1..Len(u)
        BY <1>1, <1>3
    <2>3. p - from + 1 \in 1..k - from + 1 /\ from + (p - from + 1) - 1 = p
        BY <1>1, <1>3, <1>8
    <2> HIDE DEF u
    <2>4. u[p - from + 1] = e
        BY <1>2, <2>1, <2>3
    <2>5. e \in ToSet(u)
        BY <2>1, <2>2, <2>3, <2>4 DEF ToSet
    <2> QED
        BY <2>5 DEF u
<1> QED
    BY <1>9 DEF from, LastEvents

LEMMA ShownIsFound ==
    ASSUME NEW first, NEW t, NEW st, EventsInv(first, t, st)
    PROVE  ToSet(LastEvents(st)) \subseteq ToSet(st.events)
<1> DEFINE s == st.events
           k == Len(s)
           from == IF k > RecentEvents THEN k - RecentEvents + 1 ELSE 1
           u == SubSeq(s, from, k)
<1>1. s \in Seq(BreakSet) /\ k \in Nat /\ DOMAIN s = 1..k
    BY DEF EventsInv
<1>2. RecentEvents \in Nat \ {0} /\ from \in 1..k + 1 /\ from \in Nat
    BY <1>1, StructureConfigAssumption
<1> HIDE DEF from
<1>3. /\ u \in Seq(BreakSet) /\ Len(u) = k - from + 1
      /\ \A j \in 1..k - from + 1 : u[j] = s[from + j - 1]
    BY <1>1, <1>2
<1>4. DOMAIN u = 1..Len(u) /\ \A j \in 1..k - from + 1 : from + j - 1 \in 1..k
    BY <1>1, <1>2, <1>3
<1> HIDE DEF u
<1>5. ToSet(u) \subseteq ToSet(s)
    BY <1>1, <1>3, <1>4 DEF ToSet
<1> QED
    BY <1>5 DEF u, from, LastEvents

\* What an analysis at the close of bar n shows: breaks that it found, sweeps
\* at the price of the first extreme of their level.
LEMMA SnapshotShows ==
    ASSUME NEW b \in Seq(CandleSet), NEW n \in 0..Len(b)
    PROVE  /\ ToSet(Snapshot(SubSeq(b, 1, n)).events) \subseteq BreaksAt(b, n)
           /\ \A e \in BreaksAt(b, n) :
                  n >= MinBars /\ Cardinality({x \in BreaksAt(b, n) : x.id[3] >= e.id[3]}) <= RecentEvents
                      => e \in ToSet(Snapshot(SubSeq(b, 1, n)).events)
           /\ \A s \in Snapshot(SubSeq(b, 1, n)).sweeps : SweepOk(b, n, s)
<1> DEFINE c == SubSeq(b, 1, n)
           first == WindowStart(n)
           view1 == Snapshot(c)
<1>1. /\ c \in Seq(CandleSet) /\ Len(c) = n /\ n \in Nat
      /\ \A u \in 1..n : c[u] = b[u]
    BY AreCandles
<1>2. first \in Nat \ {0} /\ n \in first - 1..n /\ CandlesTo(b, n)
    <2>1. CandlesTo(b, Len(b)) /\ Len(b) \in Nat
        BY AreCandles
    <2> QED
        BY <1>1, <2>1, WindowIs DEF CandlesTo
<1>3. PICK R : IsStructure(R, b, first, n) /\ Replay(c, first) = R[n]
    BY ReplayAt
<1> DEFINE st == R[n]
<1>4. EventsInv(first, n, st) /\ IsState(st)
    <2>1. StructureInv(b, first, n, st)
        BY <1>1, <1>2, <1>3, StructureKept
    <2> QED
        BY <1>1, <1>2, <1>3, <2>1, EventsKept DEF StructureInv, LevelsInv
<1>5. BreaksAt(b, n) = ToSet(st.events)
    BY <1>3 DEF BreaksAt
<1>6. LevelsInv(c, n, view1)
    BY <1>1, AreCandles, SnapshotOk
<1>7. n >= MinBars => view1.events = LastEvents(st)
    <2> SUFFICES ASSUME n >= MinBars PROVE view1.events = LastEvents(st)
        OBVIOUS
    <2>1. st = Replay(c, WindowStart(Len(c))) /\ ~(Len(c) < MinBars)
        BY <1>1, <1>3, StructureConfigAssumption
    <2> HIDE DEF c, st
    <2>2. Snapshot(c) = StateOf(st.trend, st.ref, st.broken, st.levels, LastEvents(st), LastSweeps(st, Len(c)))
        BY <1>1, <1>4, <2>1, SnapshotIs
    <2> HIDE DEF view1
    <2>3. view1 = StateOf(st.trend, st.ref, st.broken, st.levels, LastEvents(st), LastSweeps(st, Len(c)))
        BY <2>2 DEF view1
    <2> QED
        BY <2>3, StateFields
<1>8. ~(n >= MinBars) => view1.events = <<>>
    <2> SUFFICES ASSUME ~(n >= MinBars) PROVE view1.events = <<>>
        OBVIOUS
    <2>1. Len(c) < MinBars
        BY <1>1, StructureConfigAssumption
    <2> HIDE DEF c
    <2>2. view1 = StartState
        BY <2>1 DEF Snapshot
    <2> QED
        BY <2>2 DEF StartState
<1>9. ToSet(<<>>) = {}
    BY DEF ToSet
<1> HIDE DEF view1, c, first, st
<1>10. ToSet(view1.events) \subseteq BreaksAt(b, n)
    BY <1>4, <1>5, <1>7, <1>8, <1>9, ShownIsFound
<1>11. ASSUME NEW e \in BreaksAt(b, n), n >= MinBars,
              Cardinality({x \in BreaksAt(b, n) : x.id[3] >= e.id[3]}) <= RecentEvents
       PROVE  e \in ToSet(view1.events)
    <2>1. Cardinality({x \in ToSet(st.events) : x.id[3] >= e.id[3]}) <= RecentEvents /\ e \in ToSet(st.events)
        BY <1>5, <1>11
    <2> QED
        BY <1>4, <1>7, <1>11, <2>1, RecentIsShown
<1>12. \A s \in view1.sweeps : SweepOk(b, n, s)
    <2> TAKE s \in view1.sweeps
    <2>1. SweepOk(c, n, s)
        BY <1>6 DEF LevelsInv
    <2> QED
        BY <1>1, <2>1 DEF SweepOk
<1> QED
    BY <1>10, <1>11, <1>12 DEF view1, c

IsBreakRow(b, n, row) == \E e \in BreaksAt(b, n) : row = BreakRow(e)
IsSweepRow(b, n, row) == \E s : SweepOk(b, n, s) /\ row = SweepRow(s)

LEMMA ShownRows ==
    ASSUME NEW b \in Seq(CandleSet), NEW n \in 0..Len(b), NEW row \in RowsAt(b, n)
    PROVE  IsBreakRow(b, n, row) \/ IsSweepRow(b, n, row)
<1> DEFINE view1 == Snapshot(SubSeq(b, 1, n))
<1>1. /\ ToSet(view1.events) \subseteq BreaksAt(b, n)
      /\ \A s \in view1.sweeps : SweepOk(b, n, s)
    BY SnapshotShows
<1>2. row \in Rows(view1)
    BY DEF RowsAt
<1> HIDE DEF view1
<1>3. (\E e \in ToSet(view1.events) : row = BreakRow(e)) \/ (\E s \in view1.sweeps : row = SweepRow(s))
    BY <1>2 DEF Rows
<1> QED
    BY <1>1, <1>3 DEF IsBreakRow, IsSweepRow

LEMMA RowFields ==
    ASSUME NEW e, NEW s
    PROVE  /\ BreakRow(e).id = e.id /\ BreakRow(e).kind = e.label /\ BreakRow(e).about = e.prior
           /\ SweepRow(s).id = s.id /\ SweepRow(s).kind = "sweep" /\ SweepRow(s).about = s.price
BY DEF BreakRow, SweepRow

\* Breaks have an identity of three parts, sweeps one of two.
LEMMA BreaksAreNoSweeps ==
    ASSUME NEW e \in BreakSet, NEW b, NEW n, NEW s, SweepOk(b, n, s)
    PROVE  e.id # s.id
<1>1. Len(e.id) = 3
    BY DEF BreakSet, BreakAt
<1>2. Len(s.id) = 2
    BY DEF SweepOk
<1> QED
    BY <1>1, <1>2

LEMMA SweepsAgree ==
    ASSUME NEW b, NEW m, NEW n, NEW r, SweepOk(b, m, r), NEW s, SweepOk(b, n, s), r.id = s.id
    PROVE  r.price = s.price
<1>1. PICK side1 \in Sides, eq1 \in BOOLEAN, m1 \in Seq(Nat), u1 \in Nat :
            r = [id |-> <<<<side1, eq1, m1>>, u1>>, price |-> Extreme(side1, b[m1[1]])]
    BY DEF SweepOk
<1>2. PICK side2 \in Sides, eq2 \in BOOLEAN, m2 \in Seq(Nat), u2 \in Nat :
            s = [id |-> <<<<side2, eq2, m2>>, u2>>, price |-> Extreme(side2, b[m2[1]])]
    BY DEF SweepOk
<1>3. <<<<side1, eq1, m1>>, u1>> = <<<<side2, eq2, m2>>, u2>>
    BY <1>1, <1>2
<1>4. side1 = side2 /\ m1 = m2
    BY <1>3
<1> QED
    BY <1>1, <1>2, <1>4

LEMMA LabelsAre ==
    ASSUME NEW side \in Sides, NEW p \in Priors
    PROVE  /\ p = 0 => Label(p, side) = "break_unclassified"
           /\ p = side => Label(p, side) = "bos"
           /\ p # 0 /\ p # side => Label(p, side) = "choch"
           /\ side # 0
BY DEF Label, Sides, Priors

LEMMA LabelsDiffer ==
    ASSUME NEW e1 \in BreakSet, NEW e2 \in BreakSet, e1.id = e2.id, BreakRow(e1) # BreakRow(e2),
           e1.prior = 0 => e2.prior = 0
    PROVE  e1.label \in {"bos", "choch"} /\ e2.label # "sweep" /\ e2.label # e1.label
<1>1. /\ e1.id[1] \in Sides /\ e1.prior \in Priors /\ e2.prior \in Priors
      /\ e1.label = Label(e1.prior, e1.id[1]) /\ e2.label = Label(e2.prior, e1.id[1])
    BY BreakFields
<1> DEFINE side == e1.id[1]
           p == e1.prior
           q == e2.prior
<1>2. p # q
    <2> SUFFICES ASSUME p = q PROVE FALSE
        OBVIOUS
    <2>1. e1.label = e2.label
        BY <1>1
    <2> QED
        BY <2>1 DEF BreakRow
<1>3. side \in Sides /\ p \in Priors /\ q \in Priors /\ (p = 0 => q = 0)
    BY <1>1
<1>4. e1.label = Label(p, side) /\ e2.label = Label(q, side)
    BY <1>1
<1> HIDE DEF side, p, q
<1>5. p # 0 /\ (p = side \/ q = side \/ q = 0)
    BY <1>2, <1>3 DEF Sides, Priors
<1> QED
    BY <1>2, <1>3, <1>4, <1>5, LabelsAre

LEMMA FoundIs ==
    ASSUME StructureTypeOK, NEW n
    PROVE  Found(n) = BreaksAt(candles, n)
BY DEF Found, BreaksAt

LEMMA LogConflicts ==
    ASSUME StructureTypeOK, StructureTablesOk
    PROVE  ConflictsAreLabels
<1> SUFFICES ASSUME NEW row \in structure_event_conflicts
             PROVE  \E first \in structure_events :
                        /\ first.id = row.id
                        /\ first.kind \in {"bos", "choch"} /\ row.kind # "sweep" /\ row.kind # first.kind
    BY DEF ConflictsAreLabels
<1>1. PICK m \in analysed, n \in analysed, first \in structure_events :
            /\ m <= n /\ first.id = row.id /\ first # row
            /\ first \in RowsAt(candles, m) /\ row \in RowsAt(candles, n)
    BY DEF StructureTablesOk, IsConflict
<1>2. /\ candles \in Seq(CandleSet) /\ Len(candles) \in Nat
      /\ n \in 0..Len(candles) /\ m \in 0..Len(candles) /\ m \in 0..n
    BY <1>1 DEF StructureTypeOK
<1>3. IsBreakRow(candles, m, first) \/ IsSweepRow(candles, m, first)
    BY <1>1, <1>2, ShownRows
<1>4. IsBreakRow(candles, n, row) \/ IsSweepRow(candles, n, row)
    BY <1>1, <1>2, ShownRows
<1>5. CASE IsBreakRow(candles, m, first) /\ IsBreakRow(candles, n, row)
    <2>1. PICK e1 \in BreaksAt(candles, m) : first = BreakRow(e1)
        BY <1>5 DEF IsBreakRow
    <2>2. PICK e2 \in BreaksAt(candles, n) : row = BreakRow(e2)
        BY <1>5 DEF IsBreakRow
    <2>3. e1 \in BreakSet /\ e2 \in BreakSet
        BY <1>2, BreaksAtAre
    <2>4. e1.id = e2.id
        BY <1>1, <2>1, <2>2, RowFields
    <2>5. e1.prior = 0 => e2.prior = 0
        BY <1>2, <2>4, AnalysesAgree
    <2>6. e1.label \in {"bos", "choch"} /\ e2.label # "sweep" /\ e2.label # e1.label
        BY <1>1, <2>1, <2>2, <2>3, <2>4, <2>5, LabelsDiffer
    <2>7. first.kind = e1.label /\ row.kind = e2.label
        BY <2>1, <2>2, RowFields
    <2> QED
        BY <1>1, <2>6, <2>7
<1>6. CASE IsSweepRow(candles, m, first) /\ IsSweepRow(candles, n, row)
    <2>1. PICK r : SweepOk(candles, m, r) /\ first = SweepRow(r)
        BY <1>6 DEF IsSweepRow
    <2>2. PICK s : SweepOk(candles, n, s) /\ row = SweepRow(s)
        BY <1>6 DEF IsSweepRow
    <2>3. r.id = s.id
        BY <1>1, <2>1, <2>2, RowFields
    <2>4. r.price = s.price
        BY <2>1, <2>2, <2>3, SweepsAgree
    <2>5. first = row
        BY <2>1, <2>2, <2>3, <2>4 DEF SweepRow
    <2> QED
        BY <1>1, <2>5
<1>7. CASE IsBreakRow(candles, m, first) /\ IsSweepRow(candles, n, row)
    <2>1. PICK e \in BreaksAt(candles, m) : first = BreakRow(e)
        BY <1>7 DEF IsBreakRow
    <2>2. PICK s : SweepOk(candles, n, s) /\ row = SweepRow(s)
        BY <1>7 DEF IsSweepRow
    <2>3. e \in BreakSet /\ e.id = s.id
        BY <1>1, <1>2, <2>1, <2>2, RowFields, BreaksAtAre
    <2> QED
        BY <2>2, <2>3, BreaksAreNoSweeps
<1>8. CASE IsSweepRow(candles, m, first) /\ IsBreakRow(candles, n, row)
    <2>1. PICK s : SweepOk(candles, m, s) /\ first = SweepRow(s)
        BY <1>8 DEF IsSweepRow
    <2>2. PICK e \in BreaksAt(candles, n) : row = BreakRow(e)
        BY <1>8 DEF IsBreakRow
    <2>3. e \in BreakSet /\ e.id = s.id
        BY <1>1, <1>2, <2>1, <2>2, RowFields, BreaksAtAre
    <2> QED
        BY <2>1, <2>3, BreaksAreNoSweeps
<1> QED
    BY <1>3, <1>4, <1>5, <1>6, <1>7, <1>8

LEMMA LogFindsAgain ==
    ASSUME StructureTypeOK
    PROVE  BreaksAreFoundAgain
<1> DEFINE N == Len(candles)
<1> SUFFICES ASSUME NEW n \in analysed
             PROVE  {e.id : e \in {x \in Found(n) : InWindow(x.id[2], N)}} =
                    {e.id : e \in {x \in Found(N) : x.id[3] <= n}}
    BY DEF BreaksAreFoundAgain
<1>1. candles \in Seq(CandleSet) /\ N \in Nat /\ N \in 0..Len(candles) /\ n \in 0..N /\ n \in 0..Len(candles)
    BY DEF StructureTypeOK
<1> DEFINE E1 == BreaksAt(candles, n)
           E2 == BreaksAt(candles, N)
<1>2. Found(n) = E1 /\ Found(N) = E2
    BY FoundIs
<1>3. /\ \A e2 \in E2 : e2.id[3] <= n => \E e1 \in E1 : e1.id = e2.id
      /\ \A e1 \in E1 : WindowStart(N) + SwingLeft <= e1.id[2] => \E e2 \in E2 : e2.id = e1.id
    BY <1>1, AnalysesAgree
<1>4. \A e1 \in E1 : e1.id[3] <= n /\ e1.id[2] \in Nat
    BY <1>1, BreaksAtAre, BreakFields
<1>5. \A e2 \in E2 : WindowStart(N) + SwingLeft <= e2.id[2] /\ e2.id[2] \in Nat
    BY <1>1, BreaksAtAre, BreakFields
<1>6. \A p \in Nat : InWindow(p, N) <=> WindowStart(N) + SwingLeft <= p
    <2>1. WindowStart(N) \in Nat /\ SwingLeft \in Nat
        BY <1>1, WindowIs, StructureConfigAssumption
    <2> QED
        BY <2>1 DEF InWindow
<1> HIDE DEF E1, E2, N
<1>7. ASSUME NEW e \in E1, InWindow(e.id[2], N)
      PROVE  \E e2 \in E2 : e2.id = e.id /\ e2.id[3] <= n
    BY <1>3, <1>4, <1>6, <1>7
<1>8. ASSUME NEW e \in E2, e.id[3] <= n
      PROVE  \E e1 \in E1 : e1.id = e.id /\ InWindow(e1.id[2], N)
    BY <1>3, <1>5, <1>6, <1>8
<1>9. {e.id : e \in {x \in E1 : InWindow(x.id[2], N)}} = {e.id : e \in {x \in E2 : x.id[3] <= n}}
    BY <1>7, <1>8
<1> QED
    BY <1>2, <1>9

LEMMA LogRecords ==
    ASSUME StructureTypeOK, StructureTablesOk
    PROVE  BreaksAreRecorded
<1> DEFINE N == Len(candles)
<1> SUFFICES ASSUME NEW e \in ToSet(view.events), NEW n \in analysed, n >= MinBars, e.id[3] <= n,
                    Cardinality({x \in Found(n) : x.id[3] >= e.id[3]}) <= RecentEvents
             PROVE  Known(e.id)
    BY DEF BreaksAreRecorded
<1>1. candles \in Seq(CandleSet) /\ N \in Nat /\ N \in 0..Len(candles) /\ n \in 0..N /\ n \in 0..Len(candles)
    BY DEF StructureTypeOK
<1>2. e \in BreaksAt(candles, N)
    <2>1. SubSeq(candles, 1, N) = candles
        BY <1>1
    <2>2. view = Snapshot(SubSeq(candles, 1, N))
        BY <2>1 DEF StructureTypeOK
    <2> HIDE DEF N
    <2> QED
        BY <1>1, <2>2, SnapshotShows
<1>3. PICK x \in BreaksAt(candles, n) : x.id = e.id
    BY <1>1, <1>2, AnalysesAgree
<1>4. Cardinality({y \in BreaksAt(candles, n) : y.id[3] >= x.id[3]}) <= RecentEvents
    BY <1>3, FoundIs
<1>5. x \in ToSet(Snapshot(SubSeq(candles, 1, n)).events)
    BY <1>1, <1>4, SnapshotShows
<1>6. BreakRow(x) \in RowsAt(candles, n)
    BY <1>5 DEF RowsAt, Rows
<1>7. Known(BreakRow(x).id)
    BY <1>6 DEF StructureTablesOk
<1> QED
    BY <1>3, <1>7, RowFields

\* A break is the same fact in every window it lies in (StructureEngine.compute):
\* analyses find the same breaks, record what they show, and contradict each
\* other at most in the direction before a break (SQLiteStructureStore.save).
THEOREM StructureIsTimeless == StructureSpec => []BreaksAreTimeless
<1>1. StructureTypeOK /\ StructureTablesOk => BreaksAreTimeless
    BY LogFindsAgain, LogRecords, LogConflicts DEF BreaksAreTimeless
<1> QED
    BY <1>1, StructureTables, PTL
=============================================================================
