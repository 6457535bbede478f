---------------------------- MODULE RegimeProofs ----------------------------
(***************************************************************************)
(* What holds of the market regimes for every value of the constants.  Every *)
(* feature that a process has, caches or classifies is explained by the bars  *)
(* its key names, and those bars are in the table: so the key fixes the       *)
(* regime, and a regime has its whole windows.                               *)
(***************************************************************************)
EXTENDS Regime, TLAPS, FiniteSetTheorems, WellFoundedInduction

-----------------------------------------------------------------------------
(* The data policy: what a verdict says of the bars, and what it depends on. *)
LEMMA SmallestOf ==
    ASSUME NEW S, S \subseteq Nat, S # {}
    PROVE  \E k \in S : \A j \in S : k <= j
<1>1. \E k \in S : \A j \in S : ~(<<j, k>> \in OpToRel(<, Nat))
    BY WFMin, NatLessThanWellFounded
<1>2. \A j, k \in Nat : j < k => <<j, k>> \in OpToRel(<, Nat)
    BY DEF OpToRel
<1>3. \E k \in S : \A j \in S : ~(j < k)
    BY <1>1, <1>2
<1> QED
    BY <1>3

\* A smaller part has fewer elements.
LEMMA Fewer ==
    ASSUME NEW S, IsFiniteSet(S), NEW T, T \subseteq S
    PROVE  /\ IsFiniteSet(T) /\ Cardinality(T) \in Nat /\ Cardinality(S) \in Nat
           /\ Cardinality(T) <= Cardinality(S)
           /\ T # S => Cardinality(T) < Cardinality(S)
BY FS_Subset, FS_CardinalityType

\* The bar in front of a bar.
LEMMA BarBefore ==
    ASSUME NEW times, times \subseteq Int, IsFiniteSet(times),
           NEW t \in times, NEW first \in times, first < t
    PROVE  \E u \in times : IsBefore(times, u, t)
<1> DEFINE Between(u) == {v \in times : u < v /\ v < t}
           Counts == {n \in Nat : \E u \in times : u < t /\ n = Cardinality(Between(u))}
<1>1. \A u \in times : IsFiniteSet(Between(u)) /\ Cardinality(Between(u)) \in Nat
    BY Fewer
<1>2. PICK n \in Counts : \A m \in Counts : n <= m
    <2>1. Cardinality(Between(first)) \in Counts
        <3> HIDE DEF Between
        <3> QED
            BY <1>1
    <2>2. Counts \subseteq Nat /\ Counts # {}
        BY <2>1
    <2> HIDE DEF Counts
    <2> QED
        BY <2>2, SmallestOf
<1>3. PICK u \in times : u < t /\ n = Cardinality(Between(u))
    BY <1>2
<1>4. ASSUME NEW v \in times, ~(v <= u \/ t <= v)
      PROVE  FALSE
    <2>1. v \in Int /\ u \in Int /\ t \in Int /\ u < v /\ v < t
        BY <1>4
    <2>2. Between(v) \subseteq Between(u) /\ v \in Between(u) /\ v \notin Between(v)
        <3>1. \A x \in times : x \in Int
            OBVIOUS
        <3>2. \A x \in Int : v < x => u < x
            BY <2>1
        <3>3. Between(v) \subseteq Between(u)
            BY <3>1, <3>2
        <3>4. ~(v < v)
            BY <2>1
        <3> QED
            BY <2>1, <3>3, <3>4
    <2>3. Cardinality(Between(v)) \in Counts
        BY <1>1, <2>1
    <2>4. Cardinality(Between(v)) < Cardinality(Between(u))
        <3> HIDE DEF Between
        <3> QED
            BY <1>1, <2>2, Fewer
    <2> QED
        BY <1>1, <1>2, <1>3, <2>3, <2>4
<1> QED
    BY <1>3, <1>4 DEF IsBefore

-----------------------------------------------------------------------------
(* The bars since the last break. *)
TailOf(s) == {t \in s.times : \A b \in s.breaks : b <= t}

\* Two of them: the later one follows a bar that is one of them, too.
LEMMA StepBack ==
    ASSUME NEW times, times \subseteq Int, IsFiniteSet(times), NEW step \in Nat \ {0}, NEW expected,
           NEW t \in TailOf(Validated(times, step, expected)),
           NEW u \in TailOf(Validated(times, step, expected)), u < t
    PROVE  /\ t - step \in TailOf(Validated(times, step, expected))
           /\ \A v \in times : v <= t - step \/ t <= v
<1> DEFINE breaks == {x \in times : \E y \in times : IsBefore(times, y, x) /\ x - y # step}
<1>1. TailOf(Validated(times, step, expected)) = {x \in times : \A b \in breaks : b <= x}
    BY DEF TailOf, Validated
<1>2. t \in times /\ u \in times /\ t \in Int /\ u \in Int /\ breaks \subseteq Int
    BY <1>1
<1>3. PICK p \in times : IsBefore(times, p, t)
    BY <1>2, BarBefore
<1>4. t \notin breaks
    BY <1>1, <1>2
<1>5. t - p = step /\ p \in Int
    BY <1>2, <1>3, <1>4
<1>6. p = t - step /\ u <= p
    BY <1>2, <1>3, <1>5 DEF IsBefore
<1>7. \A b \in breaks : b <= p
    BY <1>1, <1>2, <1>5, <1>6
<1> QED
    BY <1>1, <1>3, <1>6, <1>7 DEF IsBefore

\* As many of them as are asked for lie one step apart up to the last bar.
LEMMA TailIsContiguous ==
    ASSUME NEW times, times \subseteq Int, IsFiniteSet(times), NEW step \in Nat \ {0}, NEW expected,
           NEW last \in times, \A u \in times : u <= last,
           NEW need \in Nat, TailContiguous(Validated(times, step, expected)) >= need
    PROVE  \A k \in Nat : k < need => last - k * step \in times
<1> DEFINE tail == TailOf(Validated(times, step, expected))
           At(k) == last - k * step
           Holes == {k \in Nat : At(k) \notin tail}
<1>1. /\ tail \subseteq times /\ last \in tail /\ last \in Int
      /\ Cardinality(tail) >= need
    BY DEF TailOf, Validated, TailContiguous
<1>2. \A k \in Nat : At(k) \in Int /\ At(k + 1) = At(k) - step
    <2>1. \A k \in Nat : k * step \in Int /\ (k + 1) * step = k * step + step
        OBVIOUS
    <2> QED
        BY <1>1, <2>1
<1>3. At(0) = last
    <2>1. 0 * step = 0
        OBVIOUS
    <2> QED
        BY <1>1, <2>1
<1>4. \A t, u \in tail : u < t => t - step \in tail /\ \A v \in times : v <= t - step \/ t <= v
    BY StepBack
<1>5. ASSUME NEW hole \in Nat, hole < need, At(hole) \notin tail
      PROVE  FALSE
    <2> HIDE DEF tail, At
    <2>1. PICK k \in Holes : \A j \in Holes : k <= j
        BY <1>5, SmallestOf
    <2>2. k \in Nat /\ k # 0 /\ k - 1 \in Nat /\ k < need
        BY <1>1, <1>3, <1>5, <2>1
    <2>3. \A i \in Nat : i < k => At(i) \in tail
        BY <2>1
    <2>4. \A i \in Nat : At(i) \in Int
        BY <1>2
    <2>5. At(k) = At(k - 1) - step
        <3>1. (k - 1) + 1 = k
            BY <2>2
        <3> QED
            BY <1>2, <2>2, <3>1
    <2>6. \A u \in tail : At(k - 1) <= u
        <3> SUFFICES ASSUME NEW u \in tail, u < At(k - 1) PROVE FALSE
            BY <1>1, <2>2, <2>4
        <3>1. At(k - 1) - step \in tail
            BY <1>4, <2>2, <2>3
        <3> QED
            BY <2>1, <2>5, <3>1
    <2>7. \A u \in tail : \E i \in 0..(k - 1) : u = At(i)
        <3> SUFFICES ASSUME NEW u \in tail PROVE \E i \in 0..(k - 1) : u = At(i)
            OBVIOUS
        <3> DEFINE Below == {i \in Nat : At(i) <= u}
        <3>1. k - 1 \in Below
            BY <2>2, <2>6
        <3>2. PICK i \in Below : \A j \in Below : i <= j
            BY <3>1, SmallestOf
        <3>3. i \in 0..(k - 1) /\ At(i) <= u /\ u \in Int
            BY <1>1, <2>2, <3>1, <3>2
        <3>4. ASSUME At(i) < u PROVE FALSE
            <4>1. i # 0
                BY <1>1, <1>3, <3>3, <3>4
            <4>2. i - 1 \in Nat /\ (i - 1) + 1 = i /\ i - 1 < k
                BY <3>3, <4>1
            <4>3. i - 1 \notin Below
                BY <3>2, <4>2
            <4>4. At(i - 1) \in tail /\ u < At(i - 1)
                BY <2>3, <2>4, <3>3, <4>2, <4>3
            <4>5. u <= At(i - 1) - step \/ At(i - 1) <= u
                BY <1>1, <1>4, <4>4
            <4>6. At(i) = At(i - 1) - step
                BY <1>2, <4>2
            <4> QED
                BY <2>4, <3>3, <3>4, <4>2, <4>4, <4>5, <4>6
        <3> QED
            BY <2>4, <3>3, <3>4
    <2> DEFINE all == {At(i) : i \in 0..(k - 1)}
               f == [i \in 0..(k - 1) |-> At(i)]
    <2>8. tail \subseteq all
        BY <2>7
    <2>9. f \in Surjection(0..(k - 1), all)
        BY DEF Surjection
    <2>10. IsFiniteSet(0..(k - 1)) /\ Cardinality(0..(k - 1)) = k
        <3> DEFINE top == k - 1
        <3>1. 0 \in Int /\ top \in Int /\ ~(0 > top) /\ top - 0 + 1 = k
            BY <2>2
        <3> HIDE DEF top
        <3>2. IsFiniteSet(0..top) /\ Cardinality(0..top) = k
            BY <3>1, FS_Interval
        <3> QED
            BY <3>2 DEF top
    <2>11. IsFiniteSet(all) /\ Cardinality(all) <= k
        <3> HIDE DEF f, all
        <3> QED
            BY <2>9, <2>10, FS_Surjection
    <2>12. Cardinality(tail) <= Cardinality(all) /\ Cardinality(tail) \in Nat /\ Cardinality(all) \in Nat
        BY <2>8, <2>11, Fewer
    <2> QED
        BY <1>1, <2>2, <2>11, <2>12
<1> QED
    BY <1>1, <1>5

-----------------------------------------------------------------------------
(* A verdict. *)
LEMMA ValueMeans ==
    ASSUME NEW s, NEW need, Assess(s, need).status = "value"
    PROVE  s.times # {} /\ ~s.stale /\ TailContiguous(s) >= need
BY DEF Assess, Verdict

\* The last bar of a timeframe that is closed at a moment.
LEMMA LastClosed ==
    ASSUME NEW step \in Nat \ {0}, NEW asOf \in Int, NEW t \in Int, t % step = 0, t + step <= asOf
    PROVE  Floor(asOf, step) - step \in Int /\ t <= Floor(asOf, step) - step
<1> DEFINE q == asOf \div step  r == asOf % step  a == t \div step
<1>1. /\ q \in Int /\ r \in 0..(step - 1) /\ asOf = step * q + r
      /\ a \in Int /\ t = step * a
    OBVIOUS
<1> HIDE DEF q, r, a
<1>2. \A m \in Nat \ {0} : \A x, y \in Int : m * x < m * y + m => x <= y
    <2> SUFFICES ASSUME NEW m \in Nat \ {0}, NEW x \in Int, NEW y \in Int, m * x < m * y + m, x > y
                 PROVE  FALSE
        OBVIOUS
    <2>1. m * (x - y) < m /\ x - y >= 1
        <3>1. m * (x - y) = m * x - m * y /\ m * x \in Int /\ m * y \in Int
            OBVIOUS
        <3> QED
            BY <3>1
    <2>2. \A d \in Nat : d >= 1 => m * d >= m
        OBVIOUS
    <2> QED
        BY <2>1, <2>2
<1>3. step * (a + 1) = step * a + step /\ step * a \in Int /\ step * q \in Int
      /\ step * (q - 1) = step * q - step
    BY <1>1
<1>4. step * (a + 1) < step * q + step
    BY <1>1, <1>3
<1>5. a + 1 <= q
    BY <1>1, <1>2, <1>4
<1>6. \A m \in Nat : \A x, y \in Int : x <= y => m * x <= m * y
    <2> SUFFICES ASSUME NEW m \in Nat, NEW x \in Int, NEW y \in Int, x <= y PROVE m * x <= m * y
        OBVIOUS
    <2>1. y - x \in Nat /\ m * (y - x) \in Nat /\ m * (y - x) = m * y - m * x
        OBVIOUS
    <2>2. m * x \in Int /\ m * y \in Int
        OBVIOUS
    <2> QED
        BY <2>1, <2>2
<1>7. step * (a + 1) <= step * q
    BY <1>1, <1>5, <1>6
<1>8. Floor(asOf, step) = step * q
    BY <1>1, <1>3 DEF Floor, r
<1> QED
    BY <1>1, <1>3, <1>7, <1>8

\* A series that has a value has every bar of the window, up to the last one closed.
LEMMA WindowIsThere ==
    ASSUME NEW times, times \subseteq Int, IsFiniteSet(times), NEW step \in Nat \ {0}, NEW asOf \in Int,
           \A t \in times : t % step = 0 /\ t + step <= asOf, NEW need \in Nat,
           Assess(Validated(times, step, Floor(asOf, step) - step), need).status = "value"
    PROVE  \A k \in Nat : k < need => Floor(asOf, step) - step - k * step \in times
<1> DEFINE expected == Floor(asOf, step) - step
           s == Validated(times, step, expected)
<1>3. \A t \in times : t <= expected /\ expected \in Int
    BY LastClosed
<1> HIDE DEF expected
<1>4. s.times = times /\ s.stale = IsStale(times, expected)
    BY DEF Validated
<1>5. times # {} /\ ~IsStale(times, expected) /\ TailContiguous(s) >= need
    <2>1. Assess(s, need).status = "value"
        BY DEF expected
    <2> HIDE DEF s
    <2> QED
        BY <1>4, <2>1, ValueMeans
<1>6. expected \in times /\ \A u \in times : u <= expected
    BY <1>3, <1>5 DEF IsStale
<1>7. \A k \in Nat : k < need => expected - k * step \in times
    BY <1>5, <1>6, TailIsContiguous
<1> QED
    BY <1>7 DEF expected

-----------------------------------------------------------------------------
(* The last bars of a series. *)
IsEnding(part, times) ==
    part \subseteq times /\ \A t \in part, u \in times : t <= u => u \in part

LEMMA LatestIsEnding ==
    ASSUME NEW times, times \subseteq Int, IsFiniteSet(times), NEW n \in Nat
    PROVE  IsEnding(Latest(times, n), times)
<1> SUFFICES ASSUME NEW t \in Latest(times, n), NEW u \in times, t <= u PROVE u \in Latest(times, n)
    BY DEF IsEnding, Latest
<1> DEFINE From(x) == {v \in times : v >= x}
<1>1. t \in times /\ t \in Int /\ u \in Int /\ Cardinality(From(t)) <= n
    BY DEF Latest
<1>2. From(u) \subseteq From(t)
    <2>1. \A v \in Int : v >= u => v >= t
        BY <1>1
    <2> QED
        BY <2>1
<1>3. From(t) \subseteq times
    OBVIOUS
<1> HIDE DEF From
<1>4. IsFiniteSet(From(t))
    BY <1>3, Fewer
<1>5. Cardinality(From(u)) <= n
    BY <1>1, <1>2, <1>4, Fewer
<1> QED
    BY <1>5 DEF Latest, From

\* The last of the bars that are left out, or of all of them.
LEMMA LastOf ==
    ASSUME NEW S, S \subseteq Int, IsFiniteSet(S), S # {}
    PROVE  \E t \in S : \A u \in S : u <= t
<1> DEFINE From(x) == {v \in S : v >= x}
           Counts == {n \in Nat : \E x \in S : n = Cardinality(From(x))}
<1>1. \A x \in S : From(x) \subseteq S
    OBVIOUS
<1>2. \A x \in S : IsFiniteSet(From(x)) /\ Cardinality(From(x)) \in Nat
    <2> HIDE DEF From
    <2> QED
        BY <1>1, Fewer
<1>3. PICK n \in Counts : \A m \in Counts : n <= m
    <2>1. PICK x : x \in S
        OBVIOUS
    <2>2. Cardinality(From(x)) \in Counts
        <3> HIDE DEF From
        <3> QED
            BY <1>2, <2>1
    <2>3. Counts \subseteq Nat /\ Counts # {}
        BY <2>2
    <2> HIDE DEF Counts
    <2> QED
        BY <2>3, SmallestOf
<1>4. PICK t \in S : n = Cardinality(From(t))
    BY <1>3
<1>5. ASSUME NEW u \in S, ~(u <= t) PROVE FALSE
    <2>1. t \in Int /\ u \in Int /\ t < u
        BY <1>5
    <2>2. \A v \in Int : v >= u => v >= t
        BY <2>1
    <2>3. From(u) \subseteq From(t)
        BY <2>2
    <2>4. t \in From(t) /\ t \notin From(u)
        BY <2>1
    <2>5. From(u) # From(t)
        BY <2>4
    <2> HIDE DEF From
    <2>6. Cardinality(From(u)) < Cardinality(From(t))
        BY <1>2, <2>3, <2>5, Fewer
    <2>7. Cardinality(From(u)) \in Counts
        BY <1>2, <1>5
    <2> QED
        BY <1>2, <1>3, <1>4, <2>6, <2>7
<1> QED
    BY <1>5

\* They are as many as were asked for, or all there are.
LEMMA LatestIsFull ==
    ASSUME NEW times, times \subseteq Int, IsFiniteSet(times), NEW n \in Nat, Latest(times, n) # times
    PROVE  Cardinality(Latest(times, n)) >= n
<1> DEFINE last == Latest(times, n)
           Out == times \ last
           From(x) == {v \in times : v >= x}
<1>1. last \subseteq times /\ Out # {} /\ Out \subseteq Int /\ IsFiniteSet(Out)
    <2>1. last \subseteq times
        BY DEF Latest
    <2>2. Out \subseteq times
        OBVIOUS
    <2> HIDE DEF last, Out
    <2>3. IsFiniteSet(Out)
        BY <2>2, Fewer
    <2> QED
        BY <2>1, <2>2, <2>3 DEF Out, last
<1>2. PICK t \in Out : \A u \in Out : u <= t
    <2> HIDE DEF Out
    <2> QED
        BY <1>1, LastOf
<1>3. ~(Cardinality(From(t)) <= n)
    BY <1>2 DEF Latest
<1>4. \A v \in times : v >= t => v \in last \/ v = t
    BY <1>1, <1>2
<1>5. From(t) \ {t} \subseteq last /\ t \in From(t) /\ From(t) \subseteq times
    BY <1>1, <1>2, <1>4
<1> HIDE DEF last, From
<1>6. IsFiniteSet(From(t)) /\ Cardinality(From(t)) \in Nat /\ IsFiniteSet(last)
    BY <1>1, <1>5, Fewer
<1>7. Cardinality(From(t) \ {t}) = Cardinality(From(t)) - 1
    BY <1>5, <1>6, FS_RemoveElement
<1>8. Cardinality(From(t) \ {t}) <= Cardinality(last) /\ Cardinality(last) \in Nat
    BY <1>5, <1>6, Fewer
<1>9. Cardinality(last) >= n
    BY <1>3, <1>6, <1>7, <1>8
<1> QED
    BY <1>9 DEF last

\* A suffix that is long enough, or everything, has the same last bars.
LEMMA LatestOfSuffix ==
    ASSUME NEW times, times \subseteq Int, IsFiniteSet(times), NEW n \in Nat, NEW part,
           IsEnding(part, times), part = times \/ Cardinality(part) >= n
    PROVE  Latest(times, n) \subseteq part /\ Latest(part, n) = Latest(times, n)
<1> DEFINE From(x) == {v \in times : v >= x}
<1>1. part \subseteq times /\ IsFiniteSet(part) /\ Cardinality(part) \in Nat
    BY Fewer DEF IsEnding
<1>2. ASSUME NEW t \in times, t \notin part, Cardinality(From(t)) <= n
      PROVE  FALSE
    <2>1. part \subseteq From(t) /\ t \in From(t) /\ From(t) \subseteq times
        BY <1>2 DEF IsEnding
    <2> HIDE DEF From
    <2>2. IsFiniteSet(From(t)) /\ Cardinality(From(t)) \in Nat
        BY <2>1, Fewer
    <2>3. Cardinality(part) < Cardinality(From(t))
        BY <1>2, <2>1, <2>2, Fewer
    <2> QED
        BY <1>1, <1>2, <2>2, <2>3
<1>3. Latest(times, n) \subseteq part
    BY <1>2 DEF Latest
<1>4. \A t \in part : {v \in part : v >= t} = From(t)
    BY DEF IsEnding
<1>5. Latest(part, n) = Latest(times, n)
    BY <1>1, <1>3, <1>4 DEF Latest
<1> QED
    BY <1>3, <1>5

-----------------------------------------------------------------------------
(* The breaks of a part of a series. *)
Breaks(times, step) == {t \in times : \E u \in times : IsBefore(times, u, t) /\ t - u # step}

\* The first bar of a suffix is no break, the others are what they were.
LEMMA SuffixBreaks ==
    ASSUME NEW times, times \subseteq Int, IsFiniteSet(times), NEW step, NEW part, IsEnding(part, times)
    PROVE  \A b : b \in Breaks(part, step) <=> b \in Breaks(times, step) /\ b \in part /\ \E u \in part : u < b
<1>1. part \subseteq times /\ part \subseteq Int
    BY DEF IsEnding
<1>2. \A t, u \in part : IsBefore(part, u, t) => IsBefore(times, u, t)
    <2> SUFFICES ASSUME NEW t \in part, NEW u \in part, IsBefore(part, u, t), NEW v \in times, ~(v <= u)
                 PROVE  t <= v
        BY <1>1 DEF IsBefore
    <2>1. u <= v /\ v \in part
        BY <1>1 DEF IsEnding
    <2> QED
        BY <2>1 DEF IsBefore
<1>3. \A t, u \in part : IsBefore(times, u, t) => IsBefore(part, u, t)
    BY <1>1 DEF IsBefore
<1>4. ASSUME NEW b \in Breaks(part, step)
      PROVE  b \in Breaks(times, step) \cap part /\ \E u \in part : u < b
    BY <1>1, <1>2, <1>4 DEF Breaks, IsBefore
<1>5. ASSUME NEW b \in Breaks(times, step), b \in part, NEW w \in part, w < b
      PROVE  b \in Breaks(part, step)
    <2>1. PICK u \in times : IsBefore(times, u, b) /\ b - u # step
        BY <1>5 DEF Breaks
    <2>2. w <= u
        BY <1>1, <1>5, <2>1 DEF IsBefore
    <2>3. u \in part
        BY <1>5, <2>2 DEF IsEnding
    <2>4. IsBefore(part, u, b)
        BY <1>3, <1>5, <2>1, <2>3
    <2> QED
        BY <1>5, <2>1, <2>3, <2>4 DEF Breaks
<1> QED
    BY <1>4, <1>5

\* The bars that open before a moment, those that are closed at a moment.
Before(times, t) == {x \in times : x < t}
Closed(times, step, t) == {x \in times : x + step <= t}

\* What comes later makes no break.
LEMMA PrefixBreaks ==
    ASSUME NEW times, times \subseteq Int, NEW step, NEW end \in Int, NEW part, part = Before(times, end)
    PROVE  \A b : b \in Breaks(part, step) <=> b \in Breaks(times, step) /\ b \in part
<1>1. \A t \in part, u \in times : IsBefore(times, u, t) => u \in part
    BY DEF IsBefore, Before
<1>2. \A t \in part, u \in part : IsBefore(part, u, t) => IsBefore(times, u, t)
    BY DEF IsBefore, Before
<1>3. \A t \in part, u \in part : IsBefore(times, u, t) => IsBefore(part, u, t)
    BY DEF IsBefore, Before
<1>4. part \subseteq times
    BY DEF Before
<1>5. \A t \in Breaks(part, step) : t \in Breaks(times, step) /\ t \in part
    BY <1>2, <1>4 DEF Breaks
<1>6. \A t \in part : t \in Breaks(times, step) => t \in Breaks(part, step)
    BY <1>1, <1>3 DEF Breaks
<1> QED
    BY <1>5, <1>6

\* The bars since the last gap of a suffix are those of the series that lie in it.
LEMMA SuffixTail ==
    ASSUME NEW times, times \subseteq Int, IsFiniteSet(times), NEW step, NEW part, IsEnding(part, times),
           NEW e, NEW f
    PROVE  \A t : t \in TailOf(Validated(part, step, e)) <=> t \in TailOf(Validated(times, step, f)) /\ t \in part
<1>1. part \subseteq times /\ part \subseteq Int
    BY DEF IsEnding
<1>2. /\ TailOf(Validated(part, step, e)) = {t \in part : \A b \in Breaks(part, step) : b <= t}
      /\ TailOf(Validated(times, step, f)) = {t \in times : \A b \in Breaks(times, step) : b <= t}
    BY DEF TailOf, Validated, Breaks
<1>3. \A b : b \in Breaks(part, step) <=> b \in Breaks(times, step) /\ b \in part /\ \E u \in part : u < b
    BY SuffixBreaks
<1>4. Breaks(times, step) \subseteq times
    BY DEF Breaks
<1>5. ASSUME NEW t \in part, \A b \in Breaks(part, step) : b <= t, NEW b \in Breaks(times, step), ~(b <= t)
      PROVE  FALSE
    <2>0. b \in times /\ t \in Int /\ b \in Int
        BY <1>1, <1>4
    <2>1. t <= b /\ t < b /\ b \in times
        BY <1>5, <2>0
    <2>2. b \in part
        BY <1>5, <2>1 DEF IsEnding
    <2> QED
        BY <1>3, <1>5, <2>1, <2>2
<1>6. ASSUME NEW t \in part, \A b \in Breaks(times, step) : b <= t
      PROVE  \A b \in Breaks(part, step) : b <= t
    BY <1>3, <1>6
<1> QED
    BY <1>1, <1>2, <1>5, <1>6

-----------------------------------------------------------------------------
(* What a verdict depends on. *)
LEMMA EnoughSinceGap ==
    ASSUME NEW times, times \subseteq Int, IsFiniteSet(times), NEW step, NEW n \in Nat, NEW need \in Nat, need <= n,
           NEW e, NEW f
    PROVE  TailContiguous(Validated(Latest(times, n), step, e)) >= need
              <=> TailContiguous(Validated(times, step, f)) >= need
<1> DEFINE part == Latest(times, n)
           all == TailOf(Validated(times, step, f))
           few == TailOf(Validated(part, step, e))
<1>1. IsEnding(part, times) /\ (part # times => Cardinality(part) >= n)
    BY LatestIsEnding, LatestIsFull
<1>2. /\ TailContiguous(Validated(times, step, f)) = Cardinality(all)
      /\ TailContiguous(Validated(part, step, e)) = Cardinality(few)
    BY DEF TailContiguous, TailOf
<1>3. all \subseteq times
    BY DEF TailOf, Validated
<1>4. \A t \in all, u \in times : t <= u => u \in all
    <2>1. \A b \in Validated(times, step, f).breaks : b \in Int
        BY DEF Validated
    <2>2. Validated(times, step, f).times = times
        BY DEF Validated
    <2>3. \A b, t, u \in Int : b <= t /\ t <= u => b <= u
        OBVIOUS
    <2> QED
        BY <1>3, <2>1, <2>2, <2>3 DEF TailOf
<1> HIDE DEF part
<1>5. few = all \cap part
    <2>1. \A t : t \in TailOf(Validated(part, step, e)) <=> t \in TailOf(Validated(times, step, f)) /\ t \in part
        BY <1>1, SuffixTail
    <2> QED
        BY <2>1
<1> HIDE DEF all, few
<1>6. /\ IsFiniteSet(all) /\ Cardinality(all) \in Nat /\ Cardinality(few) \in Nat
      /\ Cardinality(few) <= Cardinality(all)
    <2>1. IsFiniteSet(all)
        BY <1>3, Fewer
    <2>2. few \subseteq all
        BY <1>5
    <2> QED
        BY <2>1, <2>2, Fewer
<1>7. few = all \/ (few = part /\ part # times)
    <2>1. CASE all \subseteq part
        BY <1>5, <2>1
    <2>2. CASE ~(all \subseteq part)
        <3>1. PICK t \in all : t \notin part
            BY <2>2
        <3>2. \A u \in part : t <= u
            BY <1>1, <1>3, <3>1 DEF IsEnding
        <3>3. part \subseteq all
            BY <1>1, <1>4, <3>2 DEF IsEnding
        <3> QED
            BY <1>3, <1>5, <3>1, <3>3
    <2> QED
        BY <2>1, <2>2
<1>8. Cardinality(few) >= need <=> Cardinality(all) >= need
    BY <1>1, <1>6, <1>7
<1> QED
    BY <1>2, <1>8 DEF part

LEMMA LastOfLatest ==
    ASSUME NEW times, times \subseteq Int, IsFiniteSet(times), NEW n \in Nat \ {0}, times # {}
    PROVE  \E m \in Latest(times, n) : m \in times /\ \A u \in times : u <= m
<1>1. PICK m \in times : \A u \in times : u <= m
    BY LastOf
<1>2. {u \in times : u >= m} = {m}
    <2>1. m \in Int /\ \A u \in times : u \in Int
        OBVIOUS
    <2>2. \A u \in Int : u >= m /\ u <= m => u = m
        BY <2>1
    <2>3. \A u \in times : u >= m <=> u = m
        BY <1>1, <2>1, <2>2
    <2> QED
        BY <2>3
<1>3. Cardinality({m}) = 1
    BY FS_Singleton
<1>4. m \in Latest(times, n)
    BY <1>2, <1>3 DEF Latest
<1> QED
    BY <1>1, <1>4

\* A verdict on a window asks for no more than the last bars of the window.
SameVerdict(a, b) == a.status = b.status /\ a.quality = b.quality

LEMMA VerdictOfLatest ==
    ASSUME NEW times, times \subseteq Int, IsFiniteSet(times), NEW step, NEW e \in Int,
           NEW n \in Nat, NEW need \in Nat \ {0}, need <= n,
           NEW s, s = Validated(times, step, e), NEW l, l = Validated(Latest(times, n), step, e)
    PROVE  SameVerdict(Assess(s, need), Assess(l, need))
<1> USE DEF SameVerdict
<1> DEFINE part == Latest(times, n)
<1>1. part \subseteq times /\ (part # times => Cardinality(part) >= n) /\ IsEnding(part, times)
    BY LatestIsFull, LatestIsEnding DEF IsEnding
<1>2. times # {} => \E m \in part : \A u \in times : u <= m
    <2>1. n \in Nat \ {0}
        OBVIOUS
    <2> HIDE DEF part
    <2>2. times # {} => \E m \in Latest(times, n) : m \in times /\ \A u \in times : u <= m
        BY <2>1, LastOfLatest
    <2> QED
        BY <2>2 DEF part
<1>3. TailContiguous(l) >= need <=> TailContiguous(s) >= need
    BY EnoughSinceGap
<1>4. s.times = times /\ l.times = part /\ s.stale = IsStale(times, e) /\ l.stale = IsStale(part, e)
    BY DEF Validated
<1> HIDE DEF part
<1>5. times = {} <=> part = {}
    BY <1>1, <1>2
<1>6. IsStale(times, e) <=> IsStale(part, e)
    <2>1. ASSUME NEW m \in part, \A u \in times : u <= m, \A u \in part : u < e, NEW t \in times PROVE t < e
        <3>1. m \in Int /\ t \in Int /\ t <= m /\ m < e
            BY <1>1, <2>1
        <3> QED
            BY <3>1
    <2> QED
        BY <1>1, <1>2, <1>5, <2>1 DEF IsStale
<1>7. Cardinality(times) \in Nat /\ Cardinality(part) \in Nat
      /\ (Cardinality(part) >= need <=> Cardinality(times) >= need)
    <2>1. Cardinality(times) \in Nat /\ Cardinality(part) \in Nat /\ Cardinality(part) <= Cardinality(times)
        BY <1>1, Fewer
    <2> QED
        BY <1>1, <2>1
<1>8. \A x : x.breaks = {} => TailContiguous(x) = Cardinality(x.times)
    <2> SUFFICES ASSUME NEW x, x.breaks = {} PROVE TailContiguous(x) = Cardinality(x.times)
        OBVIOUS
    <2>1. {t \in x.times : \A b \in x.breaks : b <= t} = x.times
        OBVIOUS
    <2> QED
        BY <2>1 DEF TailContiguous
<1>9. s.breaks = {} => TailContiguous(s) = Cardinality(times)
    BY <1>4, <1>8
<1>10. l.breaks = {} => TailContiguous(l) = Cardinality(part)
    BY <1>4, <1>8
<1> HIDE DEF part
<1>11. CASE TailContiguous(s) >= need
    BY <1>3, <1>4, <1>5, <1>6, <1>11 DEF Assess, Verdict
<1>12. CASE ~(TailContiguous(s) >= need) /\ Cardinality(times) >= need
    <2>1. s.breaks # {} /\ l.breaks # {}
        BY <1>3, <1>7, <1>9, <1>10, <1>12
    <2> QED
        BY <1>3, <1>4, <1>5, <1>6, <1>7, <1>12, <2>1 DEF Assess, Verdict
<1>13. CASE ~(TailContiguous(s) >= need) /\ ~(Cardinality(times) >= need)
    BY <1>3, <1>4, <1>5, <1>6, <1>7, <1>13 DEF Assess, Verdict
<1> QED
    BY <1>11, <1>12, <1>13

-----------------------------------------------------------------------------
(* The views of a replay. *)

\* Bars of one timeframe are a whole number of steps apart.
LEMMA StepsApart ==
    ASSUME NEW step \in Nat \ {0}, NEW x \in Int, NEW t \in Int, x % step = 0, t % step = 0, x <= t
    PROVE  \E i \in Nat : t = x + i * step
<1> DEFINE a == x \div step  b == t \div step
<1>1. a \in Int /\ b \in Int /\ x = step * a /\ t = step * b
    OBVIOUS
<1> HIDE DEF a, b
<1>2. a <= b
    <2> SUFFICES ASSUME b < a PROVE FALSE
        BY <1>1
    <2>1. a - b >= 1 /\ step * (a - b) = step * a - step * b /\ step * a \in Int /\ step * b \in Int
        BY <1>1
    <2>2. \A d \in Nat : d >= 1 => step * d >= step
        OBVIOUS
    <2> QED
        BY <1>1, <2>1, <2>2
<1>3. b - a \in Nat /\ (b - a) * step = step * b - step * a /\ step * a \in Int /\ step * b \in Int
    BY <1>1, <1>2
<1>4. t = x + (b - a) * step
    BY <1>1, <1>3
<1> QED
    BY <1>3, <1>4

LEMMA NextIsAStepLater ==
    ASSUME NEW step \in Nat \ {0}, NEW x \in Int, NEW t \in Int, x % step = 0, t % step = 0, x < t
    PROVE  x + step <= t
<1>1. PICK i \in Nat : t = x + i * step
    <2>1. x <= t
        OBVIOUS
    <2> QED
        BY <2>1, StepsApart
<1>2. i # 0
    <2>1. 0 * step = 0
        OBVIOUS
    <2> QED
        BY <1>1, <2>1
<1>3. \A d \in Nat : d >= 1 => d * step >= step /\ d * step \in Int
    OBVIOUS
<1> QED
    BY <1>1, <1>2, <1>3

\* Few bars fit between a moment and one k steps earlier.
LEMMA FewBetween ==
    ASSUME NEW step \in Nat \ {0}, NEW k \in Nat, NEW last \in Int, last % step = 0,
           NEW S, S \subseteq Int, \A x \in S : x % step = 0 /\ x < last /\ last - k * step <= x
    PROVE  IsFiniteSet(S) /\ Cardinality(S) <= k
<1> DEFINE all == {last - i * step : i \in 1..k}
           f == [i \in 1..k |-> last - i * step]
<1>1. ASSUME NEW x \in S PROVE x \in all
    <2>1. PICK i \in Nat : last = x + i * step
        <3>1. x \in Int /\ x % step = 0 /\ x <= last
            BY <1>1
        <3> QED
            BY <3>1, StepsApart
    <2>2. i # 0
        <3>1. 0 * step = 0
            OBVIOUS
        <3> QED
            BY <1>1, <2>1, <3>1
    <2>3. i <= k
        <3>1. i * step <= k * step
            <4>1. i * step \in Int /\ k * step \in Int /\ x \in Int
                BY <1>1
            <4> QED
                BY <1>1, <2>1, <4>1
        <3>2. \A m \in Nat \ {0} : \A a, b \in Int : a * m <= b * m => a <= b
            <4> SUFFICES ASSUME NEW m \in Nat \ {0}, NEW a \in Int, NEW b \in Int, a * m <= b * m, b < a
                         PROVE  FALSE
                OBVIOUS
            <4>1. a - b >= 1 /\ (a - b) * m = a * m - b * m /\ a * m \in Int /\ b * m \in Int
                OBVIOUS
            <4>2. \A d \in Nat : d >= 1 => d * m >= m
                OBVIOUS
            <4> QED
                BY <4>1, <4>2
        <3> QED
            BY <3>1, <3>2
    <2>4. x = last - i * step
        <3>1. i * step \in Int /\ x \in Int
            BY <1>1
        <3> QED
            BY <2>1, <3>1
    <2> QED
        BY <2>2, <2>3, <2>4
<1>2. f \in Surjection(1..k, all)
    BY DEF Surjection
<1>3. IsFiniteSet(1..k) /\ Cardinality(1..k) = k
    BY FS_Interval
<1>4. S \subseteq all
    BY <1>1
<1> HIDE DEF f, all
<1>5. IsFiniteSet(all) /\ Cardinality(all) <= k
    BY <1>2, <1>3, FS_Surjection
<1>6. IsFiniteSet(S) /\ Cardinality(S) <= Cardinality(all) /\ Cardinality(S) \in Nat /\ Cardinality(all) \in Nat
    BY <1>4, <1>5, Fewer
<1> QED
    BY <1>5, <1>6

\* The moment k bars before another, and what a view of the last m bars has of it.
Earlier(last, k, step) == last - k * step
View(times, m, t) == Latest(times, m) \cap Before(times, t)
Fills(part, times, n) == IsEnding(part, times) /\ (part = times \/ Cardinality(part) >= n)

\* The bars before a moment that a view has: all of them, or as many as asked for.
LEMMA ViewIsFull ==
    ASSUME NEW there, there \subseteq Int, IsFiniteSet(there), NEW step \in Nat \ {0},
           \A x \in there : x % step = 0, NEW last \in Int, last % step = 0, \A x \in there : x < last,
           NEW most \in Nat, NEW back \in Nat, NEW k \in Nat, k <= back,
           NEW t, t = Earlier(last, k, step), NEW m, m = most + back
    PROVE  Fills(View(there, m, t), Before(there, t), most)
<1> PICK A, D : A = Latest(there, m) /\ D = Before(there, t)
    OBVIOUS
<1> PICK U : U = A \cap D
    OBVIOUS
<1> t = last - k * step
    BY DEF Earlier
<1>0. \A x : x \in D <=> x \in there /\ x < t
    BY DEF Before
<1>1. IsEnding(A, there) /\ (A # there => Cardinality(A) >= most + back)
    <2>1. m \in Nat /\ A = Latest(there, m)
        OBVIOUS
    <2> QED
        BY <2>1, LatestIsEnding, LatestIsFull
<1>2. A \subseteq there /\ D \subseteq there /\ U \subseteq A
    BY <1>0, <1>1 DEF IsEnding
<1>3. IsEnding(U, D)
    BY <1>0, <1>1 DEF IsEnding
<1>4. ASSUME A # there PROVE Cardinality(U) >= most
    <2> DEFINE late == A \ U
    <2>1. k * step \in Int /\ t \in Int
        OBVIOUS
    <2>2. \A x \in late : x \in there /\ t <= x
        BY <1>0, <1>2, <2>1
    <2>3. IsFiniteSet(late) /\ Cardinality(late) <= k
        <3>1. \A x \in late : x % step = 0 /\ x < last /\ last - k * step <= x
            BY <2>2
        <3>2. late \subseteq Int
            BY <2>2
        <3> HIDE DEF late
        <3> QED
            BY <3>1, <3>2, FewBetween
    <2>4. IsFiniteSet(U) /\ Cardinality(U) \in Nat /\ Cardinality(late) \in Nat
        <3>1. IsFiniteSet(A)
            BY <1>2, Fewer
        <3> HIDE DEF late
        <3> QED
            BY <1>2, <2>3, <3>1, Fewer
    <2>5. A = U \cup late /\ U \cap late = {}
        BY <1>0, <1>2
    <2> HIDE DEF late
    <2>6. Cardinality(A) = Cardinality(U) + Cardinality(late)
        <3>1. Cardinality(U \cup late) = Cardinality(U) + Cardinality(late) - Cardinality(U \cap late)
            BY <2>3, <2>4, FS_Union
        <3>2. Cardinality(U \cap late) = 0
            BY <2>5, FS_EmptySet
        <3>3. Cardinality(U \cup late) = Cardinality(U) + Cardinality(late)
            BY <2>4, <3>1, <3>2
        <3>4. A = U \cup late
            BY <2>5
        <3> QED
            BY <3>3, <3>4, Zenon
    <2> QED
        BY <1>1, <1>4, <2>3, <2>4, <2>6
<1>5. A = there => U = D
    BY <1>0, <1>2
<1> QED
    BY <1>3, <1>4, <1>5 DEF Fills, View

\* A series as a record.
ASeries(times, step, expected, breaks) ==
    [times |-> times, step |-> step, expected |-> expected, stale |-> IsStale(times, expected), breaks |-> breaks]

LEMMA UpToIs ==
    ASSUME NEW times, NEW step, NEW expected, NEW breaks, NEW t, NEW part, part = Closed(times, step, t)
    PROVE  UpTo(ASeries(times, step, expected, breaks), t)
              = ASeries(part, step, Floor(t, step) - step, breaks \cap part)
<1> PICK s : s = ASeries(times, step, expected, breaks)
    OBVIOUS
<1>1. /\ s.times = times /\ s.step = step /\ s.expected = expected /\ s.breaks = breaks
      /\ DOMAIN s = {"times", "step", "expected", "stale", "breaks"}
    BY DEF ASeries
<1>2. {x \in s.times : x + s.step <= t} = part
    BY <1>1 DEF Closed
<1>3. UpTo(s, t) = [s EXCEPT !.times = part, !.breaks = @ \cap part, !.expected = Floor(t, step) - step,
                              !.stale = IsStale(part, Floor(t, step) - step)]
    BY <1>1, <1>2 DEF UpTo
<1>4. UpTo(s, t) = ASeries(part, step, Floor(t, step) - step, breaks \cap part)
    BY <1>1, <1>3 DEF ASeries
<1> QED
    BY <1>4

LEMMA TailViewIs ==
    ASSUME NEW times, NEW step, NEW expected, NEW breaks, NEW n, ~(n >= Cardinality(times)),
           NEW part, part = Latest(times, n),
           NEW kept, \A b : b \in kept <=> b \in breaks /\ b \in part /\ \E u \in part : u < b
    PROVE  TailView(ASeries(times, step, expected, breaks), n) = ASeries(part, step, expected, kept)
BY DEF TailView, KeptBreaks, ASeries

\* Every bar is closed at `last`, and none is open at t.
Whole(there, step, last, t) == \A x \in there : x < last /\ x + step <= last /\ (x < t <=> x + step <= t)

\* A view of what a replay has loaded is what a service loads at that moment.
ViewAgrees(there, step, last, m, t, n) ==
    TailView(UpTo(Prepare(LastRows(there, last, m), step, last), t), n) = Prepare(LastRows(there, t, n), step, t)

LEMMA ViewOfPart ==
    ASSUME NEW there, there \subseteq Int, IsFiniteSet(there), NEW step \in Nat \ {0},
           NEW last \in Int, NEW t \in Int, Whole(there, step, last, t),
           NEW m \in Nat, NEW n \in Nat, Fills(View(there, m, t), Before(there, t), n)
    PROVE  ViewAgrees(there, step, last, m, t, n)
<1> SUFFICES TailView(UpTo(Prepare(LastRows(there, last, m), step, last), t), n)
                = Prepare(LastRows(there, t, n), step, t)
    BY DEF ViewAgrees
<1> USE DEF Whole
<1> PICK A, D : A = Latest(there, m) /\ D = Before(there, t)
    OBVIOUS
<1> PICK U : U = A \cap D
    OBVIOUS
<1>5. IsEnding(U, D) /\ (U = D \/ Cardinality(U) >= n)
    BY DEF Fills, View
<1> PICK E, V : E = Floor(t, step) - step /\ V = Latest(D, n)
    OBVIOUS
<1>0. \A x : x \in D <=> x \in there /\ x < t
    BY DEF Before
<1>2. IsEnding(A, there)
    BY LatestIsEnding
<1>4. /\ A \subseteq there /\ D \subseteq there /\ U \subseteq D /\ IsFiniteSet(D)
      /\ D \subseteq Int /\ A \subseteq Int /\ U \subseteq Int
    <2>1. A \subseteq there /\ D \subseteq there /\ U \subseteq D
        BY <1>0, <1>2 DEF IsEnding
    <2> QED
        BY <2>1, Fewer
<1>6. V \subseteq U /\ Latest(U, n) = V /\ V \subseteq D
    <2>1. Latest(D, n) \subseteq U /\ Latest(U, n) = Latest(D, n)
        BY <1>4, <1>5, LatestOfSuffix
    <2> QED
        BY <1>4, <2>1
(* The series that the replay has loaded, and the view of it. *)
<1> PICK seen, view : seen = Prepare(LastRows(there, last, m), step, last) /\ view = UpTo(seen, t)
    OBVIOUS
<1>8. seen = Validated(A, step, Floor(last, step) - step)
    <2>1. {x \in there : x < last} = there
        OBVIOUS
    <2>2. LastRows(there, last, m) = A
        BY <2>1 DEF LastRows
    <2>3. {x \in A : x + step <= last} = A
        BY <1>4
    <2> QED
        BY <2>2, <2>3 DEF Prepare
<1>9. view = ASeries(U, step, E, Breaks(A, step) \cap U)
    <2>1. U = Closed(A, step, t)
        BY <1>0, <1>4 DEF Closed
    <2>2. seen = ASeries(A, step, Floor(last, step) - step, Breaks(A, step))
        BY <1>8 DEF Validated, Breaks, ASeries
    <2> QED
        BY <2>1, <2>2, UpToIs
<1>10. \A b : b \in Breaks(A, step) <=> b \in Breaks(there, step) /\ b \in A /\ \E u \in A : u < b
    BY <1>2, SuffixBreaks
<1>11. \A b : b \in Breaks(D, step) <=> b \in Breaks(there, step) /\ b \in D
    BY PrefixBreaks
<1>12. \A b : b \in Breaks(V, step) <=> b \in Breaks(D, step) /\ b \in V /\ \E u \in V : u < b
    <2>1. IsEnding(V, D)
        BY <1>4, LatestIsEnding
    <2>2. D \subseteq Int /\ IsFiniteSet(D)
        BY <1>4
    <2> QED
        BY ONLY <2>1, <2>2, SuffixBreaks

(* The series that a service loads at that moment. *)
<1>13. Prepare(LastRows(there, t, n), step, t)
          = ASeries(V, step, E, Breaks(V, step))
    <2>1. LastRows(there, t, n) = V
        BY DEF LastRows, Before
    <2>2. {x \in V : x + step <= t} = V
        BY <1>0, <1>4, <1>6
    <2> QED
        BY <2>1, <2>2 DEF Prepare, Validated, Breaks, ASeries
<1>14. \A b \in V : b \in Breaks(A, step) /\ (\E u \in V : u < b) <=> b \in Breaks(V, step)
    BY <1>4, <1>6, <1>10, <1>11, <1>12
<1>15. CASE n >= Cardinality(U)
    <2>1. V = U
        <3>1. V = D => V = U
            BY <1>4, <1>6
        <3>2. V # D => Cardinality(V) >= n
            BY <1>4, LatestIsFull
        <3>3. IsFiniteSet(U)
            BY <1>4, Fewer
        <3>4. V # U => Cardinality(V) < Cardinality(U) /\ Cardinality(V) \in Nat /\ Cardinality(U) \in Nat
            BY <1>6, <3>3, Fewer
        <3> QED
            BY <1>15, <3>1, <3>2, <3>4
    <2>2. \A b \in U : b \in Breaks(A, step) => \E u \in U : u < b
        <3> SUFFICES ASSUME NEW b \in U, NEW u \in A, u < b PROVE u \in U
            BY <1>10
        <3>1. u \in Int /\ b \in Int /\ b < t /\ u \in there
            BY <1>0, <1>4
        <3>2. u < t
            BY <3>1
        <3> QED
            BY <1>0, <3>1, <3>2
    <2>3. Breaks(A, step) \cap U = Breaks(V, step)
        BY <1>12, <1>14, <2>1, <2>2
    <2>4. TailView(view, n) = view
        BY <1>9, <1>15 DEF TailView, ASeries
    <2> QED
        BY <1>9, <1>13, <2>1, <2>3, <2>4
<1>16. CASE ~(n >= Cardinality(U))
    <2>1. PICK br, kept : br = Breaks(A, step) \cap U /\ kept = Breaks(V, step)
        OBVIOUS
    <2>2. \A b : b \in kept <=> b \in br /\ b \in V /\ \E u \in V : u < b
        BY <1>6, <1>12, <1>14, <2>1
    <2>3. TailView(ASeries(U, step, E, br), n) = ASeries(V, step, E, kept)
        BY <1>6, <1>16, <2>2, TailViewIs
    <2> QED
        BY <1>9, <1>13, <2>1, <2>3
<1> QED
    BY <1>15, <1>16

LEMMA ViewIsSeries ==
    ASSUME NEW there, there \subseteq Int, IsFiniteSet(there), NEW step \in Nat \ {0},
           \A x \in there : x % step = 0, NEW last \in Int, last % step = 0, \A x \in there : x < last,
           NEW most \in Nat, NEW back \in Nat, NEW n \in Nat, n <= most,
           NEW k \in Nat, k <= back, NEW t, t = Earlier(last, k, step)
    PROVE  ViewAgrees(there, step, last, most + back, t, n)
<1> PICK m : m = most + back
    OBVIOUS
<1>0. m \in Nat
    OBVIOUS
<1>1. Fills(View(there, m, t), Before(there, t), most)
    BY ViewIsFull, Zenon
<1>2. t = last - k * step
    BY DEF Earlier
<1>3. t \in Int /\ t % step = 0
    <2>1. k * step \in Int
        OBVIOUS
    <2>2. \A d \in Nat \ {0} : \A a \in Int : \A i \in Nat : a % d = 0 => (a - i * d) % d = 0
        <3> SUFFICES ASSUME NEW d \in Nat \ {0}, NEW a \in Int, NEW i \in Nat, a % d = 0
                     PROVE  (a - i * d) % d = 0
            OBVIOUS
        <3> DEFINE b == a \div d
        <3>1. b \in Int /\ a = d * b
            OBVIOUS
        <3> HIDE DEF b
        <3>2. a - i * d = d * (b - i) /\ b - i \in Int
            BY <3>1
        <3>3. \A c \in Int : (d * c) % d = 0
            OBVIOUS
        <3> QED
            BY <3>2, <3>3
    <2>3. (last - k * step) % step = 0
        BY <2>2, Zenon
    <2> QED
        BY <1>2, <2>1, <2>3
<1>5. Fills(View(there, m, t), Before(there, t), n)
    <2>1. View(there, m, t) \subseteq there
        BY DEF View, Before
    <2>2. Cardinality(View(there, m, t)) \in Nat
        BY <2>1, Fewer
    <2> QED
        BY <1>1, <2>2 DEF Fills
<1>7. \A x \in there : (x < t => x + step <= t) /\ x + step <= last /\ (x + step <= t => x < t)
    <2> SUFFICES ASSUME NEW x \in there PROVE (x < t => x + step <= t) /\ x + step <= last /\ (x + step <= t => x < t)
        OBVIOUS
    <2>1. x \in Int /\ x % step = 0 /\ x < last
        OBVIOUS
    <2>2. x + step <= last
        BY <2>1, NextIsAStepLater
    <2>3. x < t => x + step <= t
        BY <1>3, <2>1, NextIsAStepLater
    <2>4. x + step <= t => x < t
        BY <1>3, <2>1
    <2> QED
        BY <2>2, <2>3, <2>4
<1>8. Whole(there, step, last, t)
    BY <1>7 DEF Whole
<1>9. there \subseteq Int /\ IsFiniteSet(there) /\ step \in Nat \ {0} /\ last \in Int /\ t \in Int /\ n \in Nat
    BY <1>3
<1>10. ViewAgrees(there, step, last, m, t, n)
    BY ONLY <1>0, <1>5, <1>8, <1>9, ViewOfPart
<1> QED
    BY <1>10

-----------------------------------------------------------------------------
(* The constants. *)
LEMMA MaxIs ==
    ASSUME NEW S, S \subseteq Int, IsFiniteSet(S), S # {}
    PROVE  Max(S) \in S /\ \A x \in S : x <= Max(S)
<1>1. PICK m \in S : \A x \in S : x <= m
    BY LastOf
<1>2. \A x \in S : m >= x
    BY <1>1
<1>3. Max(S) \in S /\ \A x \in S : Max(S) >= x
    BY <1>2 DEF Max
<1> QED
    BY <1>3

Catalogs == {Formulas[v] : v \in Versions}
NeedsOf(c, F) == {Need[c][f] : f \in F}

LEMMA Needs ==
    ASSUME NEW c \in Catalogs
    PROVE
    /\ RequiredBars(c) \in Nat \ {0}
    /\ \A f \in Names : Need[c][f] \in Nat \ {0} /\ Need[c][f] <= RequiredBars(c)
    /\ \E f \in Required : Max(NeedsOf(c, Required)) = Need[c][f]
<1>1. \A f \in Names : Need[c][f] \in Nat \ {0}
    <2>1. PICK v \in Versions : c = Formulas[v]
        BY DEF Catalogs
    <2>2. Need[c] \in [Names -> Nat \ {0}]
        BY <2>1, RegimeAssumption
    <2> QED
        BY <2>2
<1>2. IsFiniteSet(Names) /\ IsFiniteSet(Required)
    <2>1. \A x : IsFiniteSet({x})
        BY FS_Singleton
    <2>2. \A S, T : IsFiniteSet(S) /\ IsFiniteSet(T) => IsFiniteSet(S \cup T)
        BY FS_Union
    <2>3. Required = {"spread"} \cup ({"slope"} \cup ({"displacement"} \cup ({"atr"} \cup {"ratio"})))
        BY DEF Required
    <2>4. IsFiniteSet(Required)
        BY ONLY <2>1, <2>2, <2>3
    <2>5. Names = Required \cup {"return"}
        BY DEF Names, Optional
    <2> QED
        BY ONLY <2>1, <2>2, <2>4, <2>5
<1>3. ASSUME NEW F, F \subseteq Names, IsFiniteSet(F), F # {}
      PROVE  Max(NeedsOf(c, F)) \in NeedsOf(c, F) /\ \A f \in F : Need[c][f] <= Max(NeedsOf(c, F))
    <2> PICK S : S = NeedsOf(c, F)
        OBVIOUS
    <2>1. S \subseteq Int /\ S # {}
        BY <1>1, <1>3 DEF NeedsOf
    <2>2. IsFiniteSet(S)
        <3> DEFINE need == [f \in F |-> Need[c][f]]
        <3>1. need \in Surjection(F, S)
            BY DEF Surjection, NeedsOf
        <3> QED
            BY <1>3, <3>1, FS_Surjection
    <2>3. \A f \in F : Need[c][f] \in S
        BY DEF NeedsOf
    <2>4. Max(S) \in S /\ \A x \in S : x <= Max(S)
        BY <2>1, <2>2, MaxIs
    <2> QED
        BY <2>3, <2>4
<1>4. Names # {} /\ Required # {} /\ Required \subseteq Names
    BY DEF Names, Required
<1>5. Max(NeedsOf(c, Names)) \in NeedsOf(c, Names) /\ \A f \in Names : Need[c][f] <= Max(NeedsOf(c, Names))
    BY <1>2, <1>3, <1>4
<1>6. Max(NeedsOf(c, Required)) \in NeedsOf(c, Required)
    BY <1>2, <1>3, <1>4
<1>7. RequiredBars(c) = Max(NeedsOf(c, Names))
    BY DEF RequiredBars, NeedsOf
<1>8. (\A x \in NeedsOf(c, Names) : x \in Nat \ {0}) /\ \A x \in NeedsOf(c, Required) : \E f \in Required : x = Need[c][f]
    BY <1>1 DEF NeedsOf
<1> QED
    BY <1>1, <1>4, <1>5, <1>6, <1>7, <1>8

-----------------------------------------------------------------------------
(* What a feature says; its severity is not part of it. *)
IsFeature(v) == v = [status |-> v.status, quality |-> v.quality, severity |-> v.severity, value |-> v.value]
SameFeature(v, w) == v.status = w.status /\ v.quality = w.quality /\ v.value = w.value

\* The feature as the bars of one entry of a key have it.
Meant(c, x, f) == Evaluate(c, <<x[1], x[2]>>, Validated(x[4], x[2], Floor(x[3], x[2]) - x[2]), f)

\* The bars before the last ones change neither the verdict nor the figure.
LEMMA FeatureOfLatest ==
    ASSUME NEW c \in Catalogs, NEW times, times \subseteq Int, IsFiniteSet(times),
           NEW step, NEW e \in Int, NEW series, NEW f \in Names
    PROVE  LET v == Evaluate(c, series, Validated(times, step, e), f)
           IN  /\ IsFeature(v)
               /\ SameFeature(v, Evaluate(c, series, Validated(Latest(times, RequiredBars(c)), step, e), f))
<1> PICK s, l : s = Validated(times, step, e) /\ l = Validated(Latest(times, RequiredBars(c)), step, e)
    OBVIOUS
<1> PICK v, w : v = Evaluate(c, series, s, f) /\ w = Evaluate(c, series, l, f)
    OBVIOUS
<1> PICK a, b : a = Assess(s, Need[c][f]) /\ b = Assess(l, Need[c][f])
    OBVIOUS
<1>0. RequiredBars(c) \in Nat /\ Need[c][f] \in Nat \ {0} /\ Need[c][f] <= RequiredBars(c)
    BY Needs
<1>1. a.status = b.status /\ a.quality = b.quality
    <2> PICK need, n : need = Need[c][f] /\ n = RequiredBars(c)
        OBVIOUS
    <2>1. SameVerdict(Assess(s, need), Assess(l, need))
        <3>1. l = Validated(Latest(times, n), step, e) /\ s = Validated(times, step, e)
            OBVIOUS
        <3>2. n \in Nat /\ need \in Nat \ {0} /\ need <= n /\ times \subseteq Int /\ IsFiniteSet(times) /\ e \in Int
            BY <1>0
        <3> QED
            BY ONLY <3>1, <3>2, VerdictOfLatest
    <2> QED
        BY <2>1 DEF SameVerdict
<1>2. s.times = times /\ l.times = Latest(times, RequiredBars(c))
    BY DEF Validated
<1>3. a.status = "value" => Max(s.times) = Max(l.times)
    <2> SUFFICES ASSUME times # {} PROVE Max(times) = Max(Latest(times, RequiredBars(c)))
        BY <1>2, ValueMeans
    <2>1. PICK m \in Latest(times, RequiredBars(c)) : m \in times /\ \A u \in times : u <= m
        BY Needs, LastOfLatest
    <2>2. Latest(times, RequiredBars(c)) \subseteq times
        BY DEF Latest
    <2> PICK part : part = Latest(times, RequiredBars(c))
        OBVIOUS
    <2>3. part \subseteq Int /\ IsFiniteSet(part) /\ part # {}
        BY <2>1, <2>2, Fewer
    <2>4. Max(part) \in part /\ \A u \in part : u <= Max(part)
        BY <2>3, MaxIs
    <2>5. Max(times) \in times /\ \A u \in times : u <= Max(times)
        BY MaxIs
    <2>6. Max(times) = m /\ Max(part) = m
        <3>1. Max(times) <= m /\ m <= Max(times) /\ Max(times) \in Int /\ m \in Int
            BY <2>1, <2>5
        <3>2. Max(part) <= m /\ m <= Max(part) /\ Max(part) \in Int
            BY <2>1, <2>2, <2>4
        <3> QED
            BY <3>1, <3>2
    <2> QED
        BY <2>6
<1>4. IsFeature(v) /\ v.value = (IF a.status # "value" THEN None ELSE Figures[c][series][Max(s.times)][f])
      /\ v.quality = (IF a.status # "value" THEN a.quality ELSE "valid")
      /\ v.status = (IF a.status # "value" THEN a.status
                     ELSE IF Figures[c][series][Max(s.times)][f] = None THEN "not_available" ELSE "value")
    BY DEF Evaluate, IsFeature
<1>5. w.value = (IF b.status # "value" THEN None ELSE Figures[c][series][Max(l.times)][f])
      /\ w.quality = (IF b.status # "value" THEN b.quality ELSE "valid")
      /\ w.status = (IF b.status # "value" THEN b.status
                     ELSE IF Figures[c][series][Max(l.times)][f] = None THEN "not_available" ELSE "value")
    BY DEF Evaluate
<1>6. SameFeature(v, w)
    <2>1. CASE a.status = "value"
        <3> PICK x : x = Figures[c][series][Max(s.times)][f]
            OBVIOUS
        <3>1. x = Figures[c][series][Max(l.times)][f]
            BY <1>3, <2>1
        <3> QED
            BY <1>1, <1>4, <1>5, <2>1, <3>1 DEF SameFeature
    <2>2. CASE a.status # "value"
        BY <1>1, <1>4, <1>5, <2>2 DEF SameFeature
    <2> QED
        BY <2>1, <2>2
<1> QED
    BY <1>4, <1>6

\* The rules read nothing else of the features.
Bad(fs) == {f \in Required : fs[f].status # "value"}
Missing(fs) == {<<f, fs[f].status, fs[f].quality>> : f \in {g \in Names : fs[g].status # "value"}}
Wrong(fs) == {FeatureQuality(fs[f]) : f \in Bad(fs)}
Voters(fs) == {"spread", "slope", "displacement"} \cup {f \in Optional : fs[f].status = "value"}
Votes(fs) == [f \in Voters(fs) |-> Vote(fs[f].value, Config[f])]
Ruling(bad, wrong, missing, votes, ratio, slope, atr, through) ==
    LET volatility == Volatility(ratio)
        regime == RegimeOf(votes, volatility)
        strong == /\ slope >= Config.strong \/ slope <= -Config.strong
                  /\ "return" \in DOMAIN votes /\ votes["return"] # 0
    IN  IF bad # {} THEN Unknown(Worst(wrong), through, missing)
        ELSE IF atr <= 0 THEN Unknown("valid", through, missing)
        ELSE [regime |-> regime, direction |-> Direction(votes),
              strength |-> IF regime \notin Trends THEN "none" ELSE IF strong THEN "strong" ELSE "moderate",
              volatility |-> volatility, quality |-> "valid", through |-> through, why |-> missing]

LEMMA RulingIs ==
    ASSUME NEW fs, NEW step, NEW asOf
    PROVE  ClassifyTimeframe(fs, step, asOf)
              = Ruling(Bad(fs), Wrong(fs), Missing(fs), Votes(fs), fs["ratio"].value, fs["slope"].value,
                       fs["atr"].value, Floor(asOf, step))
BY DEF ClassifyTimeframe, Ruling, Bad, Wrong, Missing, Voters, Votes

LEMMA SameTimeframe ==
    ASSUME NEW fs, NEW gs, \A f \in Names : SameFeature(fs[f], gs[f]), NEW step, NEW asOf
    PROVE  ClassifyTimeframe(fs, step, asOf) = ClassifyTimeframe(gs, step, asOf)
<1>1. /\ Required \subseteq Names /\ Optional \subseteq Names
      /\ {"spread", "slope", "displacement", "atr", "ratio"} \subseteq Names
    BY DEF Names, Required
<1>2. \A f \in Names : fs[f].status = gs[f].status /\ fs[f].quality = gs[f].quality /\ fs[f].value = gs[f].value
    BY DEF SameFeature
<1>3. Bad(fs) = Bad(gs) /\ Missing(fs) = Missing(gs) /\ Voters(fs) = Voters(gs)
    BY <1>1, <1>2 DEF Bad, Missing, Voters
<1>4. Wrong(fs) = Wrong(gs)
    <2>1. \A f \in Names : FeatureQuality(fs[f]) = FeatureQuality(gs[f])
        BY <1>2 DEF FeatureQuality
    <2> QED
        BY <1>1, <1>3, <2>1 DEF Wrong, Bad
<1>5. Votes(fs) = Votes(gs)
    <2>1. Voters(fs) \subseteq Names
        BY <1>1 DEF Voters
    <2>2. \A f \in Voters(fs) : fs[f].value = gs[f].value
        BY <1>2, <2>1
    <2> QED
        BY <1>3, <2>2 DEF Votes
<1>6. fs["ratio"].value = gs["ratio"].value /\ fs["slope"].value = gs["slope"].value /\ fs["atr"].value = gs["atr"].value
    BY <1>1, <1>2
<1> QED
    BY <1>3, <1>4, <1>5, <1>6, RulingIs

-----------------------------------------------------------------------------
(* A key and its features.  Opens is Rows for any table of candles. *)
Opens(table, series) == {r[3] : r \in {x \in table : x[1] = series[1] /\ x[2] = series[2]}}

Entered(table, input, symbol, steps, asOf) ==
    /\ \A s \in steps : \E x \in input : x[2] = s
    /\ \A x \in input :
          /\ x[1] = symbol /\ x[2] \in steps /\ x[3] = asOf
          /\ x[4] \subseteq Opens(table, <<symbol, x[2]>>)
          /\ \A t \in x[4] : t + x[2] <= asOf

\* Features by the formulas c for the bars of a key.
Explained(c, fs, input) ==
    /\ \A s : s \in DOMAIN fs <=> \E x \in input : x[2] = s
    /\ \A x \in input, f \in Names : IsFeature(fs[x[2]][f]) /\ SameFeature(fs[x[2]][f], Meant(c, x, f))

IsTable(table) == table \subseteq Initial \cup Late

\* Bars are multiples of their timeframe.
LEMMA OpensAre ==
    ASSUME NEW table, IsTable(table), NEW series
    PROVE  /\ Opens(table, series) \subseteq Int /\ IsFiniteSet(Opens(table, series))
           /\ \A t \in Opens(table, series) : t % series[2] = 0
<1> DEFINE of == {x \in table : x[1] = series[1] /\ x[2] = series[2]}
           opens == [x \in of |-> x[3]]
<1>1. \A x \in of : x \in Initial \cup Late /\ x[2] = series[2]
    BY DEF IsTable
<1>2. \A t \in Opens(table, series) : \E x \in Initial \cup Late : t = x[3] /\ x[2] = series[2]
    BY <1>1 DEF Opens
<1>3. IsFiniteSet(of)
    <2>1. of \subseteq Initial \cup Late
        BY <1>1
    <2> HIDE DEF of
    <2> QED
        BY <2>1, FS_Subset, RegimeAssumption
<1>4. opens \in Surjection(of, Opens(table, series))
    BY DEF Surjection, Opens
<1>5. IsFiniteSet(Opens(table, series))
    <2> HIDE DEF of, opens
    <2> QED
        BY <1>3, <1>4, FS_Surjection
<1> QED
    BY <1>2, <1>5, RegimeAssumption

\* Ingestion only adds bars.
LEMMA EnteredStill ==
    ASSUME NEW table, NEW more, table \subseteq more, NEW input, NEW symbol, NEW steps, NEW asOf,
           Entered(table, input, symbol, steps, asOf)
    PROVE  Entered(more, input, symbol, steps, asOf)
<1>1. \A series : Opens(table, series) \subseteq Opens(more, series)
    BY DEF Opens
<1> QED
    BY <1>1 DEF Entered

\* Two snapshots with one key say the same, whatever was in front of their windows.
LEMMA SameExplained ==
    ASSUME NEW c, NEW fs, NEW gs, NEW input, Explained(c, fs, input), Explained(c, gs, input)
    PROVE  /\ \A s : s \in DOMAIN fs <=> s \in DOMAIN gs
           /\ \A s \in DOMAIN fs, f \in Names :
                 IsFeature(fs[s][f]) /\ IsFeature(gs[s][f]) /\ SameFeature(fs[s][f], gs[s][f])
<1>1. ASSUME NEW s \in DOMAIN fs, NEW f \in Names
      PROVE  IsFeature(fs[s][f]) /\ IsFeature(gs[s][f]) /\ SameFeature(fs[s][f], gs[s][f])
    <2>1. PICK x \in input : x[2] = s
        BY DEF Explained
    <2>2. /\ IsFeature(fs[s][f]) /\ SameFeature(fs[s][f], Meant(c, x, f))
          /\ IsFeature(gs[s][f]) /\ SameFeature(gs[s][f], Meant(c, x, f))
        BY <2>1 DEF Explained
    <2> QED
        BY <2>2 DEF SameFeature
<1> QED
    BY <1>1 DEF Explained

NoSeverity(v) == [v EXCEPT !.severity = None]
NoVersion(r) == [r EXCEPT !.version = None]

LEMMA SameButSeverity ==
    ASSUME NEW v, NEW w, IsFeature(v), IsFeature(w), SameFeature(v, w)
    PROVE  NoSeverity(v) = NoSeverity(w)
BY DEF IsFeature, SameFeature, NoSeverity

-----------------------------------------------------------------------------
(* A snapshot and its key. *)
HasOwn(c, table, r, own, input) ==
    Entered(table, input, r.symbol, r.steps, r.asOf) /\ Explained(c, own, input)
HasBtc(c, table, r, btc, input) ==
    r.symbol # Btc => Entered(table, input, Btc, {BtcStep}, r.asOf) /\ Explained(c, btc, input)

\* The timeframes of two snapshots with one key, whenever they were made.
LEMMA SameResults ==
    ASSUME NEW c, NEW table, NEW more, NEW r, NEW q, r.symbol = q.symbol, r.asOf = q.asOf, NEW own, NEW other, NEW input,
           HasOwn(c, table, r, own, input), HasOwn(c, more, q, other, input)
    PROVE  /\ r.steps = q.steps
           /\ \A s \in r.steps : ClassifyTimeframe(own[s], s, r.asOf) = ClassifyTimeframe(other[s], s, q.asOf)
<1>1. \A s : s \in r.steps <=> s \in q.steps
    BY DEF HasOwn, Entered
<1>2. \A s \in r.steps : s \in DOMAIN own
    BY DEF HasOwn, Entered, Explained
<1>3. r.steps = q.steps
    <2>1. r.steps \subseteq q.steps /\ q.steps \subseteq r.steps
        BY <1>1
    <2> QED
        BY <2>1
<1>4. ASSUME NEW s \in r.steps
      PROVE  ClassifyTimeframe(own[s], s, r.asOf) = ClassifyTimeframe(other[s], s, q.asOf)
    <2> PICK fs, gs : fs = own[s] /\ gs = other[s]
        OBVIOUS
    <2>1. \A f \in Names : SameFeature(fs[f], gs[f])
        BY <1>2, SameExplained DEF HasOwn
    <2> QED
        BY <2>1, SameTimeframe
<1> QED
    BY <1>3, <1>4

Results(r, own) == [s \in r.steps |-> ClassifyTimeframe(own[s], s, r.asOf)]

LEMMA SameSnapshot ==
    ASSUME NEW c, NEW table, NEW more, NEW r \in Requests, NEW q \in Requests,
           r.symbol = q.symbol, r.base = q.base, r.asOf = q.asOf,
           NEW own, NEW other, NEW input, HasOwn(c, table, r, own, input), HasOwn(c, more, q, other, input),
           NEW btc, NEW second, NEW back, HasBtc(c, table, r, btc, back), HasBtc(c, more, q, second, back),
           NEW v, NEW w, Formulas[v] = Formulas[w]
    PROVE  NoVersion(Classify(r, own, btc, v)) = NoVersion(Classify(q, other, second, w))
<1> PICK a, b : a = Results(r, own) /\ b = Results(q, other)
    OBVIOUS
<1>1. a = b
    BY SameResults DEF Results
<1>2. BtcContext(r, a, btc) = BtcContext(q, b, second)
    <2>1. CASE r.symbol = Btc
        BY <1>1, <2>1 DEF BtcContext
    <2>2. CASE r.symbol # Btc
        <3>1. /\ Entered(table, back, Btc, {BtcStep}, r.asOf)
              /\ Explained(c, btc, back) /\ Explained(c, second, back)
            BY <2>2 DEF HasBtc
        <3>2. BtcStep \in DOMAIN btc
            BY <3>1 DEF Entered, Explained
        <3> PICK fs, gs : fs = btc[BtcStep] /\ gs = second[BtcStep]
            OBVIOUS
        <3>3. \A f \in Names : SameFeature(fs[f], gs[f])
            BY <3>1, <3>2, SameExplained
        <3>4. ClassifyTimeframe(fs, BtcStep, r.asOf) = ClassifyTimeframe(gs, BtcStep, q.asOf)
            BY <3>3, SameTimeframe
        <3> QED
            BY <2>2, <3>4 DEF BtcContext
    <2> QED
        BY <2>1, <2>2
<1>3. /\ Classify(r, own, btc, v) =
            [regime |-> a[r.base].regime, quality |-> a[r.base].quality, timeframes |-> a,
             alignment |-> MtfAlignment(a), btc |-> BtcContext(r, a, btc), version |-> v,
             formulas |-> Formulas[v]]
      /\ Classify(q, other, second, w) =
            [regime |-> b[q.base].regime, quality |-> b[q.base].quality, timeframes |-> b,
             alignment |-> MtfAlignment(b), btc |-> BtcContext(q, b, second), version |-> w,
             formulas |-> Formulas[w]]
    BY DEF Classify, Results
<1> QED
    BY <1>1, <1>2, <1>3 DEF NoVersion

-----------------------------------------------------------------------------
(* What a process has, and what the tables hold. *)
Fields == {"pc", "request", "cached", "version", "part", "reads", "found", "own", "btc", "inputs"}
Filed(table, x) ==
    /\ Entered(table, x.key.input, x.key.symbol, x.key.set, x.key.asOf)
    /\ Explained(x.key.formulas, x.features, x.key.input)
Loaded(table, j) ==
    /\ DOMAIN j.reads \subseteq Steps(j)
    /\ \A s \in DOMAIN j.reads : j.reads[s] \subseteq Opens(table, <<Symbol(j), s>>)
JobOk(table, j) ==
    \/ j = Idle
    \/ /\ DOMAIN j = Fields /\ DOMAIN j.inputs = {"own", "btc"}
       /\ j.request \in Requests /\ j.part \in {"own", "btc"} /\ j.version \in Versions
       /\ j.part = "btc" => j.request.symbol # Btc /\ HasOwn(FormulasOf(j), table, j.request, j.own, j.inputs.own)
       /\ j.pc = "read" => Loaded(table, j)
       /\ j.pc \in {"check features", "insert features"} =>
             /\ Filed(table, j.found) /\ j.found.key.symbol = Symbol(j) /\ j.found.key.set = Steps(j)
             /\ j.found.key.asOf = j.request.asOf /\ j.found.key.formulas = FormulasOf(j)
       /\ j.pc \in {"check regime", "insert regime"} =>
             /\ HasOwn(FormulasOf(j), table, j.request, j.own, j.inputs.own)
             /\ HasBtc(FormulasOf(j), table, j.request, j.btc, j.inputs.btc)
Classified(table, x, own, btc, v) ==
    /\ x.snapshot = Classify(x.request, own, btc, v)
    /\ HasOwn(Formulas[v], table, x.request, own, x.key.input[1])
    /\ HasBtc(Formulas[v], table, x.request, btc, x.key.input[2])
RegimeOk(table, x) ==
    /\ x.request \in Requests
    /\ x.key.symbol = x.request.symbol /\ x.key.base = x.request.base /\ x.key.asOf = x.request.asOf
    /\ \E own, btc : \E v \in Versions : Classified(table, x, own, btc, v)

TypesInv == IsTable(rows) /\ DOMAIN job = Procs /\ version \in Versions
JobsInv == \A p \in Procs : JobOk(rows, job[p])
StoresInv == (\A x \in features : Filed(rows, x)) /\ \A x \in regimes : RegimeOk(rows, x)
RegimeInv == TypesInv /\ JobsInv /\ StoresInv

LEMMA InitRegime == Init => RegimeInv
<1> SUFFICES ASSUME Init PROVE RegimeInv
    OBVIOUS
<1>1. TypesInv
    BY DEF Init, TypesInv, IsTable
<1>2. JobsInv
    BY DEF Init, JobsInv, JobOk
<1>3. StoresInv
    BY DEF Init, StoresInv
<1> QED
    BY <1>1, <1>2, <1>3 DEF RegimeInv

\* Nothing that was explained is lost when a bar arrives.
LEMMA StillOk ==
    ASSUME NEW table, NEW more, table \subseteq more
    PROVE  /\ \A j : JobOk(table, j) => JobOk(more, j)
           /\ \A x : Filed(table, x) => Filed(more, x)
           /\ \A x : RegimeOk(table, x) => RegimeOk(more, x)
<1>1. \A c, r, own, input : HasOwn(c, table, r, own, input) => HasOwn(c, more, r, own, input)
    BY EnteredStill DEF HasOwn
<1>2. \A c, r, btc, input : HasBtc(c, table, r, btc, input) => HasBtc(c, more, r, btc, input)
    BY EnteredStill DEF HasBtc
<1>3. \A x : Filed(table, x) => Filed(more, x)
    BY EnteredStill DEF Filed
<1>4. \A j : Loaded(table, j) => Loaded(more, j)
    <2>1. \A series : Opens(table, series) \subseteq Opens(more, series)
        BY DEF Opens
    <2> QED
        BY <2>1 DEF Loaded
<1>5. \A j : JobOk(table, j) => JobOk(more, j)
    BY <1>1, <1>2, <1>3, <1>4 DEF JobOk
<1>6. \A x : RegimeOk(table, x) => RegimeOk(more, x)
    BY <1>1, <1>2 DEF RegimeOk, Classified
<1> QED
    BY <1>3, <1>5, <1>6

-----------------------------------------------------------------------------
(* The features that a process computes are explained by the key it gives them. *)
Window(c, s) == Latest(s.times, RequiredBars(c))

LEMMA StepsAre ==
    ASSUME NEW j, j.request \in Requests
    PROVE  IsFiniteSet(Steps(j)) /\ Steps(j) \subseteq Nat \ {0} /\ j.request.asOf \in Int
<1>1. IsFiniteSet({BtcStep})
    BY FS_Singleton
<1> QED
    BY <1>1, RegimeAssumption DEF Steps

LEMMA SeriesIs ==
    ASSUME NEW table, IsTable(table), NEW j, j.request \in Requests, Loaded(table, j),
           NEW step \in DOMAIN j.reads, NEW s, s = SeriesOf(j, step)
    PROVE  \E times : /\ s = Validated(times, step, Floor(j.request.asOf, step) - step) /\ s.times = times
                      /\ times \subseteq Opens(table, <<Symbol(j), step>>) /\ times \subseteq Int /\ IsFiniteSet(times)
                      /\ \A t \in times : t + step <= j.request.asOf
                      /\ Floor(j.request.asOf, step) - step \in Int
<1> DEFINE times == {t \in j.reads[step] : t + step <= j.request.asOf}
<1>1. s = Validated(times, step, Floor(j.request.asOf, step) - step)
    BY DEF SeriesOf, Prepare
<1>2. s.times = times
    BY <1>1 DEF Validated
<1>3. times \subseteq Opens(table, <<Symbol(j), step>>)
    BY DEF Loaded
<1>4. times \subseteq Int /\ IsFiniteSet(times)
    <2> HIDE DEF times
    <2> PICK opens : opens = Opens(table, <<Symbol(j), step>>)
        OBVIOUS
    <2>1. opens \subseteq Int /\ IsFiniteSet(opens)
        BY OpensAre
    <2> QED
        BY <1>3, <2>1, Fewer
<1>5. Floor(j.request.asOf, step) - step \in Int
    <2>1. step \in Nat \ {0} /\ j.request.asOf \in Int
        BY StepsAre DEF Loaded
    <2> QED
        BY <2>1 DEF Floor
<1> QED
    BY <1>1, <1>2, <1>3, <1>4, <1>5

LEMMA ComputedIsExplained ==
    ASSUME NEW c, NEW table, IsTable(table), NEW j, j.request \in Requests, j.version \in Versions,
           c = FormulasOf(j), Loaded(table, j), Steps(j) = DOMAIN j.reads
    PROVE  /\ Entered(table, Fingerprint(j), Symbol(j), Steps(j), j.request.asOf)
           /\ Explained(c, Computed(j), Fingerprint(j))
<1> PICK input, asOf : input = Fingerprint(j) /\ asOf = j.request.asOf
    OBVIOUS
<1>0. c \in Catalogs
    BY DEF Catalogs, FormulasOf
<1>1. \A x : x \in input <=> \E step \in Steps(j) :
              x = <<Symbol(j), step, asOf, Window(c, SeriesOf(j, step)), RequiredBars(c)>>
    BY DEF Fingerprint, Inputs, Window
<1>2. ASSUME NEW x \in input
      PROVE  /\ x[1] = Symbol(j) /\ x[2] \in Steps(j) /\ x[3] = asOf
             /\ x[4] \subseteq Opens(table, <<Symbol(j), x[2]>>) /\ \A t \in x[4] : t + x[2] <= asOf
             /\ \A f \in Names : /\ IsFeature(Computed(j)[x[2]][f])
                                 /\ SameFeature(Computed(j)[x[2]][f], Meant(c, x, f))
    <2> PICK step \in Steps(j) : x = <<Symbol(j), step, asOf, Window(c, SeriesOf(j, step)), RequiredBars(c)>>
        BY <1>1
    <2> PICK s : s = SeriesOf(j, step)
        OBVIOUS
    <2> PICK e : e = Floor(asOf, step) - step
        OBVIOUS
    <2>1. PICK times : /\ s = Validated(times, step, e) /\ s.times = times
                       /\ times \subseteq Opens(table, <<Symbol(j), step>>) /\ times \subseteq Int /\ IsFiniteSet(times)
                       /\ \A t \in times : t + step <= asOf
                       /\ e \in Int
        BY SeriesIs
    <2>2. x[1] = Symbol(j) /\ x[2] = step /\ x[3] = asOf /\ x[4] = Latest(times, RequiredBars(c))
        BY <2>1 DEF Window
    <2>3. Latest(times, RequiredBars(c)) \subseteq times
        BY DEF Latest
    <2>4. ASSUME NEW f \in Names
          PROVE  IsFeature(Computed(j)[x[2]][f]) /\ SameFeature(Computed(j)[x[2]][f], Meant(c, x, f))
        <3> PICK series : series = <<Symbol(j), step>>
            OBVIOUS
        <3>1. Computed(j)[step][f] = Evaluate(c, series, Validated(times, step, e), f)
            BY <2>1 DEF Computed
        <3>2. Meant(c, x, f) = Evaluate(c, series, Validated(Latest(times, RequiredBars(c)), step, e), f)
            BY <2>2 DEF Meant
        <3>3. /\ IsFeature(Evaluate(c, series, Validated(times, step, e), f))
              /\ SameFeature(Evaluate(c, series, Validated(times, step, e), f),
                             Evaluate(c, series, Validated(Latest(times, RequiredBars(c)), step, e), f))
            BY ONLY <1>0, <2>1, FeatureOfLatest
        <3> QED
            BY <2>2, <3>1, <3>2, <3>3
    <2> QED
        BY <2>1, <2>2, <2>3, <2>4
<1>3. Entered(table, input, Symbol(j), Steps(j), asOf)
    <2>1. ASSUME NEW step \in Steps(j) PROVE \E x \in input : x[2] = step
        <3> PICK x : x = <<Symbol(j), step, asOf, Window(c, SeriesOf(j, step)), RequiredBars(c)>>
            OBVIOUS
        <3> QED
            BY <1>1
    <2> QED
        BY <1>2, <2>1 DEF Entered
<1>4. Explained(c, Computed(j), input)
    <2>1. DOMAIN Computed(j) = Steps(j)
        BY DEF Computed
    <2> QED
        BY <1>2, <1>3, <2>1 DEF Explained, Entered
<1> QED
    BY <1>3, <1>4

-----------------------------------------------------------------------------
(* The steps. *)
Working(j) ==
    /\ j # Idle /\ DOMAIN j = Fields /\ DOMAIN j.inputs = {"own", "btc"}
    /\ j.request \in Requests /\ j.part \in {"own", "btc"} /\ j.version \in Versions

LEMMA BusyIsWorking ==
    ASSUME NEW table, NEW j, JobOk(table, j), j.pc # "none"
    PROVE  Working(j)
<1>1. j # Idle
    BY DEF Idle
<1> QED
    BY <1>1 DEF JobOk, Working

Proceeding(j, key, fs) ==
    LET kept == WithFeatures(j, key, fs)
    IN  IF kept.part = "own" /\ kept.request.symbol # Btc THEN [kept EXCEPT !.part = "btc", !.pc = "read"]
        ELSE [kept EXCEPT !.pc = "check regime"]

LEMMA ProceedingIsOk ==
    ASSUME NEW table, NEW j, JobOk(table, j), Working(j), NEW key, NEW fs,
           Entered(table, key.input, Symbol(j), Steps(j), j.request.asOf), Explained(FormulasOf(j), fs, key.input)
    PROVE  JobOk(table, Proceeding(j, key, fs))
<1> PICK n, kept : n = Proceeding(j, key, fs) /\ kept = WithFeatures(j, key, fs)
    OBVIOUS
<1>1. /\ DOMAIN kept = Fields /\ DOMAIN kept.inputs = {"own", "btc"}
      /\ kept.request = j.request /\ kept.part = j.part /\ kept.reads = <<>> /\ kept.version = j.version
    BY DEF WithFeatures, Working, Fields
<1>2. CASE j.part = "own"
    <2>1. kept.own = fs /\ kept.inputs.own = key.input
        BY <1>2 DEF WithFeatures, Working, Fields
    <2>2. HasOwn(FormulasOf(j), table, j.request, kept.own, kept.inputs.own)
        BY <1>2, <2>1 DEF HasOwn, Symbol, Steps
    <2>3. CASE j.request.symbol # Btc
        <3>1. n = [kept EXCEPT !.part = "btc", !.pc = "read"]
            BY <1>1, <1>2, <2>3 DEF Proceeding
        <3>2. /\ DOMAIN n = Fields /\ n.inputs = kept.inputs /\ n.request = j.request /\ n.version = j.version
              /\ n.part = "btc" /\ n.pc = "read"
              /\ n.reads = <<>> /\ n.own = kept.own
            BY <1>1, <3>1 DEF Fields
        <3>3. DOMAIN n.reads = {}
            BY <3>2
        <3>4. Loaded(table, n)
            BY <3>3 DEF Loaded
        <3> QED
            BY <1>1, <2>2, <2>3, <3>2, <3>4 DEF JobOk, Working, FormulasOf
    <2>4. CASE j.request.symbol = Btc
        <3>1. n = [kept EXCEPT !.pc = "check regime"]
            BY <1>1, <1>2, <2>4 DEF Proceeding
        <3>2. /\ DOMAIN n = Fields /\ n.inputs = kept.inputs /\ n.request = j.request /\ n.version = j.version
              /\ n.part = "own" /\ n.pc = "check regime" /\ n.own = kept.own
            BY <1>1, <1>2, <3>1 DEF Fields
        <3>3. HasBtc(FormulasOf(j), table, n.request, n.btc, n.inputs.btc)
            BY <2>4, <3>2 DEF HasBtc
        <3> QED
            BY <1>1, <2>2, <3>2, <3>3 DEF JobOk, Working, FormulasOf
    <2> QED
        BY <2>3, <2>4
<1>3. CASE j.part = "btc"
    <2>1. /\ kept.own = j.own /\ kept.inputs.own = j.inputs.own
          /\ kept.btc = fs /\ kept.inputs.btc = key.input
        BY <1>3 DEF WithFeatures, Working, Fields
    <2>2. j.request.symbol # Btc /\ HasOwn(FormulasOf(j), table, j.request, j.own, j.inputs.own)
        BY <1>3 DEF JobOk, Working
    <2>3. HasBtc(FormulasOf(j), table, j.request, kept.btc, kept.inputs.btc)
        BY <1>3, <2>1 DEF HasBtc, Symbol, Steps
    <2>4. n = [kept EXCEPT !.pc = "check regime"]
        BY <1>1, <1>3 DEF Proceeding
    <2>5. /\ DOMAIN n = Fields /\ n.inputs = kept.inputs /\ n.request = j.request /\ n.version = j.version
          /\ n.part = "btc" /\ n.pc = "check regime" /\ n.own = kept.own /\ n.btc = kept.btc
        BY <1>1, <1>3, <2>4 DEF Fields
    <2> QED
        BY <1>1, <2>1, <2>2, <2>3, <2>5 DEF JobOk, Working, FormulasOf
<1> QED
    BY <1>2, <1>3 DEF Working

\* A step of a process, and what it adds to the tables.
LEMMA OneJob ==
    ASSUME RegimeInv, rows' = rows, version' = version, NEW p \in Procs,
           NEW n, job' = [job EXCEPT ![p] = n], JobOk(rows, n),
           \A x \in features' : x \in features \/ Filed(rows, x),
           \A x \in regimes' : x \in regimes \/ RegimeOk(rows, x)
    PROVE  RegimeInv'
<1>1. TypesInv'
    BY DEF RegimeInv, TypesInv
<1>2. JobsInv'
    <2> SUFFICES ASSUME NEW q \in Procs PROVE JobOk(rows, job'[q])
        BY DEF JobsInv
    <2>1. job'[q] = IF q = p THEN n ELSE job[q]
        BY DEF RegimeInv, TypesInv
    <2> QED
        BY <2>1 DEF RegimeInv, JobsInv
<1>3. StoresInv'
    BY DEF RegimeInv, StoresInv
<1> QED
    BY <1>1, <1>2, <1>3 DEF RegimeInv

LEMMA DeliverOk == ASSUME RegimeInv, Deliver PROVE RegimeInv'
<1>1. PICK r \in Late \ rows : rows' = rows \cup {r} /\ UNCHANGED <<version, features, regimes, job>>
    BY DEF Deliver, tables
<1>2. rows \subseteq rows'
    BY <1>1
<1>3. TypesInv'
    BY <1>1 DEF RegimeInv, TypesInv, IsTable
<1> PICK more : more = rows'
    OBVIOUS
<1>4. /\ \A j : JobOk(rows, j) => JobOk(more, j)
      /\ \A x : Filed(rows, x) => Filed(more, x)
      /\ \A x : RegimeOk(rows, x) => RegimeOk(more, x)
    BY <1>2, StillOk
<1> QED
    BY <1>1, <1>3, <1>4 DEF RegimeInv, JobsInv, StoresInv

LEMMA AnalyzeOk == ASSUME RegimeInv, NEW p \in Procs, Analyze(p) PROVE RegimeInv'
<1>1. PICK r \in Requests, cached \in BOOLEAN :
        job' = [job EXCEPT ![p] = [pc |-> "read", request |-> r, cached |-> cached, version |-> version,
                    part |-> "own", reads |-> <<>>, found |-> None, own |-> None, btc |-> None,
                    inputs |-> [own |-> None, btc |-> None]]]
    BY DEF Analyze
<1> PICK n : n = [pc |-> "read", request |-> r, cached |-> cached, version |-> version,
                    part |-> "own", reads |-> <<>>, found |-> None, own |-> None, btc |-> None,
                    inputs |-> [own |-> None, btc |-> None]]
    OBVIOUS
<1>2. /\ DOMAIN n = Fields /\ DOMAIN n.inputs = {"own", "btc"} /\ n.request = r /\ n.part = "own" /\ n.pc = "read"
      /\ n.reads = <<>> /\ n.version \in Versions
    BY DEF Fields, RegimeInv, TypesInv
<1>3. DOMAIN n.reads = {}
    BY <1>2
<1>4. JobOk(rows, n)
    BY <1>2, <1>3 DEF JobOk, Loaded
<1> QED
    BY <1>1, <1>4, OneJob DEF Analyze, tables

LEMMA ReadSeriesOk == ASSUME RegimeInv, NEW p \in Procs, ReadSeries(p) PROVE RegimeInv'
<1> PICK j : j = job[p]
    OBVIOUS
<1>1. JobOk(rows, j) /\ j.pc = "read" /\ Steps(j) # DOMAIN j.reads
    BY DEF RegimeInv, JobsInv, ReadSeries
<1>2. Working(j) /\ Loaded(rows, j)
    BY <1>1, BusyIsWorking DEF JobOk, Working
<1> PICK step : step = Min(Steps(j) \ DOMAIN j.reads)
    OBVIOUS
<1>3. step \in Steps(j)
    <2> PICK left : left = Steps(j) \ DOMAIN j.reads
        OBVIOUS
    <2>1. left \subseteq Nat /\ left # {}
        BY <1>1, <1>2, StepsAre DEF Working, Loaded
    <2>2. \E x \in left : \A y \in left : x <= y
        BY <2>1, SmallestOf
    <2>3. Min(left) \in left
        BY <2>2 DEF Min
    <2> QED
        BY <2>3
<1> PICK found : found = LastRows(Rows(<<Symbol(j), step>>), Floor(j.request.asOf, step),
                                RequiredBars(FormulasOf(j)) + 1)
    OBVIOUS
<1> PICK reads : reads = [s \in DOMAIN j.reads \cup {step} |-> IF s = step THEN found ELSE j.reads[s]]
    OBVIOUS
<1> PICK n : n = [j EXCEPT !.reads = reads]
    OBVIOUS
<1>4. job' = [job EXCEPT ![p] = n]
    BY DEF ReadSeries
<1>5. /\ DOMAIN n = Fields /\ n.inputs = j.inputs /\ n.request = j.request /\ n.part = j.part /\ n.version = j.version
      /\ n.pc = j.pc /\ n.own = j.own /\ n.reads = reads
    BY <1>2 DEF Working, Fields
<1>6. Symbol(n) = Symbol(j) /\ Steps(n) = Steps(j) /\ FormulasOf(n) = FormulasOf(j)
    BY <1>5 DEF Symbol, Steps, FormulasOf
<1>7. Loaded(rows, n)
    <2>1. found \subseteq Opens(rows, <<Symbol(j), step>>)
        BY DEF LastRows, Latest, Rows, Opens
    <2>2. DOMAIN reads = DOMAIN j.reads \cup {step}
        OBVIOUS
    <2>3. ASSUME NEW s \in DOMAIN reads PROVE reads[s] \subseteq Opens(rows, <<Symbol(j), s>>)
        BY <1>2, <2>1, <2>2 DEF Loaded
    <2>4. DOMAIN reads \subseteq Steps(j)
        BY <1>2, <1>3, <2>2 DEF Loaded
    <2>5. DOMAIN n.reads \subseteq Steps(n) /\ \A s \in DOMAIN n.reads : n.reads[s] \subseteq Opens(rows, <<Symbol(n), s>>)
        BY ONLY <1>5, <1>6, <2>3, <2>4
    <2> QED
        BY <2>5 DEF Loaded
<1>8. JobOk(rows, n)
    BY <1>1, <1>2, <1>5, <1>6, <1>7 DEF JobOk, Working
<1> QED
    BY <1>4, <1>8, OneJob DEF ReadSeries, tables

LEMMA HitsAre ==
    ASSUME RegimeInv, NEW key, NEW fs \in Hits(key)
    PROVE  Entered(rows, key.input, key.symbol, key.set, key.asOf) /\ Explained(key.formulas, fs, key.input)
BY DEF Hits, RegimeInv, StoresInv, Filed

LEMMA SnapshotOk == ASSUME RegimeInv, NEW p \in Procs, Snapshot(p) PROVE RegimeInv'
<1> PICK j, key : j = job[p] /\ key = FeatureKey(j)
    OBVIOUS
<1>1. JobOk(rows, j) /\ j.pc = "read" /\ Steps(j) = DOMAIN j.reads
    BY DEF RegimeInv, JobsInv, Snapshot
<1>2. Working(j) /\ Loaded(rows, j)
    BY <1>1, BusyIsWorking DEF JobOk, Working
<1>3. key.symbol = Symbol(j) /\ key.set = Steps(j) /\ key.asOf = j.request.asOf /\ key.input = Fingerprint(j)
      /\ key.formulas = FormulasOf(j)
    BY DEF FeatureKey
<1>4. Entered(rows, key.input, Symbol(j), Steps(j), j.request.asOf) /\ Explained(FormulasOf(j), Computed(j), key.input)
    BY <1>1, <1>2, <1>3, ComputedIsExplained DEF Working, RegimeInv, TypesInv
<1>5. \A fs : Explained(FormulasOf(j), fs, key.input) => JobOk(rows, Proceeding(j, key, fs))
    BY <1>1, <1>2, <1>4, ProceedingIsOk
<1>6. ASSUME NEW fs, Explained(FormulasOf(j), fs, key.input), Proceed(p, key, fs) PROVE RegimeInv'
    <2>1. job' = [job EXCEPT ![p] = Proceeding(j, key, fs)]
        BY <1>6 DEF Proceed, Proceeding
    <2> QED
        BY <1>5, <1>6, <2>1, OneJob DEF Snapshot, tables
<1>7. CASE ~job[p].cached
    BY <1>4, <1>6, <1>7 DEF Snapshot
<1>8. CASE job[p].cached /\ Hits(key) # {}
    <2>1. PICK fs \in Hits(key) : Proceed(p, key, fs)
        BY <1>8 DEF Snapshot
    <2> QED
        BY <1>3, <1>6, <2>1, HitsAre
<1>9. CASE job[p].cached /\ Hits(key) = {}
    <2> PICK found : found = [key |-> key, features |-> Computed(j)]
        OBVIOUS
    <2> PICK n : n = [j EXCEPT !.pc = "check features", !.reads = <<>>, !.found = found]
        OBVIOUS
    <2>1. job' = [job EXCEPT ![p] = n]
        BY <1>9 DEF Snapshot
    <2>2. /\ DOMAIN n = Fields /\ n.inputs = j.inputs /\ n.request = j.request /\ n.part = j.part
          /\ n.version = j.version /\ n.pc = "check features" /\ n.own = j.own /\ n.found = found
        BY <1>2 DEF Working, Fields
    <2>3. Symbol(n) = Symbol(j) /\ Steps(n) = Steps(j) /\ FormulasOf(n) = FormulasOf(j)
        BY <2>2 DEF Symbol, Steps, FormulasOf
    <2>4. Filed(rows, found)
        BY <1>3, <1>4 DEF Filed
    <2>5. JobOk(rows, n)
        BY <1>1, <1>2, <1>3, <2>2, <2>3, <2>4 DEF JobOk, Working
    <2> QED
        BY <2>1, <2>5, OneJob DEF Snapshot, tables
<1> QED
    BY <1>7, <1>8, <1>9

LEMMA CheckFeaturesOk == ASSUME RegimeInv, NEW p \in Procs, CheckFeatures(p) PROVE RegimeInv'
<1> PICK j, new : j = job[p] /\ new = j.found
    OBVIOUS
<1>1. JobOk(rows, j) /\ j.pc = "check features"
    BY DEF RegimeInv, JobsInv, CheckFeatures
<1>2. Working(j)
    BY <1>1, BusyIsWorking
<1>3. /\ Filed(rows, new) /\ new.key.symbol = Symbol(j) /\ new.key.set = Steps(j) /\ new.key.asOf = j.request.asOf
      /\ new.key.formulas = FormulasOf(j)
    BY <1>1, <1>2 DEF JobOk, Working
<1>4. CASE Hits(new.key) = {}
    <2> PICK n : n = [j EXCEPT !.pc = "insert features"]
        OBVIOUS
    <2>1. job' = [job EXCEPT ![p] = n]
        BY <1>4 DEF CheckFeatures
    <2>2. /\ DOMAIN n = Fields /\ n.inputs = j.inputs /\ n.request = j.request /\ n.part = j.part
          /\ n.version = j.version /\ n.pc = "insert features" /\ n.own = j.own /\ n.found = new
        BY <1>2 DEF Working, Fields
    <2>3. Symbol(n) = Symbol(j) /\ Steps(n) = Steps(j) /\ FormulasOf(n) = FormulasOf(j)
        BY ONLY <2>2 DEF Symbol, Steps, FormulasOf
    <2>4. JobOk(rows, n)
        BY <1>1, <1>2, <1>3, <2>2, <2>3 DEF JobOk, Working
    <2> QED
        BY <2>1, <2>4, OneJob DEF CheckFeatures, tables
<1>5. ASSUME NEW fs \in Hits(new.key), Proceed(p, new.key, fs) PROVE RegimeInv'
    <2> PICK key : key = new.key
        OBVIOUS
    <2>1. Entered(rows, key.input, Symbol(j), Steps(j), j.request.asOf) /\ Explained(FormulasOf(j), fs, key.input)
        BY <1>3, HitsAre DEF Filed
    <2>2. JobOk(rows, Proceeding(j, key, fs))
        BY <1>1, <1>2, <2>1, ProceedingIsOk
    <2>3. job' = [job EXCEPT ![p] = Proceeding(j, key, fs)]
        BY <1>5 DEF Proceed, Proceeding
    <2> QED
        BY <2>2, <2>3, OneJob DEF CheckFeatures, tables
<1>6. ASSUME job' = [job EXCEPT ![p] = Idle] PROVE RegimeInv'
    <2>1. JobOk(rows, Idle)
        BY DEF JobOk
    <2> QED
        BY <1>6, <2>1, OneJob DEF CheckFeatures, tables
<1> QED
    BY <1>4, <1>5, <1>6 DEF CheckFeatures, Fails

LEMMA InsertFeaturesOk == ASSUME RegimeInv, NEW p \in Procs, InsertFeatures(p) PROVE RegimeInv'
<1> PICK j, new : j = job[p] /\ new = j.found
    OBVIOUS
<1>1. JobOk(rows, j) /\ j.pc = "insert features"
    BY DEF RegimeInv, JobsInv, InsertFeatures
<1>2. Working(j)
    BY <1>1, BusyIsWorking
<1>3. /\ Filed(rows, new) /\ new.key.symbol = Symbol(j) /\ new.key.set = Steps(j) /\ new.key.asOf = j.request.asOf
      /\ new.key.formulas = FormulasOf(j)
    BY <1>1, <1>2 DEF JobOk, Working
<1>4. CASE Hits(new.key) = {}
    <2> PICK key, fs : key = new.key /\ fs = new.features
        OBVIOUS
    <2>1. Entered(rows, key.input, Symbol(j), Steps(j), j.request.asOf) /\ Explained(FormulasOf(j), fs, key.input)
        BY <1>3 DEF Filed
    <2>2. JobOk(rows, Proceeding(j, key, fs))
        BY <1>1, <1>2, <2>1, ProceedingIsOk
    <2>3. job' = [job EXCEPT ![p] = Proceeding(j, key, fs)] /\ features' = features \cup {new}
        BY <1>4 DEF InsertFeatures, Proceed, Proceeding
    <2>4. \A x \in features' : x \in features \/ Filed(rows, x)
        BY <1>3, <2>3
    <2> QED
        BY <2>2, <2>3, <2>4, OneJob DEF InsertFeatures
<1>5. ASSUME job' = [job EXCEPT ![p] = Idle], UNCHANGED features PROVE RegimeInv'
    <2>1. JobOk(rows, Idle)
        BY DEF JobOk
    <2> QED
        BY <1>5, <2>1, OneJob DEF InsertFeatures
<1> QED
    BY <1>4, <1>5 DEF InsertFeatures, Fails

LEMMA ResultIs ==
    ASSUME NEW table, NEW j, JobOk(table, j), j.pc \in {"check regime", "insert regime"},
           NEW x, x = [key |-> RegimeKey(j), request |-> j.request, snapshot |-> Result(j)]
    PROVE  RegimeOk(table, x) /\ Classified(table, x, j.own, j.btc, j.version) /\ x.request \in Requests
<1>1. Working(j)
    BY BusyIsWorking
<1>2. /\ HasOwn(FormulasOf(j), table, j.request, j.own, j.inputs.own)
      /\ HasBtc(FormulasOf(j), table, j.request, j.btc, j.inputs.btc)
    BY <1>1 DEF JobOk, Working
<1>3. x.key.input[1] = j.inputs.own /\ x.key.input[2] = j.inputs.btc
    BY DEF RegimeKey
<1>4. Classified(table, x, j.own, j.btc, j.version)
    BY <1>2, <1>3 DEF Classified, Result, FormulasOf
<1>5. x.key.symbol = x.request.symbol /\ x.key.base = x.request.base /\ x.key.asOf = x.request.asOf
    BY DEF RegimeKey
<1> QED
    BY <1>1, <1>4, <1>5 DEF RegimeOk, Working

LEMMA RegimeStepsOk ==
    ASSUME RegimeInv, NEW p \in Procs, CheckRegime(p) \/ InsertRegime(p) \/ Leave(p)
    PROVE  RegimeInv'
<1> PICK j : j = job[p]
    OBVIOUS
<1>1. JobOk(rows, j)
    BY DEF RegimeInv, JobsInv
<1>2. ASSUME job' = [job EXCEPT ![p] = Idle], rows' = rows, version' = version, UNCHANGED features,
             \A x \in regimes' : x \in regimes \/ RegimeOk(rows, x)
      PROVE  RegimeInv'
    <2>1. JobOk(rows, Idle)
        BY DEF JobOk
    <2> QED
        BY <1>2, <2>1, OneJob
<1>3. CASE CheckRegime(p)
    <2>1. j.pc = "check regime" /\ UNCHANGED <<rows, version, features, regimes>>
        BY <1>3 DEF CheckRegime, tables
    <2>2. CASE job' = [job EXCEPT ![p].pc = "insert regime"]
        <3> PICK n : n = [j EXCEPT !.pc = "insert regime"]
            OBVIOUS
        <3>1. job' = [job EXCEPT ![p] = n]
            BY <2>2
        <3>2. Working(j)
            BY <1>1, <2>1, BusyIsWorking
        <3>3. /\ DOMAIN n = Fields /\ n.inputs = j.inputs /\ n.request = j.request /\ n.part = j.part
              /\ n.version = j.version /\ n.pc = "insert regime" /\ n.own = j.own /\ n.btc = j.btc
            BY <3>2 DEF Working, Fields
        <3>4. JobOk(rows, n)
            BY <1>1, <2>1, <3>2, <3>3 DEF JobOk, Working, FormulasOf
        <3> QED
            BY <2>1, <3>1, <3>4, OneJob
    <2>3. CASE job' = [job EXCEPT ![p] = Idle]
        BY <1>2, <2>1, <2>3
    <2> QED
        BY <1>3, <2>2, <2>3 DEF CheckRegime, Fails
<1>4. CASE InsertRegime(p)
    <2> PICK x : x = [key |-> RegimeKey(j), request |-> j.request, snapshot |-> Result(j)]
        OBVIOUS
    <2>1. j.pc = "insert regime" /\ UNCHANGED <<rows, version, features>>
        BY <1>4 DEF InsertRegime
    <2>2. RegimeOk(rows, x)
        BY <1>1, <2>1, ResultIs
    <2>3. job' = [job EXCEPT ![p] = Idle] /\ (regimes' = regimes \/ regimes' = regimes \cup {x})
        BY <1>4 DEF InsertRegime, Fails
    <2> QED
        BY <1>2, <2>1, <2>2, <2>3
<1>5. CASE Leave(p)
    BY <1>2, <1>5 DEF Leave, tables
<1> QED
    BY <1>3, <1>4, <1>5

LEMMA NextRegime == RegimeInv /\ [Next]_vars => RegimeInv'
<1> SUFFICES ASSUME RegimeInv, [Next]_vars PROVE RegimeInv'
    OBVIOUS
<1>1. CASE UNCHANGED vars
    BY <1>1 DEF vars, tables, RegimeInv, TypesInv, JobsInv, StoresInv
<1>2. CASE Upgrade
    BY <1>2 DEF Upgrade, tables, RegimeInv, TypesInv, JobsInv, StoresInv
<1> QED
    BY <1>1, <1>2, DeliverOk, AnalyzeOk, ReadSeriesOk, SnapshotOk, CheckFeaturesOk, InsertFeaturesOk, RegimeStepsOk
       DEF Next

-----------------------------------------------------------------------------
(* The same inputs give the same regime. *)
Harmless(x) ==
    IF x.what = "regime"
    THEN x.stored.formulas = x.new.formulas => NoVersion(x.stored) = NoVersion(x.new)
    ELSE \A s \in DOMAIN x.new, f \in Names : NoSeverity(x.stored[s][f]) = NoSeverity(x.new[s][f])

LEMMA RefusedFeatures ==
    ASSUME RegimeInv, NEW p \in Procs, job[p].pc \in {"check features", "insert features"},
           NEW fs \in Hits(job[p].found.key),
           NEW x, x = [what |-> "features", stored |-> fs, new |-> job[p].found.features]
    PROVE  Harmless(x)
<1> PICK j : j = job[p]
    OBVIOUS
<1>1. JobOk(rows, j) /\ j.pc \in {"check features", "insert features"}
    BY DEF RegimeInv, JobsInv
<1>2. Working(j)
    BY <1>1, BusyIsWorking
<1> PICK key, gs : key = j.found.key /\ gs = j.found.features
    OBVIOUS
<1>3. Explained(key.formulas, gs, key.input)
    BY <1>1, <1>2 DEF JobOk, Working, Filed
<1>4. Explained(key.formulas, fs, key.input)
    BY HitsAre
<1>5. \A s \in DOMAIN gs, f \in Names :
        IsFeature(fs[s][f]) /\ IsFeature(gs[s][f]) /\ SameFeature(fs[s][f], gs[s][f])
    <2>1. \A s \in DOMAIN gs, f \in Names :
            IsFeature(gs[s][f]) /\ IsFeature(fs[s][f]) /\ SameFeature(gs[s][f], fs[s][f])
        <3> PICK c, input : c = key.formulas /\ input = key.input
            OBVIOUS
        <3>1. Explained(c, gs, input) /\ Explained(c, fs, input)
            BY <1>3, <1>4
        <3> QED
            BY ONLY <3>1, SameExplained
    <2> QED
        BY <2>1 DEF SameFeature
<1>6. x.what = "features" /\ x.stored = fs /\ x.new = gs
    OBVIOUS
<1>7. ASSUME NEW s \in DOMAIN gs, NEW f \in Names
      PROVE  NoSeverity(fs[s][f]) = NoSeverity(gs[s][f])
    BY <1>5, SameButSeverity
<1> QED
    BY <1>6, <1>7 DEF Harmless

LEMMA RefusedRegime ==
    ASSUME RegimeInv, NEW p \in Procs, job[p].pc \in {"check regime", "insert regime"},
           NEW old \in Stored(RegimeKey(job[p])),
           NEW x, x = [what |-> "regime", stored |-> old, new |-> Result(job[p])]
    PROVE  Harmless(x)
<1> PICK j : j = job[p]
    OBVIOUS
<1>1. JobOk(rows, j) /\ j.pc \in {"check regime", "insert regime"}
    BY DEF RegimeInv, JobsInv
<1> PICK a : a = [key |-> RegimeKey(j), request |-> j.request, snapshot |-> Result(j)]
    OBVIOUS
<1>2. RegimeOk(rows, a) /\ Classified(rows, a, j.own, j.btc, j.version) /\ a.request \in Requests
    BY <1>1, ResultIs
<1>3. PICK b \in regimes : b.key = RegimeKey(j) /\ b.snapshot = old
    BY DEF Stored
<1>4. RegimeOk(rows, b)
    BY DEF RegimeInv, StoresInv
<1>5. PICK own, btc : \E v \in Versions : Classified(rows, b, own, btc, v)
    BY <1>4 DEF RegimeOk
<1> PICK v \in Versions : Classified(rows, b, own, btc, v)
    BY <1>5
<1> PICK r, q : r = b.request /\ q = a.request
    OBVIOUS
<1>6. a.key = b.key /\ a.snapshot = Result(j)
    BY <1>3
<1>7. r \in Requests /\ q \in Requests /\ r.symbol = q.symbol /\ r.base = q.base /\ r.asOf = q.asOf
    BY <1>2, <1>4, <1>6 DEF RegimeOk
<1> PICK input, back : input = b.key.input[1] /\ back = b.key.input[2]
    OBVIOUS
<1>8. /\ b.snapshot = Classify(r, own, btc, v) /\ a.snapshot = Classify(q, j.own, j.btc, j.version)
      /\ HasOwn(Formulas[v], rows, r, own, input) /\ HasOwn(Formulas[j.version], rows, q, j.own, input)
      /\ HasBtc(Formulas[v], rows, r, btc, back) /\ HasBtc(Formulas[j.version], rows, q, j.btc, back)
    BY <1>2, <1>5, <1>6 DEF Classified
<1>9. ASSUME Formulas[v] = Formulas[j.version]
      PROVE  NoVersion(Classify(r, own, btc, v)) = NoVersion(Classify(q, j.own, j.btc, j.version))
    <2> PICK other, second, w, c : other = j.own /\ second = j.btc /\ w = j.version /\ c = Formulas[v]
        OBVIOUS
    <2>1. /\ HasOwn(c, rows, r, own, input) /\ HasOwn(c, rows, q, other, input)
          /\ HasBtc(c, rows, r, btc, back) /\ HasBtc(c, rows, q, second, back)
          /\ Formulas[v] = Formulas[w]
        BY <1>8, <1>9
    <2>2. NoVersion(Classify(r, own, btc, v)) = NoVersion(Classify(q, other, second, w))
        BY ONLY <1>7, <2>1, SameSnapshot
    <2> QED
        BY <2>2
<1>10. b.snapshot.formulas = Formulas[v] /\ a.snapshot.formulas = Formulas[j.version]
    <2> PICK other, second, w : other = j.own /\ second = j.btc /\ w = j.version
        OBVIOUS
    <2>1. b.snapshot = Classify(r, own, btc, v) /\ a.snapshot = Classify(q, other, second, w)
        BY <1>8
    <2>2. b.snapshot.formulas = Formulas[v]
        BY ONLY <2>1 DEF Classify
    <2>3. a.snapshot.formulas = Formulas[w]
        BY ONLY <2>1 DEF Classify
    <2> QED
        BY <2>2, <2>3
<1>11. x.what = "regime" /\ x.stored = b.snapshot /\ x.new = a.snapshot
    BY <1>3, <1>6
<1> QED
    BY <1>8, <1>9, <1>10, <1>11 DEF Harmless

LEMMA NextRefused ==
    ASSUME RegimeInv, SameInputsSameRegime, [Next]_vars
    PROVE  SameInputsSameRegime'
<1>1. SameInputsSameRegime <=> \A x \in refused : Harmless(x)
    BY DEF SameInputsSameRegime, Harmless, NoVersion, NoSeverity
<1>2. SameInputsSameRegime' <=> \A x \in refused' : Harmless(x)
    BY DEF SameInputsSameRegime, Harmless, NoVersion, NoSeverity
<1>3. ASSUME NEW p \in Procs, CheckFeatures(p) \/ InsertFeatures(p)
      PROVE  \A x \in refused' : x \in refused \/ Harmless(x)
    <2>1. job[p].pc \in {"check features", "insert features"}
        BY <1>3 DEF CheckFeatures, InsertFeatures
    <2>2. \/ UNCHANGED refused
          \/ \E fs \in Hits(job[p].found.key) :
                refused' = refused \cup {[what |-> "features", stored |-> fs, new |-> job[p].found.features]}
        BY <1>3 DEF CheckFeatures, InsertFeatures, Fails
    <2> QED
        BY <2>1, <2>2, RefusedFeatures
<1>4. ASSUME NEW p \in Procs, CheckRegime(p) \/ InsertRegime(p) PROVE \A x \in refused' : x \in refused \/ Harmless(x)
    <2>1. job[p].pc \in {"check regime", "insert regime"}
        BY <1>4 DEF CheckRegime, InsertRegime
    <2>2. \/ UNCHANGED refused
          \/ \E old \in Stored(RegimeKey(job[p])) :
                refused' = refused \cup {[what |-> "regime", stored |-> old, new |-> Result(job[p])]}
        BY <1>4 DEF CheckRegime, InsertRegime, Fails
    <2> QED
        BY <2>1, <2>2, RefusedRegime
<1>5. ASSUME UNCHANGED refused PROVE \A x \in refused' : x \in refused \/ Harmless(x)
    BY <1>5
<1>6. \A x \in refused' : x \in refused \/ Harmless(x)
    BY <1>3, <1>4, <1>5 DEF Next, vars, Deliver, Upgrade, Analyze, ReadSeries, Snapshot, Leave
<1> QED
    BY <1>1, <1>2, <1>6

\* A save is refused only for other formulas, for the version, for somebody who was
\* faster or for the severity of a gap in front of the windows: two analyses with one
\* key by the same formulas, cached or not, before or after a gap was filled, never
\* disagree about the regime, and cached features are never those of other formulas.
THEOREM OneRegimePerKey == Spec => []SameInputsSameRegime
<1>1. Init => RegimeInv /\ SameInputsSameRegime
    BY InitRegime DEF Init, SameInputsSameRegime
<1>2. RegimeInv /\ SameInputsSameRegime /\ [Next]_vars => (RegimeInv /\ SameInputsSameRegime)'
    BY NextRegime, NextRefused
<1> QED
    BY <1>1, <1>2, PTL DEF Spec

-----------------------------------------------------------------------------
(* A regime has its whole windows. *)
LEMMA KnownIsRuled ==
    ASSUME NEW fs, NEW step, NEW asOf, ClassifyTimeframe(fs, step, asOf).regime # "unknown"
    PROVE  /\ ClassifyTimeframe(fs, step, asOf).quality = "valid"
           /\ ClassifyTimeframe(fs, step, asOf).through = Floor(asOf, step)
           /\ \A f \in Required : fs[f].status = "value"
<1> PICK bad, r : bad = Bad(fs) /\ r = ClassifyTimeframe(fs, step, asOf)
    OBVIOUS
<1> PICK wrong, missing, votes, ratio, slope, atr, through :
       /\ wrong = Wrong(fs) /\ missing = Missing(fs) /\ votes = Votes(fs) /\ ratio = fs["ratio"].value
       /\ slope = fs["slope"].value /\ atr = fs["atr"].value /\ through = Floor(asOf, step)
    OBVIOUS
<1>1. r = Ruling(bad, wrong, missing, votes, ratio, slope, atr, through)
    BY RulingIs
<1>2. bad = {}
    BY <1>1 DEF Ruling, Unknown
<1>3. r.quality = "valid" /\ r.through = through
    BY <1>1, <1>2 DEF Ruling, Unknown
<1> QED
    BY <1>2, <1>3 DEF Bad

LEMMA FloorIs ==
    ASSUME NEW t \in Int, NEW step \in Nat \ {0}
    PROVE  Floor(t, step) \in Int /\ Floor(t, step) <= t /\ Floor(t, step) + step > t
BY DEF Floor

\* The window as the regimes count it.
LEMMA CountedBack ==
    ASSUME NEW step \in Nat \ {0}, NEW through \in Int, NEW times, NEW need \in Nat,
           \A k \in Nat : k < need => through - step - k * step \in times
    PROVE  \A k \in 1..need : through - k * step \in times
<1> SUFFICES ASSUME NEW k \in 1..need PROVE through - k * step \in times
    OBVIOUS
<1>1. k - 1 \in Nat /\ k - 1 < need
    OBVIOUS
<1>2. through - step - (k - 1) * step \in times
    BY <1>1
<1>3. (k - 1) * step = k * step - step /\ k * step \in Int
    OBVIOUS
<1>4. through - step - (k - 1) * step = through - k * step
    BY <1>3
<1> QED
    BY <1>2, <1>4

LEMMA TimeframeIsGrounded ==
    ASSUME TypesInv, NEW c \in Catalogs, NEW input, NEW symbol, NEW steps, NEW asOf \in Int,
           Entered(rows, input, symbol, steps, asOf), NEW fs, Explained(c, fs, input),
           NEW step \in steps, step \in Nat \ {0},
           NEW r, r = ClassifyTimeframe(fs[step], step, asOf), r.regime # "unknown"
    PROVE  /\ r.quality = "valid" /\ r.through + step > asOf /\ r.through <= asOf
           /\ Grounded(c, <<symbol, step>>, r.through)
<1>1. r.quality = "valid" /\ r.through = Floor(asOf, step) /\ \A f \in Required : fs[step][f].status = "value"
    BY KnownIsRuled
<1>2. PICK f \in Required : Max(NeedsOf(c, Required)) = Need[c][f]
    BY Needs
<1>3. PICK y \in input : y[2] = step
    BY DEF Entered
<1> PICK times, e, opens : times = y[4] /\ e = Floor(asOf, step) - step /\ opens = Opens(rows, <<symbol, step>>)
    OBVIOUS
<1>4. y[1] = symbol /\ y[3] = asOf /\ times \subseteq opens /\ \A t \in times : t + step <= asOf
    BY <1>3 DEF Entered
<1>5. f \in Names /\ Need[c][f] \in Nat
    BY Needs DEF Names
<1>6. SameFeature(fs[step][f], Meant(c, y, f))
    BY <1>3, <1>5 DEF Explained
<1> PICK m, a : m = Meant(c, y, f) /\ a = Assess(Validated(times, step, e), Need[c][f])
    OBVIOUS
<1>7. m.status = "value"
    BY <1>1, <1>6 DEF SameFeature
<1>8. m = Evaluate(c, <<symbol, step>>, Validated(times, step, e), f)
    BY <1>3, <1>4 DEF Meant
<1>9. a.status = "value"
    BY <1>7, <1>8 DEF Evaluate
<1>10. opens \subseteq Int /\ IsFiniteSet(opens) /\ \A t \in opens : t % step = 0
    <2> PICK series : series = <<symbol, step>>
        OBVIOUS
    <2>1. opens = Opens(rows, series) /\ series[2] = step
        OBVIOUS
    <2> QED
        BY <2>1, OpensAre DEF TypesInv
<1>11. times \subseteq Int /\ IsFiniteSet(times)
    BY <1>4, <1>10, Fewer
<1> PICK need : need = Need[c][f]
    OBVIOUS
<1>12. \A k \in Nat : k < need => Floor(asOf, step) - step - k * step \in times
    <2>1. \A t \in times : t % step = 0 /\ t + step <= asOf
        BY <1>4, <1>10
    <2>2. Assess(Validated(times, step, Floor(asOf, step) - step), need).status = "value"
        BY <1>9
    <2> QED
        BY <1>5, <1>11, <2>1, <2>2, WindowIsThere
<1>13. Floor(asOf, step) \in Int /\ Floor(asOf, step) <= asOf /\ Floor(asOf, step) + step > asOf
    BY FloorIs
<1>14. \A k \in 1..need : Floor(asOf, step) - k * step \in times
    BY <1>5, <1>12, <1>13, CountedBack
<1>15. Grounded(c, <<symbol, step>>, Floor(asOf, step))
    <2>1. Max({Need[c][g] : g \in Required}) = need
        BY <1>2 DEF NeedsOf
    <2>2. times \subseteq Rows(<<symbol, step>>)
        BY <1>4 DEF Opens, Rows
    <2> QED
        BY <1>14, <2>1, <2>2 DEF Grounded
<1> QED
    BY <1>1, <1>13, <1>15

\* Two trends are two timeframes.
RegimesIn(a) == {a[s].regime : s \in DOMAIN a}

LEMMA AlignmentIsTrue ==
    ASSUME NEW a, IsFiniteSet(DOMAIN a), NEW of, of = RegimesIn(a)
    PROVE  /\ MtfAlignment(a) = "aligned" => Cardinality(of) = 1 /\ of \subseteq Trends
           /\ Trends \subseteq of => MtfAlignment(a) = "conflict"
<1>1. MtfAlignment(a) = "aligned" => Cardinality(of) = 1 /\ of \subseteq Trends
    BY DEF MtfAlignment, RegimesIn
<1>2. ASSUME Trends \subseteq of PROVE Cardinality(DOMAIN a) # 1
    <2>1. PICK s \in DOMAIN a, t \in DOMAIN a : a[s].regime = "trending_up" /\ a[t].regime = "trending_down"
        BY <1>2 DEF Trends, RegimesIn
    <2>2. s # t
        BY <2>1
    <2>3. IsFiniteSet({s}) /\ Cardinality({s}) = 1 /\ {s} \subseteq DOMAIN a /\ {s} # DOMAIN a
        BY <2>2, FS_Singleton
    <2> PICK one, all : one = {s} /\ all = DOMAIN a
        OBVIOUS
    <2>4. Cardinality(one) < Cardinality(all) /\ Cardinality(all) \in Nat
        BY <2>3, Fewer
    <2> QED
        BY <2>3, <2>4
<1> QED
    BY <1>1, <1>2 DEF MtfAlignment, RegimesIn

GroundedSnapshot(x) ==
    LET r == x.snapshot
        of == {r.timeframes[s].regime : s \in DOMAIN r.timeframes}
    IN  /\ \A s \in DOMAIN r.timeframes :
             r.timeframes[s].regime # "unknown" =>
                 /\ r.timeframes[s].quality = "valid"
                 /\ r.timeframes[s].through + s > x.request.asOf /\ r.timeframes[s].through <= x.request.asOf
                 /\ Grounded(r.formulas, <<x.request.symbol, s>>, r.timeframes[s].through)
        /\ r.btc.regime # "unknown" => r.btc.quality = "valid" /\ Grounded(r.formulas, <<Btc, BtcStep>>, r.btc.through)
        /\ r.alignment = "aligned" => Cardinality(of) = 1 /\ of \subseteq Trends
        /\ Trends \subseteq of => r.alignment = "conflict"

LEMMA ClassifiedIsGrounded ==
    ASSUME TypesInv, NEW x, RegimeOk(rows, x)
    PROVE  GroundedSnapshot(x)
<1>0. PICK own, btc : \E v \in Versions : Classified(rows, x, own, btc, v)
    BY DEF RegimeOk
<1>1. PICK v \in Versions : Classified(rows, x, own, btc, v)
    BY <1>0
<1> PICK c : c = Formulas[v]
    OBVIOUS
<1> PICK q, a, r, b : q = x.request /\ a = Results(q, own) /\ r = x.snapshot /\ b = BtcContext(q, a, btc)
    OBVIOUS
<1>2. q \in Requests /\ HasOwn(c, rows, q, own, x.key.input[1]) /\ HasBtc(c, rows, q, btc, x.key.input[2])
    BY <1>1 DEF Classified, RegimeOk
<1>3. r.timeframes = a /\ r.btc = b /\ r.alignment = MtfAlignment(a) /\ r.formulas = c /\ c \in Catalogs
    BY <1>1 DEF Classified, Classify, Results, Catalogs
<1>4. /\ IsFiniteSet(q.steps) /\ q.steps \subseteq Nat \ {0} /\ q.asOf \in Int /\ BtcStep \in Nat \ {0}
      /\ q.symbol = Btc => BtcStep \in q.steps
    BY <1>2, RegimeAssumption
<1>5. DOMAIN a = q.steps /\ \A s \in q.steps : a[s] = ClassifyTimeframe(own[s], s, q.asOf)
    BY DEF Results
<1>6. ASSUME NEW s \in q.steps, a[s].regime # "unknown"
      PROVE  /\ a[s].quality = "valid" /\ a[s].through + s > q.asOf /\ a[s].through <= q.asOf
             /\ Grounded(c, <<q.symbol, s>>, a[s].through)
    <2> PICK input, symbol, steps, asOf, t :
            /\ input = x.key.input[1] /\ symbol = q.symbol /\ steps = q.steps /\ asOf = q.asOf /\ t = a[s]
        OBVIOUS
    <2>1. Entered(rows, input, symbol, steps, asOf) /\ Explained(c, own, input)
        BY <1>2 DEF HasOwn
    <2>2. t = ClassifyTimeframe(own[s], s, asOf) /\ t.regime # "unknown" /\ asOf \in Int /\ s \in steps /\ s \in Nat \ {0}
        BY <1>4, <1>5, <1>6
    <2>3. /\ t.quality = "valid" /\ t.through + s > asOf /\ t.through <= asOf
          /\ Grounded(c, <<symbol, s>>, t.through)
        BY <1>3, <2>1, <2>2, TimeframeIsGrounded
    <2> QED
        BY <2>3
<1>7. ASSUME b.regime # "unknown" PROVE b.quality = "valid" /\ Grounded(c, <<Btc, BtcStep>>, b.through)
    <2>1. CASE q.symbol = Btc
        <3> PICK t, status : /\ t = a[BtcStep]
                             /\ status = (IF t.quality = "valid" THEN "self" ELSE StatusFor(t.quality))
            OBVIOUS
        <3>1. b = Context(status, t)
            BY <2>1 DEF BtcContext
        <3>2. b.regime = t.regime /\ b.quality = t.quality /\ b.through = t.through
            BY <1>7, <3>1 DEF Context
        <3> QED
            BY <1>4, <1>6, <1>7, <2>1, <3>2
    <2>2. CASE q.symbol # Btc
        <3> PICK input, steps, asOf, t :
                /\ input = x.key.input[2] /\ steps = {BtcStep} /\ asOf = q.asOf
                /\ t = ClassifyTimeframe(btc[BtcStep], BtcStep, asOf)
            OBVIOUS
        <3>1. b = Context(StatusFor(t.quality), t)
            BY <2>2 DEF BtcContext
        <3>2. b.regime = t.regime /\ b.quality = t.quality /\ b.through = t.through
            BY <1>7, <3>1 DEF Context
        <3>3. Entered(rows, input, Btc, steps, asOf) /\ Explained(c, btc, input)
            BY <1>2, <2>2 DEF HasBtc
        <3>4. BtcStep \in steps /\ asOf \in Int /\ t.regime # "unknown"
            BY <1>4, <1>7, <3>2
        <3>5. t.quality = "valid" /\ Grounded(c, <<Btc, BtcStep>>, t.through)
            BY <1>3, <1>4, <3>3, <3>4, TimeframeIsGrounded
        <3> QED
            BY <3>2, <3>5
    <2> QED
        BY <2>1, <2>2
<1> PICK of : of = RegimesIn(a)
    OBVIOUS
<1>8. /\ MtfAlignment(a) = "aligned" => Cardinality(of) = 1 /\ of \subseteq Trends
      /\ Trends \subseteq of => MtfAlignment(a) = "conflict"
    BY <1>4, <1>5, AlignmentIsTrue
<1>9. of = {r.timeframes[s].regime : s \in DOMAIN r.timeframes}
    BY <1>3 DEF RegimesIn
<1> QED
    BY <1>3, <1>5, <1>6, <1>7, <1>8, <1>9 DEF GroundedSnapshot

LEMMA RegimesGrounded == ASSUME RegimeInv PROVE RegimesAreGrounded
<1>1. \A x \in regimes : GroundedSnapshot(x)
    BY ClassifiedIsGrounded DEF RegimeInv, StoresInv
<1> QED
    BY <1>1 DEF RegimesAreGrounded, GroundedSnapshot

-----------------------------------------------------------------------------
(* The views of a replay. *)
LEMMA NextOpens ==
    ASSUME NEW step \in Nat \ {0}, NEW t \in Int, t % step = 0
    PROVE  t + step \in Int /\ (t + step) % step = 0 /\ t < t + step
<1> PICK b \in Int : t = step * b
    BY t = step * (t \div step)
<1>1. t + step = step * (b + 1) /\ b + 1 \in Int
    OBVIOUS
<1>2. \A c \in Int : (step * c) % step = 0
    OBVIOUS
<1>3. (step * (b + 1)) % step = 0
    BY <1>1, <1>2
<1> QED
    BY <1>1, <1>3

LEMMA EmptyViews ==
    ASSUME NEW step, NEW last, NEW m, NEW t, NEW n \in Nat
    PROVE  ViewAgrees({}, step, last, m, t, n)
<1> PICK none : none = {}
    OBVIOUS
<1>1. \A times, i : times \subseteq none => Latest(times, i) = none
    BY DEF Latest
<1>2. \A end, i : LastRows(none, end, i) = none
    BY <1>1 DEF LastRows
<1>3. \A e : IsStale(none, e) = FALSE /\ Breaks(none, step) = none
    BY DEF IsStale, Breaks
<1>4. \A asOf : Prepare(none, step, asOf) = ASeries(none, step, Floor(asOf, step) - step, none)
    <2> TAKE asOf
    <2>1. {x \in none : x + step <= asOf} = none
        OBVIOUS
    <2> QED
        BY <1>3, <2>1 DEF Prepare, Validated, ASeries, Breaks
<1> PICK seen, e : seen = ASeries(none, step, Floor(last, step) - step, none) /\ e = Floor(t, step) - step
    OBVIOUS
<1>5. UpTo(seen, t) = ASeries(none, step, e, none)
    <2>1. none = Closed(none, step, t) /\ none \cap none = none
        BY DEF Closed
    <2>2. UpTo(ASeries(none, step, Floor(last, step) - step, none), t)
             = ASeries(none, step, Floor(t, step) - step, none \cap none)
        BY ONLY <2>1, UpToIs
    <2> QED
        BY ONLY <2>1, <2>2, seen = ASeries(none, step, Floor(last, step) - step, none), e = Floor(t, step) - step
<1> PICK upto : upto = UpTo(seen, t)
    OBVIOUS
<1>6. TailView(upto, n) = upto
    <2>1. upto.times = none
        BY <1>5 DEF ASeries
    <2>2. Cardinality(none) = 0
        BY FS_EmptySet
    <2>3. n >= Cardinality(upto.times)
        BY <2>1, <2>2
    <2> QED
        BY <2>3 DEF TailView
<1>7. seen = Prepare(LastRows(none, last, m), step, last) /\ upto = Prepare(LastRows(none, t, n), step, t)
    BY <1>2, <1>4, <1>5
<1> QED
    BY <1>6, <1>7 DEF ViewAgrees

LEMMA ViewsOfSeries ==
    ASSUME TypesInv, NEW c \in Catalogs, NEW series \in Series, NEW k \in 0..Lookback, NEW n \in 1..RequiredBars(c),
           NEW last, last = Max(Rows(series)) + series[2], NEW t, t = last - k * series[2]
    PROVE  ViewAgrees(Rows(series), series[2], last, RequiredBars(c) + Lookback, t, n)
<1> PICK there, step, most, back : there = Rows(series) /\ step = series[2] /\ most = RequiredBars(c) /\ back = Lookback
    OBVIOUS
<1>1. there \subseteq Int /\ IsFiniteSet(there) /\ \A x \in there : x % step = 0
    <2>1. there = Opens(rows, series)
        BY DEF Opens, Rows
    <2>2. Opens(rows, series) \subseteq Int /\ IsFiniteSet(Opens(rows, series))
          /\ \A x \in Opens(rows, series) : x % series[2] = 0
        BY OpensAre DEF TypesInv
    <2> QED
        BY <2>1, <2>2
<1>2. most \in Nat /\ back \in Nat /\ n \in Nat /\ n <= most /\ k \in Nat /\ k <= back /\ step \in Nat \ {0}
    BY Needs, RegimeAssumption
<1>3. CASE there = {}
    BY <1>2, <1>3, EmptyViews
<1>4. CASE there # {}
    <2>1. Max(there) \in there /\ \A x \in there : x <= Max(there)
        BY <1>1, <1>4, MaxIs
    <2> PICK m : m = Max(there)
        OBVIOUS
    <2>2. m \in Int /\ m % step = 0 /\ last = m + step
        BY <1>1, <2>1
    <2>3. last \in Int /\ last % step = 0 /\ m < last
        BY <1>2, <2>2, NextOpens
    <2>4. \A x \in there : x < last
        BY <1>1, <2>1, <2>2, <2>3
    <2>5. t = Earlier(last, k, step)
        BY DEF Earlier
    <2>6. ViewAgrees(there, step, last, most + back, t, n)
        BY ONLY <1>1, <1>2, <2>3, <2>4, <2>5, ViewIsSeries
    <2> QED
        BY <2>6
<1> QED
    BY <1>3, <1>4

LEMMA ViewsAgree == ASSUME TypesInv PROVE ViewsAreSeries
<1>1. \A v \in Versions : Formulas[v] \in Catalogs
    BY DEF Catalogs
<1> QED
    BY <1>1, ViewsOfSeries DEF ViewsAreSeries, ViewAgrees

\* A timeframe that has a regime has every bar of the window of every required
\* feature in the table, up to the last one closed at the decision, and no conflict
\* is hidden; the views a replay works on are what a service would have loaded.
THEOREM RegimesAreOfTheirTime == Spec => []PointInTime
<1>1. RegimeInv => PointInTime
    BY RegimesGrounded, ViewsAgree DEF PointInTime, RegimeInv
<1> QED
    BY <1>1, InitRegime, NextRegime, PTL DEF Spec
=============================================================================
