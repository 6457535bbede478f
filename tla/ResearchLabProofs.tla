--------------------------- MODULE ResearchLabProofs ---------------------------
(***************************************************************************)
(* Proofs about ResearchLab: labels of different splits stay apart, a rerun  *)
(* disagrees with what is stored only for the causes that are known, and     *)
(* what is derived from a dataset rests on its candles and usable segments.  *)
(***************************************************************************)
EXTENDS ResearchLab, TLAPS, FiniteSetTheorems, WellFoundedInduction, SequenceTheorems

-----------------------------------------------------------------------------
(* What a verdict of the data policy says of the bars. *)
LEMMA SmallestOf ==
    ASSUME NEW S, S \subseteq Nat, S # {}
    PROVE  \E k \in S : \A j \in S : k <= j
<1>1. \E k \in S : \A j \in S : ~(<<j, k>> \in OpToRel(<, Nat))
    BY WFMin, NatLessThanWellFounded
<1>2. \A j, k \in Nat : j < k => <<j, k>> \in OpToRel(<, Nat)
    BY DEF OpToRel
<1>3. \E k \in S : \A j \in S : ~(j < k)
    BY <1>1, <1>2
<1> QED
    BY <1>3

\* A smaller part has fewer elements.
LEMMA Fewer ==
    ASSUME NEW S, IsFiniteSet(S), NEW T, T \subseteq S
    PROVE  /\ IsFiniteSet(T) /\ Cardinality(T) \in Nat /\ Cardinality(S) \in Nat
           /\ Cardinality(T) <= Cardinality(S)
           /\ T # S => Cardinality(T) < Cardinality(S)
BY FS_Subset, FS_CardinalityType

\* The bar in front of a bar.
LEMMA BarBefore ==
    ASSUME NEW times, times \subseteq Int, IsFiniteSet(times),
           NEW t \in times, NEW first \in times, first < t
    PROVE  \E u \in times : IsBefore(times, u, t)
<1> DEFINE Between(u) == {v \in times : u < v /\ v < t}
           Counts == {n \in Nat : \E u \in times : u < t /\ n = Cardinality(Between(u))}
<1>1. \A u \in times : IsFiniteSet(Between(u)) /\ Cardinality(Between(u)) \in Nat
    BY Fewer
<1>2. PICK n \in Counts : \A m \in Counts : n <= m
    <2>1. Cardinality(Between(first)) \in Counts
        <3> HIDE DEF Between
        <3> QED
            BY <1>1
    <2>2. Counts \subseteq Nat /\ Counts # {}
        BY <2>1
    <2> HIDE DEF Counts
    <2> QED
        BY <2>2, SmallestOf
<1>3. PICK u \in times : u < t /\ n = Cardinality(Between(u))
    BY <1>2
<1>4. ASSUME NEW v \in times, ~(v <= u \/ t <= v)
      PROVE  FALSE
    <2>1. v \in Int /\ u \in Int /\ t \in Int /\ u < v /\ v < t
        BY <1>4
    <2>2. Between(v) \subseteq Between(u) /\ v \in Between(u) /\ v \notin Between(v)
        <3>1. \A x \in times : x \in Int
            OBVIOUS
        <3>2. \A x \in Int : v < x => u < x
            BY <2>1
        <3>3. Between(v) \subseteq Between(u)
            BY <3>1, <3>2
        <3>4. ~(v < v)
            BY <2>1
        <3> QED
            BY <2>1, <3>3, <3>4
    <2>3. Cardinality(Between(v)) \in Counts
        BY <1>1, <2>1
    <2>4. Cardinality(Between(v)) < Cardinality(Between(u))
        <3> HIDE DEF Between
        <3> QED
            BY <1>1, <2>2, Fewer
    <2> QED
        BY <1>1, <1>2, <1>3, <2>3, <2>4
<1> QED
    BY <1>3, <1>4 DEF IsBefore

(* The bars since the last break. *)
TailOf(s) == {t \in s.times : \A b \in s.breaks : b <= t}

\* Two of them: the later one follows a bar that is one of them, too.
LEMMA StepBack ==
    ASSUME NEW times, times \subseteq Int, IsFiniteSet(times), NEW step \in Nat \ {0}, NEW expected,
           NEW t \in TailOf(Validated(times, step, expected)),
           NEW u \in TailOf(Validated(times, step, expected)), u < t
    PROVE  /\ t - step \in TailOf(Validated(times, step, expected))
           /\ \A v \in times : v <= t - step \/ t <= v
<1> DEFINE breaks == {x \in times : \E y \in times : IsBefore(times, y, x) /\ x - y # step}
<1>1. TailOf(Validated(times, step, expected)) = {x \in times : \A b \in breaks : b <= x}
    BY DEF TailOf, Validated
<1>2. t \in times /\ u \in times /\ t \in Int /\ u \in Int /\ breaks \subseteq Int
    BY <1>1
<1>3. PICK p \in times : IsBefore(times, p, t)
    BY <1>2, BarBefore
<1>4. t \notin breaks
    BY <1>1, <1>2
<1>5. t - p = step /\ p \in Int
    BY <1>2, <1>3, <1>4
<1>6. p = t - step /\ u <= p
    BY <1>2, <1>3, <1>5 DEF IsBefore
<1>7. \A b \in breaks : b <= p
    BY <1>1, <1>2, <1>5, <1>6
<1> QED
    BY <1>1, <1>3, <1>6, <1>7 DEF IsBefore

\* As many of them as are asked for lie one step apart up to the last bar.
LEMMA TailIsContiguous ==
    ASSUME NEW times, times \subseteq Int, IsFiniteSet(times), NEW step \in Nat \ {0}, NEW expected,
           NEW last \in times, \A u \in times : u <= last,
           NEW need \in Nat, TailContiguous(Validated(times, step, expected)) >= need
    PROVE  \A k \in Nat : k < need => last - k * step \in times
<1> DEFINE tail == TailOf(Validated(times, step, expected))
           At(k) == last - k * step
           Holes == {k \in Nat : At(k) \notin tail}
<1>1. /\ tail \subseteq times /\ last \in tail /\ last \in Int
      /\ Cardinality(tail) >= need
    BY DEF TailOf, Validated, TailContiguous
<1>2. \A k \in Nat : At(k) \in Int /\ At(k + 1) = At(k) - step
    <2>1. \A k \in Nat : k * step \in Int /\ (k + 1) * step = k * step + step
        OBVIOUS
    <2> QED
        BY <1>1, <2>1
<1>3. At(0) = last
    <2>1. 0 * step = 0
        OBVIOUS
    <2> QED
        BY <1>1, <2>1
<1>4. \A t, u \in tail : u < t => t - step \in tail /\ \A v \in times : v <= t - step \/ t <= v
    BY StepBack
<1>5. ASSUME NEW hole \in Nat, hole < need, At(hole) \notin tail
      PROVE  FALSE
    <2> HIDE DEF tail, At
    <2>1. PICK k \in Holes : \A j \in Holes : k <= j
        BY <1>5, SmallestOf
    <2>2. k \in Nat /\ k # 0 /\ k - 1 \in Nat /\ k < need
        BY <1>1, <1>3, <1>5, <2>1
    <2>3. \A i \in Nat : i < k => At(i) \in tail
        BY <2>1
    <2>4. \A i \in Nat : At(i) \in Int
        BY <1>2
    <2>5. At(k) = At(k - 1) - step
        <3>1. (k - 1) + 1 = k
            BY <2>2
        <3> QED
            BY <1>2, <2>2, <3>1
    <2>6. \A u \in tail : At(k - 1) <= u
        <3> SUFFICES ASSUME NEW u \in tail, u < At(k - 1) PROVE FALSE
            BY <1>1, <2>2, <2>4
        <3>1. At(k - 1) - step \in tail
            BY <1>4, <2>2, <2>3
        <3> QED
            BY <2>1, <2>5, <3>1
    <2>7. \A u \in tail : \E i \in 0..(k - 1) : u = At(i)
        <3> SUFFICES ASSUME NEW u \in tail PROVE \E i \in 0..(k - 1) : u = At(i)
            OBVIOUS
        <3> DEFINE Below == {i \in Nat : At(i) <= u}
        <3>1. k - 1 \in Below
            BY <2>2, <2>6
        <3>2. PICK i \in Below : \A j \in Below : i <= j
            BY <3>1, SmallestOf
        <3>3. i \in 0..(k - 1) /\ At(i) <= u /\ u \in Int
            BY <1>1, <2>2, <3>1, <3>2
        <3>4. ASSUME At(i) < u PROVE FALSE
            <4>1. i # 0
                BY <1>1, <1>3, <3>3, <3>4
            <4>2. i - 1 \in Nat /\ (i - 1) + 1 = i /\ i - 1 < k
                BY <3>3, <4>1
            <4>3. i - 1 \notin Below
                BY <3>2, <4>2
            <4>4. At(i - 1) \in tail /\ u < At(i - 1)
                BY <2>3, <2>4, <3>3, <4>2, <4>3
            <4>5. u <= At(i - 1) - step \/ At(i - 1) <= u
                BY <1>1, <1>4, <4>4
            <4>6. At(i) = At(i - 1) - step
                BY <1>2, <4>2
            <4> QED
                BY <2>4, <3>3, <3>4, <4>2, <4>4, <4>5, <4>6
        <3> QED
            BY <2>4, <3>3, <3>4
    <2> DEFINE all == {At(i) : i \in 0..(k - 1)}
               f == [i \in 0..(k - 1) |-> At(i)]
    <2>8. tail \subseteq all
        BY <2>7
    <2>9. f \in Surjection(0..(k - 1), all)
        BY DEF Surjection
    <2>10. IsFiniteSet(0..(k - 1)) /\ Cardinality(0..(k - 1)) = k
        <3> DEFINE top == k - 1
        <3>1. 0 \in Int /\ top \in Int /\ ~(0 > top) /\ top - 0 + 1 = k
            BY <2>2
        <3> HIDE DEF top
        <3>2. IsFiniteSet(0..top) /\ Cardinality(0..top) = k
            BY <3>1, FS_Interval
        <3> QED
            BY <3>2 DEF top
    <2>11. IsFiniteSet(all) /\ Cardinality(all) <= k
        <3> HIDE DEF f, all
        <3> QED
            BY <2>9, <2>10, FS_Surjection
    <2>12. Cardinality(tail) <= Cardinality(all) /\ Cardinality(tail) \in Nat /\ Cardinality(all) \in Nat
        BY <2>8, <2>11, Fewer
    <2> QED
        BY <1>1, <2>2, <2>11, <2>12
<1> QED
    BY <1>1, <1>5

(* A verdict. *)
LEMMA ValueMeans ==
    ASSUME NEW s, NEW need, Assess(s, need).status = "value"
    PROVE  s.times # {} /\ ~s.stale /\ TailContiguous(s) >= need
BY DEF Assess, Verdict

\* A run of bars that ends with a bar lies in a segment of at least its length.
LEMMA RunLiesInSegment ==
    ASSUME NEW lo \in Int, NEW hi \in Int, NEW rows, rows \subseteq lo..hi,
           NEW t \in rows, NEW need \in Nat, \A k \in Nat : k < need => t - k \in rows
    PROVE  \E s \in Segments(rows, 1, need) : /\ s.usable /\ s.start \in Int /\ s.finish \in Int
                                             /\ s.start + need <= t + 1 /\ t < s.finish
<1> DEFINE Back == {d \in Nat : t - d \notin rows}
           Onward == {d \in Nat : t + d \notin rows}
<1>1. t \in Int /\ lo <= t /\ t <= hi
    OBVIOUS
<1>2. PICK d \in Back : \A e \in Back : d <= e
    <2>1. t - lo + 1 \in Back
        BY <1>1
    <2> QED
        BY <2>1, SmallestOf
<1>3. PICK e \in Onward : \A f \in Onward : e <= f
    <2>1. hi - t + 1 \in Onward
        BY <1>1
    <2> QED
        BY <2>1, SmallestOf
<1>4. /\ d \in Nat /\ d # 0 /\ t - d \notin rows /\ need <= d
      /\ e \in Nat /\ e # 0 /\ t + e \notin rows
    BY <1>1, <1>2, <1>3
<1>5. /\ \A k \in Nat : k < d => t - k \in rows
      /\ \A k \in Nat : k < e => t + k \in rows
    BY <1>2, <1>3
<1> DEFINE start == t - (d - 1)
           whole == (d - 1) + e
           Fits(n) == /\ \A k \in 0..(n - 1) : start + k * 1 \in rows
                      /\ start + n * 1 \notin rows
           length == CHOOSE n \in 1..Cardinality(rows) : Fits(n)
<1>6. /\ start \in rows /\ start - 1 \notin rows /\ start \in Int /\ whole \in Nat
    <2>1. d - 1 \in Nat /\ d - 1 < d
        BY <1>4
    <2> QED
        BY <1>1, <1>4, <1>5, <2>1
<1>7. \A k \in Int : k * 1 = k
    OBVIOUS
<1>8. Fits(whole)
    <2>1. \A k \in 0..(whole - 1) : start + k \in rows
        <3> SUFFICES ASSUME NEW k \in 0..(whole - 1) PROVE start + k \in rows
            OBVIOUS
        <3>1. CASE k < d
            <4>1. (d - 1) - k \in Nat /\ (d - 1) - k < d /\ t - ((d - 1) - k) = start + k
                BY <1>1, <1>4, <3>1
            <4>2. t - ((d - 1) - k) \in rows
                BY <1>5, <4>1
            <4> QED
                BY <4>1, <4>2
        <3>2. CASE ~(k < d)
            <4>1. k - (d - 1) \in Nat /\ k - (d - 1) < e /\ t + (k - (d - 1)) = start + k
                BY <1>1, <1>4, <3>2
            <4>2. t + (k - (d - 1)) \in rows
                BY <1>5, <4>1
            <4> QED
                BY <4>1, <4>2
        <3> QED
            BY <3>1, <3>2
    <2>2. start + whole = t + e
        BY <1>1, <1>4
    <2>3. start + whole \notin rows
        BY <1>4, <2>2
    <2> HIDE DEF start, whole
    <2> QED
        BY <1>6, <1>7, <2>1, <2>3
<1>9. whole \in 1..Cardinality(rows)
    <2> DEFINE part == start..(t + e - 1)
    <2>1. part \subseteq rows
        <3> SUFFICES ASSUME NEW x \in part PROVE x \in rows
            OBVIOUS
        <3>1. x - start \in 0..(whole - 1) /\ start + (x - start) * 1 = x
            BY <1>1, <1>4
        <3> QED
            BY <1>8, <3>1
    <2>2. IsFiniteSet(part) /\ Cardinality(part) = whole
        <3> DEFINE top == t + e - 1
        <3>1. start \in Int /\ top \in Int /\ ~(start > top) /\ top - start + 1 = whole
            BY <1>1, <1>4
        <3> HIDE DEF start, top, whole
        <3>2. IsFiniteSet(start..top) /\ Cardinality(start..top) = whole
            BY <3>1, FS_Interval
        <3> QED
            BY <3>2 DEF top
    <2>3. IsFiniteSet(rows)
        BY FS_Interval, Fewer
    <2> HIDE DEF part
    <2>4. Cardinality(part) <= Cardinality(rows) /\ Cardinality(rows) \in Nat
        BY <2>1, <2>3, Fewer
    <2> QED
        BY <1>4, <2>2, <2>4
<1> HIDE DEF whole
<1>10. length \in 1..Cardinality(rows) /\ Fits(length)
    <2> HIDE DEF Fits
    <2> QED
        BY <1>8, <1>9
<1> HIDE DEF length
<1>11. length \in Nat /\ start + length \notin rows
    BY <1>6, <1>7, <1>10
<1>12. length >= d
    <2> SUFFICES ASSUME length < d PROVE FALSE
        BY <1>4, <1>11
    <2>1. (d - 1) - length \in Nat /\ (d - 1) - length < d /\ t - ((d - 1) - length) = start + length
        BY <1>1, <1>4, <1>11
    <2>2. t - ((d - 1) - length) \in rows
        BY <1>5, <2>1
    <2> QED
        BY <1>11, <2>1, <2>2
<1>13. [start |-> start, finish |-> start + length * 1, usable |-> length >= need] \in Segments(rows, 1, need)
    BY <1>6 DEF Segments, length
<1>14. start + length * 1 = start + length
    BY <1>6, <1>11
<1>15. start + need <= t + 1 /\ t < start + length /\ length >= need /\ start \in Int /\ start + length \in Int
    BY <1>1, <1>4, <1>11, <1>12
<1> HIDE DEF start
<1> QED
    BY <1>13, <1>14, <1>15

\* The last bar of a timeframe that is closed at a moment.
LEMMA LastClosed ==
    ASSUME NEW step \in Nat \ {0}, NEW asOf \in Int, NEW t \in Int, t % step = 0, t + step <= asOf
    PROVE  Floor(asOf, step) - step \in Int /\ t <= Floor(asOf, step) - step
<1> DEFINE q == asOf \div step  r == asOf % step  a == t \div step
<1>1. /\ q \in Int /\ r \in 0..(step - 1) /\ asOf = step * q + r
      /\ a \in Int /\ t = step * a
    OBVIOUS
<1> HIDE DEF q, r, a
<1>2. \A m \in Nat \ {0} : \A x, y \in Int : m * x < m * y + m => x <= y
    <2> SUFFICES ASSUME NEW m \in Nat \ {0}, NEW x \in Int, NEW y \in Int, m * x < m * y + m, x > y
                 PROVE  FALSE
        OBVIOUS
    <2>1. m * (x - y) < m /\ x - y >= 1
        <3>1. m * (x - y) = m * x - m * y /\ m * x \in Int /\ m * y \in Int
            OBVIOUS
        <3> QED
            BY <3>1
    <2>2. \A d \in Nat : d >= 1 => m * d >= m
        OBVIOUS
    <2> QED
        BY <2>1, <2>2
<1>3. step * (a + 1) = step * a + step /\ step * a \in Int /\ step * q \in Int
      /\ step * (q - 1) = step * q - step
    BY <1>1
<1>4. step * (a + 1) < step * q + step
    BY <1>1, <1>3
<1>5. a + 1 <= q
    BY <1>1, <1>2, <1>4
<1>6. \A m \in Nat : \A x, y \in Int : x <= y => m * x <= m * y
    <2> SUFFICES ASSUME NEW m \in Nat, NEW x \in Int, NEW y \in Int, x <= y PROVE m * x <= m * y
        OBVIOUS
    <2>1. y - x \in Nat /\ m * (y - x) \in Nat /\ m * (y - x) = m * y - m * x
        OBVIOUS
    <2>2. m * x \in Int /\ m * y \in Int
        OBVIOUS
    <2> QED
        BY <2>1, <2>2
<1>7. step * (a + 1) <= step * q
    BY <1>1, <1>5, <1>6
<1>8. Floor(asOf, step) = step * q
    BY <1>1, <1>3 DEF Floor, r
<1> QED
    BY <1>1, <1>3, <1>7, <1>8

\* A series that has a value has every bar of the window, up to the last one closed.
LEMMA WindowIsThere ==
    ASSUME NEW times, times \subseteq Int, IsFiniteSet(times), NEW step \in Nat \ {0}, NEW asOf \in Int,
           \A t \in times : t % step = 0 /\ t + step <= asOf, NEW need \in Nat,
           Assess(Validated(times, step, Floor(asOf, step) - step), need).status = "value"
    PROVE  \A k \in Nat : k < need => Floor(asOf, step) - step - k * step \in times
<1> DEFINE expected == Floor(asOf, step) - step
           s == Validated(times, step, expected)
<1>3. \A t \in times : t <= expected /\ expected \in Int
    BY LastClosed
<1> HIDE DEF expected
<1>4. s.times = times /\ s.stale = IsStale(times, expected)
    BY DEF Validated
<1>5. times # {} /\ ~IsStale(times, expected) /\ TailContiguous(s) >= need
    <2>1. Assess(s, need).status = "value"
        BY DEF expected
    <2> HIDE DEF s
    <2> QED
        BY <1>4, <2>1, ValueMeans
<1>6. expected \in times /\ \A u \in times : u <= expected
    BY <1>3, <1>5 DEF IsStale
<1>7. \A k \in Nat : k < need => expected - k * step \in times
    BY <1>5, <1>6, TailIsContiguous
<1> QED
    BY <1>7 DEF expected

LEMMA ValueMeansRun ==
    ASSUME NEW rows, rows \subseteq Int, IsFiniteSet(rows), NEW step \in Nat \ {0},
           \A x \in rows : x % step = 0,
           NEW asOf \in Int, NEW end, NEW n, NEW need \in Nat,
           Assess(Prepare(LastRows(rows, end, n), step, asOf), need).status = "value"
    PROVE  \A k \in Nat : k < need => Floor(asOf, step) - step - k * step \in rows
<1> DEFINE times == {t \in LastRows(rows, end, n) : t + step <= asOf}
<1>1. times \subseteq rows /\ times \subseteq Int /\ IsFiniteSet(times)
    <2>1. times \subseteq rows
        BY DEF LastRows, Latest
    <2> HIDE DEF times
    <2> QED
        BY <2>1, Fewer
<1>2. \A t \in times : t % step = 0 /\ t + step <= asOf
    BY <1>1
<1>3. Assess(Validated(times, step, Floor(asOf, step) - step), need).status = "value"
    BY DEF Prepare
<1> HIDE DEF times
<1>4. \A k \in Nat : k < need => Floor(asOf, step) - step - k * step \in times
    BY <1>1, <1>2, <1>3, WindowIsThere
<1> QED
    BY <1>1, <1>4

-----------------------------------------------------------------------------
(* The splits. *)

\* round() keeps the order of what it rounds.
LEMMA RoundingIsMonotone ==
    ASSUME NEW p \in Nat, NEW q \in Nat, p <= q
    PROVE  /\ RoundedShare(p) \in Int /\ RoundedShare(q) \in Int
           /\ RoundedShare(p) <= RoundedShare(q)
<1> DEFINE span == End - Start
           Half(n) == IF 2 * (n % 100) < 100 \/ (2 * (n % 100) = 100 /\ (n \div 100) % 2 = 0)
                      THEN n \div 100 ELSE n \div 100 + 1
<1>1. span \in Nat
    BY ResearchLabAssumption
<1>2. RoundedShare(p) = Half(span * p) /\ RoundedShare(q) = Half(span * q)
    BY DEF RoundedShare
<1>3. span * p \in Nat /\ span * q \in Nat /\ span * p <= span * q
    <2>1. \A a, b, c \in Nat : a * b \in Nat /\ (b <= c => a * b <= a * c)
        <3> SUFFICES ASSUME NEW a \in Nat, NEW b \in Nat, NEW c \in Nat
                     PROVE  a * b \in Nat /\ (b <= c => a * b <= a * c)
            OBVIOUS
        <3>1. a * b \in Nat
            OBVIOUS
        <3>2. ASSUME b <= c PROVE a * b <= a * c
            <4>1. c - b \in Nat /\ a * (c - b) \in Nat
                BY <3>2
            <4>2. a * (c - b) = a * c - a * b
                OBVIOUS
            <4> QED
                BY <3>1, <4>1, <4>2
        <3> QED
            BY <3>1, <3>2
    <2> HIDE DEF span
    <2> QED
        BY <1>1, <2>1
<1>4. ASSUME NEW m \in Nat, NEW n \in Nat, m <= n
      PROVE  Half(m) \in Int /\ Half(n) \in Int /\ Half(m) <= Half(n)
    <2>1. /\ m \div 100 \in Int /\ n \div 100 \in Int /\ m % 100 \in 0..99 /\ n % 100 \in 0..99
          /\ m = 100 * (m \div 100) + (m % 100) /\ n = 100 * (n \div 100) + (n % 100)
        OBVIOUS
    <2> DEFINE d == m \div 100  e == n \div 100  r == m % 100  s == n % 100
               Rest(x, even) == 2 * x < 100 \/ (2 * x = 100 /\ even)
    <2>2. /\ Half(m) = IF Rest(r, d % 2 = 0) THEN d ELSE d + 1
          /\ Half(n) = IF Rest(s, e % 2 = 0) THEN e ELSE e + 1
        OBVIOUS
    <2>3. d \in Int /\ e \in Int /\ r \in 0..99 /\ s \in 0..99 /\ 100 * d + r <= 100 * e + s
        BY <1>4, <2>1
    <2> HIDE DEF Half, d, e, r, s
    <2>4. CASE d = e
        <3>1. r <= s
            BY <2>3, <2>4
        <3>2. Rest(s, e % 2 = 0) => Rest(r, d % 2 = 0)
            BY <2>3, <2>4, <3>1
        <3> HIDE DEF Rest
        <3> QED
            BY <2>2, <2>3, <2>4, <3>2
    <2>5. CASE d # e
        <3>1. d + 1 <= e
            BY <2>3, <2>5
        <3> HIDE DEF Rest
        <3> QED
            BY <2>2, <2>3, <3>1
    <2> QED
        BY <2>4, <2>5
<1> HIDE DEF Half, span
<1> QED
    BY <1>2, <1>3, <1>4

LEMMA BoundariesInOrder ==
    ASSUME NEW research \in Researches
    PROVE  LET b == Boundaries(research)
           IN  b[1] \in Int /\ b[2] \in Int /\ b[3] \in Int /\ b[2] <= b[3] /\ b[1] <= b[2] /\ b[4] \in Int
<1> DEFINE p == research.train
           q == research.train + research.validation
<1>1. p \in Nat /\ q \in Nat /\ p <= q /\ Start \in Int /\ End \in Int /\ Start < End
    BY ResearchLabAssumption
<1>2. RoundedShare(p) \in Int /\ RoundedShare(q) \in Int /\ RoundedShare(p) <= RoundedShare(q)
    BY <1>1, RoundingIsMonotone
<1>3. RoundedShare(0) = 0 /\ RoundedShare(0) <= RoundedShare(p)
    <2>1. (End - Start) * 0 = 0
        BY <1>1
    <2> QED
        BY <1>1, <2>1, RoundingIsMonotone DEF RoundedShare
<1> HIDE DEF p, q
<1> QED
    BY <1>1, <1>2, <1>3 DEF Boundaries, p, q

LEMMA SplitsStayApart ==
    ASSUME NEW research \in Researches, NEW items,
           \A i \in items : i.start \in Int /\ i.finish \in Int,
           NEW m \in DOMAIN Splits(items, research), NEW n \in DOMAIN Splits(items, research),
           m # n,
           NEW a \in Splits(items, research)[m], NEW b \in Splits(items, research)[n],
           a.start < b.start
    PROVE  b.start - a.finish > research.embargo
<1> DEFINE at == Boundaries(research)
<1>1. /\ at[1] \in Int /\ at[2] \in Int /\ at[3] \in Int /\ at[4] \in Int
      /\ at[1] <= at[2] /\ at[2] <= at[3]
    BY BoundariesInOrder
<1>2. PICK i \in 1..3 : SplitNames[i] = m /\ Belongs(a, i, research) /\ a \in items
    BY DEF Splits
<1>3. PICK j \in 1..3 : SplitNames[j] = n /\ Belongs(b, j, research) /\ b \in items
    BY DEF Splits
<1>4. i # j
    BY <1>2, <1>3
<1>5. /\ a.start \in Int /\ a.finish \in Int /\ b.start \in Int
      /\ at[i] <= a.start /\ a.start < at[i + 1] /\ (i # 3 => a.finish < at[i + 1])
      /\ at[j] <= b.start /\ b.start < at[j + 1]
      /\ (j # 1 => b.start >= at[j] + research.embargo)
    BY <1>2, <1>3 DEF Belongs
<1>6. research.embargo \in Nat
    BY ResearchLabAssumption
<1> HIDE DEF at
<1>7. i < j
    <2>1. CASE i = 2 /\ j = 1
        BY <1>1, <1>5, <2>1
    <2>2. CASE i = 3 /\ j = 1
        BY <1>1, <1>5, <2>2
    <2>3. CASE i = 3 /\ j = 2
        BY <1>1, <1>5, <2>3
    <2> QED
        BY <1>4, <2>1, <2>2, <2>3
<1>8. at[i + 1] <= at[j]
    <2>1. CASE i = 1 /\ j = 2
        BY <1>1, <2>1
    <2>2. CASE i = 1 /\ j = 3
        BY <1>1, <2>2
    <2>3. CASE i = 2 /\ j = 3
        BY <1>1, <2>3
    <2> QED
        BY <1>7, <2>1, <2>2, <2>3
<1>9. at[j] \in Int /\ at[i + 1] \in Int /\ j # 1 /\ i # 3
    BY <1>1, <1>7
<1> QED
    BY <1>5, <1>6, <1>8, <1>9

-----------------------------------------------------------------------------
(* The results. *)
Files == [setup : Setups, structure : Structures, research : Researches, version : Versions]

IsReplay(id) == id.kind = "replay" /\ \E r \in runs : r.id = id

\* A record with these fields.
HasFields(x, fields) == x = [f \in fields |-> x[f]]

\* What is stored under an identity, or refused because something is, is what
\* the identity stands for, up to what was read.
Sound(id, result) ==
    \/ /\ id.kind = "replay"
       /\ HasFields(result, {"candles", "setup", "structure", "version", "regimes"})
       /\ result.setup = id.setup /\ result.version = id.ds.version
       /\ result.setup \in Setups /\ result.structure \in Structures
    \/ /\ id.kind = "outcomes" /\ id.research \in Researches /\ IsReplay(id.parent)
       /\ HasFields(result, {"candles", "labels", "splits", "version"})
       /\ result.labels = Labels(Observed(id.parent), result.candles, id.research)
       /\ result.splits = Splits(result.labels, id.research)
       /\ result.version = id.parent.ds.version
    \/ /\ id.kind = "backtest" /\ IsReplay(id.parent)
       /\ HasFields(result, {"candles", "observed", "funding", "plan", "version"})
       /\ result.observed = Observed(id.parent)
       /\ result.version = id.parent.ds.version

RunsInv ==
    /\ \A r, q \in runs : r.id = q.id => r = q
    /\ \A r \in runs : DOMAIN r = {"id", "result"} /\ Sound(r.id, r.result)
    /\ \A c \in conflicts : /\ Sound(c.id, c.stored) /\ Sound(c.id, c.new)
                            /\ c.stored # c.new

\* A command that uses a dataset has compared the code with it, or will.
Compared(j) ==
    \/ j.files.version = j.ds.version
    \/ j.todo # <<>> /\ Head(j.todo) = Cover("primary")

\* A command: what it was started with.
IsCommand(j) ==
    /\ j.kind \in {"dataset", "replay", "outcomes", "backtest"}
    /\ DOMAIN j = {"kind", "files", "ds", "parent", "regime", "todo", "seen"}
    /\ j.files \in Files
    /\ j.kind \in {"outcomes", "backtest"} => IsReplay(j.parent) /\ j.ds = j.parent.ds
    /\ j.kind # "dataset" => Compared(j)

JobsInv ==
    /\ files \in Files
    /\ job = [p \in Procs |-> job[p]]
    /\ \A p \in Procs : job[p] # Idle => IsCommand(job[p])

LabInv == JobsInv /\ RunsInv

(* More results do not change what a stored one is.                          *)
LEMMA StoredStays ==
    ASSUME \A r, q \in runs' : r.id = q.id => r = q, runs \subseteq runs',
           NEW id, IsReplay(id)
    PROVE  RowOf(id)' = RowOf(id) /\ Observed(id)' = Observed(id) /\ IsReplay(id)'
<1>1. RowOf(id) \in runs /\ RowOf(id).id = id
    BY DEF RowOf, IsReplay
<1>2. RowOf(id)' \in runs' /\ RowOf(id)'.id = id
    <2>1. \E r \in runs' : r.id = id
        BY DEF IsReplay
    <2> QED
        BY <2>1 DEF RowOf
<1>3. RowOf(id)' = RowOf(id)
    <2> DEFINE x == RowOf(id)  y == RowOf(id)'
    <2>1. x \in runs' /\ y \in runs' /\ x.id = y.id
        BY <1>1, <1>2
    <2> HIDE DEF x, y
    <2>2. x = y
        BY <2>1
    <2> QED
        BY <2>2 DEF x, y
<1>4. IsReplay(id)'
    BY DEF IsReplay
<1>5. Observed(id)' = Observed(id)
    BY <1>3 DEF Observed
<1> QED
    BY <1>3, <1>4, <1>5

LEMMA SoundStays ==
    ASSUME \A r, q \in runs' : r.id = q.id => r = q, runs \subseteq runs',
           NEW id, NEW result, Sound(id, result)
    PROVE  Sound(id, result)'
BY StoredStays DEF Sound

LEMMA SaveKeepsRuns ==
    ASSUME RunsInv, NEW id, NEW result, Sound(id, result), SaveRun(id, result)
    PROVE  RunsInv' /\ runs \subseteq runs'
<1>1. CASE \E r \in runs : r.id = id
    <2>1. runs' = runs
        BY <1>1 DEF SaveRun
    <2>2. \A c \in conflicts' : c \in conflicts \/
             \E r \in runs : r.id = id /\ r.result # result
                             /\ c = [id |-> id, stored |-> r.result, new |-> result]
        BY <1>1 DEF SaveRun
    <2>3. \A r, q \in runs' : r.id = q.id => r = q
        BY <2>1 DEF RunsInv
    <2>4. \A x, y : Sound(x, y) => Sound(x, y)'
        BY <2>1, <2>3, SoundStays
    <2>5. \A r \in runs' : DOMAIN r = {"id", "result"} /\ Sound(r.id, r.result)'
        BY <2>1, <2>4 DEF RunsInv
    <2>6. \A c \in conflicts' : Sound(c.id, c.stored)' /\ Sound(c.id, c.new)' /\ c.stored # c.new
        BY <2>2, <2>4 DEF RunsInv
    <2> QED
        BY <2>1, <2>3, <2>5, <2>6 DEF RunsInv
<1>2. CASE ~ \E r \in runs : r.id = id
    <2>1. runs' = runs \cup {[id |-> id, result |-> result]} /\ conflicts' = conflicts
        BY <1>2 DEF SaveRun
    <2>2. \A r, q \in runs' : r.id = q.id => r = q
        BY <1>2, <2>1 DEF RunsInv
    <2>3. \A x, y : Sound(x, y) => Sound(x, y)'
        BY <2>1, <2>2, SoundStays
    <2>4. \A r \in runs' : DOMAIN r = {"id", "result"} /\ Sound(r.id, r.result)'
        BY <2>1, <2>3 DEF RunsInv
    <2>5. \A c \in conflicts' : Sound(c.id, c.stored)' /\ Sound(c.id, c.new)' /\ c.stored # c.new
        BY <2>1, <2>3 DEF RunsInv
    <2> QED
        BY <2>1, <2>2, <2>4, <2>5 DEF RunsInv
<1> QED
    BY <1>1, <1>2

-----------------------------------------------------------------------------
(* The commands. *)
Reads == {Cover("primary"), Cover("context"), Candles, Funding} \cup {RegimeAt(t) : t \in Int}

LEMMA HeadOfConcat ==
    ASSUME NEW S, NEW x \in Seq(S), NEW y \in Seq(S), x # <<>>
    PROVE  x \o y \in Seq(S) /\ x \o y # <<>> /\ Head(x \o y) = Head(x)
<1> DEFINE u == x \o y
<1>1. /\ x \o y \in Seq(S) /\ Len(x \o y) = Len(x) + Len(y)
      /\ \A i \in 1..Len(x) + Len(y) : (x \o y)[i] = IF i <= Len(x) THEN x[i] ELSE y[i - Len(x)]
    BY ConcatProperties, Zenon
<1>2. /\ u \in Seq(S) /\ Len(u) = Len(x) + Len(y)
      /\ \A i \in 1..Len(x) + Len(y) : u[i] = IF i <= Len(x) THEN x[i] ELSE y[i - Len(x)]
    BY <1>1
<1> HIDE DEF u
<1>3. Len(x) \in Nat \ {0} /\ Len(y) \in Nat
    BY EmptySeq, LenProperties
<1>4. Len(u) # 0 /\ u[1] = x[1]
    BY <1>2, <1>3
<1>5. u # <<>> /\ Head(u) = Head(x)
    BY <1>2, <1>4
<1> QED
    BY <1>2, <1>5 DEF u

\* A command that uses a dataset compares first.
LEMMA ChecksFirst ==
    ASSUME NEW ds, NEW rest \in Seq(Reads)
    PROVE  LET todo == Checks(ds) \o rest
           IN  todo \in Seq(Reads) /\ todo # <<>> /\ Head(todo) = Cover("primary")
<1> DEFINE one == <<Cover("primary")>>
           two == ContextOf(ds.context # None)
           checks == one \o two
<1>1. one \in Seq(Reads) /\ one # <<>> /\ Head(one) = Cover("primary")
    BY DEF Reads
<1>2. two \in Seq(Reads)
    <2>1. <<Cover("context")>> \in Seq(Reads) /\ <<>> \in Seq(Reads)
        BY DEF Reads
    <2> QED
        BY <2>1 DEF ContextOf
<1>3. Checks(ds) = checks
    BY DEF Checks
<1> HIDE DEF one, two
<1>4. checks \in Seq(Reads) /\ checks # <<>> /\ Head(checks) = Cover("primary")
    BY <1>1, <1>2, HeadOfConcat
<1> HIDE DEF checks
<1>5. checks \o rest \in Seq(Reads) /\ checks \o rest # <<>> /\ Head(checks \o rest) = Cover("primary")
    BY <1>4, HeadOfConcat
<1> QED
    BY <1>3, <1>5

\* What a process does may change: the command it runs is one.
LEMMA JobMayChange ==
    ASSUME JobsInv, NEW p \in Procs, NEW new, new = Idle \/ IsCommand(new),
           job' = [job EXCEPT ![p] = new], files' \in Files, runs \subseteq runs'
    PROVE  JobsInv'
<1>1. \A j : IsCommand(j) => IsCommand(j)'
    BY DEF IsCommand, IsReplay, Compared
<1>2. \A q \in Procs : job'[q] = IF q = p THEN new ELSE job[q]
    BY DEF JobsInv
<1>3. job' = [q \in Procs |-> job'[q]]
    BY DEF JobsInv
<1>4. ASSUME NEW q \in Procs, job'[q] # Idle
      PROVE  IsCommand(job[q])'
    <2> PICK j : j = job'[q]
        OBVIOUS
    <2>1. IsCommand(j)
        BY <1>2, <1>4 DEF JobsInv
    <2>2. IsCommand(j)'
        BY <1>1, <2>1
    <2> QED
        BY <2>2 DEF IsCommand, IsReplay, Compared
<1> QED
    BY <1>3, <1>4 DEF JobsInv

LEMMA CommandStarts ==
    ASSUME JobsInv, NEW p \in Procs, NEW kind, NEW ds, NEW parent, NEW regime, NEW todo,
           Command(p, kind, ds, parent, regime, todo),
           \/ kind = "dataset"
           \/ kind \in {"replay", "outcomes", "backtest"} /\ todo # <<>> /\ Head(todo) = Cover("primary"),
           kind \in {"outcomes", "backtest"} => IsReplay(parent) /\ ds = parent.ds
    PROVE  JobsInv' /\ UNCHANGED <<runs, conflicts>>
<1> PICK new : new = [kind |-> kind, files |-> files, ds |-> ds, parent |-> parent,
                      regime |-> regime, todo |-> todo, seen |-> {}]
    OBVIOUS
<1>1. job' = [job EXCEPT ![p] = new] /\ UNCHANGED <<files, runs, conflicts>>
    BY DEF Command, store
<1>2. files \in Files
    BY DEF JobsInv
<1>3. IsCommand(new)
    BY <1>2 DEF IsCommand, Compared
<1>4. JobsInv'
    BY <1>1, <1>2, <1>3, JobMayChange
<1> QED
    BY <1>1, <1>4

LEMMA StartKeepsJobs ==
    ASSUME JobsInv, NEW p \in Procs, BuildDataset(p) \/ Replay(p) \/ Outcomes(p) \/ Backtest(p)
    PROVE  JobsInv' /\ UNCHANGED <<runs, conflicts>>
<1>1. <<Candles>> \in Seq(Reads) /\ <<Funding, Candles>> \in Seq(Reads)
    BY DEF Reads
<1>2. CASE BuildDataset(p)
    <2>1. PICK todo : Command(p, "dataset", None, None, FALSE, todo)
        BY <1>2 DEF BuildDataset
    <2> QED
        BY <2>1, CommandStarts
<1>3. CASE Replay(p)
    <2>1. PICK ds, regime, todo : /\ Command(p, "replay", ds, None, regime, todo)
                                  /\ todo = Checks(ds) \o <<Candles>>
        BY <1>3 DEF Replay
    <2>2. todo # <<>> /\ Head(todo) = Cover("primary")
        BY <1>1, <2>1, ChecksFirst
    <2> QED
        BY <2>1, <2>2, CommandStarts
<1>4. ASSUME Outcomes(p) \/ Backtest(p)
      PROVE  JobsInv' /\ UNCHANGED <<runs, conflicts>>
    <2>1. PICK id, kind, rest : /\ IsReplay(id) /\ kind \in {"outcomes", "backtest"} /\ rest \in Seq(Reads)
                                /\ Command(p, kind, id.ds, id, FALSE, Checks(id.ds) \o rest)
        <3>1. CASE Outcomes(p)
            <4>1. PICK r \in Replays :
                     Command(p, "outcomes", r.id.ds, r.id, FALSE, Checks(r.id.ds) \o <<Candles>>)
                BY <3>1 DEF Outcomes
            <4>2. IsReplay(r.id)
                BY DEF Replays, IsReplay
            <4> PICK id, rest : id = r.id /\ rest = <<Candles>>
                OBVIOUS
            <4> QED
                BY <1>1, <4>1, <4>2
        <3>2. CASE Backtest(p)
            <4>1. PICK r \in Replays :
                     Command(p, "backtest", r.id.ds, r.id, FALSE, Checks(r.id.ds) \o <<Funding, Candles>>)
                BY <3>2 DEF Backtest
            <4>2. IsReplay(r.id)
                BY DEF Replays, IsReplay
            <4> PICK id, rest : id = r.id /\ rest = <<Funding, Candles>>
                OBVIOUS
            <4> QED
                BY <1>1, <4>1, <4>2
        <3> QED
            BY <1>4, <3>1, <3>2
    <2> PICK ds, todo : ds = id.ds /\ todo = Checks(ds) \o rest
        OBVIOUS
    <2>2. todo # <<>> /\ Head(todo) = Cover("primary")
        BY <2>1, ChecksFirst
    <2>3. Command(p, kind, ds, id, FALSE, todo)
        BY <2>1
    <2> QED
        BY <2>1, <2>2, <2>3, CommandStarts
<1> QED
    BY <1>2, <1>3, <1>4

\* A read goes on, or ends a command that finds the code or a pinned series changed.
LEMMA ReadKeepsJobs ==
    ASSUME JobsInv, NEW p \in Procs, Read(p)
    PROVE  JobsInv' /\ UNCHANGED <<runs, conflicts>>
<1> PICK j, r, v : j = job[p] /\ r = Head(j.todo) /\ v = Seen(r, j.files)
    OBVIOUS
<1>1. /\ j # Idle /\ j.todo # <<>> /\ UNCHANGED <<files, runs, conflicts>>
      /\ job' = [job EXCEPT ![p] =
                   IF j.kind # "dataset" /\ Drifted(j, r, v) THEN Idle
                   ELSE [j EXCEPT !.todo = Then(j, r, v), !.seen = @ \cup {[read |-> r, value |-> v]}]]
    BY DEF Read, store
<1>2. files \in Files /\ IsCommand(j)
    BY <1>1 DEF JobsInv
<1> PICK new : new = IF j.kind # "dataset" /\ Drifted(j, r, v) THEN Idle
                     ELSE [j EXCEPT !.todo = Then(j, r, v), !.seen = @ \cup {[read |-> r, value |-> v]}]
    OBVIOUS
<1>3. ASSUME j.kind # "dataset", ~Drifted(j, r, v)
      PROVE  j.files.version = j.ds.version
    BY <1>2, <1>3 DEF IsCommand, Compared, Drifted, Cover
<1>4. new = Idle \/ IsCommand(new)
    <2> PICK todo, seen : todo = Then(j, r, v) /\ seen = j.seen \cup {[read |-> r, value |-> v]}
        OBVIOUS
    <2>1. new = Idle \/ new = [j EXCEPT !.todo = todo, !.seen = seen]
        OBVIOUS
    <2>2. DOMAIN j = {"kind", "files", "ds", "parent", "regime", "todo", "seen"}
        BY <1>2 DEF IsCommand
    <2>3. ASSUME new # Idle
          PROVE  /\ DOMAIN new = DOMAIN j /\ new.kind = j.kind /\ new.files = j.files /\ new.ds = j.ds
                 /\ new.parent = j.parent
        BY <2>1, <2>2, <2>3
    <2>4. ASSUME new # Idle, j.kind # "dataset" PROVE ~Drifted(j, r, v)
        BY <2>4
    <2> QED
        BY <1>2, <1>3, <2>3, <2>4 DEF IsCommand, Compared
<1>5. JobsInv'
    BY <1>1, <1>2, <1>4, JobMayChange
<1> QED
    BY <1>1, <1>5

-----------------------------------------------------------------------------
(* The end of a command. *)
LEMMA LeaveKeepsJobs ==
    ASSUME JobsInv, NEW p \in Procs, Leave(p), runs \subseteq runs'
    PROVE  JobsInv'
<1>1. job' = [job EXCEPT ![p] = Idle] /\ files' \in Files
    BY DEF Leave, JobsInv
<1> PICK new : new = Idle
    OBVIOUS
<1> QED
    BY <1>1, JobMayChange

LEMMA SaveReplayIsSound ==
    ASSUME LabInv, NEW p \in Procs, SaveReplay(p)
    PROVE  \E id, result : Sound(id, result) /\ SaveRun(id, result)
<1> PICK j : j = job[p]
    OBVIOUS
<1>1. j # Idle /\ j.kind = "replay" /\ j.todo = <<>>
    BY DEF SaveReplay, Ended
<1>2. j.files.version = j.ds.version /\ j.files.setup \in Setups /\ j.files.structure \in Structures
    BY <1>1 DEF LabInv, JobsInv, IsCommand, Compared, Files
<1> PICK id, result :
        /\ id = ReplayId(j.ds, j.regime, j.files)
        /\ result = [candles |-> Got(j, Candles), setup |-> j.files.setup, structure |-> j.files.structure,
                     version |-> j.files.version, regimes |-> {x \in j.seen : x.read.what = "regime"}]
    OBVIOUS
<1>3. Sound(id, result)
    BY <1>2 DEF Sound, ReplayId, HasFields
<1>4. SaveRun(id, result)
    BY DEF SaveReplay
<1> QED
    BY <1>3, <1>4

LEMMA SaveOutcomesIsSound ==
    ASSUME LabInv, NEW p \in Procs, SaveOutcomes(p)
    PROVE  \E id, result : /\ Sound(id, result) /\ SaveRun(id, result)
                           /\ id.kind # "replay" /\ id.parent = job[p].parent
<1> PICK j, labels :
        j = job[p] /\ labels = Labels(Observed(j.parent), Got(j, Candles), j.files.research)
    OBVIOUS
<1>1. j # Idle /\ j.kind = "outcomes" /\ j.todo = <<>>
    BY DEF SaveOutcomes, Ended
<1>2. /\ j.files.version = j.ds.version /\ IsReplay(j.parent) /\ j.ds = j.parent.ds
      /\ j.files.research \in Researches
    BY <1>1 DEF LabInv, JobsInv, IsCommand, Compared, Files
<1> PICK id, result :
        /\ id = OutcomesId(j.parent, j.files)
        /\ result = [candles |-> Got(j, Candles), labels |-> labels,
                     splits |-> Splits(labels, j.files.research), version |-> j.files.version]
    OBVIOUS
<1>3. /\ id.kind = "outcomes" /\ id.parent = j.parent /\ id.research = j.files.research
      /\ HasFields(result, {"candles", "labels", "splits", "version"})
      /\ result.candles = Got(j, Candles) /\ result.labels = labels
      /\ result.splits = Splits(labels, j.files.research) /\ result.version = j.files.version
    BY DEF OutcomesId, HasFields
<1>4. Sound(id, result)
    BY <1>2, <1>3 DEF Sound
<1>5. SaveRun(id, result)
    BY DEF SaveOutcomes
<1> QED
    BY <1>3, <1>4, <1>5

LEMMA SaveBacktestIsSound ==
    ASSUME LabInv, NEW p \in Procs, SaveBacktest(p)
    PROVE  \E id, result : /\ Sound(id, result) /\ SaveRun(id, result)
                           /\ id.kind # "replay" /\ id.parent = job[p].parent
<1> PICK j : j = job[p]
    OBVIOUS
<1>1. j # Idle /\ j.kind = "backtest" /\ j.todo = <<>>
    BY DEF SaveBacktest, Ended
<1>2. j.files.version = j.ds.version /\ IsReplay(j.parent) /\ j.ds = j.parent.ds
    BY <1>1 DEF LabInv, JobsInv, IsCommand, Compared
<1> PICK id, result :
        /\ id = BacktestId(j.parent)
        /\ result = [candles |-> Got(j, Candles), observed |-> Observed(j.parent), funding |-> Got(j, Funding),
                     plan |-> <<Boundaries(j.files.research), j.files.research.embargo>>,
                     version |-> j.files.version]
    OBVIOUS
<1>3. Sound(id, result)
    BY <1>2 DEF Sound, BacktestId, HasFields
<1>4. SaveRun(id, result)
    BY DEF SaveBacktest
<1> QED
    BY <1>3, <1>4 DEF BacktestId

LEMMA LabInit ==
    ASSUME Init PROVE LabInv
BY ResearchLabAssumption DEF Init, LabInv, JobsInv, RunsInv, Files, Idle

LEMMA RunsStay ==
    ASSUME RunsInv, UNCHANGED <<runs, conflicts>>
    PROVE  RunsInv'
<1>1. \A r, q \in runs' : r.id = q.id => r = q
    BY DEF RunsInv
<1>2. \A x, y : Sound(x, y) => Sound(x, y)'
    BY <1>1, SoundStays
<1> QED
    BY <1>1, <1>2 DEF RunsInv

LEMMA JobsStay ==
    ASSUME JobsInv, UNCHANGED <<runs, job>>, files' \in Files
    PROVE  JobsInv'
BY DEF JobsInv, IsCommand, IsReplay, Compared

LEMMA LabNext ==
    ASSUME LabInv, [Next]_vars PROVE LabInv'
<1>1. JobsInv /\ RunsInv
    BY DEF LabInv
<1>2. CASE Environment
    <2>1. UNCHANGED <<runs, conflicts, job>>
        BY <1>2 DEF Environment, store
    <2>2. files' \in Files
        BY <1>1, <1>2 DEF Environment, Edit, Deliver, JobsInv, Files
    <2> QED
        BY <1>1, <2>1, <2>2, RunsStay, JobsStay DEF LabInv
<1>3. ASSUME NEW p \in Procs, BuildDataset(p) \/ Replay(p) \/ Outcomes(p) \/ Backtest(p)
      PROVE  LabInv'
    BY <1>1, <1>3, StartKeepsJobs, RunsStay DEF LabInv
<1>4. ASSUME NEW p \in Procs, Read(p)
      PROVE  LabInv'
    BY <1>1, <1>4, ReadKeepsJobs, RunsStay DEF LabInv
<1>5. ASSUME NEW p \in Procs, Interrupt(p) \/ SaveDataset(p)
      PROVE  LabInv'
    <2>1. Leave(p) /\ UNCHANGED <<runs, conflicts>>
        BY <1>5 DEF Interrupt, SaveDataset, store
    <2> QED
        BY <1>1, <2>1, LeaveKeepsJobs, RunsStay DEF LabInv
<1>6. ASSUME NEW p \in Procs, SaveReplay(p) \/ SaveOutcomes(p) \/ SaveBacktest(p)
      PROVE  LabInv'
    <2>1. Leave(p)
        BY <1>6 DEF SaveReplay, SaveOutcomes, SaveBacktest
    <2>2. PICK id, result : Sound(id, result) /\ SaveRun(id, result)
        BY <1>6, SaveReplayIsSound, SaveOutcomesIsSound, SaveBacktestIsSound
    <2>3. RunsInv' /\ runs \subseteq runs'
        BY <1>1, <2>2, SaveKeepsRuns
    <2> QED
        BY <1>1, <2>1, <2>3, LeaveKeepsJobs DEF LabInv
<1>7. CASE UNCHANGED vars
    <2>1. UNCHANGED <<runs, conflicts, job>> /\ files' \in Files
        BY <1>1, <1>7 DEF vars, JobsInv
    <2> QED
        BY <1>1, <2>1, RunsStay, JobsStay DEF LabInv
<1> QED
    BY <1>2, <1>3, <1>4, <1>5, <1>6, <1>7 DEF Next

-----------------------------------------------------------------------------
\* A setup that was observed was shown by a valid analysis not long after it was made.
LEMMA ObservedSetup ==
    ASSUME NEW replay, NEW x \in Observed(replay)
    PROVE  /\ x.created \in Int
           /\ x.confirmed # None => x.confirmed \in Int /\ x.created <= x.confirmed
           /\ LET r == RowOf(replay).result IN
              /\ \E i \in Analyses(r) : x.created <= i /\ i <= x.created + Shown[r.setup]
              /\ x.confirmed # None =>
                    \E i \in Analyses(r) : /\ x.created <= i /\ i <= x.created + Shown[r.setup]
                                           /\ x.confirmed <= i
<1> PICK r : r = RowOf(replay).result
    OBVIOUS
<1> DEFINE Showing(y) == {i \in Analyses(r) : y[1] <= i /\ i <= y[1] + Shown[r.setup]}
           Version(y) == [created |-> y[1], confirmed |-> IF \E i \in Showing(y) : y[2] <= i THEN y[2] ELSE None]
<1>1. PICK y \in SetupBars : Showing(y) # {} /\ x = Version(y)
    BY DEF Observed
<1>2. y[1] \in Int /\ y[2] \in Int /\ y[1] <= y[2]
    BY ResearchLabAssumption
<1>3. x.created = y[1] /\ (x.confirmed # None => x.confirmed = y[2] /\ \E i \in Showing(y) : y[2] <= i)
    BY <1>1
<1> QED
    BY <1>1, <1>2, <1>3

\* Labels of different splits stay apart, whatever the boundaries round to:
\* app/research/lab/splits.py.
LEMMA SoundLabelsStayApart ==
    ASSUME NEW id, NEW result, Sound(id, result), id.kind = "outcomes",
           NEW m \in DOMAIN result.splits, NEW n \in DOMAIN result.splits, m # n,
           NEW a \in result.splits[m], NEW b \in result.splits[n], a.start < b.start
    PROVE  b.start - a.finish > id.research.embargo
<1> PICK items, research :
        items = Labels(Observed(id.parent), result.candles, id.research) /\ research = id.research
    OBVIOUS
<1>1. research \in Researches /\ result.splits = Splits(items, research)
    BY DEF Sound
<1>2. \A i \in items : i.start \in Int /\ i.finish \in Int
    <2> SUFFICES ASSUME NEW i \in items PROVE i.start \in Int /\ i.finish \in Int
        OBVIOUS
    <2>1. PICK x \in Observed(id.parent), h \in research.horizons :
               /\ i = Label(result.candles, Anchor(x, research), h)
               /\ Anchor(x, research) # None
        BY DEF Labels
    <2>2. x.created \in Int /\ (x.confirmed # None => x.confirmed \in Int)
        BY ObservedSetup
    <2>3. Anchor(x, research) \in Int /\ h \in Int
        BY <1>1, <2>1, <2>2, ResearchLabAssumption DEF Anchor
    <2> QED
        BY <2>1, <2>3 DEF Label
<1>3. b.start - a.finish > research.embargo
    BY <1>1, <1>2, SplitsStayApart
<1> QED
    BY <1>3

THEOREM LabelsApart == Spec => []LabelsStayApart
<1>1. LabInv => LabelsStayApart
    BY SoundLabelsStayApart DEF LabInv, RunsInv, LabelsStayApart
<1> QED
    BY <1>1, LabInit, LabNext, PTL DEF Spec

\* Two results under one identity differ in what was read or in the splits of a
\* backtest, and in nothing else that is stored: app/storage/research.py.
LEMMA SoundDiffer ==
    ASSUME NEW id, NEW x, NEW y, Sound(id, x), Sound(id, y), x # y
    PROVE  \/ x.candles # y.candles
           \/ id.kind = "replay" /\ (x.structure # y.structure \/ x.regimes # y.regimes)
           \/ id.kind = "backtest" /\ (x.funding # y.funding \/ x.plan # y.plan)
<1>1. CASE id.kind = "replay"
    <2>1. /\ HasFields(x, {"candles", "setup", "structure", "version", "regimes"})
          /\ HasFields(y, {"candles", "setup", "structure", "version", "regimes"})
          /\ x.setup = y.setup /\ x.version = y.version
        BY <1>1 DEF Sound
    <2> QED
        BY <1>1, <2>1 DEF HasFields
<1>2. CASE id.kind = "outcomes"
    <2>1. /\ HasFields(x, {"candles", "labels", "splits", "version"})
          /\ HasFields(y, {"candles", "labels", "splits", "version"})
          /\ x.version = y.version
          /\ x.labels = Labels(Observed(id.parent), x.candles, id.research)
          /\ y.labels = Labels(Observed(id.parent), y.candles, id.research)
          /\ x.splits = Splits(x.labels, id.research) /\ y.splits = Splits(y.labels, id.research)
        BY <1>2 DEF Sound
    <2>2. x.candles = y.candles => x.labels = y.labels /\ x.splits = y.splits
        BY <2>1
    <2>3. \E f \in {"candles", "labels", "splits", "version"} : x[f] # y[f]
        BY <2>1 DEF HasFields
    <2> QED
        BY <2>1, <2>2, <2>3
<1>3. CASE id.kind = "backtest"
    <2>1. /\ HasFields(x, {"candles", "observed", "funding", "plan", "version"})
          /\ HasFields(y, {"candles", "observed", "funding", "plan", "version"})
          /\ x.observed = y.observed /\ x.version = y.version
        BY <1>3 DEF Sound
    <2> QED
        BY <1>3, <2>1 DEF HasFields
<1> QED
    BY <1>1, <1>2, <1>3 DEF Sound

\* A conflict is recorded only for the known causes: neither the code, the setup
\* file nor the replay it was computed from is ever one.
THEOREM OnlyKnownConflicts == Spec => []ConflictsHaveACause
<1>1. ASSUME LabInv, NEW c \in conflicts
      PROVE  \/ Untimely(c)
             \/ c.id.kind = "replay" /\ (c.stored.structure # c.new.structure \/ c.stored.regimes # c.new.regimes)
             \/ c.id.kind = "backtest" /\ (c.stored.funding # c.new.funding \/ c.stored.plan # c.new.plan)
    <2> PICK id, x, y : id = c.id /\ x = c.stored /\ y = c.new
        OBVIOUS
    <2>1. Sound(id, x) /\ Sound(id, y) /\ x # y
        BY <1>1 DEF LabInv, RunsInv
    <2>2. \/ x.candles # y.candles
          \/ id.kind = "replay" /\ (x.structure # y.structure \/ x.regimes # y.regimes)
          \/ id.kind = "backtest" /\ (x.funding # y.funding \/ x.plan # y.plan)
        BY <2>1, SoundDiffer
    <2>3. x.candles # y.candles => Untimely(c)
        BY DEF Untimely
    <2> QED
        BY <2>2, <2>3
<1>2. LabInv => ConflictsHaveACause
    BY <1>1 DEF ConflictsHaveACause
<1> QED
    BY <1>2, LabInit, LabNext, PTL DEF Spec

-----------------------------------------------------------------------------
(* What is derived from a dataset. *)
Present == Window("primary", Start, End)

\* What a command has read, or will read.
WillCheck(j) == j.todo # <<>> /\ Head(j.todo) = Cover("primary")
WillLoad(j) == j.todo \in Seq(Reads) /\ j.todo # <<>> /\ j.todo[Len(j.todo)] = Candles
HasRead(j, r) == \E x \in j.seen : x.read = r

Informed(j) ==
    /\ j.kind = "dataset" => WillCheck(j) \/ HasRead(j, Cover("primary"))
    /\ j.kind = "replay" => WillLoad(j) \/ HasRead(j, Candles)
    /\ \A x \in j.seen : x.read \in {Cover("primary"), Candles} => x.value \subseteq Present
    /\ j.kind = "replay" => \A x \in j.seen : x.read = Candles => j.ds.primary \subseteq x.value
    /\ j.kind # "dataset" => j.ds \in datasets
    /\ j.kind \in {"outcomes", "backtest"} => WillCheck(j) \/ RowOf(j.parent).result.candles = j.ds.primary

\* A dataset pins candles that are there; a replay has those and perhaps more;
\* outcomes and backtests are those of a replay that has no more.
DatasetsInv ==
    \A ds \in datasets : ds.primary \subseteq Present /\ ds.setup \in Setups /\ ds.structure \in Structures
Grown(id, result) ==
    /\ id.kind = "replay" => /\ id.ds \in datasets /\ id.ds.primary \subseteq result.candles
                             /\ result.candles \subseteq Present
    /\ id.kind # "replay" => /\ RowOf(id.parent).result.candles = id.parent.ds.primary
                             /\ id.parent.ds \in datasets
DataInv ==
    /\ DatasetsInv
    /\ \A r \in runs : Grown(r.id, r.result)
    /\ \A p \in Procs : job[p] # Idle => Informed(job[p])

\* Candles, datasets and results are only ever added.
OnlyMore == stored \subseteq stored' /\ datasets \subseteq datasets' /\ runs \subseteq runs'

LEMMA PresentGrows ==
    ASSUME OnlyMore PROVE Present \subseteq Present'
BY DEF OnlyMore, Present, Window

LEMMA InformedStays ==
    ASSUME LabInv, LabInv', OnlyMore, NEW j, IsCommand(j), Informed(j)
    PROVE  Informed(j)'
<1>1. Present \subseteq Present'
    BY PresentGrows
<1>2. j.kind \in {"outcomes", "backtest"} => RowOf(j.parent)' = RowOf(j.parent)
    BY StoredStays DEF LabInv, RunsInv, OnlyMore, IsCommand
<1> QED
    BY <1>1, <1>2 DEF Informed, WillCheck, WillLoad, HasRead, OnlyMore

LEMMA InformedMayChange ==
    ASSUME LabInv, LabInv', DataInv, OnlyMore, NEW p \in Procs, NEW new,
           new = Idle \/ (IsCommand(new) /\ Informed(new)),
           job' = [job EXCEPT ![p] = new]
    PROVE  \A q \in Procs : job'[q] # Idle => Informed(job[q])'
<1> SUFFICES ASSUME NEW q \in Procs, job'[q] # Idle PROVE Informed(job[q])'
    OBVIOUS
<1> PICK j : j = job'[q]
    OBVIOUS
<1>1. j = IF q = p THEN new ELSE job[q]
    BY DEF LabInv, JobsInv
<1>2. IsCommand(j) /\ Informed(j)
    BY <1>1 DEF LabInv, JobsInv, DataInv
<1>3. Informed(j)'
    BY <1>2, InformedStays
<1> QED
    BY <1>3 DEF Informed, WillCheck, WillLoad, HasRead

LEMMA GrownStays ==
    ASSUME LabInv, LabInv', OnlyMore, NEW id, NEW result, Sound(id, result), Grown(id, result)
    PROVE  Grown(id, result)'
<1>1. Present \subseteq Present'
    BY PresentGrows
<1>2. id.kind # "replay" => RowOf(id.parent)' = RowOf(id.parent)
    BY StoredStays DEF LabInv, RunsInv, OnlyMore, Sound
<1> QED
    BY <1>1, <1>2 DEF Grown, OnlyMore

\* The reads of the candles under study.
LEMMA SeenCandles ==
    ASSUME NEW f, NEW r \in {Cover("primary"), Candles}
    PROVE  Seen(r, f) = Present
<1>1. CASE r = Cover("primary")
    <2>1. r.what = "cover" /\ r.series = "primary"
        BY <1>1 DEF Cover
    <2> QED
        BY <2>1 DEF Seen, CoverageStart, Present
<1>2. CASE r = Candles
    <2>1. r.what = "candles"
        BY <1>2 DEF Candles
    <2> QED
        BY <2>1 DEF Seen, Present
<1> QED
    BY <1>1, <1>2

LEMMA GotSome ==
    ASSUME NEW j, NEW r, HasRead(j, r)
    PROVE  \E x \in j.seen : x.read = r /\ Got(j, r) = x.value
BY DEF HasRead, Got

LEMMA TablesStay ==
    ASSUME LabInv, LabInv', DataInv, OnlyMore, runs' = runs, datasets' = datasets
    PROVE  DatasetsInv' /\ \A r \in runs' : Grown(r.id, r.result)'
<1>1. DatasetsInv'
    BY PresentGrows DEF DataInv, DatasetsInv
<1>2. \A x, y : Sound(x, y) /\ Grown(x, y) => Grown(x, y)'
    BY GrownStays
<1>3. \A r \in runs : Sound(r.id, r.result) /\ Grown(r.id, r.result)
    BY DEF DataInv, LabInv, RunsInv
<1> QED
    BY <1>1, <1>2, <1>3

LEMMA LastOfConcat ==
    ASSUME NEW S, NEW x \in Seq(S), NEW e \in S
    PROVE  x \o <<e>> \in Seq(S) /\ x \o <<e>> # <<>> /\ (x \o <<e>>)[Len(x \o <<e>>)] = e
<1> DEFINE y == <<e>>
           u == x \o y
<1>1. y \in Seq(S) /\ Len(y) = 1 /\ y[1] = e
    OBVIOUS
<1>2. /\ u \in Seq(S) /\ Len(u) = Len(x) + Len(y)
      /\ \A i \in 1..Len(x) + Len(y) : u[i] = IF i <= Len(x) THEN x[i] ELSE y[i - Len(x)]
    <2> HIDE DEF y
    <2>1. /\ x \o y \in Seq(S) /\ Len(x \o y) = Len(x) + Len(y)
          /\ \A i \in 1..Len(x) + Len(y) : (x \o y)[i] = IF i <= Len(x) THEN x[i] ELSE y[i - Len(x)]
        BY <1>1, ConcatProperties, Zenon
    <2> QED
        BY <2>1
<1> HIDE DEF u, y
<1>3. Len(x) \in Nat
    BY LenProperties
<1>4. Len(u) = Len(x) + 1 /\ u[Len(x) + 1] = e
    BY <1>1, <1>2, <1>3
<1>5. u # <<>>
    BY <1>2, <1>3, <1>4
<1> QED
    BY <1>2, <1>4, <1>5 DEF u, y

LEMMA ChecksAreReads ==
    ASSUME NEW ds PROVE Checks(ds) \in Seq(Reads)
<1> DEFINE one == <<Cover("primary")>>
           two == ContextOf(ds.context # None)
<1>1. one \in Seq(Reads)
    BY DEF Reads
<1>2. two \in Seq(Reads)
    <2>1. <<Cover("context")>> \in Seq(Reads) /\ <<>> \in Seq(Reads)
        BY DEF Reads
    <2> QED
        BY <2>1 DEF ContextOf
<1> HIDE DEF one, two
<1>3. one \o two \in Seq(Reads)
    BY <1>1, <1>2, ConcatProperties
<1> QED
    BY <1>3 DEF Checks, one, two

LEMMA StartInformed ==
    ASSUME LabInv, LabInv', DataInv, NEW p \in Procs,
           NEW kind, NEW ds, NEW parent, NEW regime, NEW todo,
           Command(p, kind, ds, parent, regime, todo),
           kind \in {"dataset", "replay", "outcomes", "backtest"},
           todo # <<>>, Head(todo) = Cover("primary"),
           kind = "replay" => todo \in Seq(Reads) /\ todo[Len(todo)] = Candles,
           kind # "dataset" => ds \in datasets,
           kind \in {"outcomes", "backtest"} => IsReplay(parent) /\ ds = parent.ds
    PROVE  DataInv'
<1> PICK new : new = [kind |-> kind, files |-> files, ds |-> ds, parent |-> parent,
                      regime |-> regime, todo |-> todo, seen |-> {}]
    OBVIOUS
<1>1. job' = [job EXCEPT ![p] = new] /\ UNCHANGED <<files, stored, datasets, runs, conflicts>>
    BY DEF Command, store
<1>2. IsCommand(new)
    BY DEF IsCommand, Compared, LabInv, JobsInv
<1>3. Informed(new)
    BY DEF Informed, WillCheck, WillLoad
<1>4. OnlyMore
    BY <1>1 DEF OnlyMore
<1>5. \A q \in Procs : job'[q] # Idle => Informed(job[q])'
    BY <1>1, <1>2, <1>3, <1>4, InformedMayChange
<1>6. DatasetsInv' /\ \A r \in runs' : Grown(r.id, r.result)'
    BY <1>1, <1>4, TablesStay
<1> QED
    BY <1>5, <1>6 DEF DataInv

LEMMA StartKeepsData ==
    ASSUME LabInv, LabInv', DataInv, NEW p \in Procs,
           BuildDataset(p) \/ Replay(p) \/ Outcomes(p) \/ Backtest(p)
    PROVE  DataInv'
<1>1. <<Candles>> \in Seq(Reads) /\ <<Funding, Candles>> \in Seq(Reads) /\ Candles \in Reads
    BY DEF Reads
<1>2. CASE BuildDataset(p)
    <2>1. PICK wide : Command(p, "dataset", None, None, FALSE, <<Cover("primary")>> \o ContextOf(wide) \o <<Funding>>)
        BY <1>2 DEF BuildDataset
    <2> DEFINE one == <<Cover("primary")>>
               two == ContextOf(wide)
               three == <<Funding>>
    <2>2. one \in Seq(Reads) /\ one # <<>> /\ Head(one) = Cover("primary") /\ three \in Seq(Reads)
        BY DEF Reads
    <2>3. two \in Seq(Reads)
        <3>1. <<Cover("context")>> \in Seq(Reads) /\ <<>> \in Seq(Reads)
            BY DEF Reads
        <3> QED
            BY <3>1 DEF ContextOf
    <2>4. Command(p, "dataset", None, None, FALSE, (one \o two) \o three)
        BY <2>1
    <2> HIDE DEF one, two, three
    <2>5. one \o two \in Seq(Reads) /\ one \o two # <<>> /\ Head(one \o two) = Cover("primary")
        BY <2>2, <2>3, HeadOfConcat
    <2> PICK both : both = one \o two
        OBVIOUS
    <2>6. both \o three # <<>> /\ Head(both \o three) = Cover("primary")
        BY <2>2, <2>5, HeadOfConcat
    <2> PICK todo : todo = both \o three
        OBVIOUS
    <2>7. Command(p, "dataset", None, None, FALSE, todo) /\ todo # <<>> /\ Head(todo) = Cover("primary")
        BY <2>4, <2>6
    <2> QED
        BY <2>7, StartInformed
<1>3. CASE Replay(p)
    <2>1. PICK ds, regime, todo : /\ ds \in datasets
                                 /\ Command(p, "replay", ds, None, regime, todo)
                                 /\ todo = Checks(ds) \o <<Candles>>
        BY <1>3 DEF Replay
    <2>2. todo # <<>> /\ Head(todo) = Cover("primary")
        BY <1>1, <2>1, ChecksFirst
    <2>3. todo \in Seq(Reads) /\ todo[Len(todo)] = Candles
        <3>1. Checks(ds) \in Seq(Reads)
            BY ChecksAreReads
        <3> PICK checks : checks = Checks(ds)
            OBVIOUS
        <3>2. /\ checks \o <<Candles>> \in Seq(Reads)
              /\ (checks \o <<Candles>>)[Len(checks \o <<Candles>>)] = Candles
            BY <1>1, <3>1, LastOfConcat
        <3> QED
            BY <2>1, <3>2
    <2> QED
        BY <2>1, <2>2, <2>3, StartInformed
<1>4. ASSUME Outcomes(p) \/ Backtest(p)
      PROVE  DataInv'
    <2>1. PICK r, kind, rest :
            /\ r \in Replays /\ kind \in {"outcomes", "backtest"} /\ rest \in Seq(Reads)
            /\ Command(p, kind, r.id.ds, r.id, FALSE, Checks(r.id.ds) \o rest)
        <3>1. CASE Outcomes(p)
            <4> PICK rest : rest = <<Candles>>
                OBVIOUS
            <4>1. PICK r \in Replays : Command(p, "outcomes", r.id.ds, r.id, FALSE, Checks(r.id.ds) \o rest)
                BY <3>1 DEF Outcomes
            <4> QED
                BY <1>1, <4>1
        <3>2. CASE Backtest(p)
            <4> PICK rest : rest = <<Funding, Candles>>
                OBVIOUS
            <4>1. PICK r \in Replays : Command(p, "backtest", r.id.ds, r.id, FALSE, Checks(r.id.ds) \o rest)
                BY <3>2 DEF Backtest
            <4> QED
                BY <1>1, <4>1
        <3> QED
            BY <1>4, <3>1, <3>2
    <2> PICK ds, id, todo : ds = r.id.ds /\ id = r.id /\ todo = Checks(ds) \o rest
        OBVIOUS
    <2>2. todo # <<>> /\ Head(todo) = Cover("primary")
        BY <2>1, ChecksFirst
    <2>3. IsReplay(id) /\ ds = id.ds /\ ds \in datasets
        BY <2>1 DEF Replays, IsReplay, DataInv, Grown
    <2>4. Command(p, kind, ds, id, FALSE, todo)
        BY <2>1
    <2> QED
        BY <2>1, <2>2, <2>3, <2>4, StartInformed
<1> QED
    BY <1>2, <1>3, <1>4

\* After a read, what was to be loaded is loaded, or still to come.
LEMMA TailOfReads ==
    ASSUME NEW todo \in Seq(Reads), todo # <<>>, todo[Len(todo)] = Candles, Head(todo) # Candles
    PROVE  Tail(todo) \in Seq(Reads) /\ Tail(todo) # <<>> /\ Tail(todo)[Len(Tail(todo))] = Candles
<1>1. Len(todo) \in Nat /\ Len(todo) # 0 /\ Head(todo) = todo[1]
    BY EmptySeq, LenProperties
<1>2. Len(todo) # 1
    BY <1>1
<1>3. /\ Tail(todo) \in Seq(Reads) /\ Len(Tail(todo)) = Len(todo) - 1
      /\ \A i \in 1..Len(todo) - 1 : Tail(todo)[i] = todo[i + 1]
    BY HeadTailProperties
<1>4. Tail(todo)[Len(todo) - 1] = todo[Len(todo)]
    <2>1. Len(todo) - 1 \in 1..Len(todo) - 1 /\ (Len(todo) - 1) + 1 = Len(todo)
        BY <1>1, <1>2
    <2> QED
        BY <1>3, <2>1
<1>5. Tail(todo) # <<>>
    <2> PICK rest : rest = Tail(todo)
        OBVIOUS
    <2>1. Len(rest) # 0
        BY <1>1, <1>2, <1>3
    <2> QED
        BY <2>1
<1> QED
    BY <1>3, <1>4, <1>5

LEMMA ReadInforms ==
    ASSUME LabInv, DataInv, NEW p \in Procs, NEW j, j = job[p], j # Idle, j.todo # <<>>,
           NEW r, r = Head(j.todo), NEW v, v = Seen(r, j.files), ~(j.kind # "dataset" /\ Drifted(j, r, v)),
           NEW new, new = [j EXCEPT !.todo = Then(j, r, v), !.seen = @ \cup {[read |-> r, value |-> v]}]
    PROVE  IsCommand(new) /\ Informed(new)
<1>1. IsCommand(j) /\ Informed(j)
    BY DEF LabInv, JobsInv, DataInv
<1> PICK todo, seen : todo = Then(j, r, v) /\ seen = j.seen \cup {[read |-> r, value |-> v]}
    OBVIOUS
<1>2. DOMAIN j = {"kind", "files", "ds", "parent", "regime", "todo", "seen"}
    BY <1>1 DEF IsCommand
<1>3. new = [j EXCEPT !.todo = todo, !.seen = seen]
    OBVIOUS
<1>4. /\ DOMAIN new = DOMAIN j /\ new.kind = j.kind /\ new.files = j.files /\ new.ds = j.ds
      /\ new.parent = j.parent /\ new.todo = todo /\ new.seen = seen
    BY <1>2, <1>3
<1>5. IsCommand(new)
    <2>1. j.kind # "dataset" => j.files.version = j.ds.version
        BY <1>1 DEF IsCommand, Compared, Drifted, Cover
    <2> QED
        BY <1>1, <1>4, <2>1 DEF IsCommand, Compared
<1>6. r \in {Cover("primary"), Candles} => v = Present
    BY SeenCandles
<1>7. \A x \in seen : x \in j.seen \/ (x.read = r /\ x.value = v)
    OBVIOUS
<1>8. HasRead(new, r) /\ \A q : HasRead(j, q) => HasRead(new, q)
    <2>1. [read |-> r, value |-> v] \in seen /\ [read |-> r, value |-> v].read = r
        OBVIOUS
    <2>2. HasRead(new, r)
        BY <1>4, <2>1, Zenon DEF HasRead
    <2>3. j.seen \subseteq new.seen
        BY <1>4
    <2> QED
        BY <2>2, <2>3 DEF HasRead
<1>9. new.kind = "dataset" => HasRead(new, Cover("primary"))
    BY <1>1, <1>4, <1>8 DEF Informed, WillCheck
<1>10. new.kind = "replay" => WillLoad(new) \/ HasRead(new, Candles)
    <2> SUFFICES ASSUME j.kind = "replay", r # Candles, WillLoad(j) PROVE WillLoad(new)
        BY <1>1, <1>4, <1>8 DEF Informed
    <2>1. r \in Reads
        BY HeadTailProperties DEF WillLoad
    <2>2. r.what # "candles"
        BY <2>1 DEF Reads, Cover, Candles, Funding, RegimeAt
    <2>3. todo = Tail(j.todo)
        BY <2>2 DEF Then
    <2>4. todo \in Seq(Reads) /\ todo # <<>> /\ todo[Len(todo)] = Candles
        BY <2>3, TailOfReads DEF WillLoad
    <2> QED
        BY <1>4, <2>4 DEF WillLoad
<1>11. \A x \in new.seen : x.read \in {Cover("primary"), Candles} => x.value \subseteq Present
    BY <1>1, <1>4, <1>6, <1>7 DEF Informed
<1>12. j.kind # "dataset" => j.ds \in datasets /\ j.ds.primary \subseteq Present
    BY <1>1 DEF Informed, DataInv, DatasetsInv
<1>13. new.kind = "replay" => \A x \in new.seen : x.read = Candles => new.ds.primary \subseteq x.value
    BY <1>1, <1>4, <1>6, <1>7, <1>12 DEF Informed
<1>14. ASSUME new.kind \in {"outcomes", "backtest"}
       PROVE  RowOf(new.parent).result.candles = new.ds.primary
    <2>1. CASE WillCheck(j)
        <3>1. r = Cover("primary")
            BY <2>1 DEF WillCheck
        <3>2. v = j.ds.primary /\ v = Present
            BY <1>4, <1>6, <1>14, <3>1 DEF Drifted, Cover
        <3>3. IsReplay(j.parent) /\ j.ds = j.parent.ds
            BY <1>1, <1>4, <1>14 DEF IsCommand
        <3>4. RowOf(j.parent) \in runs /\ RowOf(j.parent).id = j.parent
            BY <3>3 DEF RowOf, IsReplay
        <3>5. Grown(j.parent, RowOf(j.parent).result)
            BY <3>4 DEF DataInv
        <3>6. j.parent.kind = "replay"
            BY <3>3 DEF IsReplay
        <3>7. RowOf(j.parent).result.candles = j.ds.primary
            BY <3>2, <3>3, <3>5, <3>6 DEF Grown
        <3> QED
            BY <1>4, <3>7
    <2>2. CASE ~WillCheck(j)
        BY <1>1, <1>4, <1>14, <2>2 DEF Informed
    <2> QED
        BY <2>1, <2>2
<1>15. Informed(new)
    BY <1>4, <1>9, <1>10, <1>11, <1>12, <1>13, <1>14 DEF Informed
<1> QED
    BY <1>5, <1>15

LEMMA ReadKeepsData ==
    ASSUME LabInv, LabInv', DataInv, NEW p \in Procs, Read(p)
    PROVE  DataInv'
<1> PICK j, r, v : j = job[p] /\ r = Head(j.todo) /\ v = Seen(r, j.files)
    OBVIOUS
<1>1. /\ j # Idle /\ j.todo # <<>> /\ UNCHANGED <<stored, datasets, runs>>
      /\ job' = [job EXCEPT ![p] =
                   IF j.kind # "dataset" /\ Drifted(j, r, v) THEN Idle
                   ELSE [j EXCEPT !.todo = Then(j, r, v), !.seen = @ \cup {[read |-> r, value |-> v]}]]
    BY DEF Read, store
<1> PICK next : next = [j EXCEPT !.todo = Then(j, r, v), !.seen = @ \cup {[read |-> r, value |-> v]}]
    OBVIOUS
<1> PICK new : new = IF j.kind # "dataset" /\ Drifted(j, r, v) THEN Idle ELSE next
    OBVIOUS
<1>2. new = Idle \/ (IsCommand(new) /\ Informed(new))
    BY <1>1, ReadInforms
<1>3. OnlyMore
    BY <1>1 DEF OnlyMore
<1>4. \A q \in Procs : job'[q] # Idle => Informed(job[q])'
    BY <1>1, <1>2, <1>3, InformedMayChange
<1>5. DatasetsInv' /\ \A x \in runs' : Grown(x.id, x.result)'
    BY <1>1, <1>3, TablesStay
<1> QED
    BY <1>4, <1>5 DEF DataInv

LEMMA LeaveKeepsInformed ==
    ASSUME LabInv, LabInv', DataInv, NEW p \in Procs, Leave(p), OnlyMore
    PROVE  \A q \in Procs : job'[q] # Idle => Informed(job[q])'
<1> PICK new : new = Idle
    OBVIOUS
<1>1. job' = [job EXCEPT ![p] = new]
    BY DEF Leave
<1> QED
    BY <1>1, InformedMayChange

LEMMA SaveRunKeepsData ==
    ASSUME LabInv, LabInv', DataInv, NEW p \in Procs, Leave(p),
           NEW id, NEW result, Sound(id, result), Grown(id, result), SaveRun(id, result)
    PROVE  DataInv'
<1>1. /\ stored' = stored /\ datasets' = datasets
      /\ runs' = runs \/ runs' = runs \cup {[id |-> id, result |-> result]}
    BY DEF Leave, SaveRun
<1>2. OnlyMore
    BY <1>1 DEF OnlyMore
<1>3. DatasetsInv'
    BY <1>1, <1>2, PresentGrows DEF DataInv, DatasetsInv
<1>4. \A x, y : Sound(x, y) /\ Grown(x, y) => Grown(x, y)'
    BY <1>2, GrownStays
<1>5. \A r \in runs' : Sound(r.id, r.result) /\ Grown(r.id, r.result)
    BY <1>1 DEF DataInv, LabInv, RunsInv
<1>6. \A r \in runs' : Grown(r.id, r.result)'
    BY <1>4, <1>5
<1>7. \A q \in Procs : job'[q] # Idle => Informed(job[q])'
    BY <1>2, LeaveKeepsInformed
<1> QED
    BY <1>3, <1>6, <1>7 DEF DataInv

LEMMA SaveDatasetKeepsData ==
    ASSUME LabInv, LabInv', DataInv, NEW p \in Procs, SaveDataset(p)
    PROVE  DataInv'
<1> PICK j, ds : j = job[p] /\ ds = Dataset(j)
    OBVIOUS
<1>1. /\ j # Idle /\ j.kind = "dataset" /\ j.todo = <<>>
      /\ datasets' = datasets \cup {ds} /\ UNCHANGED <<stored, runs>> /\ Leave(p)
    BY DEF SaveDataset, Ended, Leave
<1>2. OnlyMore
    BY <1>1 DEF OnlyMore
<1>3. IsCommand(j) /\ Informed(j)
    BY <1>1 DEF LabInv, JobsInv, DataInv
<1>4. ds.primary \subseteq Present
    <2>1. PICK x \in j.seen : x.read = Cover("primary") /\ Got(j, Cover("primary")) = x.value
        BY <1>1, <1>3, GotSome DEF Informed, WillCheck
    <2> QED
        BY <1>3, <2>1 DEF Informed, Dataset
<1>5. ds.setup \in Setups /\ ds.structure \in Structures
    BY <1>3 DEF IsCommand, Files, Dataset
<1>6. DatasetsInv'
    BY <1>1, <1>2, <1>4, <1>5, PresentGrows DEF DataInv, DatasetsInv
<1>7. \A x, y : Sound(x, y) /\ Grown(x, y) => Grown(x, y)'
    BY <1>2, GrownStays
<1>8. \A r \in runs' : Grown(r.id, r.result)'
    BY <1>1, <1>7 DEF DataInv, LabInv, RunsInv
<1>9. \A q \in Procs : job'[q] # Idle => Informed(job[q])'
    BY <1>1, <1>2, LeaveKeepsInformed
<1> QED
    BY <1>6, <1>8, <1>9 DEF DataInv

\* A result of a command that ended is grown.
LEMMA SavedReplay ==
    ASSUME LabInv, DataInv, NEW p \in Procs, SaveReplay(p)
    PROVE  \E id, result : Sound(id, result) /\ Grown(id, result) /\ SaveRun(id, result)
<1> PICK j : j = job[p]
    OBVIOUS
<1>1. j # Idle /\ j.kind = "replay" /\ j.todo = <<>>
    BY DEF SaveReplay, Ended
<1>2. /\ IsCommand(j) /\ Informed(j) /\ j.files.version = j.ds.version
      /\ j.files.setup \in Setups /\ j.files.structure \in Structures
    BY <1>1 DEF LabInv, JobsInv, IsCommand, Compared, DataInv, Files
<1> PICK id, result :
        /\ id = ReplayId(j.ds, j.regime, j.files)
        /\ result = [candles |-> Got(j, Candles), setup |-> j.files.setup, structure |-> j.files.structure,
                     version |-> j.files.version, regimes |-> {x \in j.seen : x.read.what = "regime"}]
    OBVIOUS
<1>3. Sound(id, result)
    BY <1>2 DEF Sound, ReplayId, HasFields
<1>4. PICK x \in j.seen : x.read = Candles /\ Got(j, Candles) = x.value
    BY <1>1, <1>2, GotSome DEF Informed, WillLoad
<1>5. Grown(id, result)
    BY <1>1, <1>2, <1>4 DEF Informed, Grown, ReplayId
<1>6. SaveRun(id, result)
    BY DEF SaveReplay
<1> QED
    BY <1>3, <1>5, <1>6

LEMMA SavedDerived ==
    ASSUME LabInv, DataInv, NEW p \in Procs, SaveOutcomes(p) \/ SaveBacktest(p)
    PROVE  \E id, result : Sound(id, result) /\ Grown(id, result) /\ SaveRun(id, result)
<1> PICK j : j = job[p]
    OBVIOUS
<1>1. j # Idle /\ j.kind \in {"outcomes", "backtest"} /\ j.todo = <<>>
    BY DEF SaveOutcomes, SaveBacktest, Ended
<1>2. IsCommand(j) /\ Informed(j)
    BY <1>1 DEF LabInv, JobsInv, DataInv
<1>3. /\ RowOf(j.parent).result.candles = j.parent.ds.primary
      /\ j.parent.ds \in datasets
    BY <1>1, <1>2 DEF Informed, IsCommand, WillCheck
<1>4. PICK id, result : /\ Sound(id, result) /\ SaveRun(id, result)
                        /\ id.kind # "replay" /\ id.parent = j.parent
    <2>1. CASE SaveOutcomes(p)
        BY <2>1, SaveOutcomesIsSound
    <2>2. CASE SaveBacktest(p)
        BY <2>2, SaveBacktestIsSound
    <2> QED
        BY <2>1, <2>2
<1>5. Grown(id, result)
    BY <1>3, <1>4 DEF Grown
<1> QED
    BY <1>4, <1>5

LEMMA DataInit ==
    ASSUME Init PROVE DataInv
BY DEF Init, DataInv, DatasetsInv, Idle

LEMMA DataNext ==
    ASSUME LabInv, LabInv', DataInv, [Next]_vars PROVE DataInv'
<1>1. CASE Environment \/ UNCHANGED vars
    <2>1. UNCHANGED <<datasets, runs, job>> /\ OnlyMore
        BY <1>1 DEF Environment, Edit, Deliver, store, vars, OnlyMore
    <2>2. DatasetsInv' /\ \A r \in runs' : Grown(r.id, r.result)'
        BY <2>1, TablesStay
    <2>3. ASSUME NEW q \in Procs, job'[q] # Idle PROVE Informed(job[q])'
        <3> PICK j : j = job[q]
            OBVIOUS
        <3>1. IsCommand(j) /\ Informed(j)
            BY <2>1, <2>3 DEF LabInv, JobsInv, DataInv
        <3>2. Informed(j)'
            BY <2>1, <3>1, InformedStays
        <3> QED
            BY <2>1, <3>2 DEF Informed, WillCheck, WillLoad, HasRead
    <2> QED
        BY <2>2, <2>3 DEF DataInv
<1>2. ASSUME NEW p \in Procs, BuildDataset(p) \/ Replay(p) \/ Outcomes(p) \/ Backtest(p)
      PROVE  DataInv'
    BY <1>2, StartKeepsData
<1>3. ASSUME NEW p \in Procs, Read(p)
      PROVE  DataInv'
    BY <1>3, ReadKeepsData
<1>4. ASSUME NEW p \in Procs, Interrupt(p)
      PROVE  DataInv'
    <2>1. Leave(p) /\ runs' = runs /\ datasets' = datasets /\ OnlyMore
        BY <1>4 DEF Interrupt, store, Leave, OnlyMore
    <2> QED
        BY <2>1, LeaveKeepsInformed, TablesStay DEF DataInv
<1>5. ASSUME NEW p \in Procs, SaveDataset(p)
      PROVE  DataInv'
    BY <1>5, SaveDatasetKeepsData
<1>6. ASSUME NEW p \in Procs, SaveReplay(p) \/ SaveOutcomes(p) \/ SaveBacktest(p)
      PROVE  DataInv'
    <2>1. Leave(p)
        BY <1>6 DEF SaveReplay, SaveOutcomes, SaveBacktest
    <2>2. PICK id, result : Sound(id, result) /\ Grown(id, result) /\ SaveRun(id, result)
        BY <1>6, SavedReplay, SavedDerived
    <2> QED
        BY <2>1, <2>2, SaveRunKeepsData
<1> QED
    BY <1>1, <1>2, <1>3, <1>4, <1>5, <1>6 DEF Next

\* Bar by bar, the policy accepts what lies in a usable segment of the dataset.
LEMMA ObservedIsUsable ==
    ASSUME DatasetsInv, NEW ds \in datasets, NEW t \in ds.primary, Valid(ds.primary, t, RequiredBars(ds))
    PROVE  \E s \in Usable(ds) : /\ s.start \in Int /\ s.finish \in Int
                                 /\ s.start + RequiredBars(ds) <= t + 1 /\ t < s.finish
<1> DEFINE lo == Start - RegimeBars
           hi == End - 1
           rows == ds.primary
           need == RequiredBars(ds)
<1>1. lo \in Int /\ hi \in Int /\ rows \subseteq lo..hi
    <2>1. rows \subseteq Present
        BY DEF DatasetsInv
    <2>2. Present \subseteq lo..hi
        BY DEF Present, Window, History
    <2>3. Start \in Int /\ End \in Int /\ RegimeBars \in Nat
        BY ResearchLabAssumption
    <2>4. lo \in Int /\ hi \in Int
        BY <2>3
    <2> QED
        BY <2>1, <2>2, <2>4
<1>2. need \in Nat
    <2>1. ds.setup \in Setups /\ ds.structure \in Structures
        BY DEF DatasetsInv
    <2>2. Setups \subseteq Nat /\ Structures \subseteq Nat
        BY ResearchLabAssumption
    <2>3. ds.setup \in Nat /\ ds.structure \in Nat
        BY <2>1, <2>2
    <2> QED
        BY <2>3 DEF RequiredBars
<1> HIDE DEF lo, hi
<1>3. rows \subseteq Int /\ IsFiniteSet(rows) /\ t \in Int
    <2>1. IsFiniteSet(lo..hi)
        BY <1>1, FS_Interval
    <2>2. IsFiniteSet(rows)
        BY <1>1, <2>1, Fewer
    <2>3. rows \subseteq Int
        BY <1>1
    <2> QED
        BY <2>2, <2>3
<1>4. Assess(Prepare(LastRows(rows, t + 1, need + Probe), 1, t + 1), need).status = "value"
    BY DEF Valid
<1>5. (\A x \in rows : x % 1 = 0) /\ t + 1 \in Int /\ 1 \in Nat \ {0} /\ t \in rows
    BY <1>3
<1> HIDE DEF rows, need
<1>6. \A k \in Nat : k < need => Floor(t + 1, 1) - 1 - k * 1 \in rows
    BY <1>2, <1>3, <1>4, <1>5, ValueMeansRun
<1>7. Floor(t + 1, 1) = t + 1 /\ \A k \in Nat : (t + 1) - 1 - k * 1 = t - k
    BY <1>3 DEF Floor
<1>8. \A k \in Nat : k < need => t - k \in rows
    BY <1>6, <1>7
<1>9. PICK s \in Segments(rows, 1, need) : /\ s.usable /\ s.start \in Int /\ s.finish \in Int
                                           /\ s.start + need <= t + 1 /\ t < s.finish
    BY <1>1, <1>2, <1>5, <1>8, RunLiesInSegment
<1>10. s \in Usable(ds)
    BY <1>9 DEF Usable, rows, need
<1> QED
    BY <1>9, <1>10 DEF need

\* What an analysis shows lies in the run of bars that it was computed from.
LEMMA ShownIsUsable ==
    ASSUME DatasetsInv, NEW ds \in datasets, NEW replay, NEW x,
           replay.candles = ds.primary, replay.setup \in Setups, replay.structure \in Structures,
           RequiredBars(replay) = RequiredBars(ds), x.created \in Int,
           NEW i \in Analyses(replay), x.created <= i, i <= x.created + Shown[replay.setup]
    PROVE  \E s \in Usable(ds) : /\ s.finish \in Int /\ i \in Int
                                 /\ s.start + replay.structure <= x.created /\ i < s.finish
<1>1. i \in ds.primary /\ Valid(ds.primary, i, RequiredBars(ds))
    BY DEF Analyses
<1>2. PICK s \in Usable(ds) : /\ s.start \in Int /\ s.finish \in Int
                              /\ s.start + RequiredBars(ds) <= i + 1 /\ i < s.finish
    BY <1>1, ObservedIsUsable
<1>3. /\ replay.setup \in Nat /\ replay.structure \in Nat
      /\ Shown[replay.setup] \in Nat /\ Shown[replay.setup] <= replay.setup
    BY ResearchLabAssumption
<1>4. i \in Int
    <2>1. Start \in Int /\ End \in Int /\ RegimeBars \in Nat
        BY ResearchLabAssumption
    <2>2. i \in (Start - RegimeBars)..(End - 1)
        BY <1>1 DEF DatasetsInv, Present, Window, History
    <2> QED
        BY <2>1, <2>2
<1>5. RequiredBars(ds) = replay.structure + replay.setup + 1
    BY DEF RequiredBars
<1> QED
    BY <1>2, <1>3, <1>4, <1>5

\* Outcomes and backtests are those of the candles of their dataset, computed by
\* the code of their dataset, and observe only its usable segments:
\* app/research/lab/pipeline.py load_replay, app/research/lab/dataset.py.
THEOREM DerivedOnlyFromDatasets == Spec => []DerivedFromItsDataset
<1>1. ASSUME LabInv, DataInv, NEW r \in runs, r.id.kind # "replay"
      PROVE  LET replay == RowOf(r.id.parent).result
                 ds == DatasetOf(r.id)
             IN  /\ replay.candles = ds.primary /\ replay.version = ds.version /\ r.result.version = ds.version
                 /\ RequiredBars(replay) = RequiredBars(ds) =>
                      \A x \in Observed(r.id.parent) :
                          \E s \in Usable(ds) :
                              /\ s.start + replay.structure <= x.created /\ x.created < s.finish
                              /\ x.confirmed # None => x.created <= x.confirmed /\ x.confirmed < s.finish
    <2> PICK parent, ds, replay : parent = r.id.parent /\ ds = parent.ds /\ replay = RowOf(parent).result
        OBVIOUS
    <2>1. Sound(r.id, r.result) /\ Grown(r.id, r.result) /\ DatasetOf(r.id) = ds
        BY <1>1 DEF LabInv, RunsInv, DataInv, DatasetOf
    <2>2. IsReplay(parent) /\ r.result.version = ds.version
        BY <1>1, <2>1 DEF Sound
    <2>3. replay.candles = ds.primary /\ ds \in datasets
        BY <1>1, <2>1 DEF Grown
    <2>4. RowOf(parent) \in runs /\ RowOf(parent).id = parent
        BY <2>2 DEF RowOf, IsReplay
    <2>5. Sound(parent, replay)
        BY <1>1, <2>4 DEF LabInv, RunsInv
    <2>6. replay.version = ds.version
        BY <2>2, <2>5 DEF Sound, IsReplay
    <2>7. replay.setup \in Setups /\ replay.structure \in Structures
        BY <2>2, <2>5 DEF Sound, IsReplay
    <2>8. ASSUME RequiredBars(replay) = RequiredBars(ds), NEW x \in Observed(parent)
          PROVE  \E s \in Usable(ds) :
                     /\ s.start + replay.structure <= x.created /\ x.created < s.finish
                     /\ x.confirmed # None => x.created <= x.confirmed /\ x.confirmed < s.finish
        <3>1. x.created \in Int /\ (x.confirmed # None => x.confirmed \in Int /\ x.created <= x.confirmed)
            BY ObservedSetup
        <3>2. PICK i \in Analyses(replay) :
                  /\ x.created <= i /\ i <= x.created + Shown[replay.setup]
                  /\ x.confirmed # None => x.confirmed <= i
            BY ObservedSetup
        <3>3. PICK s \in Usable(ds) : /\ s.finish \in Int /\ i \in Int
                                     /\ s.start + replay.structure <= x.created /\ i < s.finish
            BY <1>1, <2>3, <2>7, <2>8, <3>1, <3>2, ShownIsUsable DEF DataInv
        <3> QED
            BY <3>1, <3>2, <3>3
    <2> QED
        BY <2>1, <2>2, <2>3, <2>6, <2>8
<1>2. LabInv /\ DataInv => DerivedFromItsDataset
    BY <1>1 DEF DerivedFromItsDataset
<1> QED
    BY <1>2, LabInit, LabNext, DataInit, DataNext, PTL DEF Spec
=============================================================================
