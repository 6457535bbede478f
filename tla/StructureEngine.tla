--------------------------- MODULE StructureEngine ---------------------------
(***************************************************************************)
(* StructureEngine.compute (app/research/structure/engine.py): swings,      *)
(* liquidity levels, sweeps and structure breaks, replayed bar by bar over  *)
(* a window of closed bars.                                                 *)
(*                                                                          *)
(* Bars [h, l, c] are numbered from 1, a bar stands for its close.  A side  *)
(* is 1 (highs, buy side, bullish) or -1 (lows, sell side, bearish); prices *)
(* of side -1 are negated, so that beyond is always greater.                *)
(***************************************************************************)
EXTENDS Integers, Sequences, FiniteSets, SequencesExt

CONSTANTS
    SwingLeft, SwingRight,
    MinBars, WindowBars,
    ByWick,             \* break_confirmation: wick instead of close
    Tolerance,          \* eq_tolerance_atr * ATR
    AtrFrom,            \* the first bar at whose close the ATR has a value
    EqMaxSeparation,
    LevelExpiry,
    RecentEvents, RecentSweepBars

ASSUME StructureConfigAssumption ==
    /\ SwingLeft \in Nat \ {0} /\ SwingRight \in Nat \ {0}
    /\ MinBars \in Nat /\ MinBars >= SwingLeft + SwingRight + 1
    /\ WindowBars \in Nat /\ WindowBars >= MinBars
    /\ EqMaxSeparation \in Nat /\ EqMaxSeparation > SwingLeft
    /\ LevelExpiry \in Nat \ {0} /\ RecentEvents \in Nat \ {0} /\ RecentSweepBars \in Nat \ {0}
    /\ Tolerance \in Nat /\ AtrFrom \in Nat /\ ByWick \in BOOLEAN

Sides == {1, -1}

Extreme(side, bar) == IF side = 1 THEN bar.h ELSE -bar.l
CloseOf(side, bar) == side * bar.c

(***************************************************************************)
(* Pivots: strictly beyond the bars on the left, not behind those on the    *)
(* right.  Known at the close of bar i + SwingRight.                        *)
(***************************************************************************)
IsPivot(b, first, side, i) ==
    LET e(j) == Extreme(side, b[j])
    IN  /\ i - SwingLeft >= first /\ i + SwingRight <= Len(b)
        /\ \A j \in i - SwingLeft..i - 1 : e(i) > e(j)
        /\ \A j \in i + 1..i + SwingRight : e(i) >= e(j)

\* What the replay keeps (_State): per side the last pivot and whether it was
\* broken, the levels, and what happened so far.
StartState ==
    [trend |-> 0, ref |-> [s \in Sides |-> 0], broken |-> [s \in Sides |-> FALSE],
     levels |-> {}, events |-> <<>>, sweeps |-> {}]

Level(side, eq, members, price, known) ==
    [side |-> side, eq |-> eq, members |-> members, price |-> price,
     created |-> known, updated |-> known, status |-> "active"]

\* level_id is a hash of the pivots the level was formed from.
LevelId(lv) == <<lv.side, lv.eq, SubSeq(lv.members, 1, IF lv.eq THEN 2 ELSE 1)>>

Active(levels) == {lv \in levels : lv.status = "active"}
Settled(lv, status, t) == [lv EXCEPT !.status = status, !.updated = t]
LastUpdated(levels) == CHOOSE lv \in levels : \A other \in levels : other.updated <= lv.updated
LastFormed(levels) == CHOOSE lv \in levels : \A other \in levels : Head(other.members) <= Head(lv.members)

\* Mutant: the outer edge of equal extremes is their nearer price.
NearerEdge(p, q) == IF p <= q THEN p ELSE q
OuterEdge(p, q) == IF p >= q THEN p ELSE q

(***************************************************************************)
(* A pivot becomes known (_on_swing): a level of its own, which then joins  *)
(* the equal extremes near it, or forms new ones with the latest active     *)
(* extreme near it.                                                         *)
(***************************************************************************)
WithinTolerance(p, q) == p - q <= Tolerance /\ q - p <= Tolerance

NearBy(levels, side, i) ==
    {lv \in Active(levels) : lv.side = side /\ i - Last(lv.members) <= EqMaxSeparation}
Clusters(b, levels, side, i) ==
    {lv \in NearBy(levels, side, i) : lv.eq /\ WithinTolerance(Extreme(side, b[Head(lv.members)]), Extreme(side, b[i]))}
Singles(b, levels, side, i) ==
    {lv \in NearBy(levels, side, i) : ~lv.eq /\ WithinTolerance(lv.price, Extreme(side, b[i]))}

WithMember(cluster, own, known) ==
    [cluster EXCEPT !.members = Append(@, Head(own.members)),
                    !.price = OuterEdge(@, own.price), !.updated = known]

PairOf(other, own, known) ==
    Level(own.side, TRUE, <<Head(other.members), Head(own.members)>>,
          OuterEdge(other.price, own.price), known)

Join(levels, cluster, own, known) ==
    (levels \ {cluster}) \cup {Settled(own, "merged", known), WithMember(cluster, own, known)}

Pair(levels, other, own, known) ==
    (levels \ {other}) \cup
        {Settled(own, "merged", known), Settled(other, "merged", known), PairOf(other, own, known)}

WithSwing(b, levels, side, i, known) ==
    LET own == Level(side, FALSE, <<i>>, Extreme(side, b[i]), known)
        clusters == Clusters(b, levels, side, i)
        singles == Singles(b, levels, side, i)
    IN  IF known >= AtrFrom /\ clusters # {} THEN Join(levels, LastUpdated(clusters), own, known)
        ELSE IF known >= AtrFrom /\ singles # {} THEN Pair(levels, LastFormed(singles), own, known)
        ELSE levels \cup {own}

OnSwing(b, st, side, i, known) ==
    [st EXCEPT !.ref[side] = i, !.broken[side] = FALSE,
               !.levels = WithSwing(b, @, side, i, known)]

SwingsKnown(b, first, st, t) ==
    LET i == t - SwingRight
        one(s, side) == IF IsPivot(b, first, side, i) THEN OnSwing(b, s, side, i, t) ELSE s
    IN  one(one(st, 1), -1)

(***************************************************************************)
(* Bar t against the levels known when it opened (_interact): beyond and    *)
(* back is a sweep, a close beyond makes the level invalid.                 *)
(***************************************************************************)
Pierced(lv, bar) == Extreme(lv.side, bar) > lv.price
\* Mutant: a close at the price of a level is a close beyond it.
ClosedBackStrictly(lv, bar) == CloseOf(lv.side, bar) < lv.price
ClosedBack(lv, bar) == CloseOf(lv.side, bar) <= lv.price

Swept(st, bar) == {lv \in Active(st.levels) : Pierced(lv, bar) /\ ClosedBack(lv, bar)}

Interacted(lv, bar, t) ==
    IF lv.status # "active" \/ ~Pierced(lv, bar) THEN lv
    ELSE Settled(lv, IF ClosedBack(lv, bar) THEN "swept" ELSE "invalidated", t)

Interact(st, bar, t) ==
    [st EXCEPT !.levels = {Interacted(lv, bar, t) : lv \in @},
               !.sweeps = @ \cup {[id |-> <<LevelId(lv), t>>, price |-> lv.price] : lv \in Swept(st, bar)}]

(***************************************************************************)
(* Breaks of the last pivots, bullish first (_breaks).  The label depends   *)
(* on the break before it in the window, the identity does not.             *)
(***************************************************************************)
Label(trend, side) ==
    CASE trend = 0 -> "break_unclassified"
      [] trend = side -> "bos"
      [] OTHER -> "choch"

Breaks(b, st, side, t) ==
    /\ st.ref[side] # 0 /\ ~st.broken[side]
    /\ (IF ByWick THEN Extreme(side, b[t]) ELSE CloseOf(side, b[t])) > Extreme(side, b[st.ref[side]])

BreakOf(b, st, side, t) ==
    IF ~Breaks(b, st, side, t) THEN st
    ELSE [st EXCEPT !.events = Append(@, [id |-> <<side, st.ref[side], t>>, prior |-> st.trend,
                                          label |-> Label(st.trend, side)]),
                    !.trend = side, !.broken[side] = TRUE]

\* Levels without interaction for too long.
Expired(st, t) ==
    [st EXCEPT !.levels =
        {IF lv.status = "active" /\ t - lv.created >= LevelExpiry THEN Settled(lv, "expired", t) ELSE lv : lv \in @}]

\* One bar of the replay; what becomes known at its close opens the next one.
ReplayCandle(b, st, t) == Expired(BreakOf(b, BreakOf(b, Interact(st, b[t], t), 1, t), -1, t), t)

\* Mutant: a pivot is used from the close of its own bar on.
ReplayEager(b, first) ==
    LET seen[t \in first - 1..Len(b)] ==
            IF t = first - 1 THEN StartState
            ELSE ReplayCandle(b, SwingsKnown(b, first, seen[t - 1], t + SwingRight), t)
    IN  seen[Len(b)]
\* The state after the last bar, from that after the bar before it.
Replay(b, first) ==
    LET seen[t \in first - 1..Len(b)] ==
            IF t = first - 1 THEN StartState
            ELSE SwingsKnown(b, first, ReplayCandle(b, seen[t - 1], t), t)
    IN  seen[Len(b)]

\* The window of an analysis at the close of the last bar.
WindowStart(n) == IF n > WindowBars THEN n - WindowBars + 1 ELSE 1

\* What the snapshot shows of the replay.
Snapshot(b) ==
    LET n == Len(b)
        st == Replay(b, WindowStart(n))
        k == Len(st.events)
    IN  IF n < MinBars THEN StartState
        ELSE [st EXCEPT !.events = SubSeq(@, IF k > RecentEvents THEN k - RecentEvents + 1 ELSE 1, k),
                        !.sweeps = {s \in @ : s.id[2] > n - RecentSweepBars}]
=============================================================================
