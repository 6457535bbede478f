------------------------------ MODULE DataPolicy ------------------------------
(***************************************************************************)
(* DataQualityPolicy (app/research/quality.py), the one place that decides   *)
(* whether a series of candles may be used at a moment, and the segments of   *)
(* a dataset (app/research/lab/dataset.py).  A bar is its open time, a bar    *)
(* of a timeframe is `step` long.  The rows come from the table of candles:   *)
(* closed, of one series and unique, so the policy never finds them unusable. *)
(***************************************************************************)
EXTENDS Integers, FiniteSets

Floor(t, step) == t - (t % step)

\* The last n bars, whatever lies between them.
Latest(times, n) == {t \in times : Cardinality({u \in times : u >= t}) <= n}

\* last_candles: those that open before `end`.
LastRows(rows, end, n) == Latest({t \in rows : t < end}, n)

---------------------------------------------------------------------------
\* ValidatedSeries: its bars in order, as a set.  A bar is a break when it does
\* not follow the one before it.
IsStale(times, expected) == times # {} /\ \A t \in times : t < expected
IsBefore(times, u, t) == u \in times /\ u < t /\ \A v \in times : v <= u \/ t <= v
Validated(times, step, expected) ==
    [times |-> times, step |-> step, expected |-> expected, stale |-> IsStale(times, expected),
     breaks |-> {t \in times : \E u \in times : IsBefore(times, u, t) /\ t - u # step}]

\* prepare: the bars that are closed at asOf.
Prepare(rows, step, asOf) ==
    Validated({t \in rows : t + step <= asOf}, step, Floor(asOf, step) - step)

\* The bars since the last gap.  Mutant: all of them.
TailOfAll(s) == Cardinality(s.times)
TailContiguous(s) == Cardinality({t \in s.times : \A b \in s.breaks : b <= t})

\* tail and upto do not look for breaks again, they cut those of the series; a
\* break at the first bar of the view is none.
KeptBreaks(s, times) == {b \in s.breaks \cap times : \E u \in times : u < b}
TailView(s, n) ==
    IF n >= Cardinality(s.times) THEN s
    ELSE LET times == Latest(s.times, n)
         IN  [s EXCEPT !.times = times, !.breaks = KeptBreaks(s, times), !.stale = IsStale(times, s.expected)]
UpTo(s, asOf) ==
    LET times == {t \in s.times : t + s.step <= asOf}
        expected == Floor(asOf, s.step) - s.step
    IN  [s EXCEPT !.times = times, !.breaks = @ \cap times, !.expected = expected,
                  !.stale = IsStale(times, expected)]

---------------------------------------------------------------------------
\* assess, in the order of the code: nothing there, stale, long enough since the
\* last gap, a gap inside the window, too short.
Verdict(status, quality, severity, bars) ==
    [status |-> status, quality |-> quality, severity |-> severity, bars |-> bars]
Assess(s, need) ==
    LET bars == TailContiguous(s)
        gaps == s.breaks # {}
        small == IF gaps THEN "minor_gap" ELSE "no_gap"
    IN  IF s.times = {} THEN Verdict("insufficient_history", "missing_history", "no_gap", 0)
        ELSE IF s.stale THEN Verdict("data_quality_failure", "stale", "unusable", 0)
        ELSE IF bars >= need THEN Verdict("value", "valid", small, bars)
        ELSE IF gaps /\ Cardinality(s.times) >= need THEN Verdict("data_quality_failure", "gap", "major_gap", bars)
        ELSE Verdict("insufficient_history", "insufficient_history", small, bars)

---------------------------------------------------------------------------
\* segments_of: the contiguous runs of bars; a short one is listed as not usable.
Segments(rows, step, minBars) ==
    LET starts == {t \in rows : t - step \notin rows}
        Length(t) == CHOOSE n \in 1..Cardinality(rows) :
                        /\ \A k \in 0..(n - 1) : t + k * step \in rows
                        /\ t + n * step \notin rows
    IN  {[start |-> t, finish |-> t + Length(t) * step, usable |-> Length(t) >= minBars] : t \in starts}
=============================================================================
