------------------------------ MODULE Analytics ------------------------------
(***************************************************************************)
(* What the reports of a backtest run tell of it (app/analytics, and         *)
(* metrics.py of app/research/lab): performance, costs, exits, groups,      *)
(* excursions, drawdowns, periods, concurrency, funnels, and the findings   *)
(* of the data-quality diagnosis.  All of them are computed from the stored *)
(* trades, equity, candles and counts of a finished run.  What they only    *)
(* divide or order (means, medians, percentages) is left out.               *)
(***************************************************************************)
EXTENDS BacktestPair

---------------------------------------------------------------------------
\* performance, costs, exits, group_trades (analytics/engine.py).
Total(all, Amount(_)) == MapThenSumSet(Amount, all)

\* outcome_class: exactly nothing is neither a win nor a loss.
Wins(all) == {tr \in all : tr.net > 0}
Losses(all) == {tr \in all : tr.net < 0}
Breakeven(all) == {tr \in all : tr.net = 0}
Profitable(all) == Cardinality(Wins(all))

\* A ratio that has nothing to be divided by is not available, with a reason.
RatioOf(all, numerator, denominator) ==
    IF all = {} THEN "insufficient_data"
    ELSE IF numerator = {} THEN "no_winning_trades"
    ELSE IF denominator = {} THEN "no_losing_trades" ELSE "value"

Performance(all) ==
    [trades |-> Cardinality(all), wins |-> Profitable(all), losses |-> Cardinality(Losses(all)),
     breakeven |-> Cardinality(Breakeven(all)), net |-> NetOf(all),
     gross_profit |-> NetOf(Wins(all)), gross_loss |-> NetOf(Losses(all)),
     price_gross |-> Total(all, LAMBDA tr : tr.gross),
     best |-> IF all = {} THEN 0 ELSE Max({tr.net : tr \in all}),
     worst |-> IF all = {} THEN 0 ELSE Min({tr.net : tr \in all}),
     profit_factor |-> RatioOf(all, all, Losses(all)), payoff |-> RatioOf(all, Wins(all), Losses(all))]

PnlConsistent(tr) == tr.net = tr.gross - tr.fees + tr.funding

\* Slippage is inside the gross already; it is added to show the gross without it.
Costs(all) ==
    LET gross == Total(all, LAMBDA tr : tr.gross)
        slippage == Total(all, LAMBDA tr : tr.slippage)
    IN  [theoretical |-> gross + slippage, slippage |-> slippage, gross |-> gross,
         fees |-> Total(all, LAMBDA tr : tr.fees), funding |-> Total(all, LAMBDA tr : tr.funding),
         net |-> NetOf(all), bad |-> {tr \in all : ~PnlConsistent(tr)}]

ExitOrder == {"stop", "stop_ambiguous", "take_profit", "time", "end_of_data"}
Exited(all) == [reason \in ExitOrder |-> {tr \in all : tr.reason = reason}]

\* HOLDING_BUCKETS, in bars.
HoldingBuckets == <<1, 2>>
HoldingBucket(tr) ==
    LET reached == {k \in DOMAIN HoldingBuckets : tr.closed - tr.pos.opened <= HoldingBuckets[k]}
    IN  IF reached = {} THEN Len(HoldingBuckets) + 1 ELSE Min(reached)
GroupTrades(all, Key(_)) == [name \in {Key(tr) : tr \in all} |-> {tr \in all : Key(tr) = name}]
BySetupType == GroupTrades(trades, LAMBDA tr : setups[tr.pos.setup].type)
ByDirection == GroupTrades(trades, LAMBDA tr : tr.pos.side)
BySymbol == GroupTrades(trades, LAMBDA tr : tr.pos.symbol)
ByFit == GroupTrades(trades, LAMBDA tr : setups[tr.pos.setup].fit)
ByHolding == GroupTrades(trades, HoldingBucket)

\* AnalyticsFilter.trades, by the time of the decision, the symbol and the side.
FilterTrades(all, from, until, symbols, sides) ==
    {tr \in all : /\ from <= FactTime(setups[tr.pos.setup]) /\ FactTime(setups[tr.pos.setup]) < until
                  /\ tr.pos.symbol \in symbols /\ tr.pos.side \in sides}

---------------------------------------------------------------------------
\* trade_excursions (analytics/excursions.py): how far the candles between entry
\* and exit went in favour of the trade, how far against it, and when.
Window(tr) == tr.pos.seen
Contiguous(tr) ==
    /\ Len(Window(tr)) = tr.closed - tr.pos.opened
    /\ \A k \in DOMAIN Window(tr) : Window(tr)[k].at = tr.pos.opened + k - 1

FirstLargest(values) == Min({k \in DOMAIN values : values[k] = Max(ToSet(values))})
NotNegative(x) == IF x < 0 THEN 0 ELSE x
NoExcursion == [status |-> "not_available", mfe |-> 0, mae |-> 0, adverse_first |-> "unknown", captured |-> 0]
Excursion(tr) ==
    LET entry == tr.pos.side * tr.pos.entry
        fav == [k \in DOMAIN Window(tr) |-> Best(tr.pos, Window(tr)[k].bar) - entry]
        adv == [k \in DOMAIN Window(tr) |-> entry - Worst(tr.pos, Window(tr)[k].bar)]
        toMfe == FirstLargest(fav)
        toMae == FirstLargest(adv)
    IN  IF Window(tr) = <<>> \/ ~Contiguous(tr) THEN NoExcursion
        ELSE [status |-> "valid", mfe |-> NotNegative(fav[toMfe]), mae |-> NotNegative(adv[toMae]),
              adverse_first |-> IF toMae = toMfe THEN "ambiguous" ELSE IF toMae < toMfe THEN "yes" ELSE "no",
              captured |-> tr.pos.side * (tr.price - tr.pos.entry)]
Excursions(all) == [valid |-> {tr \in all : Excursion(tr).status = "valid"},
                    not_available |-> {tr \in all : Excursion(tr).status # "valid"}]

---------------------------------------------------------------------------
\* Funnels (analytics/engine.py): skips are counted by reason, never by setup.
StrategyReasons == {"strategy:unsupported_setup", "strategy:invalid_setup", "strategy:missing_required_context",
                    "strategy:conflicting_setup", "strategy:no_direction"}
RiskReasons == {"risk:hard_drawdown_halt", "risk:kill_switch_active", "risk:daily_loss_limit",
                "risk:max_open_positions", "risk:open_risk_limit", "risk:stop_on_wrong_side",
                "risk:instrument_rules_unavailable", "risk:below_min_size"}
PreStrategySkips == {"no_next_bar", "position_already_open"}

Skipped(reasons) == Cardinality({d \in decisions : d.outcome \in reasons})
NotDecidable == Cardinality({k \in DOMAIN setups : FactTime(setups[k]) = Never})

\* observed, decidable, evaluated, accepted, approved, entered
FunnelSteps ==
    LET decidable == Len(setups) - NotDecidable
        evaluated == decidable - Skipped(PreStrategySkips)
        accepted == evaluated - Skipped(StrategyReasons)
        approved == accepted - Skipped(RiskReasons)
    IN  <<Len(setups), decidable, evaluated, accepted, approved, approved - Skipped({"opened_beyond_stop"})>>

RuleFilterSkips == {"type_not_in_rule", "not_confirmed", "regime_fit_not_allowed"}
ExecutionSkips == {"no_next_bar", "position_already_open", "stop_on_wrong_side", "opened_beyond_stop", "no_atr"}
CountOf(reasons) == MapThenSumSet(LAMBDA why : v1.skipped[why], reasons)

\* observed, passed the filters of the rule, entered
V1FunnelSteps ==
    LET passed == Len(setups) - CountOf(RuleFilterSkips)
    IN  <<Len(setups), passed, passed - CountOf(ExecutionSkips)>>

IsFunnel(steps, all) ==
    LET every == Append(steps, Profitable(all))
    IN  \A j \in 1..Len(every) - 1 : every[j + 1] <= every[j]

---------------------------------------------------------------------------
\* Drawdown (analytics/drawdown.py): episodes from a running peak until the
\* equity is back at it.  An episode is [peak, trough, done].
NoEpisode == [peak |-> 0, trough |-> 0, done |-> TRUE]

\* Mutant: the lowest point of an episode is its first one.
FallOnce(cur, from, v) == IF cur.done THEN [peak |-> from, trough |-> v, done |-> FALSE] ELSE cur
Fall(cur, from, v) ==
    IF cur.done THEN [peak |-> from, trough |-> v, done |-> FALSE]
    ELSE [cur EXCEPT !.trough = IF v < @ THEN v ELSE @]

Scan(a, v) ==
    IF v >= a.peak
    THEN [out |-> IF a.cur.done THEN a.out ELSE Append(a.out, [a.cur EXCEPT !.done = TRUE]), cur |-> NoEpisode, peak |-> v]
    ELSE [a EXCEPT !.cur = Fall(a.cur, a.peak, v)]

Episodes(points) ==
    IF points = <<>> THEN <<>>
    ELSE LET a == FoldLeft(Scan, [out |-> <<>>, cur |-> NoEpisode, peak |-> Head(points)], Tail(points))
         IN  IF a.cur.done THEN a.out ELSE Append(a.out, a.cur)

Largest(S) == IF S = {} THEN 0 ELSE Max(S)
AnalyzedDrawdown(points) == Largest({e.peak - e.trough : e \in ToSet(Episodes(points))})

\* drawdown_curve, and max_drawdown of lab/metrics.py
DrawdownCurve(points) ==
    [j \in DOMAIN points |-> Max({points[i] : i \in 1..j}) - points[j]]

Values == [j \in DOMAIN equity |-> equity[j].value]

\* trade_sequence_drawdown: of the cumulative net, in the order of the exits.
ByExit == SetToSortSeq(trades, LAMBDA a, b : a.closed < b.closed \/ (a.closed = b.closed /\ a.pos.no < b.pos.no))
Cumulative(nets) == FoldLeft(LAMBDA points, tr : Append(points, Last(points) + tr.net), <<0>>, nets)
TradeSequenceDrawdown == IF trades = {} THEN 0 ELSE AnalyzedDrawdown(Cumulative(ByExit))

---------------------------------------------------------------------------
\* The report of the lab (metrics.py), where exactly nothing counts as a loss.
\* The trades are in the order of their numbers.
ByNumber == SetToSortSeq(trades, LAMBDA a, b : a.pos.no < b.pos.no)

\* max_drawdown and streaks.
LabDrawdown(points) ==
    IF points = <<>> THEN 0
    ELSE FoldLeft(LAMBDA a, v : LET top == IF v > a.peak THEN v ELSE a.peak
                                IN  [peak |-> top, dd |-> IF top - v > a.dd THEN top - v ELSE a.dd],
                  [peak |-> Head(points), dd |-> 0], points).dd
Streaks(nets) ==
    FoldLeft(LAMBDA a, tr : LET w == IF tr.net > 0 THEN a.w + 1 ELSE 0
                                l == IF tr.net > 0 THEN 0 ELSE a.l + 1
                            IN  [w |-> w, l |-> l, wins |-> IF w > a.wins THEN w ELSE a.wins,
                                 losses |-> IF l > a.losses THEN l ELSE a.losses],
             [w |-> 0, l |-> 0, wins |-> 0, losses |-> 0], nets)
TradeMetrics ==
    [trades |-> Cardinality(trades), gross |-> Total(trades, LAMBDA tr : tr.gross),
     fees |-> Total(trades, LAMBDA tr : tr.fees), funding |-> Total(trades, LAMBDA tr : tr.funding),
     slippage |-> Total(trades, LAMBDA tr : tr.slippage), net |-> NetOf(trades),
     wins |-> Cardinality({tr \in trades : tr.net > 0}), losses |-> Cardinality({tr \in trades : tr.net <= 0}),
     ambiguous |-> Cardinality({tr \in trades : tr.reason = "stop_ambiguous"}),
     end_of_data |-> Cardinality({tr \in trades : tr.reason = "end_of_data"}),
     streaks |-> Streaks(ByNumber), max_drawdown |-> LabDrawdown(Values),
     position_bars |-> Total(trades, LAMBDA tr : tr.pos.bars)]

---------------------------------------------------------------------------
\* periods, by day: the trades closed in [day, day + 1), the equity before it
\* and inside it.
LastDay == Max({DayOf(tr.closed) : tr \in trades})
FirstDay == Min({DayOf(tr.closed) : tr \in trades})
PeriodStarts == IF trades = {} THEN {} ELSE {p \in FirstDay..LastDay : DayOf(p) = p}
TradesIn(p) == {tr \in trades : p <= tr.closed /\ tr.closed < p + BarsPerDay}
Base(p) == DayStartEquity(p)
Inside(p) ==
    LET inside == SelectSeq(equity, LAMBDA e : p < e.at /\ e.at < p + BarsPerDay)
    IN  <<Base(p)>> \o [j \in DOMAIN inside |-> inside[j].value]

---------------------------------------------------------------------------
\* portfolio: what was held between two events.
Events == {tr.pos.opened : tr \in trades} \cup {tr.closed : tr \in trades}
HeldAt(t) == {tr \in trades : tr.pos.opened <= t /\ t < tr.closed}
MaxConcurrent == Largest({Cardinality(HeldAt(t)) : t \in Events \ {Largest(Events)}})
PeakInitialRisk == Largest({Total(HeldAt(t), LAMBDA tr : InitialRisk(tr.pos)) : t \in Events \ {Largest(Events)}})

\* The time until the next event, and the concurrency weighted by it.
Until(t) == Min({u \in Events : u > t}) - t
Weighted == MapThenSumSet(LAMBDA t : Cardinality(HeldAt(t)) * Until(t), Events \ {Largest(Events)})
Share(n) == MapThenSumSet(Until, {t \in Events \ {Largest(Events)} : Cardinality(HeldAt(t)) = n})

---------------------------------------------------------------------------
\* _check_trades (analytics/quality.py), on the trades of the run.
TradeFindings(tr) ==
    (IF tr.closed < tr.pos.opened THEN {"exit_time < entry_time"} ELSE {}) \cup
    (IF tr.pos.opened < FactTime(setups[tr.pos.setup]) THEN {"entry_time < decision_time"} ELSE {}) \cup
    (IF tr.pos.bars <= 0 THEN {"bars_held <= 0"} ELSE {}) \cup
    (IF InitialRisk(tr.pos) <= 0 THEN {"initial_risk <= 0"} ELSE {}) \cup
    (IF \E other \in trades \ {tr} : other.pos.setup = tr.pos.setup THEN {"trades for one setup"} ELSE {})

\* _check_trade_windows and _check_equity.
WindowFindings(tr) == IF Len(Window(tr)) = tr.closed - tr.pos.opened THEN {} ELSE {"trade window not covered by candles"}
IrregularSteps == {k \in 1..(Len(equity) - 1) : equity[k + 1].at - equity[k].at # 1}

---------------------------------------------------------------------------
\* At the end every setup with a fact has exactly one decision, the trades are
\* numbered without a gap and are the entered decisions.
TradesAreDecisions ==
    /\ \A k \in DOMAIN setups : FactTime(setups[k]) # Never =>
           Cardinality({d \in decisions : d.setup = k}) = 1
    /\ {tr.pos.no : tr \in trades} = 1..Cardinality(trades)
    /\ \A tr \in trades : \E d \in decisions : d.no = tr.pos.no /\ d.setup = tr.pos.setup

\* The funnel is one, and the skips that the loop counts on its many ways out
\* leave exactly the trades (FUNNEL_INCONSISTENT is never reported).
FunnelAddsUp == IsFunnel(FunnelSteps, trades) /\ Last(FunnelSteps) = Cardinality(trades)

\* The books of a finished run balance, for the engine and for the analytics
\* that read them: the decisions, the trades, the counts of what was skipped and
\* the equity tell the same story whatever was still open at the end of the
\* data, and the diagnosis of the data quality finds nothing in the trades.
BooksBalance ==
    phase = "ended" =>
        /\ TradesAreDecisions
        /\ FunnelAddsUp
        /\ Last(equity).value = InitialEquity + NetOf(trades)
        /\ \A tr \in trades : TradeFindings(tr) = {}

\* The reference of a drawdown: the deepest fall between any two moments.
DeepestFall(points) ==
    Largest({points[y[1]] - points[y[2]] : y \in {x \in (DOMAIN points) \X (DOMAIN points) : x[1] <= x[2]}})

\* The longest run of consecutive trades, by its ends.
LongestRun(nets, P(_)) ==
    Largest({x[2] - x[1] + 1 : x \in {y \in (DOMAIN nets) \X (DOMAIN nets) :
                                        y[1] <= y[2] /\ \A k \in y[1]..y[2] : P(nets[k])}})

AddsUp(groups) == MapThenSumSet(LAMBDA name : NetOf(groups[name]), DOMAIN groups) = NetOf(trades)

\* Two reports of one run differ in what they call a loss and in nothing else.
ReportsAgree ==
    LET p == Performance(trades)  c == Costs(trades)  m == TradeMetrics IN
    /\ p.wins = m.wins /\ p.losses + p.breakeven = m.losses /\ p.trades = m.trades
    /\ p.net = m.net /\ p.net = p.gross_profit + p.gross_loss
    /\ c.gross = m.gross /\ c.fees = m.fees /\ c.funding = m.funding /\ c.slippage = m.slippage
    /\ c.bad = {} /\ c.net = c.gross - c.fees + c.funding
    /\ m.streaks.wins = LongestRun(ByNumber, LAMBDA tr : tr.net > 0)
    /\ m.streaks.losses = LongestRun(ByNumber, LAMBDA tr : tr.net <= 0)
    /\ m.max_drawdown = AnalyzedDrawdown(Values)
    /\ p.profit_factor = "value" => m.losses > 0

\* Every trade is in one group of each kind and on one side of any date.
GroupsAgree ==
    /\ AddsUp(Exited(trades)) /\ AddsUp(BySetupType) /\ AddsUp(ByDirection)
    /\ AddsUp(BySymbol) /\ AddsUp(ByFit) /\ AddsUp(ByHolding)
    /\ \A t \in 1..time :
           NetOf(FilterTrades(trades, 1, t, SymbolSet, {1, -1})) +
           NetOf(FilterTrades(trades, t, LastBar + 2, SymbolSet, {1, -1})) = NetOf(trades)

\* What a trade captured lies in what its candles reached, but for the slippage
\* of a market exit; the candles are all there unless the trade went over a gap.
ExcursionsAgree ==
    /\ Excursions(trades).valid = {tr \in trades : tr.pos.bars = tr.closed - tr.pos.opened}
    /\ Excursions(trades).not_available = {tr \in trades : WindowFindings(tr) # {}}
    /\ \A tr \in Excursions(trades).valid :
           LET x == Excursion(tr) IN x.captured <= x.mfe /\ -x.captured <= x.mae + Slippage
    /\ \A tr \in Excursions(trades).valid, k \in IrregularSteps :
           tr.closed <= equity[k].at \/ equity[k + 1].at <= tr.pos.opened

\* The funnel of the loop of Phase 7 adds up likewise.
V1FunnelAddsUp ==
    Compared => IsFunnel(V1FunnelSteps, v1.trades) /\ Last(V1FunnelSteps) = Cardinality(v1.trades)

\* What was held, looked up at the events only, is what was held at any moment.
ConcurrencyAgrees ==
    /\ MaxConcurrent = Largest({Cardinality(HeldAt(t)) : t \in 1..time})
    /\ PeakInitialRisk = Largest({Total(HeldAt(t), LAMBDA tr : InitialRisk(tr.pos)) : t \in 1..time})
    /\ mode.risk = "equity_pct" => MaxConcurrent <= MaxPositions
    /\ trades # {} =>
           /\ Weighted = Total(trades, LAMBDA tr : tr.closed - tr.pos.opened)
           /\ MapThenSumSet(Share, 0..Cardinality(trades)) = Max(Events) - Min(Events)

\* The statistics of a run agree with one another and with their definitions,
\* though each is computed by a pass of its own: the episodes, the curve, the
\* report of the lab and the sequence of trades give the deepest fall, no period
\* shows a deeper one, every trade belongs to one period, group and side of a
\* date, no trade captured more than its candles offered, and the concurrency is
\* that of any moment.
StatisticsAgree ==
    phase = "ended" =>
        /\ AnalyzedDrawdown(Values) = DeepestFall(Values)
        /\ Largest(ToSet(DrawdownCurve(Values))) = DeepestFall(Values)
        /\ TradeSequenceDrawdown = DeepestFall(Cumulative(ByExit))
        /\ \A p \in PeriodStarts : AnalyzedDrawdown(Inside(p)) <= DeepestFall(<<InitialEquity>> \o Values)
        /\ \A tr \in trades : Cardinality({p \in PeriodStarts : tr \in TradesIn(p)}) = 1
        /\ ReportsAgree /\ GroupsAgree /\ ExcursionsAgree /\ ConcurrencyAgrees /\ V1FunnelAddsUp
=============================================================================
