------------------------------ MODULE Backtest -------------------------------
(***************************************************************************)
(* DecisionBacktestEngine.run_gate (app/research/lab/backtest.py): bar by   *)
(* bar, first the decisions about the setups known at the close before,     *)
(* one by one, then the exits, then the equity.                             *)
(*                                                                          *)
(* The setups of the replay are given with their whole life; the bars are   *)
(* chosen as the run goes on, and the data may have gaps and end at any     *)
(* time after the last fact of a setup.  Time t is the open of bar t and    *)
(* the close of bar t - 1; a day has BarsPerDay bars.                       *)
(***************************************************************************)
EXTENDS StrategyRisk, Simulator

CONSTANTS
    Symbols,        \* in their sorting order: a sequence
    Bars,           \* per symbol, the bars it can have
    Replays,        \* the sequences of setups, in the order (symbol, setup_id)
    Modes,          \* of the gate: [risk, rejectConflicts]
    InitialEquity, BarsPerDay,
    LastBar         \* bound: the data end at the close of this bar, or before

\* Prices are positive.
NoBar == [o |-> 0, h |-> 0, l |-> 0, c |-> 0]
SymbolSet == ToSet(Symbols)

\* A setup is of a symbol of the dataset, and a candle is one (Candle.__post_init__).
ASSUME BacktestAssumption ==
    /\ \A r \in Replays : r \in Seq(ToSet(r)) /\ \A k \in DOMAIN r :
           /\ DOMAIN r[k] = {"symbol", "side", "type", "fit", "ref", "atr", "life"}
           /\ r[k].symbol \in SymbolSet /\ r[k].side \in {1, -1} /\ r[k].ref \in Int /\ r[k].atr \in Int
           /\ r[k].life \in Seq(ToSet(r[k].life)) /\ \A x \in ToSet(r[k].life) : x.at \in Nat
    /\ \A s \in SymbolSet : \A b \in Bars[s] :
           /\ {b.o, b.h, b.l, b.c} \subseteq Nat \ {0}
           /\ b.l <= b.o /\ b.o <= b.h /\ b.l <= b.c /\ b.c <= b.h
    /\ InitialEquity \in Int

\* Amounts are counted in units so small that the fixed risk buys one at any
\* price: the size is a Decimal, not rounded (risk/engine.py).
ASSUME UnitsAssumption ==
    \A r \in Replays : \A k \in DOMAIN r : \A b \in Bars[r[k].symbol] : \A price \in {b.o, b.c} :
        Distance(price, StopReference(r[k])) <= FixedRisk

VARIABLES
    mode, setups,               \* of the run, never changed
    phase, time, bars, queue,   \* the instant being processed
    last,                       \* last_close
    open, trades, equity, peak, halted, kill, halted_at, decisions

run == <<mode, setups>>
portfolio == <<peak, halted, kill, halted_at>>
vars == <<run, phase, time, bars, queue, last, open, trades, equity, portfolio, decisions>>

All == ToSet(setups)

Init ==
    /\ mode \in Modes /\ setups \in Replays
    /\ phase = "between" /\ time = 1 /\ queue = {}
    /\ bars = [s \in SymbolSet |-> NoBar] /\ last = [s \in SymbolSet |-> [c |-> 0, at |-> Never]]
    /\ open = {} /\ trades = {} /\ equity = <<>>
    /\ peak = InitialEquity /\ halted = FALSE /\ kill = FALSE /\ halted_at = Never
    /\ decisions = {}

\* The bars of one instant: a fact is known at the close of a bar of its symbol.
FactsAt(t) == {s \in All : \E k \in DOMAIN s.life : s.life[k].at = t}
BarsAt(t) == {b \in [SymbolSet -> UNION {Bars[s] : s \in SymbolSet} \cup {NoBar}] :
                  /\ \A s \in SymbolSet : b[s] \in Bars[s] \cup {NoBar}
                  /\ \A f \in FactsAt(t + 1) : b[f.symbol] # NoBar}

Due(t) == {k \in DOMAIN setups : FactTime(setups[k]) = t}

BarOpens ==
    /\ phase = "between" /\ time <= LastBar
    /\ \E b \in BarsAt(time) :
        /\ \E s \in SymbolSet : b[s] # NoBar
        /\ bars' = b
    /\ phase' = "deciding" /\ queue' = Due(time)
    /\ UNCHANGED <<run, time, last, open, trades, equity, portfolio, decisions>>

\* No symbol has a bar: the instant is not in the timeline.
Gap ==
    /\ phase = "between" /\ time <= LastBar
    /\ FactsAt(time + 1) = {}
    /\ time' = time + 1
    /\ UNCHANGED <<run, phase, bars, queue, last, open, trades, equity, portfolio, decisions>>

---------------------------------------------------------------------------
\* What the gate is told of the portfolio (PortfolioState).
EquityNow == IF equity = <<>> THEN InitialEquity ELSE Last(equity).value
DayOf(t) == (t \div BarsPerDay) * BarsPerDay
DayStartEquity(t) ==
    LET before == SelectSeq(equity, LAMBDA e : e.at <= DayOf(t))
    IN  IF before = <<>> THEN InitialEquity ELSE Last(before).value
RealizedToday(t) == NetOf({tr \in trades : DayOf(t) <= tr.closed /\ tr.closed <= t})

\* Mutant: the stops are decided by each portfolio anew.
PortfolioForgetting(t) ==
    [equity |-> EquityNow, peak |-> IF EquityNow > peak THEN EquityNow ELSE peak,
     dayStart |-> DayStartEquity(t), today |-> RealizedToday(t),
     count |-> Cardinality(open), openRisk |-> MapThenSumSet(InitialRisk, open),
     halted |-> FALSE, kill |-> FALSE]
Portfolio(t) ==
    [equity |-> EquityNow, peak |-> IF EquityNow > peak THEN EquityNow ELSE peak,
     dayStart |-> DayStartEquity(t), today |-> RealizedToday(t),
     count |-> Cardinality(open), openRisk |-> MapThenSumSet(InitialRisk, open),
     halted |-> halted, kill |-> kill]

\* Mutant: trades are numbered by the closed ones.
NumberByTrades == Cardinality(trades) + 1
TradeNumber == Cardinality(trades) + Cardinality(open) + 1

Positions(sym) == {pos \in open : pos.symbol = sym}
Reference(sym) == IF last[sym].at # Never THEN last[sym].c ELSE bars[sym].o

GateAnswer(k) ==
    Gate(mode, setups[k], time, All, Reference(setups[k].symbol), Portfolio(time))

NotAsked(k) == bars[setups[k].symbol] = NoBar \/ Positions(setups[k].symbol) # {}

Outcome(k) ==
    LET s == setups[k]
    IN  IF bars[s.symbol] = NoBar THEN "no_next_bar"
        ELSE IF Positions(s.symbol) # {} THEN "position_already_open"
        ELSE IF GateAnswer(k).reason # "risk:approved" THEN GateAnswer(k).reason
        ELSE IF OpenedBeyond(s.side, bars[s.symbol].o, StopReference(s)) THEN "opened_beyond_stop"
        ELSE "entered"

Entered(k) ==
    LET s == setups[k]
    IN  Position(TradeNumber, k, s.symbol, s.side, GateAnswer(k).qty, bars[s.symbol].o, StopReference(s), time)

\* no is the number of the trade, 0 without one.
Decision(k, outcome, no) == [setup |-> k, at |-> time, outcome |-> outcome, no |-> no]

\* One decision, on the state that the decisions before it have left: the
\* setups that are due are taken in their order.
Decide ==
    /\ phase = "deciding"
    /\ \E k \in queue :
        LET outcome == Outcome(k)
        IN  /\ \A j \in queue : k <= j
            /\ queue' = queue \ {k}
            /\ halted' = (halted \/ outcome = "risk:hard_drawdown_halt")
            /\ kill' = (kill \/ outcome = "risk:kill_switch_active")
            /\ halted_at' = IF halted' /\ halted_at = Never /\ ~NotAsked(k) THEN time ELSE halted_at
            /\ open' = IF outcome = "entered" THEN open \cup {Entered(k)} ELSE open
            /\ decisions' = decisions \cup {Decision(k, outcome, IF outcome = "entered" THEN TradeNumber ELSE 0)}
    /\ UNCHANGED <<run, phase, time, bars, last, trades, equity, peak>>

---------------------------------------------------------------------------
Present(pos) == bars[pos.symbol] # NoBar
Aged(pos) == [pos EXCEPT !.bars = @ + 1, !.seen = Append(@, [at |-> time, bar |-> bars[pos.symbol]])]
Leaving(pos) == Present(pos) /\ ExitOn(Aged(pos), bars[pos.symbol], time) # NoExit
LastAfter == [s \in SymbolSet |-> IF bars[s] # NoBar THEN [c |-> bars[s].c, at |-> time + 1] ELSE last[s]]
Unrealised(positions, closes) == MapThenSumSet(LAMBDA pos : MarkToMarket(pos, closes[pos.symbol].c), positions)

BarCloses ==
    /\ phase = "deciding" /\ queue = {}
    /\ LET left == {pos \in open : Leaving(pos)}
       IN  /\ trades' = trades \cup {Closed(Aged(pos), ExitOn(Aged(pos), bars[pos.symbol], time), time + 1) : pos \in left}
           /\ open' = {IF Present(pos) THEN Aged(pos) ELSE pos : pos \in open \ left}
    /\ last' = LastAfter
    /\ equity' = Append(equity, [at |-> time + 1,
                                 value |-> InitialEquity + NetOf(trades') + Unrealised(open', LastAfter)])
    /\ peak' = IF Last(equity').value > peak THEN Last(equity').value ELSE peak
    /\ phase' = "between" /\ time' = time + 1
    /\ bars' = [s \in SymbolSet |-> NoBar]
    /\ UNCHANGED <<run, queue, halted, kill, halted_at, decisions>>

\* A position left at the end is closed at the last close of its symbol.
AtTheEnd(pos) == Closed(pos, AtMarket(pos, "end_of_data", last[pos.symbol].c), last[pos.symbol].at)

Decided == {d.setup : d \in decisions}
Leftover == {k \in DOMAIN setups \ Decided : FactTime(setups[k]) # Never}

EndOfData ==
    /\ phase = "between" /\ equity # <<>>
    /\ \A s \in All : Last(s.life).at <= time
    /\ phase' = "ended"
    /\ trades' = trades \cup {AtTheEnd(pos) : pos \in open}
    /\ equity' = IF open = {} THEN equity
                 ELSE [equity EXCEPT ![Len(equity)].value = InitialEquity + NetOf(trades')]
    /\ open' = {}
    /\ decisions' = decisions \cup {Decision(k, "no_next_bar", 0) : k \in Leftover}
    /\ UNCHANGED <<run, time, bars, queue, last, portfolio>>

Next == BarOpens \/ Gap \/ Decide \/ BarCloses \/ EndOfData
Spec == Init /\ [][Next]_vars

---------------------------------------------------------------------------
\* A drawdown that a decision has met stops the run for good, be it the halt or
\* the kill switch: no position is opened at or after that decision, also when
\* the open positions, which are never closed by it, bring the equity back
\* (V070_PHASE9_STRATEGY_RISK.md:30).
StopReasons == {"risk:hard_drawdown_halt", "risk:kill_switch_active"}
StoppedAt == {d.at : d \in {x \in decisions : x.outcome \in StopReasons}}
StopIsForGood ==
    \A pos \in open \cup {tr.pos : tr \in trades} : \A t \in StoppedAt : pos.opened < t

\* The trades of a symbol never overlap, and each settlement of funding is paid
\* by the one position that was held over it: also when a position is closed and
\* the next one opened at the very instant of the settlement (_funding).
HeldOver(tr) == tr.pos.opened..tr.closed - 1
FundingIsPaidOnce ==
    \A a, b \in trades : a # b /\ a.pos.symbol = b.pos.symbol =>
        /\ HeldOver(a) \cap HeldOver(b) = {}
        /\ a.settled \cap b.settled = {}

\* The reference for an exit: the price on one of the two paths that a bar may
\* have taken, low first or high first, touching stop and target in that order.
PathPrice(pos, bar, path) ==
    LET stop == pos.side * pos.stop  target == pos.side * pos.target
        touched == {k \in DOMAIN path : path[k] <= stop \/ path[k] >= target}
        first == CHOOSE k \in touched : \A j \in touched : k <= j
    IN  IF touched = {} THEN pos.side * bar.c
        ELSE IF path[first] >= target THEN target
        ELSE IF first = 1 THEN path[first] ELSE stop
Paths(pos, bar) ==
    {<<pos.side * bar.o, Worst(pos, bar), Best(pos, bar)>>, <<pos.side * bar.o, Best(pos, bar), Worst(pos, bar)>>}

\* No exit is better than on any path the bar may have taken, and a position
\* that is kept was not stopped on any (Execution model, backtest.py:5-13).
ExitIsConservative ==
    phase = "deciding" => \A pos \in open : Present(pos) =>
        LET exit == ExitCheck(pos, bars[pos.symbol], time)
        IN  \A path \in Paths(pos, bars[pos.symbol]) :
                IF exit = NoExit THEN \A k \in DOMAIN path : k # 1 =>
                                          path[k] > pos.side * pos.stop /\ path[k] < pos.side * pos.target
                ELSE pos.side * exit.price <= PathPrice(pos, bars[pos.symbol], path)

\* What is decided about a setup depends on what was known then, not on the life
\* that it and the other setups had later, which the run is given as well.
Then(s, t) == [s EXCEPT !.life = [k \in KnownLife(s, t) |-> @[k]]]
NoHindsight ==
    \A d \in decisions : \A t \in {d.at} :
        LET s == setups[d.setup]
        IN  FactTime(s) = t => Evaluate(mode, s, t, All) = Evaluate(mode, Then(s, t), t, {Then(o, t) : o \in All})
=============================================================================
