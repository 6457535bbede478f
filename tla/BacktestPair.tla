---------------------------- MODULE BacktestPair -----------------------------
(***************************************************************************)
(* The backtest of Phase 7 (BacktestEngine.signals, run and _enter,         *)
(* app/research/lab/backtest.py) on the same bars as run_gate.  Its loop    *)
(* takes one symbol after the other, entries before exits.                  *)
(***************************************************************************)
EXTENDS Backtest

VARIABLE v1     \* [open, trades, equity, skipped] of BacktestEngine.run

V1Skips == {"type_not_in_rule", "not_confirmed", "regime_fit_not_allowed",
            "no_next_bar", "position_already_open", "no_atr", "stop_on_wrong_side", "opened_beyond_stop"}
Bump(e, why, n) == [e EXCEPT !.skipped[why] = @ + n]

\* signals: the rule of Phase 7 knows the last life of a setup; why it skips one.
Filtered(s) ==
    FirstFailing(<<<<s.type \in EnabledTypes, "type_not_in_rule">>,
                   <<FactTime(s) # Never, "not_confirmed">>,
                   <<s.fit \in AllowedFits, "regime_fit_not_allowed">>>>, "signal")
Signals(P(_)) == Cardinality({k \in DOMAIN setups : Filtered(setups[k]) = "signal" /\ P(setups[k])})
SignalsAt(sym, t) ==
    SetToSortSeq({k \in Due(t) : setups[k].symbol = sym /\ Filtered(setups[k]) = "signal"}, LAMBDA a, b : a < b)

PairInit ==
    /\ Init
    /\ v1 = [open |-> {}, trades |-> {}, equity |-> <<>>,
             skipped |-> [why \in V1Skips |-> Cardinality({k \in DOMAIN setups : Filtered(setups[k]) = why})]]

\* A signal, on the bar that opens at its decision.
Refusal(e, s, bar) ==
    FirstFailing(<<<<\A pos \in e.open : pos.symbol # s.symbol, "position_already_open">>,
                   <<s.atr # 0, "no_atr">>,
                   <<RightSide(s, Reference(s.symbol)), "stop_on_wrong_side">>,
                   <<~OpenedBeyond(s.side, bar.o, StopReference(s)), "opened_beyond_stop">>>>, "entered")

Enter(e, k, bar) ==
    LET s == setups[k]
        refusal == Refusal(e, s, bar)
        pos == Position(Cardinality(e.trades) + Cardinality(e.open) + 1, k, s.symbol, s.side,
                        FixedRisk \div Distance(Reference(s.symbol), StopReference(s)), bar.o, StopReference(s), time)
    IN  IF refusal = "entered" THEN [e EXCEPT !.open = @ \cup {pos}] ELSE Bump(e, refusal, 1)

Exits(e, sym, bar) ==
    LET held == {pos \in e.open : pos.symbol = sym}
        left == {pos \in held : ExitOn(Aged(pos), bar, time) # NoExit}
    IN  [e EXCEPT !.open = (@ \ held) \cup {Aged(pos) : pos \in held \ left},
                  !.trades = @ \cup {Closed(Aged(pos), ExitOn(Aged(pos), bar, time), time + 1) : pos \in left}]

\* Mutant: the exits before the entries.
ExitsFirst(e, sym) ==
    IF bars[sym] = NoBar THEN e
    ELSE FoldLeft(LAMBDA a, k : Enter(a, k, bars[sym]), Exits(e, sym, bars[sym]), SignalsAt(sym, time))
SymbolBar(e, sym) ==
    IF bars[sym] = NoBar THEN Bump(e, "no_next_bar", Len(SignalsAt(sym, time)))
    ELSE Exits(FoldLeft(LAMBDA a, k : Enter(a, k, bars[sym]), e, SignalsAt(sym, time)), sym, bars[sym])

\* One instant of run; last_close of a later symbol is not used before its turn.
LegacyBar(e) ==
    LET after == FoldLeft(SymbolBar, e, Symbols)
    IN  [after EXCEPT !.equity = Append(@, [at |-> time + 1,
            value |-> InitialEquity + NetOf(after.trades) + Unrealised(after.open, LastAfter)])]

\* An instant without a bar: run counts what falls on it beforehand.
LegacyGap(e) == Bump(e, "no_next_bar", Signals(LAMBDA s : FactTime(s) = time))

LegacyEnd(e) ==
    LET all == e.trades \cup {AtTheEnd(pos) : pos \in e.open}
    IN  [open |-> {}, trades |-> all,
         skipped |-> Bump(e, "no_next_bar", Signals(LAMBDA s : FactTime(s) >= time)).skipped,
         equity |-> IF e.open = {} THEN e.equity
                    ELSE [e.equity EXCEPT ![Len(e.equity)].value = InitialEquity + NetOf(all)]]

\* The configuration for which Phase 9 promises the same result.
Compared == mode.risk = "fixed_quote" /\ ~mode.rejectConflicts

PairNext ==
    \/ (BarOpens \/ Decide) /\ UNCHANGED v1
    \/ Gap /\ v1' = IF Compared THEN LegacyGap(v1) ELSE v1
    \/ BarCloses /\ v1' = IF Compared THEN LegacyBar(v1) ELSE v1
    \/ EndOfData /\ v1' = IF Compared THEN LegacyEnd(v1) ELSE v1

PairSpec == PairInit /\ [][PairNext]_<<vars, v1>>

---------------------------------------------------------------------------
\* With the same rule and a fixed amount at risk the gate and the loop of
\* Phase 9 reproduce the backtest of Phase 7, trade by trade and with the same
\* equity (V070_PHASE9_STRATEGY_RISK.md, criterion E; tests/test_phase9.py).
GateReproducesV1 ==
    Compared /\ phase # "deciding" =>
        open = v1.open /\ trades = v1.trades /\ equity = v1.equity
=============================================================================
