------------------------------ MODULE Simulator ------------------------------
(***************************************************************************)
(* Fills, exits, funding and accounting of the backtests (BacktestEngine,   *)
(* app/research/lab/backtest.py), shared by both of its loops.              *)
(*                                                                          *)
(* Bar t is [o, h, l, c], opens at t and closes at t + 1.  Slippage and     *)
(* fees are amounts per unit instead of fractions of the price, and every   *)
(* funding rate is one amount per unit: the properties do not depend on     *)
(* what they are proportional to.                                           *)
(***************************************************************************)
EXTENDS Integers, FiniteSets, FiniteSetsExt

CONSTANTS
    Slippage, TakerFee, MakerFee,
    FundingTimes, FundingRate,      \* the funding settlements in the data
    TakeProfitR, MaxHold

ASSUME SimulatorAssumption ==
    /\ FundingTimes \subseteq Nat /\ Slippage \in Nat /\ TakeProfitR \in Nat
    /\ TakerFee \in Int /\ MakerFee \in Int /\ FundingRate \in Int

\* seen: the bars it was held over, which the store keeps.
Position(no, setup, symbol, side, qty, open, stop, t) ==
    LET entry == open + side * Slippage
    IN  [no |-> no, setup |-> setup, symbol |-> symbol, side |-> side, qty |-> qty, entry |-> entry,
         stop |-> stop, target |-> entry + TakeProfitR * (entry - stop), opened |-> t, bars |-> 0, seen |-> <<>>]

\* The market opened beyond the stop: no entry.
OpenedBeyond(side, open, stop) == side * (open + side * Slippage) <= side * stop

InitialRisk(pos) == pos.qty * pos.side * (pos.entry - pos.stop)

Exit(reason, price, expected, fee) == [reason |-> reason, price |-> price, expected |-> expected, fee |-> fee]
NoExit == Exit("none", 0, 0, 0)

\* A market exit pays slippage and the taker fee, a limit exit neither.
AtMarket(pos, reason, price) == Exit(reason, price - pos.side * Slippage, price, TakerFee)
AtTarget(pos) == Exit("take_profit", pos.target, pos.target, MakerFee)

\* The lowest and highest prices of a bar as the position sees them.
Worst(pos, bar) == IF pos.side = 1 THEN bar.l ELSE -bar.h
Best(pos, bar) == IF pos.side = 1 THEN bar.h ELSE -bar.l

\* Mutant: the target is assumed first when stop and target share a bar.
TargetFirst(pos, bar, t) ==
    LET stop == pos.side * pos.stop  target == pos.side * pos.target
    IN  CASE Best(pos, bar) >= target -> AtTarget(pos)
          [] Worst(pos, bar) <= stop /\ Best(pos, bar) < target -> AtMarket(pos, "stop", pos.stop)
          [] OTHER -> NoExit

\* _exit_check: a gap at the open first, except on the bar of the entry; then
\* the stop before the target.
ExitCheck(pos, bar, t) ==
    LET stop == pos.side * pos.stop
        target == pos.side * pos.target
        gapped(p) == pos.opened # t /\ p
        stopHit == Worst(pos, bar) <= stop
        targetHit == Best(pos, bar) >= target
    IN  IF gapped(pos.side * bar.o <= stop) THEN AtMarket(pos, "stop", bar.o)
        ELSE IF gapped(pos.side * bar.o >= target) THEN AtTarget(pos)
        ELSE CASE stopHit /\ targetHit -> AtMarket(pos, "stop_ambiguous", pos.stop)
               [] stopHit /\ ~targetHit -> AtMarket(pos, "stop", pos.stop)
               [] ~stopHit /\ targetHit -> AtTarget(pos)
               [] OTHER -> NoExit

\* Bar t, pos.bars counting it: at the stop, at the target, or out of time.
ExitOn(pos, bar, t) ==
    LET hit == ExitCheck(pos, bar, t)
    IN  IF hit = NoExit /\ pos.bars >= MaxHold THEN AtMarket(pos, "time", bar.c) ELSE hit

\* Mutant: the settlement at the moment of the entry is paid too.
SettledInclusive(opened, closed) == {f \in FundingTimes : opened <= f /\ f <= closed}
\* _funding: strictly after the entry, up to the exit.
Settled(opened, closed) == {f \in FundingTimes : opened < f /\ f <= closed}

\* A trade of the store; the times and prices of its entry are those of pos.
SimulatedTrade(pos, exit, closed, gross, fees, funding) ==
    [pos |-> pos, reason |-> exit.reason, price |-> exit.price, closed |-> closed,
     settled |-> Settled(pos.opened, closed), gross |-> gross, fees |-> fees, funding |-> funding,
     net |-> gross - fees + funding,
     slippage |-> pos.qty * (Slippage + pos.side * (exit.expected - exit.price))]

\* The accounting of the closed trade: gross at the prices of the fills, and for
\* information what they lost against the expected prices.
Closed(pos, exit, closed) ==
    LET gross == pos.qty * pos.side * (exit.price - pos.entry)
        fees == pos.qty * (TakerFee + exit.fee)
        funding == -pos.qty * pos.side * FundingRate * Cardinality(Settled(pos.opened, closed))
    IN  SimulatedTrade(pos, exit, closed, gross, fees, funding)

\* Unrealised result: without the costs of the exit and the funding so far.
MarkToMarket(pos, close) == pos.qty * (pos.side * (close - pos.entry) - TakerFee)

NetOf(trades) == MapThenSumSet(LAMBDA tr : tr.net, trades)
=============================================================================
