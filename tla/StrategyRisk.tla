---------------------------- MODULE StrategyRisk -----------------------------
(***************************************************************************)
(* The decision gate of a research run: what was known of a setup at the    *)
(* decision (setup_view, app/domain/decision.py), StrategyV1.evaluate       *)
(* (app/strategy/engine.py) and RiskEngineV1.assess (app/risk/engine.py).   *)
(*                                                                          *)
(* A setup is [symbol, side, type, fit, ref, atr, life]: side is 1 for a    *)
(* bullish and -1 for a bearish one, ref its invalidation reference and atr *)
(* the ATR of its evidence (0: not in the evidence), life its transitions   *)
(* [status, at] up to the end of the replay.  Amounts are integers; limits  *)
(* are percentages of equity, as in the configuration.  The mode is         *)
(* [risk, rejectConflicts], the two settings that the runs vary.            *)
(***************************************************************************)
EXTENDS Integers, Sequences, FiniteSets, SequencesExt

CONSTANTS
    EntryOn,            \* the fact that triggers a decision: candidate or confirmed
    EnabledTypes, AllowedFits, StopBufferAtr,
    FixedRisk,          \* fixed_quote: the amount at risk in every trade
    RiskPct, OpenRiskPct, MaxLeverage, MaxPositions,
    DailyLossPct, KillPct, HardPct,
    Instruments         \* symbols with rules -> [step, minQty, minNotional]

ASSUME GateAssumption ==
    /\ EntryOn \in {"candidate", "confirmed"} /\ KillPct <= HardPct /\ StopBufferAtr \in Nat
    /\ \A s \in DOMAIN Instruments : Instruments[s].step \in Nat \ {0}
    /\ FixedRisk \in Nat /\ RiskPct \in Nat /\ MaxLeverage \in Nat

Never == 0
Distance(a, b) == IF a > b THEN a - b ELSE b - a

\* The reason of the first check that fails, checks being <<passed, reason>>.
FirstFailing(checks, otherwise) ==
    LET failed == {k \in DOMAIN checks : ~checks[k][1]}
    IN  IF failed = {} THEN otherwise ELSE checks[CHOOSE k \in failed : \A j \in failed : k <= j][2]

(***************************************************************************)
(* The view of a setup at t.                                                *)
(***************************************************************************)
\* The numbers of the transitions known at t; the last of them tells the status.
KnownLife(s, t) == {k \in DOMAIN s.life : s.life[k].at <= t}
StatusAt(s, t) == IF KnownLife(s, t) = {} THEN "unknown" ELSE s.life[Max(KnownLife(s, t))].status
OpenStatuses == {"candidate", "confirmed"}

\* setup_time, confirmed_at
FactTime(s) ==
    LET facts == {k \in DOMAIN s.life : s.life[k].status = EntryOn}
    IN  IF facts = {} THEN Never ELSE s.life[CHOOSE k \in facts : \A j \in facts : k <= j].at

\* Mutant: opposite setups are looked up as they are last seen.
ConflictsInHindsight(s, t, all) ==
    {o \in all \ {s} : o.symbol = s.symbol /\ o.side # s.side /\ o.life # <<>> /\ Last(o.life).status \in OpenStatuses}
Conflicts(s, t, all) ==
    {o \in all \ {s} : o.symbol = s.symbol /\ o.side # s.side /\ StatusAt(o, t) \in OpenStatuses}

StopReference(s) == s.ref - s.side * StopBufferAtr * s.atr

Evaluate(mode, s, t, all) ==
    FirstFailing(<<
        <<s.type \in EnabledTypes, "strategy:unsupported_setup">>,
        <<StatusAt(s, t) \in OpenStatuses, "strategy:invalid_setup">>,
        <<FactTime(s) # Never /\ FactTime(s) <= t, "strategy:invalid_setup">>,
        <<s.fit \in AllowedFits, "strategy:invalid_setup">>,
        <<s.atr # 0 /\ s.ref # 0, "strategy:missing_required_context">>,
        <<mode.rejectConflicts => Conflicts(s, t, all) = {}, "strategy:conflicting_setup">>,
        <<StopReference(s) > 0, "strategy:missing_required_context">>>>, "strategy:accepted")

(***************************************************************************)
(* The risk of a trade at the decision price, given the portfolio p =       *)
(* [equity, peak, dayStart, today, count, openRisk, halted, kill].                    *)
(***************************************************************************)
Stops(p) == <<
    <<~p.halted /\ 100 * (p.peak - p.equity) < HardPct * p.peak, "risk:hard_drawdown_halt">>,
    <<~p.kill /\ 100 * (p.peak - p.equity) < KillPct * p.peak, "risk:kill_switch_active">>,
    <<-100 * p.today < DailyLossPct * p.dayStart, "risk:daily_loss_limit">>,
    <<p.count < MaxPositions, "risk:max_open_positions">>>>

RightSide(s, price) == s.side * StopReference(s) < s.side * price

FloorToStep(n, d, step) == (n \div (d * step)) * step

Quantity(p, price, perUnit, rules) ==
    LET size == FloorToStep(p.equity * RiskPct, 100 * perUnit, rules.step)
        cap == MaxLeverage * p.equity
    IN  IF size * price <= cap THEN size ELSE FloorToStep(cap, price, rules.step)

Answer(reason, qty) == [reason |-> reason, qty |-> IF reason = "risk:approved" THEN qty ELSE 0]

AssessFixed(s, price) ==
    IF RightSide(s, price) THEN Answer("risk:approved", FixedRisk \div Distance(price, StopReference(s)))
    ELSE Answer("risk:stop_on_wrong_side", 0)

AssessEquity(s, price, p) ==
    LET first == FirstFailing(Stops(p) \o <<
                    <<RightSide(s, price), "risk:stop_on_wrong_side">>,
                    <<s.symbol \in DOMAIN Instruments, "risk:instrument_rules_unavailable">>>>, "risk:approved")
        rules == Instruments[s.symbol]
        perUnit == Distance(price, StopReference(s))
        qty == Quantity(p, price, perUnit, rules)
    IN  IF first # "risk:approved" THEN Answer(first, 0)
        ELSE Answer(FirstFailing(<<
                <<qty > 0 /\ qty >= rules.minQty /\ qty * price >= rules.minNotional, "risk:below_min_size">>,
                <<100 * (p.openRisk + qty * perUnit) <= OpenRiskPct * p.equity, "risk:open_risk_limit">>>>,
                "risk:approved"), qty)

\* StrategyRiskGate.evaluate
Gate(mode, s, t, all, price, p) ==
    IF Evaluate(mode, s, t, all) # "strategy:accepted" THEN Answer(Evaluate(mode, s, t, all), 0)
    ELSE IF mode.risk = "fixed_quote" THEN AssessFixed(s, price) ELSE AssessEquity(s, price, p)
=============================================================================
