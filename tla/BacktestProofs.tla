---------------------------- MODULE BacktestProofs ----------------------------
(***************************************************************************)
(* Proofs about Backtest: the positions and trades of a symbol follow each  *)
(* other, so funding is paid once; nothing is opened at or after a decision  *)
(* that met a drawdown; no exit is better than its bar allows; no decision   *)
(* depends on what came later; and the books of a finished run balance.      *)
(***************************************************************************)
EXTENDS Analytics, TLAPS, FiniteSetTheorems, WellFoundedInduction, SequenceTheorems

(* What the proofs need to know of the portfolio. *)
IsPosition(pos) ==
    /\ DOMAIN pos = {"no", "setup", "symbol", "side", "qty", "entry", "stop", "target",
                     "opened", "bars", "seen"}
    /\ pos.symbol \in SymbolSet /\ pos.opened \in Nat

IsTrade(tr) ==
    /\ tr.pos.opened \in Nat /\ tr.closed \in Nat
    /\ tr.settled = Settled(tr.pos.opened, tr.closed)

ClockInv ==
    /\ mode \in Modes /\ setups \in Replays
    /\ phase \in {"between", "deciding", "ended"} /\ time \in Nat
    /\ queue \subseteq DOMAIN setups
    /\ \A s \in SymbolSet : last[s].at \in Nat /\ last[s].at <= time
    /\ DOMAIN last = SymbolSet

\* A trade is over when the next position of its symbol is opened.
Follows(tr, pos) == tr.closed <= pos.opened

PositionsInv ==
    /\ \A pos \in open : IsPosition(pos) /\ pos.opened <= time
    /\ phase = "between" => \A pos \in open : pos.opened < time
    /\ phase = "ended" => open = {}
    /\ \A p, q \in open : p.symbol = q.symbol => p = q

TradesInv ==
    /\ \A tr \in trades : IsTrade(tr) /\ tr.closed <= time
    /\ \A tr \in trades : \A pos \in open : tr.pos.symbol = pos.symbol => Follows(tr, pos)
    /\ \A a, b \in trades : a # b /\ a.pos.symbol = b.pos.symbol
                            => Follows(a, b.pos) \/ Follows(b, a.pos)

SpansInv == ClockInv /\ PositionsInv /\ TradesInv

LEMMA AgedKeeps ==
    ASSUME NEW pos, IsPosition(pos)
    PROVE  /\ IsPosition(Aged(pos))
           /\ Aged(pos).symbol = pos.symbol /\ Aged(pos).opened = pos.opened
BY DEF Aged, IsPosition

LEMMA ClosedTrade ==
    ASSUME NEW pos, IsPosition(pos), NEW exit, NEW t \in Nat
    PROVE  /\ IsTrade(Closed(pos, exit, t))
           /\ Closed(pos, exit, t).pos = pos /\ Closed(pos, exit, t).closed = t
BY DEF Closed, SimulatedTrade, IsTrade, IsPosition

(* The position of a new decision. *)
LEMMA EnteredPosition ==
    ASSUME ClockInv, NEW k \in queue
    PROVE  /\ IsPosition(Entered(k))
           /\ Entered(k).symbol = setups[k].symbol /\ Entered(k).opened = time
<1>1. setups[k].symbol \in SymbolSet
    BY BacktestAssumption DEF ClockInv
<1> QED
    BY <1>1 DEF Entered, Position, IsPosition, ClockInv

LEMMA SpansInit == Init => SpansInv
BY DEF Init, SpansInv, ClockInv, PositionsInv, TradesInv, Never

LEMMA DecideKeepsSpans == SpansInv /\ Decide => SpansInv'
<1> SUFFICES ASSUME SpansInv, Decide PROVE SpansInv'
    OBVIOUS
<1>1. PICK k \in queue :
         /\ open' = IF Outcome(k) = "entered" THEN open \cup {Entered(k)} ELSE open
         /\ queue' = queue \ {k}
    BY DEF Decide
<1>2. UNCHANGED <<mode, setups, phase, time, last, trades>> /\ phase = "deciding"
    BY DEF Decide, run
<1>3. ClockInv'
    BY <1>1, <1>2 DEF SpansInv, ClockInv
<1>4. CASE Outcome(k) # "entered"
    BY <1>1, <1>2, <1>3, <1>4 DEF SpansInv, PositionsInv, TradesInv
<1>5. CASE Outcome(k) = "entered"
    <2> DEFINE new == Entered(k)
    <2>1. open' = open \cup {new}
        BY <1>1, <1>5
    <2>2. IsPosition(new) /\ new.symbol = setups[k].symbol /\ new.opened = time
        BY EnteredPosition DEF SpansInv
    <2>3. \A pos \in open : pos.symbol # new.symbol
        BY <1>5, <2>2 DEF Outcome, Positions
    <2> HIDE DEF new
    <2>4. time \in Nat
        BY DEF SpansInv, ClockInv
    <2>5. PositionsInv'
        BY <1>2, <2>1, <2>2, <2>3, <2>4 DEF SpansInv, PositionsInv
    <2>6. TradesInv'
        BY <1>2, <2>1, <2>2, <2>4 DEF SpansInv, TradesInv, Follows
    <2> QED
        BY <1>3, <2>5, <2>6 DEF SpansInv
<1> QED
    BY <1>4, <1>5

(* The positions that a bar or the end of the data closes become trades.     *)
LEMMA ClosedKeepsTrades ==
    ASSUME SpansInv, NEW left \in SUBSET open, NEW New,
           \A pos \in left : /\ IsTrade(New[pos]) /\ New[pos].closed <= time'
                             /\ New[pos].pos.symbol = pos.symbol
                             /\ New[pos].pos.opened = pos.opened,
           \A tr \in trades' : tr \in trades \/ \E pos \in left : tr = New[pos],
           \A pos \in open' : \E old \in open \ left : pos.symbol = old.symbol
                                                       /\ pos.opened = old.opened,
           time' \in Nat, time <= time'
    PROVE  TradesInv'
<1>1. \A tr \in trades : IsTrade(tr) /\ tr.closed <= time /\ tr.closed \in Nat /\ time \in Nat
    BY DEF SpansInv, TradesInv, IsTrade, ClockInv
<1>2. \A tr \in trades' : IsTrade(tr) /\ tr.closed <= time'
    BY <1>1
<1>3. \A p, q \in open : p.symbol = q.symbol => p = q
    BY DEF SpansInv, PositionsInv
<1>4. \A tr \in trades : \A pos \in open : tr.pos.symbol = pos.symbol => Follows(tr, pos)
    BY DEF SpansInv, TradesInv
<1>5. ASSUME NEW tr \in trades', NEW pos \in open', tr.pos.symbol = pos.symbol
      PROVE  Follows(tr, pos)
    <2>1. PICK old \in open \ left : pos.symbol = old.symbol /\ pos.opened = old.opened
        OBVIOUS
    <2>2. tr \in trades
        BY <1>3, <1>5, <2>1
    <2> QED
        BY <1>4, <1>5, <2>1, <2>2 DEF Follows
<1>6. ASSUME NEW a \in trades', NEW b \in trades', a # b, a.pos.symbol = b.pos.symbol
      PROVE  Follows(a, b.pos) \/ Follows(b, a.pos)
    <2>1. CASE a \in trades /\ b \in trades
        BY <1>6, <2>1 DEF SpansInv, TradesInv
    <2>2. ASSUME NEW p \in left, a = New[p] PROVE b \in trades /\ Follows(b, a.pos)
        BY <1>3, <1>4, <1>6, <2>2 DEF Follows
    <2>3. ASSUME NEW p \in left, b = New[p] PROVE a \in trades /\ Follows(a, b.pos)
        BY <1>3, <1>4, <1>6, <2>3 DEF Follows
    <2> QED
        BY <2>1, <2>2, <2>3
<1> QED
    BY <1>2, <1>5, <1>6 DEF TradesInv

LEMMA BarKeepsSpans == SpansInv /\ BarCloses => SpansInv'
<1> SUFFICES ASSUME SpansInv, BarCloses PROVE SpansInv'
    OBVIOUS
<1> DEFINE left == {pos \in open : Leaving(pos)}
           New(pos) == Closed(Aged(pos), ExitOn(Aged(pos), bars[pos.symbol], time), time + 1)
           Kept(pos) == IF Present(pos) THEN Aged(pos) ELSE pos
<1>1. /\ trades' = trades \cup {New(pos) : pos \in left}
      /\ open' = {Kept(pos) : pos \in open \ left}
      /\ time' = time + 1 /\ phase' = "between" /\ last' = LastAfter
      /\ UNCHANGED <<mode, setups, queue>>
    BY DEF BarCloses, run
<1>2. time \in Nat /\ time' \in Nat /\ time <= time'
    BY <1>1 DEF SpansInv, ClockInv
<1>3. \A pos \in open : IsPosition(pos) /\ pos.opened <= time /\ pos.opened \in Nat
    BY DEF SpansInv, PositionsInv, IsPosition
<1>4. \A pos \in open : IsPosition(Kept(pos)) /\ Kept(pos).symbol = pos.symbol
                        /\ Kept(pos).opened = pos.opened
    BY <1>3, AgedKeeps
<1>5. \A pos \in open : /\ IsTrade(New(pos)) /\ New(pos).closed = time + 1
                        /\ New(pos).pos = Aged(pos)
    BY <1>2, <1>3, AgedKeeps, ClosedTrade
<1>6. \A pos \in left : /\ IsTrade(New(pos)) /\ New(pos).closed <= time'
                        /\ New(pos).pos.symbol = pos.symbol
                        /\ New(pos).pos.opened = pos.opened
    BY <1>1, <1>2, <1>3, <1>5, AgedKeeps
<1>7. ClockInv'
    BY <1>1, <1>2 DEF SpansInv, ClockInv, LastAfter
<1> HIDE DEF New, Kept
<1>8. \A pos \in open' : \E old \in open \ left : pos = Kept(old)
    BY <1>1
<1>9. PositionsInv'
    <2>1. \A pos \in open' : IsPosition(pos) /\ pos.opened < time'
        BY <1>1, <1>2, <1>3, <1>4, <1>8
    <2>2. \A p, q \in open' : p.symbol = q.symbol => p = q
        BY <1>4, <1>8 DEF SpansInv, PositionsInv
    <2> QED
        BY <1>1, <2>1, <2>2, <1>2 DEF PositionsInv, IsPosition
<1>10. TradesInv'
    <2>1. left \in SUBSET open
        OBVIOUS
    <2>2. \A pos \in open' : \E old \in open \ left : pos.symbol = old.symbol
                                                      /\ pos.opened = old.opened
        BY <1>4, <1>8
    <2> DEFINE new == [pos \in left |-> New(pos)]
    <2>3. \A tr \in trades' : tr \in trades \/ \E pos \in left : tr = New(pos)
        BY <1>1
    <2> HIDE DEF left
    <2>4. \A pos \in left : new[pos] = New(pos)
        OBVIOUS
    <2> HIDE DEF new
    <2>5. \A tr \in trades' : tr \in trades \/ \E pos \in left : tr = new[pos]
        BY <2>3, <2>4
    <2>6. \A pos \in left : /\ IsTrade(new[pos]) /\ new[pos].closed <= time'
                            /\ new[pos].pos.symbol = pos.symbol
                            /\ new[pos].pos.opened = pos.opened
        BY <1>6, <2>4
    <2> QED
        BY <1>2, <2>1, <2>2, <2>5, <2>6, ClosedKeepsTrades
<1> QED
    BY <1>7, <1>9, <1>10 DEF SpansInv

LEMMA EndKeepsSpans ==
    ASSUME SpansInv, trades' = trades \cup {AtTheEnd(pos) : pos \in open},
           open' = {}, phase' = "ended", UNCHANGED <<mode, setups, queue, time, last>>
    PROVE  SpansInv'
<1>1. /\ trades' = trades \cup {AtTheEnd(pos) : pos \in open}
      /\ open' = {} /\ phase' = "ended"
      /\ UNCHANGED <<mode, setups, queue, time, last>>
    OBVIOUS
<1>2. time \in Nat /\ time' \in Nat /\ time <= time'
    BY <1>1 DEF SpansInv, ClockInv
<1>3. \A pos \in open : /\ IsTrade(AtTheEnd(pos)) /\ AtTheEnd(pos).closed <= time'
                        /\ AtTheEnd(pos).pos.symbol = pos.symbol
                        /\ AtTheEnd(pos).pos.opened = pos.opened
    <2> SUFFICES ASSUME NEW pos \in open
                 PROVE  /\ IsTrade(AtTheEnd(pos)) /\ AtTheEnd(pos).closed <= time'
                        /\ AtTheEnd(pos).pos.symbol = pos.symbol
                        /\ AtTheEnd(pos).pos.opened = pos.opened
        OBVIOUS
    <2>1. IsPosition(pos) /\ last[pos.symbol].at \in Nat /\ last[pos.symbol].at <= time
        BY DEF SpansInv, PositionsInv, ClockInv, IsPosition
    <2> QED
        BY <1>1, <2>1, ClosedTrade DEF AtTheEnd
<1>4. ClockInv' /\ PositionsInv'
    BY <1>1 DEF SpansInv, ClockInv, PositionsInv
<1>5. TradesInv'
    <2> DEFINE left == open
               new == [pos \in left |-> AtTheEnd(pos)]
    <2>1. \A tr \in trades' : tr \in trades \/ \E pos \in left : tr = new[pos]
        BY <1>1
    <2>2. \A pos \in left : /\ IsTrade(new[pos]) /\ new[pos].closed <= time'
                            /\ new[pos].pos.symbol = pos.symbol
                            /\ new[pos].pos.opened = pos.opened
        BY <1>3
    <2>3. \A pos \in open' : \E old \in open \ left : pos.symbol = old.symbol
                                                    /\ pos.opened = old.opened
        BY <1>1
    <2>4. left \in SUBSET open
        OBVIOUS
    <2>5. time' \in Nat /\ time <= time'
        BY <1>2
    <2> HIDE DEF left, new
    <2> QED
        BY <2>1, <2>2, <2>3, <2>4, <2>5, ClosedKeepsTrades
<1> QED
    BY <1>4, <1>5 DEF SpansInv

LEMMA Spans == Spec => []SpansInv
<1>1. ASSUME SpansInv, [Next]_vars PROVE SpansInv'
    <2> USE <1>1
    <2>1. CASE BarOpens
        BY <2>1 DEF BarOpens, SpansInv, ClockInv, PositionsInv, TradesInv, run, Due
    <2>2. CASE Gap
        BY <2>2 DEF Gap, SpansInv, ClockInv, PositionsInv, TradesInv, run, IsPosition, IsTrade
    <2>3. CASE UNCHANGED vars
        BY <2>3 DEF vars, SpansInv, ClockInv, PositionsInv, TradesInv, run
    <2>4. CASE EndOfData
        BY <2>4, EndKeepsSpans DEF EndOfData, run
    <2> QED
        BY <2>1, <2>2, <2>3, <2>4, DecideKeepsSpans, BarKeepsSpans DEF Next
<1> QED
    BY SpansInit, <1>1, PTL DEF Spec

\* The trades of a symbol never overlap and a settlement of funding is paid by
\* one of them at most, whatever the bars, the gaps in them, the exits and the
\* settlements are: also when a position is closed, or the data end, at the
\* instant of a settlement (run_gate, _funding).
THEOREM NoFundingTwice == Spec => []FundingIsPaidOnce
<1>1. ASSUME SpansInv PROVE FundingIsPaidOnce
    <2> SUFFICES ASSUME NEW a \in trades, NEW b \in trades, a # b,
                        a.pos.symbol = b.pos.symbol
                 PROVE  /\ HeldOver(a) \cap HeldOver(b) = {}
                        /\ a.settled \cap b.settled = {}
        BY DEF FundingIsPaidOnce
    <2>1. IsTrade(a) /\ IsTrade(b)
        BY <1>1 DEF SpansInv, TradesInv
    <2>2. \A x, y \in trades : IsTrade(x) /\ IsTrade(y) /\ Follows(x, y.pos) =>
              HeldOver(x) \cap HeldOver(y) = {} /\ x.settled \cap y.settled = {}
        <3> SUFFICES ASSUME NEW x \in trades, NEW y \in trades, IsTrade(x), IsTrade(y),
                            Follows(x, y.pos)
                     PROVE  /\ HeldOver(x) \cap HeldOver(y) = {}
                            /\ x.settled \cap y.settled = {}
            OBVIOUS
        <3>1. /\ x.pos.opened \in Nat /\ x.closed \in Nat /\ y.pos.opened \in Nat
              /\ y.closed \in Nat /\ x.closed <= y.pos.opened
            BY DEF IsTrade, Follows
        <3>2. \A t \in HeldOver(x) : t \in Int /\ t < x.closed
            BY <3>1 DEF HeldOver
        <3>3. \A t \in HeldOver(y) : t \in Int /\ y.pos.opened <= t
            BY <3>1 DEF HeldOver
        <3>4. \A f \in x.settled : f \in Nat /\ f <= x.closed
            BY SimulatorAssumption DEF IsTrade, Settled
        <3>5. \A f \in y.settled : f \in Nat /\ y.pos.opened < f
            BY SimulatorAssumption DEF IsTrade, Settled
        <3>6. \A t \in HeldOver(x) : t \notin HeldOver(y)
            BY <3>1, <3>2, <3>3
        <3>7. \A f \in x.settled : f \notin y.settled
            BY <3>1, <3>4, <3>5
        <3> QED
            BY <3>6, <3>7
    <2> QED
        BY <1>1, <2>1, <2>2 DEF SpansInv, TradesInv
<1> QED
    BY Spans, <1>1, PTL

-----------------------------------------------------------------------------
(* The drawdown stops. *)
Peak == IF EquityNow > peak THEN EquityNow ELSE peak

\* The portfolio of this instant has met neither of the two drawdowns.
WithinDrawdown ==
    /\ 100 * (Peak - EquityNow) < HardPct * Peak
    /\ 100 * (Peak - EquityNow) < KillPct * Peak

StopInv ==
    /\ StoppedAt # {} => halted \/ kill
    /\ halted \/ kill => mode.risk # "fixed_quote"
    /\ \A t \in StoppedAt : t \in Nat /\ t <= time
    /\ phase # "ended" => \A tr \in trades : tr.pos.opened < time
    /\ (phase = "deciding" /\ mode.risk # "fixed_quote" /\ \E pos \in open : pos.opened = time)
           => ~halted /\ ~kill /\ WithinDrawdown
    /\ StopIsForGood

LEMMA Smallest ==
    ASSUME NEW S, S \subseteq Nat, S # {}
    PROVE  \E k \in S : \A j \in S : k <= j
<1>1. \E k \in S : \A j \in S : ~(<<j, k>> \in OpToRel(<, Nat))
    BY WFMin, NatLessThanWellFounded
<1>2. \A j, k \in Nat : j < k => <<j, k>> \in OpToRel(<, Nat)
    BY DEF OpToRel
<1>3. \E k \in S : \A j \in S : ~(j < k)
    BY <1>1, <1>2
<1> QED
    BY <1>3

(* The answer of a list of checks is the reason of one that fails, or the    *)
(* answer for the case that none does.                                       *)
LEMMA FirstFailingFacts ==
    ASSUME NEW checks, DOMAIN checks \subseteq Nat, NEW otherwise,
           NEW answer, answer = FirstFailing(checks, otherwise)
    PROVE  \/ answer = otherwise /\ \A k \in DOMAIN checks : checks[k][1]
           \/ \E k \in DOMAIN checks : ~checks[k][1] /\ answer = checks[k][2]
<1> DEFINE failed == {k \in DOMAIN checks : ~checks[k][1]}
           first == CHOOSE k \in failed : \A j \in failed : k <= j
<1>1. CASE failed = {}
    BY <1>1 DEF FirstFailing
<1>2. CASE failed # {}
    <2>1. failed \subseteq Nat
        OBVIOUS
    <2>2. answer = checks[first][2]
        BY <1>2 DEF FirstFailing
    <2> HIDE DEF failed
    <2>3. first \in failed
        BY <1>2, <2>1, Smallest
    <2> QED
        BY <2>2, <2>3 DEF failed
<1> QED
    BY <1>1, <1>2

LEMMA FourAndTwo ==
    ASSUME NEW a, NEW b, NEW c, NEW d, NEW e, NEW f
    PROVE  <<a, b, c, d>> \o <<e, f>> = <<a, b, c, d, e, f>>
<1> DEFINE S == {a, b, c, d, e, f}
           x == <<a, b, c, d>>
           y == <<e, f>>
           z == <<a, b, c, d, e, f>>
           u == x \o y
<1>1. x \in Seq(S) /\ Len(x) = 4 /\ y \in Seq(S) /\ Len(y) = 2 /\ z \in Seq(S) /\ Len(z) = 6
    OBVIOUS
<1>2. /\ x[1] = a /\ x[2] = b /\ x[3] = c /\ x[4] = d /\ y[1] = e /\ y[2] = f
      /\ z[1] = a /\ z[2] = b /\ z[3] = c /\ z[4] = d /\ z[5] = e /\ z[6] = f
    OBVIOUS
<1> HIDE DEF S, x, y, z
<1>3. /\ x \o y \in Seq(S) /\ Len(x \o y) = Len(x) + Len(y)
      /\ \A i \in 1..Len(x) + Len(y) :
            (x \o y)[i] = IF i <= Len(x) THEN x[i] ELSE y[i - Len(x)]
    BY <1>1, ConcatProperties, Zenon
<1>4. /\ u \in Seq(S) /\ Len(u) = Len(x) + Len(y)
      /\ \A i \in 1..Len(x) + Len(y) : u[i] = IF i <= Len(x) THEN x[i] ELSE y[i - Len(x)]
    BY <1>3
<1> HIDE DEF u
<1>5. Len(u) = 6 /\ \A i \in 1..6 : u[i] = IF i <= 4 THEN x[i] ELSE y[i - 4]
    BY <1>1, <1>4
<1>6. u[1] = a /\ u[2] = b /\ u[3] = c /\ u[4] = d /\ u[5] = e /\ u[6] = f
    BY <1>2, <1>5
<1>7. \A i \in 1..6 : u[i] = z[i]
    BY <1>2, <1>6
<1>8. u \in Seq(S) /\ z \in Seq(S) /\ Len(u) = Len(z) /\ \A i \in 1..Len(u) : u[i] = z[i]
    BY <1>1, <1>4, <1>5, <1>7
<1>9. u = z
    BY <1>8
<1> QED
    BY <1>9 DEF u, x, y, z

\* The answer "accepted" is the only one of the strategy that lets a setup on.
LEMMA StrategyAnswers ==
    ASSUME NEW m, NEW s, NEW t, NEW all
    PROVE  Evaluate(m, s, t, all) \in
               {"strategy:unsupported_setup", "strategy:invalid_setup",
                "strategy:missing_required_context", "strategy:conflicting_setup",
                "strategy:accepted"}
<1> DEFINE checks == <<
        <<s.type \in EnabledTypes, "strategy:unsupported_setup">>,
        <<StatusAt(s, t) \in OpenStatuses, "strategy:invalid_setup">>,
        <<FactTime(s) # Never /\ FactTime(s) <= t, "strategy:invalid_setup">>,
        <<s.fit \in AllowedFits, "strategy:invalid_setup">>,
        <<s.atr # 0 /\ s.ref # 0, "strategy:missing_required_context">>,
        <<m.rejectConflicts => Conflicts(s, t, all) = {}, "strategy:conflicting_setup">>,
        <<StopReference(s) > 0, "strategy:missing_required_context">>>>
<1>1. DOMAIN checks = 1..7
    OBVIOUS
<1>2. \A k \in 1..7 : checks[k][2] \in
          {"strategy:unsupported_setup", "strategy:invalid_setup",
           "strategy:missing_required_context", "strategy:conflicting_setup"}
    OBVIOUS
<1>3. Evaluate(m, s, t, all) = FirstFailing(checks, "strategy:accepted")
    BY DEF Evaluate
<1> HIDE DEF checks
<1> QED
    BY <1>1, <1>2, <1>3, FirstFailingFacts

StopsPass(p) ==
    /\ ~p.halted /\ 100 * (p.peak - p.equity) < HardPct * p.peak
    /\ ~p.kill /\ 100 * (p.peak - p.equity) < KillPct * p.peak

\* The risk engine approves a size that it has computed and found positive.
Sized(s, price, p) ==
    LET qty == AssessEquity(s, price, p).qty
    IN  /\ RightSide(s, price) /\ s.symbol \in DOMAIN Instruments /\ qty > 0
        /\ qty = Quantity(p, price, Distance(price, StopReference(s)), Instruments[s.symbol])

\* An approved trade has passed the drawdown stops, and no other answer than
\* theirs has their name.
LEMMA RiskAnswer ==
    ASSUME NEW s, NEW price, NEW p, NEW a, a = AssessEquity(s, price, p).reason
    PROVE  /\ a \in StopReasons => ~StopsPass(p)
           /\ a = "risk:approved" => StopsPass(p)
           /\ a \in RiskReasons \cup {"risk:approved"}
           /\ a = "risk:approved" => Sized(s, price, p)
<1> DEFINE hard == <<~p.halted /\ 100 * (p.peak - p.equity) < HardPct * p.peak,
                     "risk:hard_drawdown_halt">>
           killed == <<~p.kill /\ 100 * (p.peak - p.equity) < KillPct * p.peak,
                       "risk:kill_switch_active">>
           daily == <<-100 * p.today < DailyLossPct * p.dayStart, "risk:daily_loss_limit">>
           count == <<p.count < MaxPositions, "risk:max_open_positions">>
           side == <<RightSide(s, price), "risk:stop_on_wrong_side">>
           known == <<s.symbol \in DOMAIN Instruments, "risk:instrument_rules_unavailable">>
           checks == Stops(p) \o <<side, known>>
           first == FirstFailing(checks, "risk:approved")
<1>1. Stops(p) = <<hard, killed, daily, count>>
    BY DEF Stops
<1>2. /\ hard[1] <=> ~p.halted /\ 100 * (p.peak - p.equity) < HardPct * p.peak
      /\ killed[1] <=> ~p.kill /\ 100 * (p.peak - p.equity) < KillPct * p.peak
      /\ hard[2] = "risk:hard_drawdown_halt" /\ killed[2] = "risk:kill_switch_active"
      /\ daily[2] = "risk:daily_loss_limit" /\ count[2] = "risk:max_open_positions"
      /\ side[2] = "risk:stop_on_wrong_side" /\ known[2] = "risk:instrument_rules_unavailable"
    OBVIOUS
<1> HIDE DEF hard, killed, daily, count
<1>3. Stops(p) \o <<side, known>> = <<hard, killed, daily, count, side, known>>
    <2> HIDE DEF side, known
    <2> QED
        BY <1>1, FourAndTwo
<1> HIDE DEF side, known
<1>4. /\ DOMAIN checks = 1..6
      /\ checks[1] = hard /\ checks[2] = killed /\ checks[3] = daily /\ checks[4] = count
      /\ checks[5] = side /\ checks[6] = known
    <2> DEFINE six == <<hard, killed, daily, count, side, known>>
    <2>1. /\ DOMAIN six = 1..6
          /\ six[1] = hard /\ six[2] = killed /\ six[3] = daily /\ six[4] = count
          /\ six[5] = side /\ six[6] = known
        OBVIOUS
    <2>2. checks = six
        BY <1>3
    <2> HIDE DEF six, checks
    <2> QED
        BY <2>1, <2>2
<1> HIDE DEF checks
<1>5. \/ first = "risk:approved" /\ \A k \in 1..6 : checks[k][1]
      \/ \E k \in 1..6 : ~checks[k][1] /\ first = checks[k][2]
    <2>1. DOMAIN checks \subseteq Nat
        BY <1>4
    <2> QED
        BY <1>4, <2>1, FirstFailingFacts
<1> HIDE DEF first
<1>6. \/ first = "risk:approved" /\ hard[1] /\ killed[1] /\ side[1] /\ known[1]
      \/ first = "risk:hard_drawdown_halt" /\ ~hard[1]
      \/ first = "risk:kill_switch_active" /\ ~killed[1]
      \/ first \in {"risk:daily_loss_limit", "risk:max_open_positions",
                    "risk:stop_on_wrong_side", "risk:instrument_rules_unavailable"}
    <2>1. ASSUME NEW k \in 1..6 PROVE k = 1 \/ k = 2 \/ k = 3 \/ k = 4 \/ k = 5 \/ k = 6
        BY <2>1
    <2>2. CASE first = "risk:approved" /\ \A k \in 1..6 : checks[k][1]
        BY <1>4, <2>2
    <2>3. ASSUME NEW k \in 1..6, ~checks[k][1], first = checks[k][2]
          PROVE  \/ first = "risk:hard_drawdown_halt" /\ ~hard[1]
                 \/ first = "risk:kill_switch_active" /\ ~killed[1]
                 \/ first \in {"risk:daily_loss_limit", "risk:max_open_positions",
                               "risk:stop_on_wrong_side", "risk:instrument_rules_unavailable"}
        <3>1. CASE k = 1
            BY <1>2, <1>4, <2>3, <3>1
        <3>2. CASE k = 2
            BY <1>2, <1>4, <2>3, <3>2
        <3>3. CASE k = 3 \/ k = 4
            BY <1>2, <1>4, <2>3, <3>3
        <3>4. CASE k = 5 \/ k = 6
            BY <1>2, <1>4, <2>3, <3>4
        <3> QED
            BY <2>1, <3>1, <3>2, <3>3, <3>4
    <2> QED
        BY <1>5, <2>2, <2>3
<1>9. /\ first \in StopReasons => ~StopsPass(p)
      /\ first = "risk:approved" => StopsPass(p)
      /\ first \in RiskReasons \cup {"risk:approved"}
    BY <1>2, <1>6 DEF StopsPass, StopReasons, RiskReasons
<1>7. CASE first # "risk:approved"
    <2>1. a = first
        BY <1>7 DEF AssessEquity, Answer, first, checks, side, known
    <2> QED
        BY <1>7, <1>9, <2>1
<1>8. CASE first = "risk:approved"
    <2> DEFINE rules == Instruments[s.symbol]
               perUnit == Distance(price, StopReference(s))
               qty == Quantity(p, price, perUnit, rules)
               size == <<<<qty > 0 /\ qty >= rules.minQty /\ qty * price >= rules.minNotional,
                           "risk:below_min_size">>,
                         <<100 * (p.openRisk + qty * perUnit) <= OpenRiskPct * p.equity,
                           "risk:open_risk_limit">>>>
    <2>1. a = FirstFailing(size, "risk:approved")
        BY <1>8 DEF AssessEquity, Answer, first, checks, side, known
    <2>2. DOMAIN size = 1..2
        OBVIOUS
    <2>3. \A k \in 1..2 : size[k][2] \in {"risk:below_min_size", "risk:open_risk_limit"}
        OBVIOUS
    <2>5. size[1][1] => qty > 0
        OBVIOUS
    <2>6. a = "risk:approved" => AssessEquity(s, price, p).qty = qty
        BY <1>8 DEF AssessEquity, Answer, first, checks, side, known
    <2>7. RightSide(s, price) /\ s.symbol \in DOMAIN Instruments
        BY <1>6, <1>8 DEF side, known
    <2> HIDE DEF size, qty
    <2>4. a \in {"risk:approved", "risk:below_min_size", "risk:open_risk_limit"}
        BY <2>1, <2>2, <2>3, FirstFailingFacts
    <2>8. a = "risk:approved" => size[1][1]
        BY <2>1, <2>2, <2>3, FirstFailingFacts
    <2>9. a = "risk:approved" => Sized(s, price, p)
        BY <2>5, <2>6, <2>7, <2>8 DEF Sized, qty, rules, perUnit
    <2> QED
        BY <1>8, <1>9, <2>4, <2>9 DEF StopReasons, RiskReasons
<1> QED
    BY <1>7, <1>8

LEMMA PortfolioStops ==
    StopsPass(Portfolio(time)) <=> ~halted /\ ~kill /\ WithinDrawdown
BY DEF StopsPass, Portfolio, WithinDrawdown, Peak

\* The bar of the decision is there and did not open beyond the stop.
Fillable(k) ==
    LET s == setups[k]
    IN  bars[s.symbol] # NoBar /\ ~OpenedBeyond(s.side, bars[s.symbol].o, StopReference(s))

(* What an outcome tells of the drawdowns and of the fill. *)
LEMMA OutcomeStops ==
    ASSUME NEW k, NEW outcome, outcome = Outcome(k)
    PROVE  /\ outcome \in StopReasons =>
                  mode.risk # "fixed_quote" /\ ~(~halted /\ ~kill /\ WithinDrawdown)
           /\ outcome = "entered" /\ mode.risk # "fixed_quote" =>
                  ~halted /\ ~kill /\ WithinDrawdown
           /\ outcome = "entered" => Fillable(k)
<1> DEFINE s == setups[k]
           price == Reference(s.symbol)
           p == Portfolio(time)
           strategy == Evaluate(mode, s, time, All)
           answer == GateAnswer(k).reason
<1>1. answer = IF strategy # "strategy:accepted" THEN strategy
               ELSE IF mode.risk = "fixed_quote" THEN AssessFixed(s, price).reason
               ELSE AssessEquity(s, price, p).reason
    BY DEF GateAnswer, Gate, Answer
<1>2. AssessFixed(s, price).reason \in {"risk:approved", "risk:stop_on_wrong_side"}
    BY DEF AssessFixed, Answer
<1>3. strategy \in {"strategy:unsupported_setup", "strategy:invalid_setup",
                    "strategy:missing_required_context", "strategy:conflicting_setup",
                    "strategy:accepted"}
    BY StrategyAnswers
<1>4. /\ AssessEquity(s, price, p).reason \in StopReasons => ~StopsPass(p)
      /\ AssessEquity(s, price, p).reason = "risk:approved" => StopsPass(p)
      /\ AssessEquity(s, price, p).reason # "entered"
    BY RiskAnswer DEF RiskReasons
<1>5. \/ outcome \in {"no_next_bar", "position_already_open", "opened_beyond_stop"}
      \/ outcome = answer /\ answer # "risk:approved"
      \/ outcome = "entered" /\ answer = "risk:approved" /\ Fillable(k)
    BY DEF Outcome, Fillable
<1> HIDE DEF s, price, strategy, answer
<1>6. /\ outcome \in StopReasons => mode.risk # "fixed_quote" /\ ~StopsPass(p)
      /\ outcome = "entered" /\ mode.risk # "fixed_quote" => StopsPass(p)
      /\ outcome = "entered" => Fillable(k)
    <2> HIDE DEF p
    <2> QED
        BY <1>1, <1>2, <1>3, <1>4, <1>5 DEF StopReasons
<1> QED
    BY <1>6, PortfolioStops

Openings == {pos.opened : pos \in open} \cup {tr.pos.opened : tr \in trades}

LEMMA StopInOpenings ==
    StopIsForGood <=> \A o \in Openings : \A t \in StoppedAt : o < t
BY DEF StopIsForGood, Openings

(* A step that decides nothing and opens nothing. *)
LEMMA QuietStep ==
    ASSUME SpansInv, StopInv, StoppedAt' = StoppedAt, UNCHANGED <<mode, halted, kill>>,
           Openings' \subseteq Openings, time' \in Nat, time <= time',
           phase' # "ended" => \A tr \in trades' : tr.pos.opened < time',
           phase' = "deciding" => \A pos \in open' : pos.opened < time'
    PROVE  StopInv'
<1>1. /\ StoppedAt' # {} => (halted \/ kill)'
      /\ (halted \/ kill)' => mode'.risk # "fixed_quote"
    BY DEF StopInv
<1>2. time \in Nat
    BY DEF SpansInv, ClockInv
<1>3. \A t \in StoppedAt' : t \in Nat /\ t <= time'
    BY <1>2 DEF StopInv
<1>4. \A o \in Openings' : \A t \in StoppedAt' : o < t
    BY StopInOpenings DEF StopInv
<1>5. StopIsForGood'
    BY <1>4 DEF StopIsForGood, Openings
<1>6. phase' = "deciding" => ~(\E pos \in open' : pos.opened = time')
    <2> SUFFICES ASSUME phase' = "deciding", NEW pos \in open', pos.opened = time'
                 PROVE  FALSE
        OBVIOUS
    <2>1. time' < time'
        OBVIOUS
    <2> QED
        BY <2>1
<1> QED
    BY <1>1, <1>3, <1>5, <1>6 DEF StopInv

LEMMA StopInit == Init => StopInv
BY DEF Init, StopInv, StoppedAt, StopIsForGood

LEMMA DecideKeepsStop == SpansInv /\ StopInv /\ Decide => StopInv'
<1> SUFFICES ASSUME SpansInv, StopInv, Decide PROVE StopInv'
    OBVIOUS
<1>1. PICK k \in queue :
         /\ halted' = (halted \/ Outcome(k) = "risk:hard_drawdown_halt")
         /\ kill' = (kill \/ Outcome(k) = "risk:kill_switch_active")
         /\ open' = IF Outcome(k) = "entered" THEN open \cup {Entered(k)} ELSE open
         /\ \E no : decisions' = decisions \cup {Decision(k, Outcome(k), no)}
    BY DEF Decide
<1>2. UNCHANGED <<mode, phase, time, trades, equity, peak>> /\ phase = "deciding"
    BY DEF Decide, run
<1> DEFINE outcome == Outcome(k)
<1>3. /\ outcome \in StopReasons =>
             mode.risk # "fixed_quote" /\ ~(~halted /\ ~kill /\ WithinDrawdown)
      /\ outcome = "entered" /\ mode.risk # "fixed_quote" =>
             ~halted /\ ~kill /\ WithinDrawdown
    BY OutcomeStops
<1>4. Entered(k).opened = time
    BY EnteredPosition DEF SpansInv
<1>5. StoppedAt' = IF outcome \in StopReasons THEN StoppedAt \cup {time} ELSE StoppedAt
    <2>1. PICK no : decisions' = decisions \cup {Decision(k, outcome, no)}
        BY <1>1
    <2>2. Decision(k, outcome, no).outcome = outcome /\ Decision(k, outcome, no).at = time
        BY DEF Decision
    <2> QED
        BY <2>1, <2>2 DEF StoppedAt
<1>6. WithinDrawdown' = WithinDrawdown
    BY <1>2 DEF WithinDrawdown, Peak, EquityNow
<1> HIDE DEF outcome
<1>7. time \in Nat /\ \A pos \in open : pos.opened \in Nat /\ pos.opened <= time
    BY DEF SpansInv, ClockInv, PositionsInv, IsPosition
<1>8. halted' = (halted \/ outcome = "risk:hard_drawdown_halt")
      /\ kill' = (kill \/ outcome = "risk:kill_switch_active")
      /\ open' = IF outcome = "entered" THEN open \cup {Entered(k)} ELSE open
    BY <1>1 DEF outcome
<1>9. \A tr \in trades : tr.pos.opened < time
    BY <1>2 DEF StopInv
<1>10. CASE outcome \in StopReasons
    <2>1. halted' \/ kill'
        BY <1>8, <1>10 DEF StopReasons
    <2>2. mode.risk # "fixed_quote" /\ open' = open /\ \A pos \in open : pos.opened # time
        BY <1>2, <1>3, <1>8, <1>10 DEF StopInv, StopReasons
    <2>3. \A t \in StoppedAt' : t \in Nat /\ t <= time
        BY <1>5, <1>7 DEF StopInv
    <2>4. \A o \in Openings' : \A t \in StoppedAt' : o < t
        <3>1. Openings' = Openings
            BY <1>2, <2>2 DEF Openings
        <3>2. \A o \in Openings : o < time
            BY <1>7, <1>9, <2>2 DEF Openings
        <3> QED
            BY <1>5, <3>1, <3>2, StopInOpenings DEF StopInv
    <2>5. StopIsForGood'
        BY <2>4 DEF StopIsForGood, Openings
    <2> QED
        BY <1>2, <1>9, <2>1, <2>2, <2>3, <2>5 DEF StopInv
<1>11. CASE outcome = "entered"
    <2>1. (halted' <=> halted) /\ (kill' <=> kill) /\ UNCHANGED StoppedAt
        BY <1>5, <1>8, <1>11 DEF StopReasons
    <2>2. StoppedAt = {}
        BY <1>3, <1>11 DEF StopInv
    <2>3. (phase = "deciding" /\ mode.risk # "fixed_quote") => ~halted /\ ~kill /\ WithinDrawdown
        BY <1>3, <1>11
    <2> QED
        BY <1>2, <1>6, <1>9, <2>1, <2>2, <2>3 DEF StopInv, StopIsForGood
<1>12. CASE outcome \notin StopReasons /\ outcome # "entered"
    <2>1. (halted' <=> halted) /\ (kill' <=> kill) /\ UNCHANGED <<StoppedAt, open>>
        BY <1>5, <1>8, <1>12 DEF StopReasons
    <2> QED
        BY <1>2, <1>6, <1>9, <2>1 DEF StopInv, StopIsForGood
<1> QED
    BY <1>10, <1>11, <1>12

LEMMA BarKeepsStop == SpansInv /\ StopInv /\ BarCloses => StopInv'
<1> SUFFICES ASSUME SpansInv, StopInv, BarCloses PROVE StopInv'
    OBVIOUS
<1> DEFINE left == {pos \in open : Leaving(pos)}
           New(pos) == Closed(Aged(pos), ExitOn(Aged(pos), bars[pos.symbol], time), time + 1)
           Kept(pos) == IF Present(pos) THEN Aged(pos) ELSE pos
<1>1. /\ trades' = trades \cup {New(pos) : pos \in left}
      /\ open' = {Kept(pos) : pos \in open \ left}
      /\ time' = time + 1 /\ phase = "deciding" /\ phase' = "between"
      /\ UNCHANGED <<mode, halted, kill, decisions>>
    BY DEF BarCloses, run
<1>2. time \in Nat /\ time' \in Nat /\ time <= time'
    BY <1>1 DEF SpansInv, ClockInv
<1>3. \A pos \in open : IsPosition(pos) /\ pos.opened \in Nat /\ pos.opened <= time
    BY DEF SpansInv, PositionsInv, IsPosition
<1>4. \A pos \in open : Kept(pos).opened = pos.opened
    BY <1>3, AgedKeeps
<1>5. \A pos \in open : New(pos).pos.opened = pos.opened
    BY <1>2, <1>3, AgedKeeps, ClosedTrade
<1> HIDE DEF New, Kept
<1>6. Openings' \subseteq Openings
    BY <1>1, <1>4, <1>5 DEF Openings
<1>7. \A tr \in trades : tr.pos.opened \in Nat /\ tr.pos.opened < time
    BY <1>1 DEF SpansInv, TradesInv, IsTrade, StopInv
<1>8. \A tr \in trades' : tr.pos.opened < time'
    BY <1>1, <1>2, <1>3, <1>5, <1>7
<1>9. StoppedAt' = StoppedAt
    BY <1>1 DEF StoppedAt
<1> HIDE DEF left
<1> QED
    BY <1>1, <1>2, <1>6, <1>8, <1>9, QuietStep

LEMMA EndKeepsStop ==
    ASSUME SpansInv, StopInv, trades' = trades \cup {AtTheEnd(pos) : pos \in open},
           open' = {}, phase' = "ended", UNCHANGED <<mode, halted, kill, time>>,
           decisions' = decisions \cup {Decision(k, "no_next_bar", 0) : k \in Leftover}
    PROVE  StopInv'
<1>1. \A pos \in open : AtTheEnd(pos).pos.opened = pos.opened
    <2> SUFFICES ASSUME NEW pos \in open PROVE AtTheEnd(pos).pos.opened = pos.opened
        OBVIOUS
    <2>1. IsPosition(pos) /\ last[pos.symbol].at \in Nat
        BY DEF SpansInv, PositionsInv, ClockInv, IsPosition
    <2> QED
        BY <2>1, ClosedTrade DEF AtTheEnd
<1>2. Openings' \subseteq Openings
    BY <1>1 DEF Openings
<1>3. StoppedAt' = StoppedAt
    BY DEF StoppedAt, StopReasons, Decision
<1>4. time \in Nat
    BY DEF SpansInv, ClockInv
<1>5. phase' # "deciding" /\ phase' = "ended" /\ time' \in Nat /\ time <= time'
    BY <1>4
<1> QED
    BY <1>2, <1>3, <1>5, QuietStep

\* A drawdown that a decision has met, the halt or the kill switch, stops the run
\* for good: no position is opened at or after it, whatever the bars, the setups,
\* the limits and the amounts are, also when the open positions bring the equity
\* back, and also by the other decisions of the same instant (run_gate, assess).
THEOREM StoppedForGood == Spec => []StopIsForGood
<1>1. ASSUME SpansInv, StopInv, [Next]_vars PROVE StopInv'
    <2> USE <1>1
    <2>1. CASE BarOpens
        <3>1. /\ UNCHANGED <<mode, halted, kill, open, trades, decisions, time>>
              /\ phase = "between" /\ phase' = "deciding"
            BY <2>1 DEF BarOpens, run, portfolio
        <3>2. time \in Nat /\ \A pos \in open : pos.opened < time
            BY <3>1 DEF SpansInv, ClockInv, PositionsInv
        <3>3. StoppedAt' = StoppedAt /\ Openings' \subseteq Openings
            BY <3>1 DEF StoppedAt, Openings
        <3>4. \A tr \in trades : tr.pos.opened < time
            BY <3>1 DEF StopInv
        <3> QED
            BY <3>1, <3>2, <3>3, <3>4, QuietStep
    <2>2. CASE Gap
        <3>1. /\ UNCHANGED <<mode, halted, kill, open, trades, decisions, phase>>
              /\ phase = "between" /\ time' = time + 1
            BY <2>2 DEF Gap, run, portfolio
        <3>2. time \in Nat /\ time' \in Nat /\ time <= time'
            BY <3>1 DEF SpansInv, ClockInv
        <3>3. StoppedAt' = StoppedAt /\ Openings' \subseteq Openings
            BY <3>1 DEF StoppedAt, Openings
        <3>4. \A tr \in trades : tr.pos.opened \in Nat /\ tr.pos.opened < time
            BY <3>1 DEF StopInv, SpansInv, TradesInv, IsTrade
        <3>5. \A tr \in trades' : tr.pos.opened < time'
            BY <3>1, <3>2, <3>4
        <3> QED
            BY <3>1, <3>2, <3>3, <3>5, QuietStep
    <2>3. CASE UNCHANGED vars
        <3>1. /\ UNCHANGED <<mode, halted, kill, open, trades, decisions, phase, time,
                             equity, peak>>
            BY <2>3 DEF vars, run, portfolio
        <3>2. StoppedAt' = StoppedAt /\ WithinDrawdown' = WithinDrawdown
            BY <3>1 DEF StoppedAt, WithinDrawdown, Peak, EquityNow
        <3> QED
            BY <3>1, <3>2 DEF StopInv, StopIsForGood
    <2>4. CASE EndOfData
        BY <2>4, EndKeepsStop DEF EndOfData, run, portfolio
    <2> QED
        BY <2>1, <2>2, <2>3, <2>4, DecideKeepsStop, BarKeepsStop DEF Next
<1>2. StopInv => StopIsForGood
    BY DEF StopInv
<1> QED
    BY Spans, StopInit, <1>1, <1>2, PTL DEF Spec

-----------------------------------------------------------------------------
(* The exits. *)
Priced(pos) ==
    /\ pos.side \in {1, -1} /\ pos.stop \in Int /\ pos.target \in Int
    /\ pos.side * pos.stop < pos.side * pos.target

\* On the bar of the entry, which no gap is looked for on: the fill was better
\* than the stop.
FilledInTime(pos) == pos.side * pos.stop < pos.side * bars[pos.symbol].o + Slippage

ExitInv ==
    /\ phase = "deciding" => \A s \in SymbolSet : bars[s] \in Bars[s] \cup {NoBar}
    /\ \A pos \in open : Priced(pos)
    /\ phase = "deciding" => \A pos \in open : pos.opened = time => FilledInTime(pos)

\* The first touch of stop or target on a path of three prices decides.
Decides(path, stop, target, answer) ==
    \/ \A k \in 1..3 : stop < path[k] /\ path[k] < target
    \/ \E k \in 1..3 :
          /\ path[k] <= stop \/ path[k] >= target
          /\ \A j \in 1..3 : path[j] <= stop \/ path[j] >= target => k <= j
          /\ answer = IF path[k] >= target THEN target
                      ELSE IF k = 1 THEN path[k] ELSE stop

LEMMA PathFacts ==
    ASSUME NEW pos, NEW bar, NEW x \in Int, NEW y \in Int, NEW z \in Int,
           NEW stop \in Int, NEW target \in Int,
           stop = pos.side * pos.stop, target = pos.side * pos.target,
           NEW path, path = <<x, y, z>>,
           NEW answer, answer = PathPrice(pos, bar, path)
    PROVE  Decides(path, stop, target, answer)
<1> DEFINE touched == {k \in DOMAIN path : path[k] <= stop \/ path[k] >= target}
           first == CHOOSE k \in touched : \A j \in touched : k <= j
<1>1. DOMAIN path = 1..3 /\ \A k \in 1..3 : path[k] \in Int
    OBVIOUS
<1>2. answer = IF touched = {} THEN pos.side * bar.c
               ELSE IF path[first] >= target THEN target
               ELSE IF first = 1 THEN path[first] ELSE stop
    BY DEF PathPrice
<1>3. touched \subseteq Nat
    BY <1>1
<1>4. CASE touched = {}
    BY <1>1, <1>4 DEF Decides
<1>5. CASE touched # {}
    <2> HIDE DEF touched
    <2>1. first \in touched /\ \A j \in touched : first <= j
        BY <1>3, <1>5, Smallest
    <2> HIDE DEF first
    <2> QED
        BY <1>1, <1>2, <1>5, <2>1 DEF touched, Decides
<1> QED
    BY <1>4, <1>5

(* The exit of a position on a bar, against one path through it.             *)
LEMMA ExitAgainstPath ==
    ASSUME NEW pos, NEW bar, NEW t, Priced(pos),
           bar.o \in Int, bar.h \in Int, bar.l \in Int, bar.c \in Int,
           bar.l <= bar.o, bar.o <= bar.h, bar.l <= bar.c, bar.c <= bar.h,
           pos.opened = t => pos.side * pos.stop < pos.side * bar.o + Slippage,
           NEW path \in Paths(pos, bar)
    PROVE  LET exit == ExitCheck(pos, bar, t)
           IN  IF exit = NoExit
               THEN \A k \in DOMAIN path : k # 1 =>
                        path[k] > pos.side * pos.stop /\ path[k] < pos.side * pos.target
               ELSE pos.side * exit.price <= PathPrice(pos, bar, path)
<1> DEFINE stop == pos.side * pos.stop
           target == pos.side * pos.target
           o == pos.side * bar.o
           w == Worst(pos, bar)
           b == Best(pos, bar)
           exit == ExitCheck(pos, bar, t)
           answer == PathPrice(pos, bar, path)
<1>1. /\ stop \in Int /\ target \in Int /\ stop < target
      /\ o \in Int /\ w \in Int /\ b \in Int /\ w <= o /\ o <= b
      /\ Slippage \in Nat
      /\ pos.opened = t => stop < o + Slippage
    BY SimulatorAssumption DEF Priced, Worst, Best
<1>2. pos.side \in {1, -1} /\ pos.stop \in Int /\ pos.target \in Int
    BY DEF Priced
<1>3. \E y, z \in {w, b} : path = <<o, y, z>> /\ {y, z} = {w, b}
    BY DEF Paths
<1>4. \/ exit = AtMarket(pos, "stop", bar.o) /\ pos.opened # t /\ o <= stop
      \/ exit = AtTarget(pos) /\ pos.opened # t /\ o >= target /\ o > stop
      \/ /\ exit = AtMarket(pos, "stop", pos.stop) \/ exit = AtMarket(pos, "stop_ambiguous", pos.stop)
         /\ w <= stop /\ (pos.opened # t => stop < o /\ o < target)
      \/ /\ exit = AtTarget(pos) /\ w > stop /\ b >= target
      \/ exit = NoExit /\ w > stop /\ b < target
    BY <1>1 DEF ExitCheck
<1>5. /\ pos.side * AtMarket(pos, "stop", bar.o).price = o - Slippage
      /\ pos.side * AtMarket(pos, "stop", pos.stop).price = stop - Slippage
      /\ pos.side * AtMarket(pos, "stop_ambiguous", pos.stop).price = stop - Slippage
      /\ pos.side * AtTarget(pos).price = target
    BY <1>1, <1>2 DEF AtMarket, AtTarget, Exit
<1>6. /\ AtMarket(pos, "stop", bar.o) # NoExit /\ AtMarket(pos, "stop", pos.stop) # NoExit
      /\ AtMarket(pos, "stop_ambiguous", pos.stop) # NoExit /\ AtTarget(pos) # NoExit
    BY DEF AtMarket, AtTarget, Exit, NoExit
<1> HIDE DEF stop, target, o, w, b, exit, answer
<1>7. PICK y \in {w, b}, z \in {w, b} : path = <<o, y, z>> /\ {y, z} = {w, b}
    BY <1>3
<1>8. path[1] = o /\ path[2] = y /\ path[3] = z /\ DOMAIN path = 1..3
    BY <1>7
<1>9. Decides(path, stop, target, answer)
    <2>1. y \in Int /\ z \in Int
        BY <1>1, <1>7
    <2>2. /\ stop = pos.side * pos.stop /\ target = pos.side * pos.target
          /\ answer = PathPrice(pos, bar, path)
        BY DEF stop, target, answer
    <2>3. o \in Int /\ stop \in Int /\ target \in Int /\ path = <<o, y, z>>
        BY <1>1, <1>7
    <2> QED
        BY <2>1, <2>2, <2>3, PathFacts
<1>10. CASE exit = NoExit /\ w > stop /\ b < target
    <2>1. w > stop /\ w < target /\ b > stop /\ b < target
        BY <1>1, <1>10
    <2>2. \A k \in DOMAIN path : k # 1 => path[k] > stop /\ path[k] < target
        BY <1>7, <1>8, <2>1
    <2>3. exit = NoExit
        BY <1>10
    <2> QED
        BY <2>2, <2>3 DEF stop, target, exit
<1>11. CASE exit = AtMarket(pos, "stop", bar.o) /\ pos.opened # t /\ o <= stop
    <2>1. answer = o
        BY <1>1, <1>8, <1>9, <1>11 DEF Decides
    <2> QED
        BY <1>1, <1>5, <1>6, <1>11, <2>1 DEF exit, answer
<1>12. CASE exit = AtTarget(pos) /\ pos.opened # t /\ o >= target /\ o > stop
    <2>1. answer = target
        BY <1>1, <1>8, <1>9, <1>12 DEF Decides
    <2> QED
        BY <1>1, <1>5, <1>6, <1>12, <2>1 DEF exit, answer
<1>13. CASE /\ exit = AtMarket(pos, "stop", pos.stop) \/ exit = AtMarket(pos, "stop_ambiguous", pos.stop)
            /\ w <= stop /\ (pos.opened # t => stop < o /\ o < target)
    <2>1. stop - Slippage <= answer
        <3>1. ~ \A k \in 1..3 : stop < path[k] /\ path[k] < target
            BY <1>1, <1>7, <1>8, <1>13
        <3>2. stop - Slippage <= o
            BY <1>1, <1>13
        <3> QED
            BY <1>1, <1>8, <1>9, <3>1, <3>2 DEF Decides
    <2> QED
        BY <1>1, <1>5, <1>6, <1>13, <2>1 DEF exit, answer
<1>14. CASE exit = AtTarget(pos) /\ w > stop /\ b >= target
    <2>1. \A k \in 1..3 : path[k] > stop
        BY <1>1, <1>7, <1>8, <1>14
    <2>2. ~ \A k \in 1..3 : stop < path[k] /\ path[k] < target
        BY <1>1, <1>7, <1>8, <1>14
    <2>3. answer = target
        BY <1>1, <1>7, <1>8, <1>9, <2>1, <2>2 DEF Decides
    <2> QED
        BY <1>1, <1>5, <1>6, <1>14, <2>3 DEF exit, answer
<1> QED
    BY <1>4, <1>10, <1>11, <1>12, <1>13, <1>14

(* A new position has its stop on the right side of its fill and its target. *)
LEMMA TargetBeyondStop ==
    ASSUME NEW side \in {1, -1}, NEW entry \in Int, NEW stop \in Int, NEW r \in Nat,
           side * stop < side * entry
    PROVE  /\ entry + r * (entry - stop) \in Int
           /\ side * stop < side * (entry + r * (entry - stop))
<1>1. \A n, d \in Nat : n * d \in Nat
    OBVIOUS
<1>2. \A n, d \in Int : n * d \in Int /\ n * (-d) = -(n * d)
    OBVIOUS
<1> DEFINE far == r * (entry - stop)
<1>3. CASE side = 1
    <2>1. entry - stop \in Nat
        BY <1>3
    <2>2. far \in Nat
        BY <1>1, <2>1
    <2> HIDE DEF far
    <2>3. side * stop < side * (entry + far) /\ entry + far \in Int
        BY <1>3, <2>2
    <2> QED
        BY <2>3 DEF far
<1>4. CASE side = -1
    <2> DEFINE back == r * (stop - entry)
    <2>1. stop - entry \in Nat /\ entry - stop = -(stop - entry) /\ stop - entry \in Int
        BY <1>4
    <2>2. back \in Nat /\ far = -back
        BY <1>1, <1>2, <2>1
    <2> HIDE DEF far, back
    <2>3. side * stop < side * (entry + far) /\ entry + far \in Int
        BY <1>4, <2>2
    <2> QED
        BY <2>3 DEF far
<1> QED
    BY <1>3, <1>4

LEMMA EnteredPriced ==
    ASSUME SpansInv, ExitInv, phase = "deciding", NEW k \in queue, Outcome(k) = "entered"
    PROVE  Priced(Entered(k)) /\ FilledInTime(Entered(k))
<1> DEFINE s == setups[k]
           o == bars[s.symbol].o
           stop == StopReference(s)
           entry == o + s.side * Slippage
<1>1. /\ s.symbol \in SymbolSet /\ s.side \in {1, -1} /\ s.ref \in Int /\ s.atr \in Int
      /\ StopBufferAtr \in Nat /\ Slippage \in Nat /\ TakeProfitR \in Nat
    BY BacktestAssumption, GateAssumption, SimulatorAssumption DEF SpansInv, ClockInv
<1>2. bars[s.symbol] # NoBar /\ ~OpenedBeyond(s.side, o, stop)
    BY OutcomeStops DEF Fillable
<1>3. o \in Int
    BY <1>1, <1>2, BacktestAssumption DEF ExitInv
<1>4. stop \in Int
    <2>1. \A a, b, c, d \in Int : a - b * c * d \in Int
        OBVIOUS
    <2>2. s.side \in Int /\ StopBufferAtr \in Int
        BY <1>1
    <2> QED
        BY <1>1, <2>1, <2>2 DEF StopReference
<1>5. entry \in Int /\ s.side * entry = s.side * o + Slippage
    BY <1>1, <1>3
<1>6. s.side * stop < s.side * entry
    <2>1. ~(s.side * entry <= s.side * stop)
        BY <1>2 DEF OpenedBeyond
    <2>2. s.side * entry \in Int /\ s.side * stop \in Int
        BY <1>1, <1>4, <1>5
    <2> QED
        BY <2>1, <2>2
<1>7. /\ Entered(k).side = s.side /\ Entered(k).stop = stop /\ Entered(k).symbol = s.symbol
      /\ Entered(k).target = entry + TakeProfitR * (entry - stop)
    BY DEF Entered, Position
<1> HIDE DEF s, o, stop, entry
<1>8. /\ entry + TakeProfitR * (entry - stop) \in Int
      /\ s.side * stop < s.side * (entry + TakeProfitR * (entry - stop))
    BY <1>1, <1>4, <1>5, <1>6, TargetBeyondStop
<1>9. Priced(Entered(k))
    BY <1>1, <1>4, <1>7, <1>8 DEF Priced
<1>10. FilledInTime(Entered(k))
    BY <1>5, <1>6, <1>7 DEF FilledInTime, o
<1> QED
    BY <1>9, <1>10

LEMMA AgedPriced ==
    ASSUME NEW pos, IsPosition(pos), Priced(pos)
    PROVE  Priced(Aged(pos))
BY DEF Aged, IsPosition, Priced

LEMMA PricesAreKept == Spec => []ExitInv
<1>1. Init => ExitInv
    BY DEF Init, ExitInv
<1>2. ASSUME SpansInv, ExitInv, [Next]_vars PROVE ExitInv'
    <2> USE <1>2
    <2>1. CASE BarOpens
        <3>1. PICK b \in BarsAt(time) : bars' = b
            BY <2>1 DEF BarOpens
        <3>2. \A s \in SymbolSet : bars'[s] \in Bars[s] \cup {NoBar}
            BY <3>1 DEF BarsAt
        <3>3. open' = open /\ time' = time /\ phase = "between"
            BY <2>1 DEF BarOpens
        <3>4. \A pos \in open : pos.opened \in Nat /\ pos.opened < time /\ time \in Nat
            BY <3>3 DEF SpansInv, ClockInv, PositionsInv, IsPosition
        <3>5. \A pos \in open' : pos.opened # time'
            BY <3>3, <3>4
        <3> QED
            BY <3>2, <3>3, <3>5 DEF ExitInv
    <2>2. CASE Gap
        BY <2>2 DEF Gap, ExitInv
    <2>3. CASE Decide
        <3>1. PICK k \in queue :
                 open' = IF Outcome(k) = "entered" THEN open \cup {Entered(k)} ELSE open
            BY <2>3 DEF Decide
        <3>2. UNCHANGED <<time, bars, phase>> /\ phase = "deciding"
            BY <2>3 DEF Decide
        <3>3. CASE Outcome(k) = "entered"
            <4>1. Priced(Entered(k)) /\ FilledInTime(Entered(k))
                BY <3>2, <3>3, EnteredPriced
            <4> QED
                BY <3>1, <3>2, <3>3, <4>1 DEF ExitInv, FilledInTime
        <3>4. CASE Outcome(k) # "entered"
            BY <3>1, <3>2, <3>4 DEF ExitInv, FilledInTime
        <3> QED
            BY <3>3, <3>4
    <2>4. CASE BarCloses
        <3>1. \A pos \in open : IsPosition(pos) /\ Priced(pos)
            BY DEF SpansInv, PositionsInv, ExitInv
        <3>2. \A pos \in open : Priced(Aged(pos))
            BY <3>1, AgedPriced
        <3>3. \A pos \in open' : \E old \in open : pos = IF Present(old) THEN Aged(old) ELSE old
            BY <2>4 DEF BarCloses
        <3>4. phase' = "between"
            BY <2>4 DEF BarCloses
        <3> QED
            BY <3>1, <3>2, <3>3, <3>4 DEF ExitInv
    <2>5. CASE EndOfData
        BY <2>5 DEF EndOfData, ExitInv
    <2>6. CASE UNCHANGED vars
        BY <2>6 DEF vars, ExitInv, FilledInTime
    <2> QED
        BY <2>1, <2>2, <2>3, <2>4, <2>5, <2>6 DEF Next
<1> QED
    BY Spans, <1>1, <1>2, PTL DEF Spec

\* No exit of a backtest is better than on any path that its bar may have taken,
\* and a position that is kept was not stopped on any, for every candle, every
\* setup and any slippage, buffer and distance of the target (_exit_check).
THEOREM ExitsAreConservative == Spec => []ExitIsConservative
<1>1. ASSUME SpansInv, ExitInv PROVE ExitIsConservative
    <2> SUFFICES ASSUME phase = "deciding", NEW pos \in open, Present(pos),
                        NEW path \in Paths(pos, bars[pos.symbol])
                 PROVE  LET exit == ExitCheck(pos, bars[pos.symbol], time)
                        IN  IF exit = NoExit
                            THEN \A k \in DOMAIN path : k # 1 =>
                                     path[k] > pos.side * pos.stop /\ path[k] < pos.side * pos.target
                            ELSE pos.side * exit.price <= PathPrice(pos, bars[pos.symbol], path)
        BY DEF ExitIsConservative
    <2> DEFINE bar == bars[pos.symbol]
    <2>1. Priced(pos) /\ pos.symbol \in SymbolSet
        BY <1>1 DEF ExitInv, SpansInv, PositionsInv, IsPosition
    <2>2. bar \in Bars[pos.symbol]
        BY <1>1, <2>1 DEF ExitInv, Present
    <2>3. /\ bar.o \in Int /\ bar.h \in Int /\ bar.l \in Int /\ bar.c \in Int
          /\ bar.l <= bar.o /\ bar.o <= bar.h /\ bar.l <= bar.c /\ bar.c <= bar.h
        BY <2>1, <2>2, BacktestAssumption
    <2>4. pos.opened = time => pos.side * pos.stop < pos.side * bar.o + Slippage
        BY <1>1 DEF ExitInv, FilledInTime
    <2>5. path \in Paths(pos, bar)
        OBVIOUS
    <2> HIDE DEF bar
    <2>6. LET exit == ExitCheck(pos, bar, time)
          IN  IF exit = NoExit
              THEN \A k \in DOMAIN path : k # 1 =>
                       path[k] > pos.side * pos.stop /\ path[k] < pos.side * pos.target
              ELSE pos.side * exit.price <= PathPrice(pos, bar, path)
        BY <2>1, <2>3, <2>4, <2>5, ExitAgainstPath
    <2> QED
        BY <2>6 DEF bar
<1> QED
    BY Spans, PricesAreKept, <1>1, PTL
-----------------------------------------------------------------------------
SameChecks(a, b, n) ==
    /\ DOMAIN a = 1..n /\ DOMAIN b = 1..n
    /\ \A k \in 1..n : (a[k][1] <=> b[k][1]) /\ a[k][2] = b[k][2]

\* The answer of a list of checks depends on what the checks say alone.
LEMMA SameChecksSameAnswer ==
    ASSUME NEW n \in Nat, NEW a, NEW b, SameChecks(a, b, n), NEW otherwise
    PROVE  FirstFailing(a, otherwise) = FirstFailing(b, otherwise)
<1> DEFINE failed == {k \in 1..n : ~a[k][1]}
           first == CHOOSE k \in failed : \A j \in failed : k <= j
           failedOf(c) == {k \in DOMAIN c : ~c[k][1]}
<1>1. failedOf(a) = failed /\ failedOf(b) = failed
    BY DEF SameChecks
<1>a. ASSUME NEW c PROVE
        FirstFailing(c, otherwise)
          = IF failedOf(c) = {} THEN otherwise
            ELSE c[CHOOSE k \in failedOf(c) : \A j \in failedOf(c) : k <= j][2]
    BY DEF FirstFailing
<1> HIDE DEF failedOf, failed
<1>2. /\ FirstFailing(a, otherwise) = IF failed = {} THEN otherwise ELSE a[first][2]
      /\ FirstFailing(b, otherwise) = IF failed = {} THEN otherwise ELSE b[first][2]
    BY <1>1, <1>a
<1>3. failed # {} => first \in 1..n
    <2>1. failed \subseteq Nat /\ failed \subseteq 1..n
        BY DEF failed
    <2> QED
        BY <2>1, Smallest
<1> HIDE DEF failed, first
<1> QED
    BY <1>2, <1>3 DEF SameChecks

IsSetup(s) ==
    /\ DOMAIN s = {"symbol", "side", "type", "fit", "ref", "atr", "life"}
    /\ s.life \in Seq(ToSet(s.life)) /\ \A x \in ToSet(s.life) : x.at \in Nat

\* What is left of a setup when its later life is cut off.
LEMMA ThenParts ==
    ASSUME NEW s, IsSetup(s), NEW t
    PROVE  /\ Then(s, t).symbol = s.symbol /\ Then(s, t).side = s.side /\ Then(s, t).type = s.type
           /\ Then(s, t).fit = s.fit /\ Then(s, t).ref = s.ref /\ Then(s, t).atr = s.atr
           /\ Then(s, t).life = [k \in KnownLife(s, t) |-> s.life[k]]
BY DEF Then, IsSetup

LEMMA Latest ==
    ASSUME NEW n \in Nat, NEW K \in SUBSET (1..n), K # {}
    PROVE  Max(K) \in K
<1> DEFINE Back == {n - k : k \in K}
<1>1. PICK b \in Back : \A c \in Back : b <= c
    <2>1. \A k \in K : n - k \in Nat
        OBVIOUS
    <2>2. Back \subseteq Nat /\ Back # {}
        BY <2>1
    <2> HIDE DEF Back
    <2> QED
        BY <2>2, Smallest
<1>2. PICK k \in K : b = n - k
    BY <1>1
<1>3. \A j \in K : k >= j
    <2>1. ASSUME NEW j \in K PROVE k >= j
        <3>1. n - k <= n - j
            BY <1>1, <1>2
        <3>2. k \in Int /\ j \in Int
            OBVIOUS
        <3> QED
            BY <3>1, <3>2
    <2> QED
        BY <2>1
<1> QED
    BY <1>3 DEF Max

\* The status at t is one of what was known at t.
LEMMA StatusThen ==
    ASSUME NEW s, IsSetup(s), NEW t
    PROVE  StatusAt(Then(s, t), t) = StatusAt(s, t)
<1> DEFINE K == KnownLife(s, t)
           life == Then(s, t).life
<1>1. life = [k \in K |-> s.life[k]]
    BY ThenParts
<1>2. KnownLife(Then(s, t), t) = {k \in DOMAIN life : life[k].at <= t}
    BY DEF KnownLife
<1>3. \A k \in K : s.life[k].at <= t
    BY DEF KnownLife
<1>4. KnownLife(Then(s, t), t) = K
    BY <1>1, <1>2, <1>3
<1>5. K # {} => Max(K) \in K
    <2>1. Len(s.life) \in Nat /\ K \in SUBSET (1..Len(s.life))
        BY DEF IsSetup, KnownLife
    <2> HIDE DEF K
    <2> QED
        BY <2>1, Latest
<1>6. StatusAt(Then(s, t), t) = IF K = {} THEN "unknown" ELSE life[Max(K)].status
    BY <1>4 DEF StatusAt
<1>7. StatusAt(s, t) = IF K = {} THEN "unknown" ELSE s.life[Max(K)].status
    BY DEF StatusAt
<1> HIDE DEF K
<1> QED
    BY <1>1, <1>5, <1>6, <1>7

\* The fact that triggers a decision is found again in what was known then.
LEMMA FactThen ==
    ASSUME NEW s, IsSetup(s)
    PROVE  FactTime(Then(s, FactTime(s))) = FactTime(s)
<1> DEFINE t == FactTime(s)
           life == Then(s, t).life
           K == KnownLife(s, t)
           facts == {k \in DOMAIN s.life : s.life[k].status = EntryOn}
           known == {k \in DOMAIN life : life[k].status = EntryOn}
           first(F) == CHOOSE k \in F : \A j \in F : k <= j
<1>1. life = [k \in K |-> s.life[k]] /\ K \subseteq DOMAIN s.life
    BY ThenParts DEF KnownLife
<1>2. known = facts \cap K
    BY <1>1
<1>3. t = IF facts = {} THEN Never ELSE s.life[first(facts)].at
    BY DEF FactTime
<1>4. FactTime(Then(s, t)) = IF known = {} THEN Never ELSE life[first(known)].at
    BY DEF FactTime
<1>5. CASE facts = {}
    BY <1>2, <1>3, <1>4, <1>5
<1>6. CASE facts # {}
    <2>1. facts \subseteq Nat
        BY DEF IsSetup
    <2> DEFINE k == first(facts)
    <2>2. k \in facts /\ \A j \in facts : k <= j
        <3> HIDE DEF facts
        <3> QED
            BY <1>6, <2>1, Smallest
    <2>3. t = s.life[k].at
        BY <1>3, <1>6
    <2>4. t \in Nat
        BY <2>2, <2>3 DEF IsSetup, ToSet
    <2>5. k \in K
        BY <2>2, <2>3, <2>4 DEF KnownLife
    <2>6. k \in known
        BY <1>2, <2>2, <2>5
    <2>7. first(known) \in known /\ \A j \in known : first(known) <= j
        <3>1. known \subseteq Nat /\ known # {}
            BY <1>2, <2>1, <2>6
        <3> HIDE DEF known
        <3> QED
            BY <3>1, Smallest
    <2>8. first(known) = k
        <3> DEFINE m == first(known)
        <3>1. m \in facts /\ m <= k
            BY <1>2, <2>6, <2>7
        <3> HIDE DEF m, k
        <3>2. k <= m /\ k \in Nat /\ m \in Nat
            BY <2>1, <2>2, <3>1
        <3>3. m = k
            BY <3>1, <3>2
        <3> QED
            BY <3>3 DEF m
    <2> HIDE DEF known, facts, k, t
    <2>9. FactTime(Then(s, t)) = life[k].at
        BY <1>4, <2>6, <2>8
    <2>10. life[k] = s.life[k]
        BY <1>1, <2>5
    <2> QED
        BY <2>3, <2>9, <2>10 DEF t
<1> QED
    BY <1>5, <1>6

\* What was known of all setups at t.
Views(all, t) == {Then(o, t) : o \in all}

\* Who is in conflict at t was in conflict by what was known then.
LEMMA ConflictsThen ==
    ASSUME NEW s, IsSetup(s), NEW all, s \in all, \A o \in all : IsSetup(o), NEW t
    PROVE  Conflicts(s, t, all) = {} <=> Conflicts(Then(s, t), t, Views(all, t)) = {}
<1> DEFINE later == Views(all, t)
<1>1. ASSUME NEW o \in Conflicts(s, t, all) PROVE Then(o, t) \in Conflicts(Then(s, t), t, later)
    <2>1. o \in all /\ o.symbol = s.symbol /\ o.side # s.side /\ StatusAt(o, t) \in OpenStatuses
        BY DEF Conflicts
    <2>a. IsSetup(o)
        BY <2>1
    <2>2. /\ Then(o, t).symbol = Then(s, t).symbol /\ Then(o, t).side # Then(s, t).side
          /\ StatusAt(Then(o, t), t) \in OpenStatuses
        <3>1. /\ Then(o, t).symbol = o.symbol /\ Then(o, t).side = o.side
              /\ Then(s, t).symbol = s.symbol /\ Then(s, t).side = s.side
            BY <2>a, ThenParts
        <3>2. StatusAt(Then(o, t), t) = StatusAt(o, t)
            BY <2>a, StatusThen
        <3> QED
            BY <2>1, <3>1, <3>2
    <2>3. Then(o, t) \in later \ {Then(s, t)}
        BY <2>1, <2>2 DEF Views
    <2> HIDE DEF later
    <2> QED
        BY <2>2, <2>3 DEF Conflicts
<1>2. ASSUME NEW x \in Conflicts(Then(s, t), t, later) PROVE Conflicts(s, t, all) # {}
    <2>1. PICK o \in all : x = Then(o, t)
        BY DEF Conflicts, Views
    <2>a. IsSetup(o)
        BY <2>1
    <2>2. x.symbol = Then(s, t).symbol /\ x.side # Then(s, t).side /\ StatusAt(x, t) \in OpenStatuses
        BY DEF Conflicts
    <2>3. o.symbol = s.symbol /\ o.side # s.side /\ StatusAt(o, t) \in OpenStatuses
        <3>1. /\ Then(o, t).symbol = o.symbol /\ Then(o, t).side = o.side
              /\ Then(s, t).symbol = s.symbol /\ Then(s, t).side = s.side
            BY <2>a, ThenParts
        <3>2. StatusAt(Then(o, t), t) = StatusAt(o, t)
            BY <2>a, StatusThen
        <3> QED
            BY <2>1, <2>2, <3>1, <3>2
    <2>4. o \in all \ {s}
        BY <2>3
    <2> QED
        BY <2>3, <2>4 DEF Conflicts
<1> QED
    BY <1>1, <1>2

\* The strategy gives the same answer to what was known at the fact.
LEMMA EvaluateThen ==
    ASSUME NEW m, NEW s, IsSetup(s), NEW all, s \in all, \A o \in all : IsSetup(o)
    PROVE  Evaluate(m, s, FactTime(s), all)
             = Evaluate(m, Then(s, FactTime(s)), FactTime(s), Views(all, FactTime(s)))
<1> DEFINE t == FactTime(s)
           v == Then(s, t)
           views == Views(all, t)
           checks(u, others) == <<
        <<u.type \in EnabledTypes, "strategy:unsupported_setup">>,
        <<StatusAt(u, t) \in OpenStatuses, "strategy:invalid_setup">>,
        <<FactTime(u) # Never /\ FactTime(u) <= t, "strategy:invalid_setup">>,
        <<u.fit \in AllowedFits, "strategy:invalid_setup">>,
        <<u.atr # 0 /\ u.ref # 0, "strategy:missing_required_context">>,
        <<m.rejectConflicts => Conflicts(u, t, others) = {}, "strategy:conflicting_setup">>,
        <<StopReference(u) > 0, "strategy:missing_required_context">>>>
           a == checks(s, all)
           b == checks(v, views)
<1> SUFFICES Evaluate(m, s, t, all) = Evaluate(m, v, t, views)
    OBVIOUS
<1>1. /\ Evaluate(m, s, t, all) = FirstFailing(a, "strategy:accepted")
      /\ Evaluate(m, v, t, views) = FirstFailing(b, "strategy:accepted")
    BY DEF Evaluate
<1>2. /\ v.type = s.type /\ v.fit = s.fit /\ v.atr = s.atr /\ v.ref = s.ref
      /\ StopReference(v) = StopReference(s)
    BY ThenParts DEF StopReference
<1>3. StatusAt(v, t) = StatusAt(s, t) /\ FactTime(v) = FactTime(s)
    BY StatusThen, FactThen
<1>4. Conflicts(s, t, all) = {} <=> Conflicts(v, t, views) = {}
    BY ConflictsThen
<1> HIDE DEF t, v, views
<1>5. DOMAIN a = 1..7 /\ DOMAIN b = 1..7
    OBVIOUS
<1>6. /\ a[1][1] <=> b[1][1]
      /\ a[2][1] <=> b[2][1]
      /\ a[3][1] <=> b[3][1]
      /\ a[4][1] <=> b[4][1]
      /\ a[5][1] <=> b[5][1]
      /\ a[6][1] <=> b[6][1]
      /\ a[7][1] <=> b[7][1]
    BY <1>2, <1>3, <1>4
<1>7. \A k \in 1..7 : a[k][2] = b[k][2]
    OBVIOUS
<1> HIDE DEF a, b
<1>8. SameChecks(a, b, 7)
    BY <1>5, <1>6, <1>7 DEF SameChecks
<1>9. FirstFailing(a, "strategy:accepted") = FirstFailing(b, "strategy:accepted")
    BY <1>8, SameChecksSameAnswer
<1> QED
    BY <1>1, <1>9

DecidedInv == \A d \in decisions : d.setup \in DOMAIN setups

LEMMA Decisions == Spec => []DecidedInv
<1>1. Init => DecidedInv
    BY DEF Init, DecidedInv
<1>2. ASSUME SpansInv, DecidedInv, [Next]_vars PROVE DecidedInv'
    <2>1. ASSUME NEW outcome, NEW k \in DOMAIN setups, NEW no
          PROVE  Decision(k, outcome, no).setup \in DOMAIN setups
        BY DEF Decision
    <2>2. CASE BarOpens
        BY <1>2, <2>2 DEF BarOpens, run, DecidedInv
    <2>3. CASE Gap
        BY <1>2, <2>3 DEF Gap, run, DecidedInv
    <2>4. CASE Decide
        <3>1. PICK k \in queue : decisions' = decisions \cup
                  {Decision(k, Outcome(k), IF Outcome(k) = "entered" THEN TradeNumber ELSE 0)}
            BY <2>4 DEF Decide
        <3>2. k \in DOMAIN setups /\ setups' = setups
            BY <1>2, <2>4 DEF SpansInv, ClockInv, Decide, run
        <3> QED
            BY <1>2, <2>1, <3>1, <3>2 DEF DecidedInv
    <2>5. CASE BarCloses
        BY <1>2, <2>5 DEF BarCloses, run, DecidedInv
    <2>6. CASE EndOfData
        <3>1. decisions' = decisions \cup {Decision(k, "no_next_bar", 0) : k \in Leftover} /\ setups' = setups
            BY <2>6 DEF EndOfData, run
        <3>2. Leftover \subseteq DOMAIN setups
            BY DEF Leftover
        <3> QED
            BY <1>2, <2>1, <3>1, <3>2 DEF DecidedInv
    <2>7. CASE UNCHANGED vars
        BY <1>2, <2>7 DEF vars, run, DecidedInv
    <2> QED
        BY <1>2, <2>2, <2>3, <2>4, <2>5, <2>6, <2>7 DEF Next
<1> QED
    BY <1>1, <1>2, Spans, PTL DEF Spec

\* What the strategy is told of a setup at its decision does not depend on the
\* life that it and the others had later, which the run is given as well
\* (setup_view, StrategyV1.evaluate).
THEOREM NothingIsKnownBeforehand == Spec => []NoHindsight
<1>1. SpansInv /\ DecidedInv => NoHindsight
    <2> SUFFICES ASSUME SpansInv, DecidedInv, NEW d \in decisions,
                        FactTime(setups[d.setup]) = d.at
                 PROVE  Evaluate(mode, setups[d.setup], d.at, All)
                          = Evaluate(mode, Then(setups[d.setup], d.at), d.at, {Then(o, d.at) : o \in All})
        BY DEF NoHindsight
    <2>1. \A k \in DOMAIN setups : IsSetup(setups[k])
        BY BacktestAssumption DEF SpansInv, ClockInv, IsSetup
    <2>2. setups[d.setup] \in All /\ \A o \in All : IsSetup(o)
        BY <2>1 DEF All, ToSet, DecidedInv
    <2> QED
        BY <2>2, EvaluateThen DEF Views
<1> QED
    BY <1>1, Spans, Decisions, PTL

-----------------------------------------------------------------------------
(* The books.  Every setup is decided once, at its fact; the trades are     *)
(* numbered as they are opened.                                             *)
SkipReasons ==
    {"no_next_bar", "position_already_open", "opened_beyond_stop"} \cup StrategyReasons \cup RiskReasons

DecisionsInv ==
    /\ \A d \in decisions :
           /\ d.setup \in DOMAIN setups /\ FactTime(setups[d.setup]) # Never
           /\ d.outcome \in SkipReasons \cup {"entered"}
    /\ \A d, e \in decisions : d.setup = e.setup => d = e
    /\ \A k \in queue : FactTime(setups[k]) = time /\ k \notin Decided
    /\ phase # "deciding" => queue = {}
    /\ phase # "ended" => \A d \in decisions : FactTime(setups[d.setup]) <= time
    /\ phase = "between" => \A d \in decisions : FactTime(setups[d.setup]) < time
    /\ phase = "ended" => \A k \in DOMAIN setups : FactTime(setups[k]) # Never => k \in Decided
    /\ time \in Nat \ {0}

LEMMA SetupFacts ==
    ASSUME SpansInv, NEW k \in DOMAIN setups
    PROVE  /\ setups[k].symbol \in SymbolSet /\ IsSetup(setups[k]) /\ FactTime(setups[k]) \in Nat
           /\ setups[k].side \in {1, -1}
<1>1. /\ setups[k].symbol \in SymbolSet /\ IsSetup(setups[k]) /\ setups[k].side \in {1, -1}
      /\ setups[k].life \in Seq(ToSet(setups[k].life)) /\ \A x \in ToSet(setups[k].life) : x.at \in Nat
    BY BacktestAssumption DEF SpansInv, ClockInv, IsSetup
<1> DEFINE s == setups[k]
           facts == {j \in DOMAIN s.life : s.life[j].status = EntryOn}
<1>2. FactTime(s) \in Nat
    <2>1. CASE facts = {}
        BY <2>1 DEF FactTime, Never
    <2>2. CASE facts # {}
        <3>1. DOMAIN s.life \subseteq Nat
            BY <1>1
        <3>2. PICK first \in facts : \A j \in facts : first <= j
            BY <2>2, <3>1, Smallest
        <3> DEFINE chosen == CHOOSE j \in facts : \A i \in facts : j <= i
        <3>3. chosen \in facts
            BY <3>2
        <3>4. FactTime(s) = s.life[chosen].at
            BY <2>2 DEF FactTime
        <3> HIDE DEF chosen
        <3>5. s.life[chosen] \in ToSet(s.life)
            BY <1>1, <3>3 DEF ToSet
        <3> QED
            BY <1>1, <3>4, <3>5
    <2> QED
        BY <2>1, <2>2
<1> QED
    BY <1>1, <1>2

(* Every outcome is counted under one of the reasons of the funnel, and an  *)
(* entry is an approved one.                                                *)
LEMMA OutcomeIsKnown ==
    ASSUME NEW k
    PROVE  /\ Outcome(k) \in SkipReasons \cup {"entered"}
           /\ Outcome(k) = "entered" =>
                  /\ GateAnswer(k).reason = "risk:approved"
                  /\ bars[setups[k].symbol] # NoBar /\ Positions(setups[k].symbol) = {}
<1> DEFINE s == setups[k]
           price == Reference(s.symbol)
           p == Portfolio(time)
           strategy == Evaluate(mode, s, time, All)
           answer == GateAnswer(k).reason
<1>1. answer = IF strategy # "strategy:accepted" THEN strategy
               ELSE IF mode.risk = "fixed_quote" THEN AssessFixed(s, price).reason
               ELSE AssessEquity(s, price, p).reason
    BY DEF GateAnswer, Gate, Answer
<1>2. AssessFixed(s, price).reason \in RiskReasons \cup {"risk:approved"}
    BY DEF AssessFixed, Answer, RiskReasons
<1>3. strategy \in StrategyReasons \cup {"strategy:accepted"}
    BY StrategyAnswers DEF StrategyReasons
<1>4. AssessEquity(s, price, p).reason \in RiskReasons \cup {"risk:approved"}
    BY RiskAnswer
<1>5. \/ Outcome(k) = "no_next_bar"
      \/ Outcome(k) = "position_already_open"
      \/ Outcome(k) = answer /\ answer # "risk:approved"
      \/ Outcome(k) = "opened_beyond_stop"
      \/ /\ Outcome(k) = "entered" /\ answer = "risk:approved"
         /\ bars[s.symbol] # NoBar /\ Positions(s.symbol) = {}
    BY DEF Outcome
<1>6. answer \in StrategyReasons \cup RiskReasons \cup {"risk:approved"}
    <2> HIDE DEF s, price, p, strategy, answer
    <2> QED
        BY <1>1, <1>2, <1>3, <1>4
<1>7. "entered" \notin StrategyReasons \cup RiskReasons
    BY DEF StrategyReasons, RiskReasons
<1> HIDE DEF s, answer
<1>8. /\ Outcome(k) \in SkipReasons \cup {"entered"}
      /\ Outcome(k) = "entered" =>
             answer = "risk:approved" /\ bars[s.symbol] # NoBar /\ Positions(s.symbol) = {}
    BY <1>5, <1>6, <1>7 DEF SkipReasons
<1> QED
    BY <1>8 DEF s, answer

LEMMA DecisionFields ==
    ASSUME NEW k, NEW outcome, NEW no
    PROVE  /\ Decision(k, outcome, no).setup = k /\ Decision(k, outcome, no).outcome = outcome
           /\ Decision(k, outcome, no).no = no
BY DEF Decision

LEMMA DecideKeepsDecisions ==
    ASSUME SpansInv, DecisionsInv, Decide
    PROVE  DecisionsInv'
<1>1. PICK k \in queue :
         /\ queue' = queue \ {k}
         /\ decisions' = decisions \cup {Decision(k, Outcome(k), IF Outcome(k) = "entered" THEN TradeNumber ELSE 0)}
    BY DEF Decide
<1>2. UNCHANGED <<setups, phase, time>> /\ phase = "deciding"
    BY DEF Decide, run
<1>3. k \in DOMAIN setups /\ FactTime(setups[k]) = time /\ k \notin Decided /\ time \in Nat \ {0}
    BY DEF DecisionsInv, SpansInv, ClockInv
<1> DEFINE new == Decision(k, Outcome(k), IF Outcome(k) = "entered" THEN TradeNumber ELSE 0)
<1>4. new.setup = k /\ new.outcome \in SkipReasons \cup {"entered"}
    BY DecisionFields, OutcomeIsKnown
<1> HIDE DEF new
<1>5. \A d \in decisions' : d \in decisions \/ d = new
    BY <1>1 DEF new
<1>6. \A d \in decisions : d.setup # k
    BY <1>3 DEF Decided
<1>7. Decided' = Decided \cup {k}
    BY <1>1, <1>4 DEF Decided, new
<1>8. \A d \in decisions' : /\ d.setup \in DOMAIN setups /\ FactTime(setups[d.setup]) # Never
                            /\ d.outcome \in SkipReasons \cup {"entered"}
                            /\ FactTime(setups[d.setup]) <= time
    BY <1>2, <1>3, <1>4, <1>5 DEF DecisionsInv, Never
<1>9. \A d, e \in decisions' : d.setup = e.setup => d = e
    BY <1>4, <1>5, <1>6 DEF DecisionsInv
<1>10. \A j \in queue' : FactTime(setups[j]) = time /\ j \notin Decided'
    BY <1>1, <1>7 DEF DecisionsInv
<1> QED
    BY <1>2, <1>3, <1>8, <1>9, <1>10 DEF DecisionsInv

LEMMA EndKeepsDecisions ==
    ASSUME SpansInv, DecisionsInv, EndOfData
    PROVE  DecisionsInv'
<1>1. /\ decisions' = decisions \cup {Decision(k, "no_next_bar", 0) : k \in Leftover}
      /\ phase = "between" /\ phase' = "ended" /\ UNCHANGED <<setups, time, queue>>
    BY DEF EndOfData, run
<1>2. Leftover \subseteq DOMAIN setups /\ \A k \in Leftover : k \notin Decided /\ FactTime(setups[k]) # Never
    BY DEF Leftover
<1>3. \A d \in decisions' : d \in decisions \/ \E k \in Leftover : d = Decision(k, "no_next_bar", 0)
    BY <1>1
<1>4. \A d \in decisions' : \/ d \in decisions
                            \/ /\ d.setup \in Leftover /\ d.outcome \in SkipReasons
                               /\ d = Decision(d.setup, "no_next_bar", 0)
    BY <1>3, DecisionFields DEF SkipReasons
<1>5. \A d \in decisions : d.setup \notin Leftover
    BY <1>2 DEF Decided
<1>6. \A d \in decisions' : /\ d.setup \in DOMAIN setups /\ FactTime(setups[d.setup]) # Never
                            /\ d.outcome \in SkipReasons \cup {"entered"}
    BY <1>2, <1>4 DEF DecisionsInv
<1>7. \A d, e \in decisions' : d.setup = e.setup => d = e
    BY <1>4, <1>5 DEF DecisionsInv
<1>8. queue = {}
    BY <1>1 DEF DecisionsInv
<1>9. ASSUME NEW k \in DOMAIN setups, FactTime(setups[k]) # Never PROVE k \in Decided'
    <2>1. CASE k \in Decided
        BY <1>1, <2>1 DEF Decided
    <2>2. CASE k \notin Decided
        <3>1. Decision(k, "no_next_bar", 0) \in decisions'
            BY <1>1, <1>9, <2>2 DEF Leftover
        <3> QED
            BY <3>1, DecisionFields DEF Decided
    <2> QED
        BY <2>1, <2>2
<1> QED
    BY <1>1, <1>6, <1>7, <1>8, <1>9 DEF DecisionsInv

LEMMA DecisionsAreMade == Spec => []DecisionsInv
<1>1. Init => DecisionsInv
    BY DEF Init, DecisionsInv
<1>2. ASSUME SpansInv, DecisionsInv, [Next]_vars PROVE DecisionsInv'
    <2>1. \A d \in decisions : FactTime(setups[d.setup]) \in Nat
        BY <1>2, SetupFacts DEF DecisionsInv
    <2>2. CASE BarOpens
        <3>1. /\ UNCHANGED <<setups, time, decisions>> /\ phase = "between" /\ phase' = "deciding"
              /\ queue' = Due(time)
            BY <2>2 DEF BarOpens, run
        <3>2. time \in Nat \ {0} /\ \A d \in decisions : FactTime(setups[d.setup]) < time
            BY <1>2, <3>1 DEF DecisionsInv
        <3>3. ASSUME NEW k \in queue' PROVE FactTime(setups[k]) = time /\ k \notin Decided
            <4>1. FactTime(setups[k]) = time
                BY <3>1 DEF Due
            <4>2. \A d \in decisions : d.setup # k
                BY <2>1, <3>2, <4>1
            <4> QED
                BY <4>1, <4>2 DEF Decided
        <3> QED
            BY <1>2, <2>1, <3>1, <3>2, <3>3 DEF DecisionsInv, Decided
    <2>3. CASE Gap
        <3>1. /\ UNCHANGED <<setups, queue, decisions, phase>> /\ phase = "between" /\ time' = time + 1
            BY <2>3 DEF Gap, run
        <3>2. time \in Nat \ {0} /\ queue = {}
            BY <1>2, <3>1 DEF DecisionsInv
        <3> QED
            BY <1>2, <2>1, <3>1, <3>2 DEF DecisionsInv
    <2>4. CASE Decide
        BY <1>2, <2>4, DecideKeepsDecisions
    <2>5. CASE BarCloses
        <3>1. /\ UNCHANGED <<setups, queue, decisions>> /\ phase = "deciding" /\ phase' = "between"
              /\ queue = {} /\ time' = time + 1
            BY <2>5 DEF BarCloses, run
        <3>2. time \in Nat \ {0}
            BY <1>2 DEF DecisionsInv
        <3>3. \A d \in decisions : FactTime(setups[d.setup]) < time'
            BY <1>2, <2>1, <3>1, <3>2 DEF DecisionsInv
        <3> QED
            BY <1>2, <2>1, <3>1, <3>2, <3>3 DEF DecisionsInv
    <2>6. CASE EndOfData
        BY <1>2, <2>6, EndKeepsDecisions
    <2>7. CASE UNCHANGED vars
        BY <1>2, <2>7 DEF vars, run, DecisionsInv, Decided
    <2> QED
        BY <1>2, <2>2, <2>3, <2>4, <2>5, <2>6, <2>7 DEF Next
<1> QED
    BY <1>1, <1>2, Spans, PTL DEF Spec

-----------------------------------------------------------------------------
(* Counting and adding up. *)
LEMMA ImageOfFinite ==
    ASSUME NEW S, IsFiniteSet(S), NEW T, NEW f, DOMAIN f = S, T = {f[x] : x \in S}
    PROVE  /\ IsFiniteSet(T) /\ Cardinality(T) <= Cardinality(S)
           /\ IsInjective(f) => Cardinality(T) = Cardinality(S)
<1> DEFINE g == [x \in S |-> f[x]]
<1>1. g \in Surjection(S, T)
    BY DEF Surjection
<1>2. /\ IsFiniteSet(T) /\ Cardinality(T) <= Cardinality(S)
      /\ (Cardinality(T) = Cardinality(S)) <=> g \in Injection(S, T)
    <2> HIDE DEF g
    <2>1. ASSUME NEW U, NEW h \in Surjection(S, U)
          PROVE  /\ IsFiniteSet(U) /\ Cardinality(U) <= Cardinality(S)
                 /\ (Cardinality(U) = Cardinality(S)) <=> h \in Injection(S, U)
        BY FS_Surjection
    <2> QED
        BY <1>1, <2>1
<1>3. IsInjective(f) => g \in Injection(S, T)
    BY DEF Injection, IsInjective
<1> QED
    BY <1>2, <1>3

(* Induction over the subsets of a finite set: P holds of a subset if it     *)
(* holds of what is left when any one element is taken away.                 *)
LEMMA SubsetInduction ==
    ASSUME NEW S, IsFiniteSet(S), NEW P, {} \in P,
           \A T \in SUBSET S : T # {} /\ (\A x \in T : T \ {x} \in P) => T \in P
    PROVE  SUBSET S \subseteq P
<1> DEFINE Sizes == {n \in Nat : \E T \in SUBSET S : T \notin P /\ Cardinality(T) = n}
<1>1. \A T \in SUBSET S : IsFiniteSet(T) /\ Cardinality(T) \in Nat
    BY FS_Subset, FS_CardinalityType
<1>2. ASSUME Sizes # {} PROVE FALSE
    <2>1. PICK n \in Sizes : \A m \in Sizes : n <= m
        <3>1. Sizes \subseteq Nat
            OBVIOUS
        <3> HIDE DEF Sizes
        <3> QED
            BY <1>2, <3>1, Smallest
    <2>2. PICK T \in SUBSET S : T \notin P /\ Cardinality(T) = n
        BY <2>1
    <2>3. PICK x \in T : T \ {x} \notin P
        BY <2>2
    <2>4. T \ {x} \in SUBSET S /\ Cardinality(T \ {x}) = Cardinality(T) - 1
        BY <1>1, FS_RemoveElement
    <2>5. Cardinality(T \ {x}) \in Sizes /\ Cardinality(T) \in Nat
        BY <1>1, <2>3, <2>4
    <2> HIDE DEF Sizes
    <2> QED
        BY <2>1, <2>2, <2>4, <2>5
<1> QED
    BY <1>1, <1>2

(* The sum over the subsets of S, one element taken away after the other:    *)
(* there is one, and all its values are integers.                            *)
OneOf(T) == CHOOSE x \in T : TRUE
Sums(F, S, f) == \A T \in SUBSET S : F[T] = IF T = {} THEN 0 ELSE f[OneOf(T)] + F[T \ {OneOf(T)}]

LEMMA SumsAreIntegers ==
    ASSUME NEW S, IsFiniteSet(S), NEW f \in [S -> Int], NEW F, Sums(F, S, f)
    PROVE  \A T \in SUBSET S : F[T] \in Int
<1> DEFINE P == {T \in SUBSET S : F[T] \in Int}
<1>1. {} \in P
    <2>1. {} \in SUBSET S
        OBVIOUS
    <2>2. F[{}] = 0
        BY <2>1 DEF Sums
    <2> QED
        BY <2>1, <2>2
<1>2. ASSUME NEW T \in SUBSET S, T # {}, \A x \in T : T \ {x} \in P PROVE T \in P
    <2>1. OneOf(T) \in T
        BY <1>2 DEF OneOf
    <2>2. F[T] = f[OneOf(T)] + F[T \ {OneOf(T)}]
        BY <1>2 DEF Sums
    <2>3. f[OneOf(T)] \in Int /\ F[T \ {OneOf(T)}] \in Int
        BY <1>2, <2>1
    <2> QED
        BY <2>2, <2>3
<1> HIDE DEF P
<1>3. SUBSET S \subseteq P
    BY <1>1, <1>2, SubsetInduction
<1> QED
    BY <1>3 DEF P

LEMMA SumsExist ==
    ASSUME NEW S, IsFiniteSet(S), NEW f \in [S -> Int]
    PROVE  \E F \in [SUBSET S -> Int] : Sums(F, S, f)
<1> DEFINE Small(n) == {T \in SUBSET S : Cardinality(T) <= n}
           Value(F, T) == IF T = {} THEN 0 ELSE f[OneOf(T)] + F[T \ {OneOf(T)}]
           Solves(F, n) == F \in [Small(n) -> Int] /\ \A T \in Small(n) : F[T] = Value(F, T)
           Unsolved == {n \in Nat : ~ \E F : Solves(F, n)}
<1>1. \A T \in SUBSET S : IsFiniteSet(T) /\ Cardinality(T) \in Nat
    BY FS_Subset, FS_CardinalityType
<1>2. \A T \in SUBSET S : Cardinality(T) = 0 <=> T = {}
    BY <1>1, FS_EmptySet
<1>3. ASSUME NEW T \in SUBSET S, T # {}
      PROVE  /\ OneOf(T) \in T /\ T \ {OneOf(T)} \in SUBSET S
             /\ Cardinality(T \ {OneOf(T)}) = Cardinality(T) - 1
    <2>1. OneOf(T) \in T
        BY <1>3 DEF OneOf
    <2> QED
        BY <1>1, <2>1, FS_RemoveElement
<1>4. 0 \notin Unsolved
    <2>1. Small(0) = {{}}
        BY <1>1, <1>2
    <2>2. Solves([T \in Small(0) |-> 0], 0)
        BY <2>1
    <2> QED
        BY <2>2
<1>5. ASSUME NEW n \in Nat, NEW F, Solves(F, n) PROVE n + 1 \notin Unsolved
    <2> DEFINE G == [T \in Small(n + 1) |-> IF T \in Small(n) THEN F[T] ELSE Value(F, T)]
    <2>1. Small(n) \subseteq Small(n + 1) /\ {} \in Small(n)
        BY <1>1, <1>2
    <2>2. \A T \in Small(n + 1) : T # {} => T \ {OneOf(T)} \in Small(n)
        BY <1>1, <1>3
    <2>3. ASSUME NEW T \in Small(n + 1) PROVE G[T] \in Int /\ G[T] = Value(G, T)
        <3>1. T # {} => OneOf(T) \in S /\ f[OneOf(T)] \in Int
            BY <1>3
        <3> HIDE DEF Small
        <3>2. \A U \in Small(n) : U \in Small(n + 1) /\ G[U] = F[U] /\ F[U] \in Int /\ F[U] = Value(F, U)
            BY <1>5, <2>1
        <3>3. T # {} => G[T \ {OneOf(T)}] = F[T \ {OneOf(T)}] /\ F[T \ {OneOf(T)}] \in Int
            BY <2>2, <3>2
        <3>4. G[T] = Value(F, T)
            BY <3>2
        <3> HIDE DEF G
        <3> QED
            BY <3>1, <3>3, <3>4
    <2>4. Solves(G, n + 1)
        <3> HIDE DEF Small, Value
        <3> QED
            BY <2>3
    <2> QED
        BY <2>4
<1>6. ASSUME Unsolved # {} PROVE FALSE
    <2>1. Unsolved \subseteq Nat
        OBVIOUS
    <2> HIDE DEF Unsolved
    <2>2. PICK n \in Unsolved : \A m \in Unsolved : n <= m
        BY <1>6, <2>1, Smallest
    <2>3. n \in Nat /\ n # 0
        BY <1>4, <2>1, <2>2
    <2>4. n - 1 \in Nat /\ n - 1 \notin Unsolved /\ (n - 1) + 1 = n
        BY <2>2, <2>3
    <2>5. PICK F : Solves(F, n - 1)
        BY <2>4 DEF Unsolved
    <2> HIDE DEF Solves
    <2>6. (n - 1) + 1 \notin Unsolved
        BY <1>5, <2>4, <2>5
    <2> QED
        BY <2>2, <2>4, <2>6
<1>7. Cardinality(S) \in Nat /\ Small(Cardinality(S)) = SUBSET S
    BY FS_Subset, FS_CardinalityType
<1>8. PICK F : Solves(F, Cardinality(S))
    BY <1>6, <1>7
<1> QED
    BY <1>7, <1>8 DEF Sums

(* The two sums of the model.                                                *)
LEMMA NetIsInteger ==
    ASSUME NEW S, IsFiniteSet(S), \A tr \in S : tr.net \in Int
    PROVE  NetOf(S) \in Int
<1> DEFINE f == [x \in S |-> x.net]
           Iter(F) == [T \in SUBSET S |->
                          IF T = {} THEN 0
                          ELSE (CHOOSE x \in T : TRUE).net + F[T \ {CHOOSE x \in T : TRUE}]]
           C == CHOOSE F : F = Iter(F)
<1>1. f \in [S -> Int]
    OBVIOUS
<1>2. ASSUME NEW F, NEW T \in SUBSET S PROVE Iter(F)[T] = IF T = {} THEN 0 ELSE f[OneOf(T)] + F[T \ {OneOf(T)}]
    <2>1. T # {} => OneOf(T) \in S
        BY DEF OneOf
    <2> QED
        BY <2>1 DEF OneOf
<1>3. NetOf(S) = C[S]
    BY DEF NetOf, MapThenSumSet, MapThenFoldSet
<1> HIDE DEF f
<1>4. PICK F \in [SUBSET S -> Int] : Sums(F, S, f)
    BY <1>1, SumsExist
<1>5. F = Iter(F)
    <2>1. \A T \in SUBSET S : F[T] = Iter(F)[T]
        BY <1>2, <1>4 DEF Sums
    <2> QED
        BY <2>1
<1>6. C = Iter(C)
    BY <1>5
<1> HIDE DEF C
<1>7. Sums(C, S, f)
    <2>1. \A T \in SUBSET S : C[T] = Iter(C)[T]
        BY <1>6
    <2> HIDE DEF Iter
    <2> QED
        BY <1>2, <2>1 DEF Sums
<1> QED
    BY <1>1, <1>3, <1>7, SumsAreIntegers

LEMMA UnrealisedIsInteger ==
    ASSUME NEW S, IsFiniteSet(S), NEW closes,
           \A pos \in S : MarkToMarket(pos, closes[pos.symbol].c) \in Int
    PROVE  /\ Unrealised(S, closes) \in Int
           /\ S = {} => Unrealised(S, closes) = 0
<1> DEFINE Mark(pos) == MarkToMarket(pos, closes[pos.symbol].c)
           f == [x \in S |-> Mark(x)]
           Iter(F) == [T \in SUBSET S |->
                          IF T = {} THEN 0
                          ELSE Mark(CHOOSE x \in T : TRUE) + F[T \ {CHOOSE x \in T : TRUE}]]
           C == CHOOSE F : F = Iter(F)
<1>3. Unrealised(S, closes) = C[S]
    BY DEF Unrealised, MapThenSumSet, MapThenFoldSet
<1> HIDE DEF Mark
<1>1. f \in [S -> Int]
    BY DEF Mark
<1>2. ASSUME NEW F, NEW T \in SUBSET S PROVE Iter(F)[T] = IF T = {} THEN 0 ELSE f[OneOf(T)] + F[T \ {OneOf(T)}]
    <2>1. T # {} => OneOf(T) \in S
        BY DEF OneOf
    <2> QED
        BY <2>1 DEF OneOf
<1> HIDE DEF f
<1>4. PICK F \in [SUBSET S -> Int] : Sums(F, S, f)
    BY <1>1, SumsExist
<1>5. F = Iter(F)
    <2>1. \A T \in SUBSET S : F[T] = Iter(F)[T]
        BY <1>2, <1>4 DEF Sums
    <2> QED
        BY <2>1
<1>6. C = Iter(C)
    BY <1>5
<1> HIDE DEF C
<1>7. Sums(C, S, f)
    <2>1. \A T \in SUBSET S : C[T] = Iter(C)[T]
        BY <1>6
    <2> HIDE DEF Iter
    <2> QED
        BY <1>2, <2>1 DEF Sums
<1>8. S \in SUBSET S
    OBVIOUS
<1>9. C[S] \in Int
    BY <1>1, <1>7, <1>8, SumsAreIntegers
<1>10. S = {} => C[S] = 0
    BY <1>7, <1>8 DEF Sums
<1> QED
    BY <1>3, <1>9, <1>10

-----------------------------------------------------------------------------
(* The entries: every position has a number of its own and the decision that *)
(* entered it, and the numbers have no gap.                                  *)
Entries == {d \in decisions : d.outcome = "entered"}
Numbers(os, ts) == {pos.no : pos \in os} \cup {tr.pos.no : tr \in ts}
Distinct(os, ts) ==
    /\ IsFiniteSet(os) /\ IsFiniteSet(ts)
    /\ \A p, q \in os : p.no = q.no => p = q
    /\ \A a, b \in ts : a.pos.no = b.pos.no => a = b
    /\ \A tr \in ts : \A pos \in os : tr.pos.no # pos.no
EnteredBy(pos) == \E d \in Entries : d.no = pos.no /\ d.setup = pos.setup

EntriesInv ==
    /\ Distinct(open, trades)
    /\ Numbers(open, trades) = 1..(Cardinality(trades) + Cardinality(open))
    /\ \A pos \in open : EnteredBy(pos)
    /\ \A tr \in trades : EnteredBy(tr.pos)
    /\ \A d \in Entries : d.no \in Numbers(open, trades)
    /\ \A d, e \in Entries : d.no = e.no => d = e

LEMMA NumbersCount ==
    ASSUME NEW os, NEW ts, Distinct(os, ts)
    PROVE  Cardinality(Numbers(os, ts)) = Cardinality(ts) + Cardinality(os)
<1> DEFINE f == [pos \in os |-> pos.no]
           g == [tr \in ts |-> tr.pos.no]
           N == {f[x] : x \in os}
           M == {g[x] : x \in ts}
<1>1. IsFiniteSet(N) /\ Cardinality(N) = Cardinality(os)
    <2>1. IsInjective(f) /\ DOMAIN f = os /\ IsFiniteSet(os)
        BY DEF Distinct, IsInjective
    <2> HIDE DEF f
    <2> QED
        BY <2>1, ImageOfFinite
<1>2. IsFiniteSet(M) /\ Cardinality(M) = Cardinality(ts)
    <2>1. IsInjective(g) /\ DOMAIN g = ts /\ IsFiniteSet(ts)
        BY DEF Distinct, IsInjective
    <2> HIDE DEF g
    <2> QED
        BY <2>1, ImageOfFinite
<1>3. N \cap M = {} /\ Numbers(os, ts) = N \cup M
    BY DEF Distinct, Numbers
<1> HIDE DEF N, M
<1>4. Cardinality(N \cup M) = Cardinality(N) + Cardinality(M) - Cardinality({})
    BY <1>1, <1>2, <1>3, FS_Union
<1>5. Cardinality(os) \in Nat /\ Cardinality(ts) \in Nat /\ Cardinality({}) = 0
    BY FS_CardinalityType, FS_EmptySet DEF Distinct
<1> QED
    BY <1>1, <1>2, <1>3, <1>4, <1>5

\* The elements that f makes, added to those of ts.
With(ts, f) == ts \cup {f[x] : x \in DOMAIN f}

(* Positions that become trades, and those that are kept, are the same       *)
(* entries as before.                                                        *)
LEMMA ClosedKeepsEntries ==
    ASSUME EntriesInv, NEW left \in SUBSET open, NEW New, NEW Kept,
           DOMAIN New = left, DOMAIN Kept = open \ left,
           \A pos \in left : New[pos].pos.no = pos.no /\ New[pos].pos.setup = pos.setup,
           \A pos \in open \ left : Kept[pos].no = pos.no /\ Kept[pos].setup = pos.setup,
           trades' = With(trades, New), open' = With({}, Kept), Entries' = Entries
    PROVE  EntriesInv'
<1>0. trades' = trades \cup {New[pos] : pos \in left} /\ open' = {Kept[pos] : pos \in open \ left}
    BY DEF With
<1>1. /\ IsFiniteSet(open) /\ IsFiniteSet(trades)
      /\ \A p, q \in open : p.no = q.no => p = q
      /\ \A a, b \in trades : a.pos.no = b.pos.no => a = b
      /\ \A tr \in trades : \A pos \in open : tr.pos.no # pos.no
    BY DEF EntriesInv, Distinct
<1>2. IsFiniteSet(open') /\ IsFiniteSet(trades')
    <2>1. IsFiniteSet(left) /\ IsFiniteSet(open \ left)
        BY <1>1, FS_Subset
    <2> DEFINE made == {New[pos] : pos \in left}
               kept == {Kept[pos] : pos \in open \ left}
    <2>2. IsFiniteSet(made) /\ IsFiniteSet(kept)
        BY <2>1, ImageOfFinite
    <2>3. trades' = trades \cup made /\ open' = kept
        BY <1>0
    <2> HIDE DEF made, kept
    <2>4. IsFiniteSet(trades \cup made)
        BY <1>1, <2>2, FS_Union
    <2> QED
        BY <2>2, <2>3, <2>4
<1>3. \A p \in open' : \E old \in open \ left : p = Kept[old] /\ p.no = old.no /\ p.setup = old.setup
    BY <1>0
<1>4. \A tr \in trades' : \/ tr \in trades
                          \/ \E old \in left : tr = New[old] /\ tr.pos.no = old.no /\ tr.pos.setup = old.setup
    BY <1>0
<1>5. Distinct(open', trades')
    <2>1. \A p, q \in open' : p.no = q.no => p = q
        BY <1>1, <1>3
    <2>2. \A a, b \in trades' : a.pos.no = b.pos.no => a = b
        BY <1>1, <1>4
    <2>3. \A tr \in trades' : \A pos \in open' : tr.pos.no # pos.no
        BY <1>1, <1>3, <1>4
    <2> QED
        BY <1>2, <2>1, <2>2, <2>3 DEF Distinct
<1>6. Numbers(open', trades') = Numbers(open, trades)
    <2>1. ASSUME NEW pos \in open PROVE pos.no \in Numbers(open', trades')
        <3>1. CASE pos \in left
            <4>1. New[pos] \in trades' /\ New[pos].pos.no = pos.no
                BY <1>0, <3>1
            <4> QED
                BY <4>1 DEF Numbers
        <3>2. CASE pos \notin left
            <4>1. Kept[pos] \in open' /\ Kept[pos].no = pos.no
                BY <1>0, <3>2
            <4> QED
                BY <4>1 DEF Numbers
        <3> QED
            BY <3>1, <3>2
    <2>2. \A tr \in trades : tr.pos.no \in Numbers(open', trades')
        BY <1>0 DEF Numbers
    <2>3. \A p \in open' : p.no \in Numbers(open, trades)
        BY <1>3 DEF Numbers
    <2>4. \A tr \in trades' : tr.pos.no \in Numbers(open, trades)
        BY <1>4 DEF Numbers
    <2> QED
        BY <2>1, <2>2, <2>3, <2>4 DEF Numbers
<1>7. Numbers(open', trades') = 1..(Cardinality(trades') + Cardinality(open'))
    <2>1. Cardinality(trades) + Cardinality(open) = Cardinality(trades') + Cardinality(open')
        BY <1>5, <1>6, NumbersCount DEF EntriesInv
    <2> QED
        BY <1>6, <2>1 DEF EntriesInv
<1>8. \A p \in open' : EnteredBy(p)'
    BY <1>3 DEF EntriesInv, EnteredBy
<1>9. \A tr \in trades' : EnteredBy(tr.pos)'
    BY <1>4 DEF EntriesInv, EnteredBy
<1> QED
    BY <1>5, <1>6, <1>7, <1>8, <1>9 DEF EntriesInv

LEMMA DecideKeepsEntries ==
    ASSUME SpansInv, EntriesInv, Decide
    PROVE  EntriesInv'
<1> DEFINE no(k) == IF Outcome(k) = "entered" THEN TradeNumber ELSE 0
<1>1. PICK k \in queue :
         /\ open' = IF Outcome(k) = "entered" THEN open \cup {Entered(k)} ELSE open
         /\ decisions' = decisions \cup {Decision(k, Outcome(k), no(k))}
    BY DEF Decide
<1>2. trades' = trades
    BY DEF Decide
<1>3. CASE Outcome(k) # "entered"
    <2>1. Entries' = Entries
        BY <1>1, <1>3, DecisionFields DEF Entries
    <2> QED
        BY <1>1, <1>2, <1>3, <2>1 DEF EntriesInv, EnteredBy
<1>4. CASE Outcome(k) = "entered"
    <2> DEFINE new == Entered(k)
               n == Cardinality(trades) + Cardinality(open)
               entry == Decision(k, "entered", TradeNumber)
    <2>1. IsFiniteSet(open) /\ IsFiniteSet(trades) /\ n \in Nat
        BY FS_CardinalityType DEF EntriesInv, Distinct
    <2>2. open' = open \cup {new} /\ decisions' = decisions \cup {entry}
        BY <1>1, <1>4
    <2>3. new.no = n + 1 /\ new.setup = k
        BY DEF Entered, Position, TradeNumber
    <2>4. entry.no = n + 1 /\ entry.setup = k /\ entry.outcome = "entered"
        BY DecisionFields DEF TradeNumber
    <2> HIDE DEF new, entry, n
    <2>5. Numbers(open, trades) = 1..n
        BY DEF EntriesInv, n
    <2>6. \A pos \in open : pos.no \in 1..n
        BY <2>5 DEF Numbers
    <2>7. \A tr \in trades : tr.pos.no \in 1..n
        BY <2>5 DEF Numbers
    <2>8. new \notin open /\ \A p \in 1..n : p # n + 1
        BY <2>1, <2>3, <2>6
    <2>9. Distinct(open', trades')
        <3>1. IsFiniteSet(open')
            BY <2>1, <2>2, FS_AddElement
        <3>2. \A p, q \in open' : p.no = q.no => p = q
            BY <2>2, <2>3, <2>6, <2>8 DEF EntriesInv, Distinct
        <3>3. \A tr \in trades' : \A pos \in open' : tr.pos.no # pos.no
            BY <1>2, <2>2, <2>3, <2>7, <2>8 DEF EntriesInv, Distinct
        <3> QED
            BY <1>2, <3>1, <3>2, <3>3 DEF EntriesInv, Distinct
    <2>10. Numbers(open', trades') = 1..(n + 1)
        <3>1. Numbers(open', trades') = Numbers(open, trades) \cup {n + 1}
            BY <1>2, <2>2, <2>3 DEF Numbers
        <3>2. 1..(n + 1) = 1..n \cup {n + 1}
            BY <2>1
        <3> QED
            BY <2>5, <3>1, <3>2
    <2>11. Cardinality(trades') + Cardinality(open') = n + 1
        <3>1. Cardinality(open') = Cardinality(open) + 1
            BY <2>1, <2>2, <2>8, FS_AddElement
        <3>2. Cardinality(open) \in Nat /\ Cardinality(trades) \in Nat
            BY <2>1, FS_CardinalityType
        <3> QED
            BY <1>2, <3>1, <3>2 DEF n
    <2>12. Entries' = Entries \cup {entry}
        BY <2>2, <2>4 DEF Entries
    <2>13. \A pos \in open' : EnteredBy(pos)'
        BY <2>2, <2>3, <2>4, <2>12 DEF EntriesInv, EnteredBy
    <2>14. \A tr \in trades' : EnteredBy(tr.pos)'
        BY <1>2, <2>12 DEF EntriesInv, EnteredBy
    <2>15. \A d \in Entries : d.no \in 1..n
        BY <2>5 DEF EntriesInv
    <2>16. \A d \in Entries' : d.no \in 1..(n + 1)
        BY <2>1, <2>4, <2>12, <2>15
    <2>17. \A d, e \in Entries' : d.no = e.no => d = e
        BY <2>4, <2>8, <2>12, <2>15 DEF EntriesInv
    <2> QED
        BY <2>9, <2>10, <2>11, <2>13, <2>14, <2>16, <2>17 DEF EntriesInv
<1> QED
    BY <1>3, <1>4

(* What a bar and the end of the data make of the positions.                 *)
BarTrade(pos) == Closed(Aged(pos), ExitOn(Aged(pos), bars[pos.symbol], time), time + 1)

LEMMA AgedFields ==
    ASSUME NEW pos, IsPosition(pos)
    PROVE  /\ Aged(pos).no = pos.no /\ Aged(pos).setup = pos.setup
           /\ Aged(pos).qty = pos.qty /\ Aged(pos).entry = pos.entry
           /\ Aged(pos).side = pos.side /\ Aged(pos).stop = pos.stop
           /\ Aged(pos).bars = pos.bars + 1
BY DEF Aged, IsPosition

LEMMA ClosedPosition == \A pos, exit, t : Closed(pos, exit, t).pos = pos
BY DEF Closed, SimulatedTrade

LEMMA BarKeepsEntries ==
    ASSUME SpansInv, EntriesInv, BarCloses
    PROVE  EntriesInv'
<1> DEFINE left == {pos \in open : Leaving(pos)}
           New == [pos \in left |-> BarTrade(pos)]
           Kept == [pos \in open \ left |-> IF Present(pos) THEN Aged(pos) ELSE pos]
<1>1. /\ trades' = trades \cup {BarTrade(pos) : pos \in left}
      /\ open' = {IF Present(pos) THEN Aged(pos) ELSE pos : pos \in open \ left}
      /\ decisions' = decisions
    BY DEF BarCloses, BarTrade
<1>2. \A pos \in open : IsPosition(pos)
    BY DEF SpansInv, PositionsInv
<1>3. \A pos \in left : New[pos].pos.no = pos.no /\ New[pos].pos.setup = pos.setup
    BY <1>2, AgedFields, ClosedPosition DEF BarTrade
<1>4. \A pos \in open \ left : Kept[pos].no = pos.no /\ Kept[pos].setup = pos.setup
    BY <1>2, AgedFields
<1>5. trades' = With(trades, New) /\ open' = With({}, Kept)
    BY <1>1 DEF With
<1>6. Entries' = Entries
    BY <1>1 DEF Entries
<1>7. left \in SUBSET open /\ DOMAIN New = left /\ DOMAIN Kept = open \ left
    OBVIOUS
<1> HIDE DEF left, New, Kept
<1> QED
    BY <1>3, <1>4, <1>5, <1>6, <1>7, ClosedKeepsEntries

LEMMA EndKeepsEntries ==
    ASSUME EntriesInv, EndOfData
    PROVE  EntriesInv'
<1> DEFINE New == [pos \in open |-> AtTheEnd(pos)]
           Kept == [pos \in open \ open |-> pos]
<1>1. /\ trades' = trades \cup {AtTheEnd(pos) : pos \in open} /\ open' = {}
      /\ decisions' = decisions \cup {Decision(k, "no_next_bar", 0) : k \in Leftover}
    BY DEF EndOfData
<1>2. \A pos \in open : New[pos].pos.no = pos.no /\ New[pos].pos.setup = pos.setup
    BY ClosedPosition DEF AtTheEnd
<1>3. trades' = With(trades, New) /\ open' = With({}, Kept)
    BY <1>1 DEF With
<1>4. Entries' = Entries
    BY <1>1, DecisionFields DEF Entries
<1>5. /\ open \in SUBSET open /\ DOMAIN New = open /\ DOMAIN Kept = open \ open
      /\ \A pos \in open \ open : Kept[pos].no = pos.no /\ Kept[pos].setup = pos.setup
    OBVIOUS
<1> HIDE DEF New, Kept
<1> QED
    BY <1>2, <1>3, <1>4, <1>5, ClosedKeepsEntries

LEMMA EntriesAreNumbered == Spec => []EntriesInv
<1>1. Init => EntriesInv
    <2>1. 1..(0 + 0) = {}
        OBVIOUS
    <2> QED
        BY <2>1, FS_EmptySet DEF Init, EntriesInv, Distinct, Numbers, Entries
<1>2. ASSUME SpansInv, EntriesInv, [Next]_vars PROVE EntriesInv'
    <2>1. CASE UNCHANGED <<open, trades, decisions>>
        BY <1>2, <2>1 DEF EntriesInv, EnteredBy, Entries
    <2>2. CASE BarOpens \/ Gap \/ UNCHANGED vars
        BY <2>1, <2>2 DEF BarOpens, Gap, vars
    <2> QED
        BY <1>2, <2>2, DecideKeepsEntries, BarKeepsEntries, EndKeepsEntries DEF Next
<1> QED
    BY <1>1, <1>2, Spans, PTL DEF Spec

-----------------------------------------------------------------------------
(* The fills: each is made at the fact of its setup, with a size and a risk, *)
(* and the amounts of the books are integers.                                *)
Filled(pos) ==
    /\ pos.setup \in DOMAIN setups /\ pos.opened = FactTime(setups[pos.setup])
    /\ pos.qty \in Nat \ {0} /\ pos.entry \in Int /\ pos.bars \in Nat
    /\ pos.side * pos.stop < pos.side * pos.entry /\ Priced(pos)

FillsInv ==
    /\ \A pos \in open : /\ Filled(pos)
                         /\ pos.opened < time => pos.bars > 0 /\ pos.opened < last[pos.symbol].at
                         /\ pos.opened = time => Present(pos)
    /\ \A tr \in trades : Filled(tr.pos) /\ tr.pos.bars > 0 /\ tr.pos.opened < tr.closed
    /\ \A s \in SymbolSet : last[s].at # Never => \E b \in Bars[s] : last[s].c = b.c

EquityInv ==
    /\ equity \in Seq([at : Nat, value : Int])
    /\ \A tr \in trades : tr.net \in Int
    /\ phase # "deciding" /\ equity # <<>> /\ open = {} =>
           Last(equity).value = InitialEquity + NetOf(trades)
    /\ phase = "ended" => equity # <<>>

(* What is known of the gate's inputs at a decision.                         *)
LEMMA StopIsInteger ==
    ASSUME SpansInv, NEW k \in DOMAIN setups
    PROVE  StopReference(setups[k]) \in Int
<1>1. /\ setups[k].side \in Int /\ setups[k].ref \in Int /\ setups[k].atr \in Int /\ StopBufferAtr \in Int
    BY BacktestAssumption, GateAssumption DEF SpansInv, ClockInv
<1>2. \A a, b, c, d \in Int : a - b * c * d \in Int
    OBVIOUS
<1> QED
    BY <1>1, <1>2 DEF StopReference

LEMMA ReferenceIsPrice ==
    ASSUME SpansInv, ExitInv, FillsInv, phase = "deciding", NEW s \in SymbolSet, bars[s] # NoBar
    PROVE  \E b \in Bars[s] : Reference(s) \in {b.o, b.c} /\ Reference(s) \in Nat \ {0}
<1>1. bars[s] \in Bars[s]
    BY DEF ExitInv
<1>2. \A b \in Bars[s] : b.o \in Nat \ {0} /\ b.c \in Nat \ {0}
    BY BacktestAssumption
<1>3. CASE last[s].at # Never
    BY <1>2, <1>3 DEF FillsInv, Reference
<1>4. CASE last[s].at = Never
    BY <1>1, <1>2, <1>4 DEF Reference
<1> QED
    BY <1>3, <1>4

LEMMA FloorIsInteger ==
    ASSUME NEW n \in Int, NEW d \in Nat \ {0}, NEW step \in Nat \ {0}
    PROVE  FloorToStep(n, d, step) \in Int
<1>1. d * step \in Nat \ {0}
    OBVIOUS
<1>2. n \div (d * step) \in Int
    <2>1. \A e \in Nat \ {0} : n \div e \in Int
        OBVIOUS
    <2> QED
        BY <1>1, <2>1
<1>3. \A a, b \in Int : a * b \in Int
    OBVIOUS
<1> QED
    BY <1>2, <1>3 DEF FloorToStep

LEMMA AtLeastOne ==
    ASSUME NEW n \in Nat, NEW d \in Nat \ {0}, d <= n
    PROVE  n \div d \in Nat \ {0}
OBVIOUS

LEMMA EnteredSize ==
    ASSUME SpansInv, ExitInv, FillsInv, phase = "deciding", EquityNow \in Int,
           NEW k \in queue, Outcome(k) = "entered"
    PROVE  GateAnswer(k).qty \in Nat \ {0}
<1> DEFINE s == setups[k]
           price == Reference(s.symbol)
           p == Portfolio(time)
           perUnit == Distance(price, StopReference(s))
<1>1. k \in DOMAIN setups /\ s.symbol \in SymbolSet /\ s.side \in {1, -1} /\ bars[s.symbol] # NoBar
    BY OutcomeIsKnown, SetupFacts DEF SpansInv, ClockInv
<1>2. StopReference(s) \in Int
    BY <1>1, StopIsInteger
<1>3. PICK b \in Bars[s.symbol] : price \in {b.o, b.c} /\ price \in Nat \ {0}
    BY <1>1, ReferenceIsPrice
<1>4. perUnit <= FixedRisk
    BY <1>1, <1>3, UnitsAssumption DEF SpansInv, ClockInv
<1>5. RightSide(s, price) => perUnit \in Nat \ {0}
    BY <1>1, <1>2, <1>3 DEF RightSide, Distance
<1>6. FixedRisk \in Nat /\ RiskPct \in Nat /\ MaxLeverage \in Nat
    BY GateAssumption
<1>7. GateAnswer(k) = Gate(mode, s, time, All, price, p) /\ GateAnswer(k).reason = "risk:approved"
    BY OutcomeIsKnown DEF GateAnswer
<1>8. Evaluate(mode, s, time, All) # "risk:approved"
    BY StrategyAnswers
<1>9. GateAnswer(k) = IF mode.risk = "fixed_quote" THEN AssessFixed(s, price) ELSE AssessEquity(s, price, p)
    BY <1>7, <1>8 DEF Gate, Answer
<1>10. p.equity \in Int
    BY DEF Portfolio
<1> HIDE DEF s, price, p
<1>11. CASE mode.risk = "fixed_quote"
    <2>1. RightSide(s, price) /\ GateAnswer(k).qty = FixedRisk \div perUnit
        BY <1>7, <1>9, <1>11 DEF AssessFixed, Answer
    <2> HIDE DEF perUnit
    <2> QED
        BY <1>4, <1>5, <1>6, <2>1, AtLeastOne
<1>12. CASE mode.risk # "fixed_quote"
    <2> DEFINE rules == Instruments[s.symbol]
    <2>1. Sized(s, price, p)
        BY <1>7, <1>9, <1>12, RiskAnswer
    <2>2. /\ RightSide(s, price) /\ s.symbol \in DOMAIN Instruments
          /\ GateAnswer(k).qty > 0 /\ GateAnswer(k).qty = Quantity(p, price, perUnit, rules)
        BY <1>9, <1>12, <2>1 DEF Sized
    <2>3. rules.step \in Nat \ {0} /\ perUnit \in Nat \ {0}
        BY <1>5, <2>2, GateAssumption
    <2> HIDE DEF perUnit, rules
    <2>4. p.equity * RiskPct \in Int /\ MaxLeverage * p.equity \in Int /\ 100 * perUnit \in Nat \ {0}
        BY <1>6, <1>10, <2>3
    <2>5. /\ FloorToStep(p.equity * RiskPct, 100 * perUnit, rules.step) \in Int
          /\ FloorToStep(MaxLeverage * p.equity, price, rules.step) \in Int
        BY <1>3, <2>3, <2>4, FloorIsInteger
    <2>6. Quantity(p, price, perUnit, rules) \in Int
        BY <2>5 DEF Quantity
    <2> QED
        BY <2>2, <2>6
<1> QED
    BY <1>11, <1>12

LEMMA EnteredFilled ==
    ASSUME SpansInv, ExitInv, DecisionsInv, FillsInv, phase = "deciding", EquityNow \in Int,
           NEW k \in queue, Outcome(k) = "entered"
    PROVE  /\ Filled(Entered(k)) /\ Entered(k).opened = time /\ Present(Entered(k))
<1> DEFINE s == setups[k]
           o == bars[s.symbol].o
           entry == o + s.side * Slippage
<1>1. k \in DOMAIN setups /\ s.symbol \in SymbolSet /\ s.side \in {1, -1} /\ bars[s.symbol] # NoBar
    BY OutcomeIsKnown, SetupFacts DEF SpansInv, ClockInv
<1>2. o \in Int /\ Slippage \in Int
    BY <1>1, BacktestAssumption, SimulatorAssumption DEF ExitInv
<1>3. entry \in Int
    BY <1>1, <1>2
<1>4. FactTime(s) = time
    BY DEF DecisionsInv
<1>5. ~OpenedBeyond(s.side, o, StopReference(s))
    BY OutcomeStops DEF Fillable
<1>6. GateAnswer(k).qty \in Nat \ {0} /\ StopReference(s) \in Int /\ Priced(Entered(k))
    BY <1>1, EnteredSize, StopIsInteger, EnteredPriced
<1>7. /\ Entered(k).setup = k /\ Entered(k).opened = time /\ Entered(k).qty = GateAnswer(k).qty
      /\ Entered(k).entry = entry /\ Entered(k).stop = StopReference(s) /\ Entered(k).side = s.side
      /\ Entered(k).bars = 0 /\ Entered(k).symbol = s.symbol
    BY DEF Entered, Position
<1>8. s.side * StopReference(s) < s.side * entry
    <2>1. s.side * StopReference(s) \in Int /\ s.side * entry \in Int
        BY <1>1, <1>3, <1>6
    <2> QED
        BY <1>5, <2>1 DEF OpenedBeyond
<1> HIDE DEF o, entry, s
<1>9. Filled(Entered(k))
    BY <1>1, <1>3, <1>4, <1>6, <1>7, <1>8 DEF Filled, s
<1> QED
    BY <1>1, <1>7, <1>9 DEF Present, s

LEMMA ProductIsInteger == \A a, b \in Int : a * b \in Int
OBVIOUS

LEMMA ExitIsInteger ==
    ASSUME NEW pos, Priced(pos), NEW bar, bar.o \in Int, bar.c \in Int, NEW t,
           NEW exit, exit = ExitOn(pos, bar, t)
    PROVE  exit.price \in Int /\ exit.fee \in Int
<1>1. /\ TakerFee \in Int /\ MakerFee \in Int /\ Slippage \in Int
      /\ pos.side \in {1, -1} /\ pos.stop \in Int /\ pos.target \in Int
    BY SimulatorAssumption DEF Priced
<1>2. \A reason : \A price \in Int :
          AtMarket(pos, reason, price).price \in Int /\ AtMarket(pos, reason, price).fee \in Int
    BY <1>1 DEF AtMarket, Exit
<1>3. AtTarget(pos).price \in Int /\ AtTarget(pos).fee \in Int
    BY <1>1 DEF AtTarget, Exit
<1>4. NoExit.price \in Int /\ NoExit.fee \in Int
    BY DEF NoExit, Exit
<1>5. \/ exit \in {NoExit, AtTarget(pos)}
      \/ \E price \in {bar.o, bar.c, pos.stop} : \E reason : exit = AtMarket(pos, reason, price)
    <2> DEFINE check == ExitCheck(pos, bar, t)
    <2>1. \/ check \in {NoExit, AtTarget(pos)}
          \/ \E price \in {bar.o, pos.stop} : \E reason : check = AtMarket(pos, reason, price)
        BY DEF ExitCheck
    <2> HIDE DEF check
    <2>2. exit = IF check = NoExit /\ pos.bars >= MaxHold THEN AtMarket(pos, "time", bar.c) ELSE check
        BY DEF ExitOn, check
    <2> QED
        BY <2>1, <2>2
<1> QED
    BY <1>1, <1>2, <1>3, <1>4, <1>5

LEMMA NetOfTrade ==
    ASSUME NEW pos, Filled(pos), pos.opened \in Nat, NEW exit, exit.price \in Int, exit.fee \in Int,
           NEW closed \in Nat
    PROVE  Closed(pos, exit, closed).net \in Int
<1>1. /\ pos.qty \in Int /\ pos.side \in Int /\ pos.entry \in Int /\ TakerFee \in Int /\ FundingRate \in Int
    BY SimulatorAssumption DEF Filled, Priced
<1>2. Cardinality(Settled(pos.opened, closed)) \in Int
    <2>1. \A f \in Settled(pos.opened, closed) : f \in Nat /\ f <= closed
        BY SimulatorAssumption DEF Settled
    <2>2. IsFiniteSet(Settled(pos.opened, closed))
        BY <2>1, FS_BoundedSetOfNaturals
    <2> QED
        BY <2>2, FS_CardinalityType
<1> DEFINE gross == pos.qty * pos.side * (exit.price - pos.entry)
           fees == pos.qty * (TakerFee + exit.fee)
           funding == -pos.qty * pos.side * FundingRate * Cardinality(Settled(pos.opened, closed))
<1>3. gross \in Int
    <2>1. pos.qty * pos.side \in Int /\ exit.price - pos.entry \in Int
        BY <1>1, ProductIsInteger
    <2> QED
        BY <2>1, ProductIsInteger
<1>4. fees \in Int
    <2>1. TakerFee + exit.fee \in Int
        BY <1>1
    <2> QED
        BY <1>1, <2>1, ProductIsInteger
<1>5. funding \in Int
    <2>1. pos.qty * pos.side \in Int
        BY <1>1, ProductIsInteger
    <2>2. pos.qty * pos.side * FundingRate \in Int
        BY <1>1, <2>1, ProductIsInteger
    <2>3. pos.qty * pos.side * FundingRate * Cardinality(Settled(pos.opened, closed)) \in Int
        BY <1>2, <2>2, ProductIsInteger
    <2> QED
        BY <2>3
<1>6. Closed(pos, exit, closed).net = gross - fees + funding
    BY DEF Closed, SimulatedTrade
<1> HIDE DEF gross, fees, funding
<1> QED
    BY <1>3, <1>4, <1>5, <1>6

LEMMA MarkIsInteger ==
    ASSUME NEW pos, Filled(pos), NEW close \in Int
    PROVE  MarkToMarket(pos, close) \in Int
<1>1. pos.qty \in Int /\ pos.side \in Int /\ pos.entry \in Int /\ TakerFee \in Int
    BY SimulatorAssumption DEF Filled, Priced
<1>2. pos.side * (close - pos.entry) \in Int
    BY <1>1, ProductIsInteger
<1>3. pos.side * (close - pos.entry) - TakerFee \in Int
    BY <1>1, <1>2
<1> QED
    BY <1>1, <1>3, ProductIsInteger DEF MarkToMarket

LEMMA AgedFilled ==
    ASSUME NEW pos, IsPosition(pos), Filled(pos)
    PROVE  Filled(Aged(pos)) /\ Aged(pos).bars > 0
<1>1. Priced(Aged(pos)) /\ Aged(pos).opened = pos.opened
    BY AgedPriced, AgedKeeps DEF Filled
<1>2. pos.bars + 1 \in Nat /\ pos.bars + 1 > 0
    BY DEF Filled
<1> QED
    BY <1>1, <1>2, AgedFields DEF Filled

(* The bar that closes.                                                      *)
LEMMA BarTrades ==
    ASSUME SpansInv, ExitInv, FillsInv, phase = "deciding", NEW pos \in open, Present(pos)
    PROVE  /\ BarTrade(pos).net \in Int /\ Filled(BarTrade(pos).pos) /\ BarTrade(pos).pos.bars > 0
           /\ BarTrade(pos).pos.opened < BarTrade(pos).closed
<1>1. IsPosition(pos) /\ Filled(pos) /\ pos.opened <= time /\ pos.opened \in Nat /\ time \in Nat
    BY DEF SpansInv, PositionsInv, ClockInv, FillsInv, IsPosition
<1>2. Filled(Aged(pos)) /\ Aged(pos).bars > 0 /\ Aged(pos).opened = pos.opened
    BY <1>1, AgedFilled, AgedKeeps
<1> DEFINE bar == bars[pos.symbol]
           exit == ExitOn(Aged(pos), bar, time)
<1>3. bar.o \in Int /\ bar.c \in Int
    BY <1>1, BacktestAssumption DEF ExitInv, Present, IsPosition
<1>4. exit.price \in Int /\ exit.fee \in Int
    BY <1>2, <1>3, ExitIsInteger DEF Filled
<1>5. BarTrade(pos) = Closed(Aged(pos), exit, time + 1)
    BY DEF BarTrade
<1>6. /\ Closed(Aged(pos), exit, time + 1).pos = Aged(pos)
      /\ Closed(Aged(pos), exit, time + 1).closed = time + 1
    BY DEF Closed, SimulatedTrade
<1> HIDE DEF exit
<1>7. Closed(Aged(pos), exit, time + 1).net \in Int
    BY <1>1, <1>2, <1>4, NetOfTrade
<1> QED
    BY <1>1, <1>2, <1>5, <1>6, <1>7

LEMMA BarKeepsFills ==
    ASSUME SpansInv, ExitInv, FillsInv, BarCloses
    PROVE  FillsInv'
<1>1. /\ trades' = trades \cup {BarTrade(pos) : pos \in {x \in open : Leaving(x)}}
      /\ open' = {IF Present(pos) THEN Aged(pos) ELSE pos : pos \in open \ {x \in open : Leaving(x)}}
      /\ phase = "deciding" /\ time' = time + 1 /\ setups' = setups /\ last' = LastAfter
    BY DEF BarCloses, BarTrade, run
<1>2. \A pos \in open : IsPosition(pos) /\ pos.opened <= time /\ pos.opened \in Nat
    BY DEF SpansInv, PositionsInv, IsPosition
<1>3. time \in Nat /\ \A s \in SymbolSet : last[s].at <= time
    BY DEF SpansInv, ClockInv
<1>4. \A pos : Filled(pos) => Filled(pos)'
    BY <1>1 DEF Filled, Priced
<1>5. \A tr \in trades' : Filled(tr.pos)' /\ tr.pos.bars > 0 /\ tr.pos.opened < tr.closed
    <2>1. \A pos \in open : Leaving(pos) => Present(pos)
        BY DEF Leaving
    <2>2. \A tr \in trades' : tr \in trades \/ \E pos \in open : Present(pos) /\ tr = BarTrade(pos)
        BY <1>1, <2>1
    <2> QED
        BY <1>1, <1>4, <2>2, BarTrades DEF FillsInv
<1>6. ASSUME NEW s \in SymbolSet
      PROVE  /\ bars[s] # NoBar => last'[s].c = bars[s].c /\ last'[s].at = time + 1
             /\ bars[s] = NoBar => last'[s] = last[s]
    BY <1>1 DEF LastAfter
<1>7. ASSUME NEW s \in SymbolSet, last'[s].at # Never PROVE \E b \in Bars[s] : last'[s].c = b.c
    <2>1. bars[s] # NoBar => bars[s] \in Bars[s]
        BY <1>1 DEF ExitInv
    <2> QED
        BY <1>6, <1>7, <2>1 DEF FillsInv
<1>8. ASSUME NEW p \in open'
      PROVE  Filled(p)' /\ p.bars > 0 /\ p.opened < last'[p.symbol].at /\ p.opened # time'
    <2>1. PICK old \in open : p = IF Present(old) THEN Aged(old) ELSE old
        BY <1>1
    <2>2. IsPosition(old) /\ Filled(old) /\ old.symbol \in SymbolSet /\ old.opened <= time /\ old.opened \in Nat
        BY <1>2 DEF FillsInv, IsPosition
    <2>3. CASE Present(old)
        <3>1. p = Aged(old) /\ p.symbol = old.symbol /\ p.opened = old.opened /\ Filled(p) /\ p.bars > 0
            BY <2>1, <2>2, <2>3, AgedKeeps, AgedFilled
        <3>2. last'[p.symbol].at = time + 1
            BY <1>6, <2>2, <2>3, <3>1 DEF Present
        <3> QED
            BY <1>1, <1>3, <1>4, <2>2, <3>1, <3>2
    <2>4. CASE ~Present(old)
        <3>1. old.opened < time /\ old.bars > 0 /\ old.opened < last[old.symbol].at
            BY <1>3, <2>2, <2>4 DEF FillsInv
        <3>2. last'[old.symbol] = last[old.symbol]
            BY <1>6, <2>2, <2>4 DEF Present
        <3> QED
            BY <1>1, <1>3, <1>4, <2>1, <2>2, <2>4, <3>1, <3>2
    <2> QED
        BY <2>3, <2>4
<1> QED
    BY <1>5, <1>7, <1>8 DEF FillsInv

LEMMA BarKeepsEquity ==
    ASSUME SpansInv, ExitInv, FillsInv, EntriesInv, EquityInv, FillsInv', EntriesInv', BarCloses
    PROVE  EquityInv'
<1>1. /\ trades' = trades \cup {BarTrade(pos) : pos \in {x \in open : Leaving(x)}}
      /\ equity' = Append(equity, [at |-> time + 1,
                                   value |-> InitialEquity + NetOf(trades') + Unrealised(open', last')])
      /\ phase = "deciding" /\ phase' = "between"
    BY DEF BarCloses, BarTrade
<1>2. \A tr \in trades' : tr.net \in Int
    <2>1. \A pos \in open : Leaving(pos) => Present(pos)
        BY DEF Leaving
    <2>2. \A tr \in trades' : tr \in trades \/ \E pos \in open : Present(pos) /\ tr = BarTrade(pos)
        BY <1>1, <2>1
    <2> QED
        BY <1>1, <2>2, BarTrades DEF EquityInv
<1>3. NetOf(trades') \in Int
    BY <1>2, NetIsInteger DEF EntriesInv, Distinct
<1>4. Unrealised(open', last') \in Int /\ (open' = {} => Unrealised(open', last') = 0)
    <2>1. IsFiniteSet(open')
        BY DEF EntriesInv, Distinct
    <2>2. ASSUME NEW pos \in open' PROVE MarkToMarket(pos, last'[pos.symbol].c) \in Int
        <3>1. SpansInv'
            BY BarKeepsSpans
        <3>2. Filled(pos)' /\ pos.symbol \in SymbolSet /\ pos.opened \in Nat /\ pos.opened < time'
            BY <1>1, <3>1 DEF SpansInv, PositionsInv, IsPosition, FillsInv
        <3>3. last'[pos.symbol].at # Never
            BY <3>1, <3>2 DEF FillsInv, SpansInv, ClockInv, Never
        <3>4. last'[pos.symbol].c \in Int
            BY <3>2, <3>3, BacktestAssumption DEF FillsInv
        <3>5. setups' = setups
            BY DEF BarCloses, run
        <3>6. Filled(pos)
            BY <3>2, <3>5 DEF Filled, Priced
        <3> QED
            BY <3>4, <3>6, MarkIsInteger
    <2> QED
        BY <2>1, <2>2, UnrealisedIsInteger
<1> DEFINE point == [at |-> time + 1, value |-> InitialEquity + NetOf(trades') + Unrealised(open', last')]
<1>5. InitialEquity \in Int /\ time \in Nat
    BY BacktestAssumption DEF SpansInv, ClockInv
<1>6. /\ point \in [at : Nat, value : Int]
      /\ open' = {} => point.value = InitialEquity + NetOf(trades')
    BY <1>3, <1>4, <1>5
<1>7. equity' = Append(equity, point) /\ equity \in Seq([at : Nat, value : Int])
    BY <1>1 DEF EquityInv
<1> HIDE DEF point
<1>8. equity' \in Seq([at : Nat, value : Int]) /\ Last(equity') = point
    BY <1>6, <1>7 DEF Last
<1> QED
    BY <1>1, <1>2, <1>6, <1>8 DEF EquityInv

LEMMA LastIsOne ==
    ASSUME NEW S, NEW seq \in Seq(S), seq # <<>>
    PROVE  Last(seq) \in S /\ Len(seq) \in 1..Len(seq) /\ DOMAIN seq = 1..Len(seq)
BY DEF Last

LEMMA DecideKeepsFills ==
    ASSUME SpansInv, ExitInv, DecisionsInv, FillsInv, EquityInv, Decide
    PROVE  FillsInv' /\ EquityInv'
<1>1. PICK k \in queue :
         open' = IF Outcome(k) = "entered" THEN open \cup {Entered(k)} ELSE open
    BY DEF Decide
<1>2. UNCHANGED <<setups, phase, time, bars, last, trades, equity>> /\ phase = "deciding"
    BY DEF Decide, run
<1>3. EquityNow \in Int
    <2>1. equity # <<>> => Last(equity) \in [at : Nat, value : Int]
        BY LastIsOne DEF EquityInv
    <2> QED
        BY <2>1, BacktestAssumption DEF EquityNow
<1>4. \A pos : (Filled(pos)' <=> Filled(pos)) /\ (Present(pos)' <=> Present(pos))
    BY <1>2 DEF Filled, Priced, Present
<1>5. \A pos \in open' : \/ pos \in open
                         \/ Filled(pos) /\ pos.opened = time /\ Present(pos)
    BY <1>1, <1>2, <1>3, EnteredFilled
<1>6. time \in Nat
    BY DEF SpansInv, ClockInv
<1>7. FillsInv'
    BY <1>2, <1>4, <1>5, <1>6 DEF FillsInv
<1>8. EquityInv'
    BY <1>2 DEF EquityInv
<1> QED
    BY <1>7, <1>8

LEMMA EndKeepsFills ==
    ASSUME SpansInv, FillsInv, EntriesInv, EquityInv, EntriesInv', EndOfData
    PROVE  FillsInv' /\ EquityInv'
<1>1. /\ trades' = trades \cup {AtTheEnd(pos) : pos \in open} /\ open' = {}
      /\ equity' = IF open = {} THEN equity
                   ELSE [equity EXCEPT ![Len(equity)].value = InitialEquity + NetOf(trades')]
      /\ phase = "between" /\ equity # <<>> /\ UNCHANGED <<setups, last, time>>
    BY DEF EndOfData, run
<1>2. ASSUME NEW pos \in open
      PROVE  /\ AtTheEnd(pos).net \in Int /\ AtTheEnd(pos).pos = pos
             /\ Filled(pos) /\ pos.bars > 0 /\ pos.opened < AtTheEnd(pos).closed
    <2>1. /\ IsPosition(pos) /\ Filled(pos) /\ pos.opened < time /\ pos.opened \in Nat
          /\ pos.symbol \in SymbolSet /\ last[pos.symbol].at \in Nat
        BY <1>1 DEF SpansInv, PositionsInv, ClockInv, FillsInv, IsPosition
    <2>2. pos.bars > 0 /\ pos.opened < last[pos.symbol].at
        BY <2>1 DEF FillsInv
    <2>3. last[pos.symbol].at # Never
        BY <2>1, <2>2 DEF Never
    <2>4. last[pos.symbol].c \in Int
        BY <2>1, <2>3, BacktestAssumption DEF FillsInv
    <2> DEFINE exit == AtMarket(pos, "end_of_data", last[pos.symbol].c)
    <2>5. exit.price \in Int /\ exit.fee \in Int
        BY <2>1, <2>4, SimulatorAssumption DEF AtMarket, Exit, Filled, Priced
    <2>6. AtTheEnd(pos) = Closed(pos, exit, last[pos.symbol].at)
        BY DEF AtTheEnd
    <2> HIDE DEF exit
    <2>7. AtTheEnd(pos).net \in Int
        BY <2>1, <2>5, <2>6, NetOfTrade
    <2>8. AtTheEnd(pos).pos = pos /\ AtTheEnd(pos).closed = last[pos.symbol].at
        BY <2>6 DEF Closed, SimulatedTrade
    <2> QED
        BY <2>1, <2>2, <2>7, <2>8
<1>3. \A tr \in trades' : tr \in trades \/ \E pos \in open : tr = AtTheEnd(pos)
    BY <1>1
<1>4. \A pos : Filled(pos)' <=> Filled(pos)
    BY <1>1 DEF Filled, Priced
<1>5. FillsInv'
    <2>1. \A tr \in trades' : Filled(tr.pos)' /\ tr.pos.bars > 0 /\ tr.pos.opened < tr.closed
        BY <1>2, <1>3, <1>4 DEF FillsInv
    <2> QED
        BY <1>1, <2>1 DEF FillsInv
<1>6. \A tr \in trades' : tr.net \in Int
    BY <1>2, <1>3 DEF EquityInv
<1>7. NetOf(trades') \in Int /\ InitialEquity + NetOf(trades') \in Int
    <2>1. NetOf(trades') \in Int
        BY <1>6, NetIsInteger DEF EntriesInv, Distinct
    <2> QED
        BY <2>1, BacktestAssumption
<1>8. equity \in Seq([at : Nat, value : Int]) /\ Len(equity) \in DOMAIN equity
    BY <1>1 DEF EquityInv
<1>9. CASE open = {}
    <2>1. trades' = trades /\ equity' = equity
        BY <1>1, <1>9
    <2> QED
        BY <1>1, <1>5, <1>6, <1>9, <2>1 DEF EquityInv
<1>10. CASE open # {}
    <2> DEFINE value == InitialEquity + NetOf(trades')
    <2>1. equity' = [equity EXCEPT ![Len(equity)].value = value] /\ value \in Int
        BY <1>1, <1>7, <1>10
    <2> HIDE DEF value
    <2>2. /\ equity' \in Seq([at : Nat, value : Int]) /\ Len(equity') = Len(equity)
          /\ equity'[Len(equity)].value = value
        <3> DEFINE k == Len(equity)
                   point == [equity[k] EXCEPT !.value = value]
        <3>1. k \in Nat /\ k \in 1..k /\ equity \in [1..k -> [at : Nat, value : Int]]
            BY <1>8, LenProperties
        <3>2. point \in [at : Nat, value : Int] /\ point.value = value
            BY <2>1, <3>1
        <3>3. equity' = [equity EXCEPT ![k] = point]
            BY <2>1
        <3>4. k \in 1..Len(equity)
            BY <3>1
        <3> HIDE DEF k, point
        <3>5. /\ equity' \in Seq([at : Nat, value : Int]) /\ Len(equity') = Len(equity)
              /\ equity'[k] = point
            BY <1>8, <3>2, <3>3, <3>4, ExceptSeq
        <3> QED
            BY <3>2, <3>5 DEF k
    <2>3. equity' # <<>> /\ Last(equity').value = value
        BY <1>8, <2>2 DEF Last
    <2> QED
        BY <1>5, <1>6, <2>2, <2>3 DEF EquityInv, value
<1> QED
    BY <1>9, <1>10

LEMMA BooksAreKept == Spec => [](FillsInv /\ EquityInv)
<1>1. Init => FillsInv /\ EquityInv
    BY DEF Init, FillsInv, EquityInv
<1>2. ASSUME SpansInv, ExitInv, DecisionsInv, EntriesInv, EntriesInv', FillsInv, EquityInv, [Next]_vars
      PROVE  FillsInv' /\ EquityInv'
    <2> USE <1>2
    <2>1. CASE BarOpens \/ Gap
        <3>1. /\ UNCHANGED <<setups, last, open, trades, equity>> /\ phase = "between"
              /\ phase' \in {"between", "deciding"} /\ time' \in {time, time + 1}
            BY <2>1 DEF BarOpens, Gap, run
        <3>2. \A pos \in open : pos.opened < time /\ pos.opened \in Nat /\ time \in Nat
            BY <3>1 DEF SpansInv, ClockInv, PositionsInv, IsPosition
        <3>3. \A pos : Filled(pos)' <=> Filled(pos)
            BY <3>1 DEF Filled, Priced
        <3>4. FillsInv'
            BY <3>1, <3>2, <3>3 DEF FillsInv
        <3>5. EquityInv'
            BY <3>1 DEF EquityInv
        <3> QED
            BY <3>4, <3>5
    <2>2. CASE Decide
        BY <2>2, DecideKeepsFills
    <2>3. CASE BarCloses
        BY <2>3, BarKeepsFills, BarKeepsEquity
    <2>4. CASE EndOfData
        BY <2>4, EndKeepsFills
    <2>5. CASE UNCHANGED vars
        BY <2>5 DEF vars, run, FillsInv, EquityInv, Filled, Priced, Present
    <2> QED
        BY <2>1, <2>2, <2>3, <2>4, <2>5 DEF Next
<1> QED
    BY <1>1, <1>2, Spans, PricesAreKept, DecisionsAreMade, EntriesAreNumbered, PTL DEF Spec

-----------------------------------------------------------------------------
(* The funnel of a finished run. *)
Of(reasons) == {d \in decisions : d.outcome \in reasons}
Decidable == {k \in DOMAIN setups : FactTime(setups[k]) # Never}

LEMMA OutcomesAddUp ==
    ASSUME IsFiniteSet(decisions), NEW P, NEW Q, P \cap Q = {}
    PROVE  /\ Cardinality(Of(P \cup Q)) = Cardinality(Of(P)) + Cardinality(Of(Q))
           /\ Cardinality(Of(P)) \in Nat /\ Cardinality(Of(Q)) \in Nat
<1>1. Of(P \cup Q) = Of(P) \cup Of(Q) /\ Of(P) \cap Of(Q) = {}
    BY DEF Of
<1>2. IsFiniteSet(Of(P)) /\ IsFiniteSet(Of(Q))
    BY FS_Subset DEF Of
<1>3. Cardinality(Of(P)) \in Nat /\ Cardinality(Of(Q)) \in Nat /\ Cardinality({}) = 0
    BY <1>2, FS_CardinalityType, FS_EmptySet
<1>4. Cardinality(Of(P) \cup Of(Q)) = Cardinality(Of(P)) + Cardinality(Of(Q)) - Cardinality(Of(P) \cap Of(Q))
    BY <1>2, FS_Union
<1>5. /\ Cardinality(Of(P \cup Q)) = Cardinality(Of(P) \cup Of(Q))
      /\ Cardinality(Of(P) \cap Of(Q)) = Cardinality({})
    BY <1>1
<1> QED
    BY <1>3, <1>4, <1>5

(* Every setup with a fact has one decision.                                 *)
LEMMA DecisionsCount ==
    ASSUME SpansInv, DecisionsInv, phase = "ended"
    PROVE  /\ IsFiniteSet(decisions) /\ Cardinality(decisions) = Cardinality(Decidable)
           /\ Len(setups) \in Nat /\ NotDecidable \in Nat /\ Cardinality(Decidable) \in Nat
           /\ Cardinality(Decidable) = Len(setups) - NotDecidable
<1> DEFINE f == [d \in decisions |-> d.setup]
           never == {k \in DOMAIN setups : FactTime(setups[k]) = Never}
<1>1. Len(setups) \in Nat /\ DOMAIN setups = 1..Len(setups)
    <2>1. setups \in Seq(ToSet(setups))
        BY BacktestAssumption DEF SpansInv, ClockInv
    <2> QED
        BY <2>1, LenProperties
<1>2. IsFiniteSet(DOMAIN setups) /\ Cardinality(DOMAIN setups) = Len(setups)
    <2> DEFINE n == Len(setups)
    <2>1. n \in Nat
        BY <1>1
    <2> HIDE DEF n
    <2>2. IsFiniteSet(1..n) /\ Cardinality(1..n) = n
        BY <2>1, FS_Interval
    <2> QED
        BY <1>1, <2>2 DEF n
<1>3. f \in Injection(decisions, DOMAIN setups)
    BY DEF DecisionsInv, Injection, IsInjective
<1>4. IsFiniteSet(decisions)
    BY <1>2, <1>3, FS_Injection
<1>5. Decidable = {f[d] : d \in decisions}
    BY DEF Decidable, DecisionsInv, Decided
<1>6. IsInjective(f) /\ DOMAIN f = decisions
    BY <1>3 DEF Injection
<1> HIDE DEF f
<1>7. Cardinality(decisions) = Cardinality(Decidable)
    BY <1>4, <1>5, <1>6, ImageOfFinite
<1>8. IsFiniteSet(never) /\ IsFiniteSet(Decidable)
    BY <1>2, FS_Subset DEF Decidable
<1>9. NotDecidable \in Nat /\ Cardinality(Decidable) \in Nat /\ Cardinality({}) = 0
    BY <1>8, FS_CardinalityType, FS_EmptySet DEF NotDecidable
<1>10. never \cap Decidable = {} /\ never \cup Decidable = DOMAIN setups
    BY DEF Decidable
<1>11. NotDecidable = Cardinality(never)
    BY DEF NotDecidable
<1> HIDE DEF never
<1>12. Cardinality(DOMAIN setups) = Cardinality(never) + Cardinality(Decidable) - Cardinality({})
    BY <1>8, <1>10, FS_Union
<1> QED
    BY <1>1, <1>2, <1>4, <1>7, <1>9, <1>11, <1>12

(* The trades are the entered decisions.                                     *)
LEMMA TradesCount ==
    ASSUME SpansInv, EntriesInv, IsFiniteSet(decisions), phase = "ended"
    PROVE  /\ {tr.pos.no : tr \in trades} = 1..Cardinality(trades)
           /\ Cardinality(Entries) = Cardinality(trades)
<1> DEFINE f == [d \in Entries |-> d.no]
           n == Cardinality(trades)
<1>1. open = {} /\ Cardinality({}) = 0 /\ n \in Nat
    BY FS_EmptySet, FS_CardinalityType DEF SpansInv, PositionsInv, EntriesInv, Distinct
<1> HIDE DEF n
<1>2. Numbers(open, trades) = {tr.pos.no : tr \in trades} /\ Numbers(open, trades) = 1..n
    BY <1>1 DEF Numbers, EntriesInv, n
<1>3. 1..n = {f[d] : d \in Entries}
    <2>1. \A d \in Entries : f[d] \in 1..n
        BY <1>2 DEF EntriesInv
    <2>2. \A i \in 1..n : \E tr \in trades : i = tr.pos.no
        BY <1>2
    <2>3. \A i \in 1..n : \E d \in Entries : i = f[d]
        BY <2>2 DEF EntriesInv, EnteredBy
    <2> QED
        BY <2>1, <2>3
<1>4. IsInjective(f) /\ DOMAIN f = Entries
    BY DEF EntriesInv, IsInjective
<1>5. IsFiniteSet(Entries)
    BY FS_Subset DEF Entries
<1> HIDE DEF f
<1>6. Cardinality(1..n) = Cardinality(Entries)
    BY <1>3, <1>4, <1>5, ImageOfFinite
<1>7. Cardinality(1..n) = n
    BY <1>1, FS_Interval
<1> QED
    BY <1>2, <1>6, <1>7 DEF n

LEMMA OneMore ==
    ASSUME NEW seq \in Seq(Int), NEW e \in Int
    PROVE  /\ Len(Append(seq, e)) = Len(seq) + 1 /\ Append(seq, e)[Len(seq) + 1] = e
           /\ \A j \in 1..Len(seq) : Append(seq, e)[j] = seq[j]
OBVIOUS

LEMMA SixSteps ==
    ASSUME NEW steps, NEW all, Len(steps) = 6, Last(steps) = steps[6], Profitable(all) <= steps[6],
           steps[2] <= steps[1], steps[3] <= steps[2], steps[4] <= steps[3], steps[5] <= steps[4],
           steps[6] <= steps[5],
           steps \in Seq(Int), Profitable(all) \in Int
    PROVE  IsFunnel(steps, all)
<1> DEFINE every == Append(steps, Profitable(all))
<1>1. /\ Len(every) = 7 /\ every[7] = Profitable(all)
      /\ \A j \in 1..6 : every[j] = steps[j]
    <2>1. /\ Len(every) = Len(steps) + 1 /\ every[Len(steps) + 1] = Profitable(all)
          /\ \A j \in 1..Len(steps) : every[j] = steps[j]
        BY OneMore
    <2> HIDE DEF every
    <2>2. Len(steps) + 1 = 7
        OBVIOUS
    <2> QED
        BY <2>1, <2>2
<1> HIDE DEF every
<1>2. ASSUME NEW j \in 1..Len(every) - 1 PROVE every[j + 1] <= every[j]
    <2>1. j \in {1, 2, 3, 4, 5, 6}
        BY <1>1
    <2> QED
        BY <1>1, <2>1
<1> QED
    BY <1>2 DEF IsFunnel, every

LEMMA TheFunnelAddsUp ==
    ASSUME SpansInv, DecisionsInv, EntriesInv, phase = "ended"
    PROVE  FunnelAddsUp
<1> DEFINE n(reasons) == Cardinality(Of(reasons))
           beyond == {"opened_beyond_stop"}
           rest == StrategyReasons \cup RiskReasons \cup beyond \cup {"entered"}
           L == Len(setups)
           decidable == L - NotDecidable
           evaluated == decidable - n(PreStrategySkips)
           accepted == evaluated - n(StrategyReasons)
           approved == accepted - n(RiskReasons)
           entered == approved - n(beyond)
<1>1. IsFiniteSet(decisions) /\ L \in Nat /\ NotDecidable \in Nat /\ Cardinality(decisions) = decidable
    BY DecisionsCount
<1>2. Of(PreStrategySkips \cup (StrategyReasons \cup (RiskReasons \cup (beyond \cup {"entered"})))) = decisions
    BY DEF Of, DecisionsInv, SkipReasons, PreStrategySkips
<1>3. /\ beyond \cap {"entered"} = {} /\ RiskReasons \cap (beyond \cup {"entered"}) = {}
      /\ StrategyReasons \cap (RiskReasons \cup (beyond \cup {"entered"})) = {}
      /\ PreStrategySkips \cap (StrategyReasons \cup (RiskReasons \cup (beyond \cup {"entered"}))) = {}
    BY DEF StrategyReasons, RiskReasons, PreStrategySkips
<1> HIDE DEF beyond, L
<1>4. /\ n(beyond \cup {"entered"}) = n(beyond) + n({"entered"})
      /\ n(RiskReasons \cup (beyond \cup {"entered"})) = n(RiskReasons) + n(beyond \cup {"entered"})
      /\ n(StrategyReasons \cup (RiskReasons \cup (beyond \cup {"entered"}))) =
             n(StrategyReasons) + n(RiskReasons \cup (beyond \cup {"entered"}))
      /\ n(PreStrategySkips \cup (StrategyReasons \cup (RiskReasons \cup (beyond \cup {"entered"})))) =
             n(PreStrategySkips) + n(StrategyReasons \cup (RiskReasons \cup (beyond \cup {"entered"})))
      /\ n(beyond) \in Nat /\ n(RiskReasons) \in Nat /\ n(StrategyReasons) \in Nat /\ n(PreStrategySkips) \in Nat
      /\ n({"entered"}) \in Nat
    BY <1>1, <1>3, OutcomesAddUp
<1>5. n({"entered"}) = Cardinality(trades)
    <2>1. Of({"entered"}) = Entries
        BY DEF Of, Entries
    <2> QED
        BY <1>1, <2>1, TradesCount
<1>6. Profitable(trades) \in Nat /\ Profitable(trades) <= Cardinality(trades)
    <2>1. IsFiniteSet(trades) /\ Wins(trades) \in SUBSET trades
        BY DEF EntriesInv, Distinct, Wins
    <2> QED
        BY <2>1, FS_Subset, FS_CardinalityType DEF Profitable
<1>7. FunnelSteps = <<L, decidable, evaluated, accepted, approved, entered>>
    BY DEF FunnelSteps, Skipped, Of, beyond, L
<1>8. /\ decidable \in Int /\ evaluated \in Int /\ accepted \in Int /\ approved \in Int /\ entered \in Int
      /\ decidable <= L /\ evaluated <= decidable /\ accepted <= evaluated /\ approved <= accepted
      /\ entered <= approved /\ entered = Cardinality(trades)
    <2> HIDE DEF n
    <2> QED
        BY <1>1, <1>2, <1>4, <1>5 DEF n
<1> HIDE DEF decidable, evaluated, accepted, approved, entered
<1>9. IsFunnel(FunnelSteps, trades) /\ Last(FunnelSteps) = entered
    <2> DEFINE steps == <<L, decidable, evaluated, accepted, approved, entered>>
    <2>1. /\ steps \in Seq(Int) /\ Len(steps) = 6 /\ Last(steps) = steps[6]
          /\ steps[1] = L /\ steps[2] = decidable /\ steps[3] = evaluated /\ steps[4] = accepted
          /\ steps[5] = approved /\ steps[6] = entered
        BY <1>1, <1>8 DEF Last
    <2>2. FunnelSteps = steps
        BY <1>7
    <2> HIDE DEF steps
    <2>3. Profitable(trades) \in Int /\ Profitable(trades) <= steps[6]
        BY <1>6, <1>8, <2>1
    <2>4. /\ steps[2] <= steps[1] /\ steps[3] <= steps[2] /\ steps[4] <= steps[3]
          /\ steps[5] <= steps[4] /\ steps[6] <= steps[5]
        BY <1>8, <2>1
    <2>5. IsFunnel(steps, trades)
        BY <2>1, <2>3, <2>4, SixSteps
    <2> QED
        BY <2>1, <2>2, <2>5
<1> QED
    BY <1>8, <1>9 DEF FunnelAddsUp

LEMMA NothingIsFound ==
    ASSUME SpansInv, DecisionsInv, EntriesInv, FillsInv, NEW tr \in trades
    PROVE  TradeFindings(tr) = {}
<1>1. /\ Filled(tr.pos) /\ tr.pos.bars > 0 /\ tr.pos.opened < tr.closed
      /\ tr.pos.opened \in Nat /\ tr.closed \in Nat
    BY DEF FillsInv, SpansInv, TradesInv, IsTrade
<1>2. ~(tr.closed < tr.pos.opened) /\ ~(tr.pos.opened < FactTime(setups[tr.pos.setup])) /\ ~(tr.pos.bars <= 0)
    BY <1>1 DEF Filled
<1>3. ~(InitialRisk(tr.pos) <= 0)
    <2> DEFINE pos == tr.pos
    <2>1. /\ pos.qty \in Nat \ {0} /\ pos.side \in {1, -1} /\ pos.entry \in Int /\ pos.stop \in Int
          /\ pos.side * pos.stop < pos.side * pos.entry
        BY <1>1 DEF Filled, Priced
    <2>2. \A q, x \in Nat \ {0} : q * x \in Nat \ {0}
        OBVIOUS
    <2> HIDE DEF pos
    <2>3. CASE pos.side = 1
        <3>1. pos.qty * pos.side = pos.qty /\ pos.entry - pos.stop \in Nat \ {0}
            BY <2>1, <2>3
        <3>2. pos.qty * (pos.entry - pos.stop) \in Nat \ {0}
            BY <2>1, <2>2, <3>1
        <3> QED
            BY <3>1, <3>2 DEF InitialRisk, pos
    <2>4. CASE pos.side = -1
        <3>1. pos.qty * pos.side = -pos.qty /\ pos.stop - pos.entry \in Nat \ {0}
              /\ pos.entry - pos.stop = -(pos.stop - pos.entry) /\ pos.entry - pos.stop \in Int
            BY <2>1, <2>4
        <3>2. \A a, b \in Int : (-a) * (-b) = a * b
            OBVIOUS
        <3>3. pos.qty * (pos.stop - pos.entry) \in Nat \ {0}
            BY <2>1, <2>2, <3>1
        <3>4. (pos.qty * pos.side) * (pos.entry - pos.stop) = pos.qty * (pos.stop - pos.entry)
            BY <2>1, <3>1, <3>2
        <3> QED
            BY <3>3, <3>4 DEF InitialRisk, pos
    <2> QED
        BY <2>1, <2>3, <2>4
<1>4. ASSUME NEW other \in trades \ {tr}, other.pos.setup = tr.pos.setup PROVE FALSE
    <2>1. PICK d \in Entries : d.no = tr.pos.no /\ d.setup = tr.pos.setup
        BY DEF EntriesInv, EnteredBy
    <2>2. PICK e \in Entries : e.no = other.pos.no /\ e.setup = other.pos.setup
        BY DEF EntriesInv, EnteredBy
    <2>3. d = e
        BY <1>4, <2>1, <2>2 DEF DecisionsInv, Entries
    <2> QED
        BY <1>4, <2>1, <2>2, <2>3 DEF EntriesInv, Distinct
<1> QED
    BY <1>2, <1>3, <1>4 DEF TradeFindings

\* At the end of every run, for all setups, bars, parameters of the gate and
\* fees, every setup with a fact has been decided once, the trades are exactly
\* the entered decisions and are numbered without a gap, the counts of what was
\* skipped leave them and nothing else, the equity is the initial one and their
\* net, and the diagnosis finds nothing wrong with any of them (run_gate;
\* analytics/engine.py, analytics/quality.py).
THEOREM BooksAreBalanced == Spec => []BooksBalance
<1>1. ASSUME SpansInv, DecisionsInv, EntriesInv, FillsInv, EquityInv PROVE BooksBalance
    <2> SUFFICES ASSUME phase = "ended"
                 PROVE  /\ TradesAreDecisions /\ FunnelAddsUp
                        /\ Last(equity).value = InitialEquity + NetOf(trades)
                        /\ \A tr \in trades : TradeFindings(tr) = {}
        BY DEF BooksBalance
    <2>1. TradesAreDecisions
        <3>1. ASSUME NEW k \in DOMAIN setups, FactTime(setups[k]) # Never
              PROVE  Cardinality({d \in decisions : d.setup = k}) = 1
            <4>1. PICK d \in decisions : d.setup = k
                BY <1>1, <3>1 DEF DecisionsInv, Decided
            <4>2. {e \in decisions : e.setup = k} = {d}
                BY <1>1, <4>1 DEF DecisionsInv
            <4> QED
                BY <4>2, FS_Singleton
        <3>2. {tr.pos.no : tr \in trades} = 1..Cardinality(trades)
            BY <1>1, DecisionsCount, TradesCount
        <3>3. \A tr \in trades : \E d \in decisions : d.no = tr.pos.no /\ d.setup = tr.pos.setup
            BY <1>1 DEF EntriesInv, EnteredBy, Entries
        <3> QED
            BY <3>1, <3>2, <3>3 DEF TradesAreDecisions
    <2>2. FunnelAddsUp
        BY <1>1, TheFunnelAddsUp
    <2>3. Last(equity).value = InitialEquity + NetOf(trades)
        BY <1>1 DEF EquityInv, SpansInv, PositionsInv
    <2> QED
        BY <1>1, <2>1, <2>2, <2>3, NothingIsFound
<1> QED
    BY <1>1, Spans, DecisionsAreMade, EntriesAreNumbered, BooksAreKept, PTL DEF Spec

(* The run of both loops is one of the gate's, so what is proved of Spec     *)
(* holds of what is checked.                                                 *)
LEMMA PairIsARun == PairSpec => Spec
<1>1. PairInit => Init
    BY DEF PairInit
<1>2. [PairNext]_<<vars, v1>> => [Next]_vars
    BY DEF PairNext, Next
<1> QED
    BY <1>1, <1>2, PTL DEF PairSpec, Spec
=============================================================================
