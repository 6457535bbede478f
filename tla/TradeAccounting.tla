-------------------------- MODULE TradeAccounting --------------------------
(***************************************************************************)
(* Trade (app/domain/accounting.py): the economic life of one position,     *)
(* derived from its legs and its funding and never stored.                  *)
(*                                                                          *)
(* A leg is a record [exec, role, qty, price, fee, time]; execution ids and *)
(* times are numbers, ordered as the strings and datetimes of the code are. *)
(* `sign` is 1 for a long trade and -1 for a short one.  Decimal is exact   *)
(* here: a quotient is a pair <<numerator, positive denominator>>, the      *)
(* rounding at 28 digits is left out.                                       *)
(***************************************************************************)
EXTENDS Integers, Sequences, SequencesExt

Ratio(n, d) == <<n, d>>

RatioEq(a, b) == a[1] * b[2] = b[1] * a[2]

RatioAdd(a, b) == Ratio(a[1] * b[2] + b[1] * a[2], a[2] * b[2])

NewTrade == [legs |-> <<>>, funding |-> <<>>, reason |-> "none"]

\* What a call that raises returns: there is no trade.
Raised == [NewTrade EXCEPT !.reason = "raised"]

\* Trade._ordered_legs: by time, entries before exits, then by execution id.
Before(a, b) ==
    \/ a.time < b.time
    \/ a.time = b.time /\ a.role = "entry" /\ b.role = "exit"
    \/ a.time = b.time /\ a.role = b.role /\ a.exec < b.exec

\* The sort is stable, so no two legs share a place; of the legs numbered I the
\* one it puts last.
LastLeg(legs, I) ==
    CHOOSE i \in I : \A j \in I \ {i} :
        Before(legs[j], legs[i]) \/ (~Before(legs[i], legs[j]) /\ j < i)

NothingReplayed ==
    [ok |-> TRUE, closed |-> FALSE, open |-> 0, avg |-> Ratio(0, 1), gross |-> Ratio(0, 1)]

\* An entry moves the average price, an exit realises against it.
Entered(s, leg) ==
    [s EXCEPT !.avg  = Ratio(@[1] * s.open + leg.price * leg.qty * @[2],
                             @[2] * (s.open + leg.qty)),
              !.open = @ + leg.qty]

Exited(s, leg, sign) ==
    [s EXCEPT !.gross  = RatioAdd(@, Ratio((leg.price * s.avg[2] - s.avg[1]) * leg.qty * sign,
                                           s.avg[2])),
              !.open   = @ - leg.qty,
              !.closed = leg.qty = s.open]

\* As a bug: a leg after the close is not refused.
ReplayLegAlways(s, leg, sign) ==
    IF ~s.ok \/ (leg.role = "exit" /\ leg.qty > s.open)
    THEN [s EXCEPT !.ok = FALSE]
    ELSE IF leg.role = "entry" THEN Entered(s, leg) ELSE Exited(s, leg, sign)

\* One leg of Trade._replay; ok becomes FALSE where the code raises.
ReplayLeg(s, leg, sign) ==
    IF ~s.ok \/ s.closed \/ (leg.role = "exit" /\ leg.qty > s.open)
    THEN [s EXCEPT !.ok = FALSE]
    ELSE IF leg.role = "entry" THEN Entered(s, leg) ELSE Exited(s, leg, sign)

\* Trade._replay: what the legs before the last one leave, then the last one.
Replay(legs, sign) ==
    MapThenFoldSet(LAMBDA leg, s : ReplayLeg(s, leg, sign), NothingReplayed,
                   LAMBDA i : legs[i], LAMBDA I : LastLeg(legs, I), DOMAIN legs)

Status(trade, sign) ==
    IF trade.legs = <<>> THEN "planned"
    ELSE IF /\ Replay(trade.legs, sign).open = 0
            /\ \E leg \in ToSet(trade.legs) : leg.role = "exit"
         THEN "closed" ELSE "open"

\* As a bug: a fill reported twice is applied twice.
ApplyFillAgain(trade, leg, sign) ==
    LET longer == [trade EXCEPT !.legs = Append(@, leg)] IN
    IF Replay(longer.legs, sign).ok THEN longer ELSE Raised

\* A fill that is known already changes nothing; the new sequence is validated.
ApplyFill(trade, leg, sign) ==
    LET longer == [trade EXCEPT !.legs = Append(@, leg)] IN
    IF \E known \in ToSet(trade.legs) : known.exec = leg.exec THEN trade
    ELSE IF Replay(longer.legs, sign).ok THEN longer ELSE Raised

ApplyFunding(trade, event) ==
    IF \E known \in ToSet(trade.funding) : known.ref = event.ref THEN trade
    ELSE [trade EXCEPT !.funding = Append(@, event)]

CloseWithReason(trade, reason, sign) ==
    IF Status(trade, sign) = "closed" /\ trade.reason \in {"none", reason}
    THEN [trade EXCEPT !.reason = reason] ELSE Raised

\* Trade.pnl().net, as a ratio.
Net(trade, sign) ==
    LET fees    == SumFunction([i \in DOMAIN trade.legs |-> trade.legs[i].fee])
        funding == SumFunction([i \in DOMAIN trade.funding |-> trade.funding[i].amount])
    IN  RatioAdd(Replay(trade.legs, sign).gross, Ratio(funding - fees, 1))
=============================================================================
