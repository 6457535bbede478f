----------------------------- MODULE MCBacktest ------------------------------
(***************************************************************************)
(* Three symbols around the price 40, with one ATR of 4: a quiet bar, a     *)
(* rise, a fall, one that spans stop and target, and a gap down for the     *)
(* first; quiet and rising bars for the second, quiet ones for the third.   *)
(* Setups of both directions, with the later life that a decision must not  *)
(* see.                                                                     *)
(***************************************************************************)
EXTENDS Analytics

Bar(o, h, l, c) == [o |-> o, h |-> h, l |-> l, c |-> c]

ThreeSymbols == <<"BTC", "ETH", "SOL">>
Quiet == Bar(40, 44, 36, 40)
BarsOf == [s \in {"BTC", "ETH", "SOL"} |->
    CASE s = "BTC" -> {Quiet, Bar(40, 56, 40, 56), Bar(40, 56, 24, 40), Bar(24, 28, 20, 24)}
      [] s = "ETH" -> {Quiet, Bar(40, 52, 40, 48)}
      [] s = "SOL" -> {Quiet}]

Fact(status, at) == [status |-> status, at |-> at]
Setup(symbol, side, ref, atr, life) ==
    [symbol |-> symbol, side |-> side, type |-> "breakout", fit |-> "allowed", ref |-> ref, atr |-> atr, life |-> life]
Long(symbol, life) == Setup(symbol, 1, 36, 4, life)
Short(symbol, life) == Setup(symbol, -1, 44, 4, life)

Confirmed(at, then) == <<Fact("candidate", at - 1), Fact("confirmed", at)>> \o then
Failed(at) == <<Fact("candidate", at), Fact("invalidated", at + 1)>>

ReplayLists == {
    \* again and again, and three symbols at one instant
    <<Long("BTC", Confirmed(3, <<>>)), Long("BTC", Confirmed(4, <<Fact("expired", 5)>>)),
      Long("BTC", Confirmed(5, <<>>)), Setup("ETH", 1, 36, 3, Confirmed(3, <<>>)),
      Long("ETH", Confirmed(5, <<Fact("expired", 6)>>)), Long("SOL", Confirmed(3, <<Fact("expired", 5)>>))>>,
    \* opposite directions, a tight and a wide stop, no ATR, another type, one never confirmed
    <<Long("BTC", Confirmed(3, <<Fact("invalidated", 5)>>)), Short("BTC", Confirmed(4, <<>>)),
      [Short("BTC", Confirmed(5, <<>>)) EXCEPT !.atr = 0],
      Setup("ETH", 1, 40, 1, Confirmed(3, <<>>)), [Long("ETH", Confirmed(4, <<>>)) EXCEPT !.type = "pullback"],
      Long("ETH", <<Fact("candidate", 4)>>), Setup("SOL", 1, 37, 1, Confirmed(4, <<>>)),
      Setup("SOL", 1, 36, 20, Confirmed(5, <<>>))>>,
    \* one that may be held while no symbol has a bar
    <<Short("BTC", Confirmed(2, <<>>)), Long("ETH", Failed(2)), Long("ETH", Failed(5)),
      Long("SOL", Failed(2)), Long("SOL", Failed(5))>>}

BothModes == {[risk |-> "fixed_quote", rejectConflicts |-> FALSE],
              [risk |-> "equity_pct", rejectConflicts |-> TRUE]}
Rules == [s \in {"BTC", "ETH", "SOL"} |-> [step |-> 1, minQty |-> 2, minNotional |-> 5]]
=============================================================================
