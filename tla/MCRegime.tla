------------------------------- MODULE MCRegime -------------------------------
(***************************************************************************)
(* ETH on two timeframes with BTC as its background, and BTC itself.  The    *)
(* longest feature needs three bars.  One bar of ETH is missing in front of    *)
(* the window, one of the higher timeframe inside it, and the last of BTC.     *)
(* Releases 1 and 2 have the same formulas; release 3 has a shorter window for   *)
(* the slope and returns other figures, for the longest window it asks the same. *)
(***************************************************************************)
EXTENDS Regime, TLC

CONSTANTS p1, p2

MCProcs == {p1, p2}
Swap == Permutations(MCProcs)
MCSeries == {<<"ETH", 1>>, <<"ETH", 2>>, <<"BTC", 2>>}
All == {<<"ETH", 1, t>> : t \in 4..10} \cup ({"ETH", "BTC"} \X {2} \X {0, 2, 4, 6, 8, 10})
MCLate == {<<"ETH", 1, 6>>, <<"ETH", 2, 4>>, <<"BTC", 2, 8>>}
MCInitial == All \ MCLate
MCFormulas == <<"old", "old", "new">>
OldNeed == [spread |-> 3, slope |-> 3, displacement |-> 2, atr |-> 2, ratio |-> 1, return |-> 2]
MCNeed == [old |-> OldNeed, new |-> [OldNeed EXCEPT !.slope = 2]]
MCConfig == [spread |-> 2, slope |-> 1, displacement |-> 1, return |-> 2, strong |-> 3, low |-> 67, high |-> 150]
Up == [spread |-> 2, slope |-> 3, displacement |-> 1, atr |-> 1, ratio |-> 100, return |-> 2]
Down == [spread |-> -2, slope |-> -1, displacement |-> -1, atr |-> 1, ratio |-> 60, return |-> 0]
OldFigures == [series \in MCSeries |-> [t \in 0..10 |->
    CASE series[2] = 1 -> IF t >= 9 THEN Up ELSE IF t = 8 THEN [Down EXCEPT !.return = None]
                           ELSE [Up EXCEPT !.ratio = 150]
      [] series = <<"ETH", 2>> -> Down
      [] series = <<"BTC", 2>> -> IF t >= 8 THEN Up ELSE [Down EXCEPT !.atr = 0]]]
NewFigures == [OldFigures EXCEPT ![<<"ETH", 1>>] = [t \in 0..10 |-> IF t >= 9 THEN Down ELSE [Up EXCEPT !.ratio = 150]]]
MCFigures == [old |-> OldFigures, new |-> NewFigures]
MCRequests == {[symbol |-> "ETH", base |-> 1, steps |-> {1, 2}, asOf |-> 10],
               [symbol |-> "ETH", base |-> 1, steps |-> {1, 2}, asOf |-> 9],
               [symbol |-> "BTC", base |-> 2, steps |-> {2}, asOf |-> 10]}
=============================================================================
