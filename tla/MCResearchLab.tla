---------------------------- MODULE MCResearchLab ----------------------------
(***************************************************************************)
(* Two commands at a time over a range of eight bars: a gap in the series   *)
(* under study, one in its context, one before what the dataset pins, and a *)
(* funding rate that arrive late; each file has two contents.  Behind the gap *)
(* at bar 3 an analysis asks for three bars and the first valid one is that of *)
(* bar 6: it is the first to show what happened at the bars before it.      *)
(***************************************************************************)
EXTENDS ResearchLab

CONSTANTS p1, p2

MCProcs == {p1, p2}
MCLate == {<<"primary", 3>>, <<"context", -1>>, <<"context", -6>>, <<"funding", 5>>}
LongLabels == [horizons |-> {1, 2}, anchor |-> "confirmed", train |-> 40, validation |-> 40, embargo |-> 1]
ShortLabels == [horizons |-> {1}, anchor |-> "candidate", train |-> 40, validation |-> 20, embargo |-> 0]
MCResearches == {LongLabels, ShortLabels}
MCShown == [x \in {2, 3} |-> x - 1]
MCSetupBars == {<<2, 2>>, <<4, 5>>, <<5, 5>>, <<5, 7>>, <<6, 6>>}
MCInitialFiles == {[setup |-> 2, structure |-> 0, research |-> LongLabels, version |-> 1]}
=============================================================================
