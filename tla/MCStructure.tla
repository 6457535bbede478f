----------------------------- MODULE MCStructure -----------------------------
(***************************************************************************)
(* Seven kinds of bars between the prices 0 and 7, with one bar on each side *)
(* of a pivot: quiet bars, two kinds of peaks, two breaks upwards, a fall    *)
(* through every low and one that comes back.                                *)
(***************************************************************************)
EXTENDS StructureLog

Bar(l, h, c) == [l |-> l, h |-> h, c |-> c]
Quiet == Bar(2, 4, 3)
Peak == Bar(3, 5, 4)
Rise == Bar(4, 6, 6)
Fall == Bar(0, 3, 0)

AllCandles == {Quiet, Peak, Rise, Bar(3, 7, 4), Bar(5, 7, 7), Fall, Bar(0, 4, 2)}

\* Two equal highs are known, the first a little higher; the first high was
\* broken; a low that leaves the window first is broken between two highs.
Begun == {<<Quiet, Bar(3, 6, 4), Quiet, Peak, Quiet>>,
          <<Quiet, Peak, Quiet, Rise, Quiet>>,
          <<Quiet, Bar(1, 4, 2), Bar(2, 5, 4), Bar(3, 4, 4), Rise, Fall>>}
=============================================================================
