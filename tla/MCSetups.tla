------------------------------ MODULE MCSetups ------------------------------
(* Small instances of SetupLog for TLC.  A swing of 6 is broken, 8 becomes  *)
(* known as a level and is swept or lost, 12 and 2 bound the range.         *)
EXTENDS SetupLog

Bar(h, l, c, breaks, new) ==
    [h |-> h, l |-> l, c |-> c, breaks |-> breaks, ready |-> TRUE,
     buy |-> new, sell |-> {}, sweeps |-> {}]

Up   == {[type |-> "bos", direction |-> 1, level |-> 6]}
Down == {[type |-> "choch", direction |-> -1, level |-> 4]}

Quiet    == Bar(8, 7, 8, {}, {8})
Breaks   == Bar(9, 6, 9, Up, {})         \* a break that departs at once
Barely   == Bar(8, 5, 7, Up, {})         \* one that does not
Returns  == Bar(8, 5, 7, {}, {})
Falls    == Bar(7, 3, 3, Down, {})
Reverses == Bar(10, 6, 7, {}, {})
Rejected == Bar(12, 9, 9, {}, {})
Rises    == Bar(11, 9, 11, {}, {})
Blind    == [Breaks EXCEPT !.ready = FALSE]

AllBars == {Quiet, Breaks, Barely, Returns, Falls, Reverses, Rejected, Rises, Blind}

Calm == [i \in 1..(RequiredBars - 1) |-> [Quiet EXCEPT !.buy = {8, 12}, !.sell = {2}]]

\* The break on the last bar, or one bar earlier and followed by a rise.
CalmOrBroken ==
    LET broken == Closed(Calm[1], Breaks) IN
    {Calm,
     [Calm EXCEPT ![RequiredBars - 1] = broken],
     [Calm EXCEPT ![RequiredBars - 2] = broken, ![RequiredBars - 1] = Closed(broken, Rises)]}
=============================================================================
