------------------------------ MODULE MCLedger ------------------------------
(* Small instances of TradeLedger for TLC.                                  *)
EXTENDS TradeLedger

In(q)  == [role |-> "entry", qty |-> q]
Out(q) == [role |-> "exit", qty |-> q]

PriceAt == <<5, 8, 11, 6>>

Rising(n, max) ==
    {t \in [1..n -> 1..max] : \A i, j \in 1..n : i < j => t[i] <= t[j]}

Ids(n) == {p \in [1..n -> 1..n] : \A i, j \in 1..n : p[i] = p[j] => i = j}

Episode(shape, times, ids, sign) ==
    [sign  |-> sign,
     later |-> {},
     fills |-> [i \in DOMAIN shape |->
                  [exec |-> ids[i], role |-> shape[i].role, qty |-> shape[i].qty,
                   price |-> PriceAt[i], fee |-> i, time |-> times[i]]]]

\* Three legs: every order of the ids, every tie.
Short ==
    {Episode(shape, times, ids, sign) :
        shape \in {<<In(1), In(2), Out(3)>>, <<In(3), Out(1), Out(2)>>},
        times \in Rising(3, 3), ids \in Ids(3), sign \in {1, -1}}

\* Four legs: the one with which a trade may look closed too early.
Long ==
    {Episode(shape, <<1, 2, 3, 4>>, ids, 1) :
        shape \in {<<In(1), In(1), Out(1), Out(1)>>, <<In(2), Out(1), In(1), Out(2)>>},
        ids \in {<<1, 2, 3, 4>>, <<4, 2, 3, 1>>}}

\* The entry of the next position, reported for this one.
NextEntry == [exec |-> 9, role |-> "entry", qty |-> 1, price |-> 7, fee |-> 1, time |-> 9]

Followed == {[e EXCEPT !.later = {NextEntry}] :
               e \in {Episode(<<In(1), In(2), Out(3)>>, <<1, 2, 3>>, ids, -1) : ids \in Ids(3)}}

AllEpisodes == Short \cup Long \cup Followed

OneFunding == {[ref |-> 1, amount |-> -2]}

\* The entry and its stop within a millisecond; the exit has the smaller id.
SameMillisecond == {Episode(<<In(1), Out(1)>>, <<1, 1>>, <<2, 1>>, 1)}
=============================================================================
