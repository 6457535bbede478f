----------------------------- MODULE MCMonitor -----------------------------
(* Small instances of Monitor for TLC. *)
EXTENDS Monitor

SameName == {<<n, n>> : n \in Symbols}

TestFaults == {"api_temporary_error", "api_error", "persistence_error"}

StoreFault == {"persistence_error"}

\* One unit of BTC, which has no context series, and a bar that stays the last
\* one for as long as several attempts take.
LongBase == <<"btc">>
LongSymbol == <<"BTC">>
LongContext == << <<>> >>
LongLength == [s \in {"btc"} |-> 4]
LongLost == [s \in {"btc"} |-> 0]
LongFirst == [s \in {"btc"} |-> 0]

\* ETH with BTC as its context, then BTC itself; ETH was listed late.
TwoBase == <<"eth", "btc">>
TwoSymbol == <<"ETH", "BTC">>
TwoContext == << <<"btc">>, <<>> >>
TwoLength == [s \in {"eth", "btc"} |-> 2]
TwoLost == [s \in {"eth", "btc"} |-> IF s = "btc" THEN 1 ELSE 0]
TwoFirst == [s \in {"eth", "btc"} |-> IF s = "eth" THEN 6 ELSE 0]
=============================================================================
