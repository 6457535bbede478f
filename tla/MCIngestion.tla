----------------------------- MODULE MCIngestion -----------------------------
(***************************************************************************)
(* Ingestion of four bars in pages of two rows.  The monitor asks for the   *)
(* last two bars, a backfill for everything, as candles or as funding.      *)
(***************************************************************************)
EXTENDS Ingestion

Job(dataset, lo, hi) == [dataset |-> dataset, lo |-> lo, hi |-> hi]

MonitorAndBackfill ==
    [p \in {"monitor", "backfill"} |->
        IF p = "monitor" THEN {Job("candles", 3, 5)} ELSE {Job("candles", 1, 5), Job("funding", 2, 5)}]

TwoErrors == {[kind |-> "http", code |-> 403], [kind |-> "api", code |-> 10001]}
=============================================================================
