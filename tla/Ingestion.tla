------------------------------ MODULE Ingestion ------------------------------
(***************************************************************************)
(* Market data from the exchange to the store (app/data, the market data   *)
(* tables of app/storage): requests with retries, pages walked backwards,   *)
(* duplicates, one transaction for the rows, the search for gaps, and the   *)
(* record of the run.  Two processes (the monitor and `data backfill`) use  *)
(* one database; each can be killed anywhere.                               *)
(*                                                                         *)
(* Times are bars: bar t opens at t and closes at t + 1.                    *)
(***************************************************************************)
EXTENDS Integers, FiniteSets

CONSTANTS
    Procs,          \* processes that ingest
    Wanted,         \* Wanted[p]: the set of jobs [dataset, lo, hi] p may start; hi is exclusive
    LastBar,        \* the exchange knows bars 1 .. LastBar
    Changing,       \* bound: the bars that may arrive late or be corrected
    Launch,         \* the first bar of the instrument
    LocalNow,       \* the clock of this computer, rounded down to a bar
    ServerStart,    \* the clock of the exchange at the start ...
    ServerEnd,      \* ... and at the end
    PageLimit,      \* rows of a page
    MaxAttempts,    \* RetryPolicy.max_attempts
    Errors,         \* representatives [kind, code] of what can go wrong in a request
    MaxFaults,      \* bound: faults of requests, responses and of the store
    MaxRuns,        \* bound: jobs started by each process
    None

Datasets == {"candles", "funding"}

ASSUME IngestionAssumption ==
    /\ PageLimit \in Nat \ {0} /\ MaxAttempts \in Nat \ {0}
    /\ LastBar \in Nat /\ Launch \in 1..LastBar /\ Changing \subseteq Launch..LastBar
    /\ LocalNow \in Nat /\ ServerStart \in Nat
    /\ \A p \in Procs : \A w \in Wanted[p] :
        w.dataset \in Datasets /\ w.lo \in 1..LastBar /\ w.hi \in (w.lo + 1)..LastBar + 1

VARIABLES
    exchange,   \* bar -> its value there, None while it is not delivered
    server,     \* the clock of the exchange
    stored,     \* <<dataset, bar>> -> value: tables candles and funding_rates
    launch,     \* table instruments: launch time, None before it was synchronised
    runs,       \* table backfill_runs
    lock,       \* the process inside a write transaction
    job,        \* process -> its running job
    started,    \* process -> number of jobs started
    faults      \* number of faults so far

vars == <<exchange, server, stored, launch, runs, lock, job, started, faults>>

Bars == 1..LastBar
Keys == Datasets \X Bars
Final == {"first", "revised"}           \* what the exchange says of a closed bar
\* The values of a faulty row and of an open bar, in an answer with and without
\* a time; that the last two are told apart is for the properties alone.
Garbage == {"wrong", "moving", "guessed"}

\* What a process is doing: nothing, walking over pages from its first one,
\* storing what it has found, or about to record and raise an error.
Idle == [pc |-> "idle"]
Fetching(w, hi) ==
    [pc |-> "fetching", dataset |-> w.dataset, lo |-> w.lo, hi |-> hi,
     cursor |-> hi - 1, pages |-> 1, attempt |-> 1, rows |-> {}, bad |-> FALSE]
Storing(j, rows, bad) ==
    [pc |-> "storing", dataset |-> j.dataset, lo |-> j.lo, hi |-> j.hi,
     rows |-> rows, bad |-> bad, status |-> "running"]
Failing(j, why) == [pc |-> "failing", dataset |-> j.dataset, lo |-> j.lo, hi |-> j.hi, why |-> why]

Oldest(S) == CHOOSE t \in S : \A u \in S : t <= u
Newest(S, n) == {t \in S : Cardinality({u \in S : u > t}) < n}

Init ==
    /\ exchange \in {e \in [Bars -> {"first", None}] :
                        \A t \in Bars \ Changing : e[t] = IF t < Launch THEN None ELSE "first"}
    /\ server = ServerStart
    /\ stored = [k \in Keys |-> None]
    /\ launch = None /\ runs = {} /\ lock = None
    /\ job = [p \in Procs |-> Idle]
    /\ started = [p \in Procs |-> 0]
    /\ faults = 0

---------------------------------------------------------------------------
\* The exchange.

\* Time passes there; a late bar arrives; a closed bar is corrected.
Advance == server < ServerEnd /\ server' = server + 1 /\ UNCHANGED exchange
Deliver(t) == /\ exchange[t] = None
              /\ exchange' = [exchange EXCEPT ![t] = "first"] /\ UNCHANGED server
Revise(t) == /\ exchange[t] = "first" /\ t + 1 <= server
             /\ exchange' = [exchange EXCEPT ![t] = "revised"] /\ UNCHANGED server
Environment ==
    /\ Advance \/ \E t \in Changing : Deliver(t) \/ Revise(t)
    /\ UNCHANGED <<stored, launch, runs, lock, job, started, faults>>

\* A bar is closed by the time the exchange sends with an answer; in an answer
\* without one, by the local clock.
\* Mutant: closed by the local clock.
IsClosedHere(t, timed) == t + 1 <= LocalNow
IsClosed(t, timed) == t + 1 <= IF timed THEN server ELSE LocalNow
Candle(t, timed) ==
    [t |-> t, closed |-> IsClosed(t, timed),
     v |-> IF t < server THEN exchange[t] ELSE IF timed THEN "moving" ELSE "guessed"]
Rate(t) == [t |-> t, v |-> exchange[t], closed |-> TRUE]

\* The rows of an honest response: the newest of the window, at most a page.
\* A page of candles begins at the start of the range, one of funding does not.
Served(j, timed) ==
    LET known == {t \in Bars : t <= server /\ t <= j.cursor /\ exchange[t] # None}
    IN  IF j.dataset = "candles"
        THEN {Candle(t, timed) : t \in Newest({t \in known : t >= j.lo}, PageLimit)}
        ELSE {Rate(t) : t \in Newest(known, PageLimit)}

\* A parsed page: usable rows, the readable times (of all rows, the invalid
\* ones included), how many there are, and whether a row was rejected.
Page(rows, times, n, bad) == [rows |-> rows, times |-> times, n |-> n, bad |-> bad]
Times(rows) == {r.t : r \in rows}
Honest(rows) == Page(rows, Times(rows), Cardinality(rows), FALSE)
Faulty(rows) ==
    {Page(rows \ {r}, Times(rows), Cardinality(rows), TRUE) : r \in rows}                   \* broken content
    \cup {Page(rows \ {r}, Times(rows \ {r}), Cardinality(rows) - 1, TRUE) : r \in rows}    \* broken time
    \cup {Page(rows \cup {[r EXCEPT !.v = "wrong"]}, Times(rows), Cardinality(rows) + 1, FALSE) : r \in rows}

\* Pages that are not as they should be: a faulty row, no time, or both.
Spoilt(j) ==
    Faulty(Served(j, TRUE)) \cup Faulty(Served(j, FALSE)) \cup {Honest(Served(j, FALSE))}

---------------------------------------------------------------------------
\* One request: RequestExecutor.execute.

Retryable(e) ==
    \/ e.kind \in {"timeout", "connection"}
    \/ e.kind = "http" /\ (e.code >= 500 \/ e.code \in {403, 429})
    \/ e.kind = "api" /\ e.code \in {10006, 10016, 10429}

Fault == faults < MaxFaults /\ faults' = faults + 1

\* An attempt fails: another one, or the error (RetriesExhausted after the last).
AfterError(j, e) ==
    IF Retryable(e) /\ j.attempt < MaxAttempts THEN [j EXCEPT !.attempt = @ + 1]
    ELSE Failing(j, "request")
AttemptFails(p) ==
    /\ job[p].pc = "fetching" /\ Fault
    /\ \E e \in Errors : job' = [job EXCEPT ![p] = AfterError(@, e)]
    /\ UNCHANGED <<exchange, server, stored, launch, runs, lock, started>>

---------------------------------------------------------------------------
\* Pages: BybitMarketDataProvider.candles, funding_history.

\* Mutant: the budget is rounded down, without the spare pages.
MaxPagesFloor(j) == (j.hi - j.lo) \div PageLimit
MaxPages(j) == ((j.hi - j.lo + PageLimit - 1) \div PageLimit) + 2

\* Two rows of one bar that differ: neither is kept.
Deduped(rows) == {r \in rows : \A q \in rows : q.t = r.t => q = r}

\* The funding of a moment is whatever came last; the order of the rows of one
\* page is the exchange's choice.
LastWins(rows) == {S \in SUBSET rows : \A r \in rows : Cardinality({q \in S : q.t = r.t}) = 1}

Batches(j, rows) == IF j.dataset = "candles" THEN {Deduped(rows)} ELSE LastWins(rows)

\* A dropped pair counts as an issue of the run; for funding it does not.
IsDoubtful(j, rows) == j.dataset = "candles" /\ Deduped(rows) # rows
InRange(j, rows) == {r \in rows : r.t >= j.lo}

\* What the provider returns is kept as rows: only closed bars go on.
Closed(rows) == {r \in rows : r.closed}

LastPage(j, page) ==
    \/ page.times = {}
    \/ Oldest(page.times) <= j.lo
    \/ page.n < PageLimit

\* The walk goes on below the oldest row; without progress or beyond the
\* budget of pages it is an error, and so is a second open bar.
Walked(j, page) ==
    LET rows == j.rows \cup InRange(j, page.rows)
        bad == j.bad \/ page.bad
        next == Oldest(page.times) - 1
    IN  IF LastPage(j, page)
        THEN {IF Cardinality(b \ Closed(b)) > 1 THEN Failing(j, "two open bars")
              ELSE Storing(j, Closed(b), bad \/ IsDoubtful(j, rows)) : b \in Batches(j, rows)}
        ELSE IF next >= j.cursor \/ j.pages + 1 > MaxPages(j) THEN {Failing(j, "pagination")}
        ELSE {[j EXCEPT !.rows = rows, !.bad = bad, !.attempt = 1, !.cursor = next, !.pages = @ + 1]}

PageArrives(p) ==
    /\ job[p].pc = "fetching"
    /\ LET j == job[p] IN
        \/ /\ \E k \in Walked(j, Honest(Served(j, TRUE))) : job' = [job EXCEPT ![p] = k]
           /\ UNCHANGED faults
        \/ /\ Fault
           /\ \E page \in Spoilt(j) : \E k \in Walked(j, page) : job' = [job EXCEPT ![p] = k]
    /\ UNCHANGED <<exchange, server, stored, launch, runs, lock, started>>

---------------------------------------------------------------------------
\* The job: BackfillService.

\* The range is cut to the bars that are closed by the local clock.
Start(p) ==
    /\ job[p] = Idle /\ started[p] < MaxRuns
    /\ \E w \in Wanted[p] :
        LET hi == IF w.hi < LocalNow THEN w.hi ELSE LocalNow IN
        /\ w.lo < hi
        /\ job' = [job EXCEPT ![p] = Fetching(w, hi)]
    /\ started' = [started EXCEPT ![p] = @ + 1]
    /\ UNCHANGED <<exchange, server, stored, launch, runs, lock, faults>>

Value(rows, t) == (CHOOSE r \in rows : r.t = t).v
\* Mutant: INSERT OR REPLACE.
FreshReplacing(j) == {r.t : r \in j.rows}
Fresh(j) == {r.t : r \in {r \in j.rows : stored[<<j.dataset, r.t>>] = None}}
Conflicts(j) == {r \in j.rows : stored[<<j.dataset, r.t>>] \notin {None, r.v}}

\* BEGIN IMMEDIATE waits for the other writer, but not for ever (Busy).
BeginWrite(p) ==
    /\ job[p].pc = "storing" /\ lock = None
    /\ lock' = p
    /\ job' = [job EXCEPT ![p].pc = "writing"]
    /\ UNCHANGED <<exchange, server, stored, launch, runs, started, faults>>

\* upsert_candles, upsert_funding: missing rows are inserted, others compared
\* and kept; COMMIT.
Commit(p) ==
    /\ job[p].pc = "writing"
    /\ LET j == job[p] IN
        /\ stored' = [k \in Keys |-> IF k[1] = j.dataset /\ k[2] \in Fresh(j)
                                     THEN Value(j.rows, k[2]) ELSE stored[k]]
        /\ job' = [job EXCEPT ![p].pc = "checking", ![p].bad = @ \/ Conflicts(j) # {}]
    /\ lock' = None
    /\ UNCHANGED <<exchange, server, launch, runs, started, faults>>

\* _available_from and find_gaps: bars that should be stored and are not, up
\* to the listing of the instrument if it is known.
AvailableFrom(j) == IF launch # None /\ launch > j.lo THEN launch ELSE j.lo
\* Mutant: only holes between stored bars, both ends of the range are forgotten.
GapsInside(j) ==
    LET has(t) == stored[<<"candles", t>>] # None
    IN  {t \in j.lo..j.hi - 1 : ~has(t) /\ (\E a \in j.lo..t : has(a)) /\ \E b \in t..j.hi - 1 : has(b)}
Gaps(j) == {t \in AvailableFrom(j)..j.hi - 1 : stored[<<"candles", t>>] = None}

StatusOf(j) ==
    IF j.bad THEN "completed_with_issues"
    ELSE IF j.dataset = "candles" /\ Gaps(j) # {} THEN "ok_with_gaps" ELSE "ok"

Check(p) ==
    /\ job[p].pc = "checking"
    /\ job' = [job EXCEPT ![p].pc = "recording", ![p].status = StatusOf(job[p])]
    /\ UNCHANGED <<exchange, server, stored, launch, runs, lock, started, faults>>

RunRow(j, status) == [dataset |-> j.dataset, lo |-> j.lo, hi |-> j.hi, status |-> status]

\* record_run, in a transaction of its own; the job is over.
Record(p) ==
    /\ job[p].pc = "recording" /\ lock = None
    /\ runs' = runs \cup {RunRow(job[p], job[p].status)}
    /\ job' = [job EXCEPT ![p] = Idle]
    /\ UNCHANGED <<exchange, server, stored, launch, lock, started, faults>>

\* A read or a write fails (the database is busy, the disk is full): the
\* transaction is rolled back and the job goes the way of every exception.
StoreFails(p) ==
    /\ job[p].pc \in {"storing", "writing", "checking", "recording"} /\ Fault
    /\ job' = [job EXCEPT ![p] = Failing(@, "store")]
    /\ lock' = IF lock = p THEN None ELSE lock
    /\ UNCHANGED <<exchange, server, stored, launch, runs, started>>

\* The other process holds the lock for longer than the busy timeout.
Busy(p) ==
    /\ job[p].pc \in {"storing", "recording"} /\ lock # None
    /\ job' = [job EXCEPT ![p] = Failing(@, "store")]
    /\ UNCHANGED <<exchange, server, stored, launch, runs, lock, started, faults>>

\* The failed run is recorded too, unless that fails as well; the error goes on.
RecordFailure(p) ==
    /\ job[p].pc = "failing"
    /\ \/ lock = None /\ runs' = runs \cup {RunRow(job[p], "failed")} /\ UNCHANGED faults
       \/ lock # None /\ UNCHANGED <<runs, faults>>
       \/ Fault /\ UNCHANGED runs
    /\ job' = [job EXCEPT ![p] = Idle]
    /\ UNCHANGED <<exchange, server, stored, launch, lock, started>>

\* The process is killed: what was not committed is gone, nothing is recorded.
Kill(p) ==
    /\ job[p] # Idle /\ Fault
    /\ job' = [job EXCEPT ![p] = Idle]
    /\ lock' = IF lock = p THEN None ELSE lock
    /\ UNCHANGED <<exchange, server, stored, launch, runs, started>>

\* sync_instruments with names that are all known (otherwise nothing is stored).
SyncInstruments ==
    /\ launch = None /\ lock = None
    /\ launch' = Launch
    /\ UNCHANGED <<exchange, server, stored, runs, lock, job, started, faults>>

Step(p) ==
    \/ PageArrives(p) \/ BeginWrite(p) \/ Commit(p) \/ Check(p) \/ Record(p)
    \/ Busy(p) \/ RecordFailure(p)

Next ==
    \/ Environment \/ SyncInstruments
    \/ \E p \in Procs : Start(p) \/ Step(p) \/ AttemptFails(p) \/ StoreFails(p) \/ Kill(p)

Spec == Init /\ [][Next]_vars

---------------------------------------------------------------------------
\* A run is recorded as "ok" only when every bar of its range from the listing
\* on is in the store: however the pages ended, whatever was rejected in them,
\* and whoever else wrote meanwhile (BackfillService.backfill, find_gaps).
OkIsComplete ==
    \A r \in runs : r.dataset = "candles" /\ r.status = "ok" =>
        \A t \in r.lo..r.hi - 1 : t >= Launch => stored[<<"candles", t>>] # None

\* Only what the exchange said of a closed bar is stored as a candle, although
\* the local clock decides the range and may be ahead, and never one of two rows
\* that contradict each other.  The one exception: an answer without a time,
\* which is judged by the local clock, may leave the moving values of a bar that
\* this clock holds to be closed (BybitMarketDataProvider.candles, parse_klines).
CandlesAreFinalOrGuessed ==
    \A t \in Bars :
        \/ stored[<<"candles", t>>] \in Final \cup {None}
        \/ stored[<<"candles", t>>] = "guessed" /\ t + 1 <= LocalNow

\* The budget of pages and the check for progress never stop a walk over what
\* the exchange serves, with or without faulty rows (PaginationError).
WalkIsNotLost == \A p \in Procs : job[p].pc = "failing" => job[p].why # "pagination"

\* The tables keep every row they have, and a transaction is all or nothing.
Abstract == INSTANCE WriteOnce
    WITH Keys <- Keys, Values <- Final \cup Garbage, Absent <- None, table <- stored
StoreIsWriteOnce == Abstract!Spec

=============================================================================
