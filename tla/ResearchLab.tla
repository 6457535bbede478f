----------------------------- MODULE ResearchLab -----------------------------
(***************************************************************************)
(* The research pipeline (app/research/lab) and its store                   *)
(* (app/storage/research.py): datasets pin candles by fingerprint, replays   *)
(* are computed from a dataset, outcomes and backtests from a replay; each   *)
(* result is stored once under an identity computed from what it depends on. *)
(*                                                                          *)
(* Commands run in processes of their own; every read is a transaction, so   *)
(* ingestion (which only adds rows) goes on between two of them, and the      *)
(* configuration files and the code may be changed between two commands.      *)
(* A hash stands for what is hashed; time t is the open of bar t.            *)
(***************************************************************************)
EXTENDS DataPolicy, Sequences, SequencesExt, FiniteSetsExt

CONSTANTS
    Procs,
    Start, End,             \* the range of the datasets; End is exclusive
    RegimeBars,             \* bars of history a regime depends on (FeatureService)
    Late,                   \* bound: the rows <<series, time>> that ingestion may still add
    Setups, Structures,     \* contents of their files: here the history they ask for, in bars
    Researches,             \* contents of its file: [horizons, anchor, train, validation, embargo]
    Versions,               \* component_versions()
    InitialFiles,           \* the files and the version at the start
    SetupBars,              \* the setups in the candles: <<bar that makes it a candidate, bar that confirms it>>
    Shown,                  \* setup file -> bars that a setup stays in the analyses (ttl_bars + recent_closed_bars)
    Probe,                  \* bars that a service loads beyond the history it needs
    MaxStarts, MaxChanges,  \* bounds
    None

ASSUME ResearchLabAssumption ==
    /\ Start \in Int /\ End \in Int /\ Start < End /\ {RegimeBars, Probe} \subseteq Nat
    /\ Setups \subseteq Nat /\ Structures \subseteq Nat
    /\ InitialFiles \subseteq [setup : Setups, structure : Structures, research : Researches, version : Versions]
    /\ SetupBars \subseteq Int \X Int /\ \A x \in SetupBars : x[1] <= x[2]
    /\ Shown \in [Setups -> Nat] /\ \A x \in Setups : Shown[x] <= x
    /\ \A r \in Researches : /\ {r.train, r.validation, r.embargo} \subseteq Nat
                            /\ r.train + r.validation < 100 /\ r.horizons \subseteq Nat \ {0}
                            /\ r.anchor \in {"candidate", "confirmed"}

VARIABLES
    stored,     \* rows of candles and funding_rates: <<series, time>>
    files,      \* the configuration and the code a command starts with
    datasets,   \* table research_datasets
    runs,       \* tables research_runs, replay_observations, outcome_observations, sim_*
    conflicts,  \* table research_conflicts
    job,        \* process -> its command
    started, changes

vars == <<stored, files, datasets, runs, conflicts, job, started, changes>>
store == <<datasets, runs, conflicts>>

Series == {"primary", "context"}        \* the timeframe under study; those the regime looks at, and BTC
History == (Start - RegimeBars)..(End - 1)
Rows == (Series \X History) \cup ({"funding"} \X (Start..(End - 1)))
Window(series, lo, hi) == {t \in History : lo <= t /\ t < hi /\ <<series, t>> \in stored}

Idle == [kind |-> "none"]
Init ==
    /\ stored = Rows \ Late
    /\ files \in InitialFiles
    /\ datasets = {} /\ runs = {} /\ conflicts = {}
    /\ job = [p \in Procs |-> Idle]
    /\ started = 0 /\ changes = 0

\* Ingestion adds a row; somebody edits a file or installs another version.
Deliver(row) == stored' = stored \cup {row} /\ UNCHANGED files
Edit == /\ \/ \E x \in Setups : files' = [files EXCEPT !.setup = x]
           \/ \E x \in Structures : files' = [files EXCEPT !.structure = x]
           \/ \E x \in Researches : files' = [files EXCEPT !.research = x]
           \/ \E x \in Versions : files' = [files EXCEPT !.version = x]
        /\ files' # files /\ UNCHANGED stored
Environment ==
    /\ changes < MaxChanges /\ changes' = changes + 1
    /\ Edit \/ \E row \in Late \ stored : Deliver(row)
    /\ UNCHANGED <<store, job, started>>

---------------------------------------------------------------------------
\* Outcomes and splits: pure functions of a replay and of candles.

\* SetupEngine.required_bars, and the part of the context that a dataset pins.
RequiredBars(f) == f.structure + f.setup + 1
CoverageStart(series, f) == IF series = "primary" THEN Start ELSE Start - 2 * RequiredBars(f)

\* A label is as long as its horizon: it is measured only if the next h bars
\* are all there; a gap in those that are there wins over the end of the data.
Ahead(cs, t, h) == {u \in cs : u > t /\ Cardinality({v \in cs : v > t /\ v <= u}) <= h}
Status(cs, t, h) ==
    LET ahead == Ahead(cs, t, h)
    IN  IF t \notin cs THEN "no_anchor"
        ELSE IF \E u \in ahead : u - t > Cardinality({v \in ahead : v <= u}) THEN "incomplete"
        ELSE IF Cardinality(ahead) < h THEN "censored" ELSE "valid"

\* A label starts at the close of its anchor and ends h bars later.
Label(cs, t, h) == [start |-> t + 1, finish |-> t + 1 + h, status |-> Status(cs, t, h),
                    ahead |-> Cardinality(Ahead(cs, t, h))]

\* Where the labels of a setup start; one that was never seen confirmed may have none.
Anchor(setup, research) == IF research.anchor = "candidate" THEN setup.created ELSE setup.confirmed
Labels(observed, cs, research) ==
    {Label(cs, x[1], x[2]) : x \in ({Anchor(o, research) : o \in observed} \ {None}) \X research.horizons}

\* round() rounds a half to the even neighbour.
RoundedShare(percent) ==
    LET n == (End - Start) * percent
        down == n \div 100
    IN  IF 2 * (n % 100) < 100 \/ (2 * (n % 100) = 100 /\ down % 2 = 0) THEN down ELSE down + 1
Boundaries(research) ==
    <<Start, Start + RoundedShare(research.train), Start + RoundedShare(research.train + research.validation), End>>
SplitNames == <<"train", "validation", "test">>

\* An item is dropped when it reaches into the next split or starts too early
\* in its own.  Mutant: it may end on the boundary.
BelongsWithBoundary(item, k, research) ==
    LET b == Boundaries(research)
    IN  /\ b[k] <= item.start /\ item.start < b[k + 1]
        /\ k # 1 => item.start >= b[k] + research.embargo
        /\ k # 3 => item.finish <= b[k + 1]
Belongs(item, k, research) ==
    LET b == Boundaries(research)
    IN  /\ b[k] <= item.start /\ item.start < b[k + 1]
        /\ k # 1 => item.start >= b[k] + research.embargo
        /\ k # 3 => item.finish < b[k + 1]
Splits(items, research) ==
    [n \in {SplitNames[k] : k \in 1..3} |-> {i \in items : \E k \in 1..3 : SplitNames[k] = n /\ Belongs(i, k, research)}]

---------------------------------------------------------------------------
\* Identities.  A run id hashes its inputs; its parent id stands for the others.
\* Mutant: without the setup configuration.
ReplayIdOfDataset(ds, regime, f) == [kind |-> "replay", ds |-> ds, regime |-> regime, setup |-> ds.setup]
ReplayId(ds, regime, f) == [kind |-> "replay", ds |-> ds, regime |-> regime, setup |-> f.setup]
OutcomesId(replay, f) == [kind |-> "outcomes", parent |-> replay, research |-> f.research]
BacktestId(replay) == [kind |-> "backtest", parent |-> replay]
DatasetOf(id) == IF id.kind = "replay" THEN id.ds ELSE id.parent.ds
RowOf(id) == CHOOSE r \in runs : r.id = id

\* The reads of a command, in order.
Cover(series) == [what |-> "cover", series |-> series]
Candles == [what |-> "candles"]
Funding == [what |-> "funding"]
RegimeAt(t) == [what |-> "regime", bar |-> t]
ContextOf(withContext) == IF withContext THEN <<Cover("context")>> ELSE <<>>
Checks(ds) == <<Cover("primary")>> \o ContextOf(ds.context # None)

\* A new command: the files are read when it starts.
Command(p, kind, ds, parent, regime, reads) ==
    /\ job[p] = Idle /\ started < MaxStarts /\ started' = started + 1
    /\ job' = [job EXCEPT ![p] = [kind |-> kind, files |-> files, ds |-> ds, parent |-> parent,
                                  regime |-> regime, todo |-> reads, seen |-> {}]]
    /\ UNCHANGED <<stored, files, store, changes>>

BuildDataset(p) ==
    \E withContext \in BOOLEAN :
        Command(p, "dataset", None, None, FALSE, <<Cover("primary")>> \o ContextOf(withContext) \o <<Funding>>)
Replay(p) ==
    \E ds \in datasets, regime \in BOOLEAN :
        /\ regime => ds.context # None
        /\ Command(p, "replay", ds, None, regime, Checks(ds) \o <<Candles>>)
Replays == {r \in runs : r.id.kind = "replay"}
Outcomes(p) ==
    \E r \in Replays : Command(p, "outcomes", r.id.ds, r.id, FALSE, Checks(r.id.ds) \o <<Candles>>)
Backtest(p) ==
    \E r \in Replays : Command(p, "backtest", r.id.ds, r.id, FALSE, Checks(r.id.ds) \o <<Funding, Candles>>)

---------------------------------------------------------------------------
\* One read of a running command.
Seen(r, f) ==
    CASE r.what = "cover" -> Window(r.series, CoverageStart(r.series, f), End)
      [] r.what = "candles" -> Window("primary", Start, End)
      [] r.what = "funding" -> Window("funding", Start, End)
      [] r.what = "regime" -> {x \in stored : x[1] # "funding" /\ r.bar - RegimeBars < x[2] /\ x[2] <= r.bar}

\* DatasetBuilder.verify raises when a pinned series has changed, or the code.
\* Mutant: candles are checked when a dataset is replayed, not when a replay is loaded.
DriftedWhenReplayed(j, r, v) == r.what = "cover" /\ j.kind = "replay" /\ v # j.ds[r.series]
Drifted(j, r, v) == r.what = "cover" /\ (v # j.ds[r.series] \/ j.files.version # j.ds.version)

\* The regime is read again at every bar of the replay.
Then(j, r, v) ==
    IF r.what = "candles" /\ j.regime
    THEN [k \in 1..Cardinality(v) |-> RegimeAt(CHOOSE t \in v : Cardinality({u \in v : u <= t}) = k)]
    ELSE Tail(j.todo)

Read(p) ==
    LET j == job[p] IN
    /\ j # Idle /\ j.todo # <<>>
    /\ LET r == Head(j.todo)
           v == Seen(r, j.files)
       IN  job' = [job EXCEPT ![p] =
                IF j.kind # "dataset" /\ Drifted(j, r, v) THEN Idle
                ELSE [j EXCEPT !.todo = Then(j, r, v), !.seen = @ \cup {[read |-> r, value |-> v]}]]
    /\ UNCHANGED <<stored, files, store, started, changes>>

Got(j, r) == IF \E x \in j.seen : x.read = r THEN (CHOOSE x \in j.seen : x.read = r).value ELSE None

---------------------------------------------------------------------------
\* The end of a command: its identity and its result, saved in one transaction.
Ended(p, kind) == job[p] # Idle /\ job[p].kind = kind /\ job[p].todo = <<>>
Leave(p) == job' = [job EXCEPT ![p] = Idle] /\ UNCHANGED <<stored, files, started, changes>>

\* What a dataset pins.
Dataset(j) ==
    [primary |-> Got(j, Cover("primary")), context |-> Got(j, Cover("context")), funding |-> Got(j, Funding),
     setup |-> j.files.setup, structure |-> j.files.structure, research |-> j.files.research,
     version |-> j.files.version]

SaveDataset(p) ==
    /\ Ended(p, "dataset") /\ Leave(p)
    /\ datasets' = datasets \cup {Dataset(job[p])}
    /\ UNCHANGED <<runs, conflicts>>

\* A stored result is never replaced: another one is recorded as a conflict.
SaveRun(id, result) ==
    /\ IF \E r \in runs : r.id = id
       THEN /\ UNCHANGED runs
            /\ conflicts' = conflicts \cup {[id |-> id, stored |-> r.result, new |-> result] :
                                               r \in {q \in runs : q.id = id /\ q.result # result}}
       ELSE runs' = runs \cup {[id |-> id, result |-> result]} /\ UNCHANGED conflicts
    /\ UNCHANGED datasets

SaveReplay(p) ==
    /\ Ended(p, "replay") /\ Leave(p)
    /\ LET j == job[p]
       IN  SaveRun(ReplayId(j.ds, j.regime, j.files),
                   [candles |-> Got(j, Candles), setup |-> j.files.setup, structure |-> j.files.structure,
                    version |-> j.files.version,
                    regimes |-> {x \in j.seen : x.read.what = "regime"}])

\* ReplayEngine.run analyses every bar as a live service would have.  A setup is
\* recorded by each valid analysis that shows it, which the first one after a gap
\* does with what happened while it warmed up; the last version of it is kept.
Valid(candles, t, need) ==
    Assess(Prepare(LastRows(candles, t + 1, need + Probe), 1, t + 1), need).status = "value"
Analyses(r) == {i \in r.candles : Valid(r.candles, i, RequiredBars(r))}
Observed(replay) ==
    LET r == RowOf(replay).result
        valid == Analyses(r)
        Showing(x) == {i \in valid : x[1] <= i /\ i <= x[1] + Shown[r.setup]}
    IN  {[created |-> x[1], confirmed |-> IF \E i \in Showing(x) : x[2] <= i THEN x[2] ELSE None] :
            x \in {y \in SetupBars : Showing(y) # {}}}

SaveOutcomes(p) ==
    /\ Ended(p, "outcomes") /\ Leave(p)
    /\ LET j == job[p]
           labels == Labels(Observed(j.parent), Got(j, Candles), j.files.research)
       IN  SaveRun(OutcomesId(j.parent, j.files),
                   [candles |-> Got(j, Candles), labels |-> labels, splits |-> Splits(labels, j.files.research),
                    version |-> j.files.version])
SaveBacktest(p) ==
    /\ Ended(p, "backtest") /\ Leave(p)
    /\ LET j == job[p]
       IN  SaveRun(BacktestId(j.parent),
                   [candles |-> Got(j, Candles), observed |-> Observed(j.parent), funding |-> Got(j, Funding),
                    plan |-> <<Boundaries(j.files.research), j.files.research.embargo>>,
                    version |-> j.files.version])

\* A command is interrupted: what it read is gone, nothing was stored.
Interrupt(p) == job[p] # Idle /\ Leave(p) /\ UNCHANGED store

Next ==
    \/ Environment
    \/ \E p \in Procs :
        \/ BuildDataset(p) \/ Replay(p) \/ Outcomes(p) \/ Backtest(p)
        \/ Read(p) \/ Interrupt(p)
        \/ SaveDataset(p) \/ SaveReplay(p) \/ SaveOutcomes(p) \/ SaveBacktest(p)
Spec == Init /\ [][Next]_vars

---------------------------------------------------------------------------
\* A replay that outcomes or a backtest were computed from is a replay of the
\* candles of its dataset, by the code of its dataset, although a replay may be
\* stored that is not: a gap can be filled between the check and the reading
\* (pipeline.load_replay verifies again; candles are only ever added).  What was
\* observed, although an analysis may show it long after it happened, lies in the
\* segments that its dataset lists as usable, with the bars that a structure needs
\* before it, as long as the files are the same.
Usable(ds) == {s \in Segments(ds.primary, 1, RequiredBars(ds)) : s.usable}
DerivedFromItsDataset ==
    \A r \in runs : r.id.kind # "replay" =>
        LET replay == RowOf(r.id.parent).result
            ds == DatasetOf(r.id)
        IN  /\ replay.candles = ds.primary /\ replay.version = ds.version /\ r.result.version = ds.version
            /\ RequiredBars(replay) = RequiredBars(ds) =>
                 \A x \in Observed(r.id.parent) :
                     \E s \in Usable(ds) :
                         /\ s.start + replay.structure <= x.created /\ x.created < s.finish
                         /\ x.confirmed # None => x.created <= x.confirmed /\ x.confirmed < s.finish

\* A rerun stores a conflict for no other reason than these: candles came between
\* the check and the reading of one of the two; the structure file was edited;
\* the regime saw bars the dataset does not pin; funding came, which is pinned but
\* not checked; the splits were edited.  The code, the setup file, candles that
\* were there before the check and the stored observations are never a reason.
Untimely(c) == \E x \in {c.stored, c.new} : x.candles # DatasetOf(c.id).primary
ConflictsHaveACause ==
    \A c \in conflicts :
        \/ Untimely(c)
        \/ c.id.kind = "replay" /\ (c.stored.structure # c.new.structure \/ c.stored.regimes # c.new.regimes)
        \/ c.id.kind = "backtest" /\ (c.stored.funding # c.new.funding \/ c.stored.plan # c.new.plan)

\* Labels of different splits lie more than the embargo apart: no label looks at
\* a bar that another split is judged by (splits.py:4-8).
LabelsStayApart ==
    \A r \in {q \in runs : q.id.kind = "outcomes"} :
        LET kept == r.result.splits
        IN  \A m, n \in DOMAIN kept : m # n =>
                \A a \in kept[m], b \in kept[n] :
                    a.start < b.start => b.start - a.finish > r.id.research.embargo
=============================================================================
