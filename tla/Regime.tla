-------------------------------- MODULE Regime --------------------------------
(***************************************************************************)
(* Market regimes: FeatureService and FeatureEngine (app/research), the      *)
(* RegimeService, its rules and its engine (app/research/regime), and the     *)
(* stores of both kinds of snapshots (app/storage/features.py, regime.py).    *)
(*                                                                          *)
(* The monitor and the command `regime snapshot` run side by side; only the   *)
(* command caches features.  Every read and every write is a transaction of   *)
(* its own, and ingestion adds bars between them.  A bar never changes, so    *)
(* what a formula returns is given by the last bar it ends with: the figures,  *)
(* in units of the ATR, are a constant.  A hash stands for what is hashed.     *)
(* Another release may have other formulas, with other windows and figures;     *)
(* the rules and the thresholds are named in the key of a regime, so they are   *)
(* those of one key here.                                                      *)
(***************************************************************************)
EXTENDS DataPolicy, Sequences, FiniteSetsExt

CONSTANTS
    Procs,
    Series,             \* the <<symbol, step>> that have candles
    Btc, BtcStep,       \* btc_symbol and btc_timeframe
    Initial, Late,      \* rows at the start; rows that ingestion may still add
    Versions,           \* of the program (app.__version__), in order
    Formulas,           \* version -> the latest formula of every feature (feature_set_hash)
    Need,               \* formulas -> feature -> min_observations
    Figures,            \* formulas -> series -> open time of the last bar -> feature -> value
    Config,             \* thresholds
    Requests,           \* [symbol, base, steps, asOf]
    Lookback,           \* SetupConfig.lookback_bars
    MaxAsks,            \* bound on the analyses
    None

Required == {"spread", "slope", "displacement", "atr", "ratio"}
Optional == {"return"}
Names == Required \cup Optional

ASSUME RegimeAssumption ==
    /\ \A v \in Versions : Need[Formulas[v]] \in [Names -> Nat \ {0}]
    /\ Config.strong >= Config.slope /\ Config.low < 100 /\ 100 < Config.high
    /\ BtcStep \in Nat \ {0} /\ Lookback \in Nat /\ \A s \in Series : s[2] \in Nat \ {0}
    /\ \A r \in Requests :
         /\ IsFiniteSet(r.steps) /\ r.steps \subseteq Nat \ {0} /\ r.base \in r.steps /\ r.asOf \in Int
         /\ r.symbol = Btc => BtcStep \in r.steps
    \* Candle.__post_init__: a bar opens at a multiple of its timeframe.
    /\ IsFiniteSet(Initial \cup Late)
    /\ \A r \in Initial \cup Late : r[2] \in Nat \ {0} /\ r[3] \in Int /\ r[3] % r[2] = 0

VARIABLES
    rows,       \* <<symbol, step, open time>> in the table of candles
    version,    \* of the installed program
    features,   \* tables feature_snapshots and feature_values
    regimes,    \* table regime_snapshots
    job,        \* process -> its analysis
    asked,
    refused     \* the saves that raised StorageError

vars == <<rows, version, features, regimes, job, asked, refused>>
tables == <<features, regimes>>

Rows(series) == {r[3] : r \in {x \in rows : x[1] = series[1] /\ x[2] = series[2]}}

---------------------------------------------------------------------------
\* FeatureService and FeatureEngine.

RequiredBars(formulas) == Max({Need[formulas][f] : f \in Names})

\* The series of one snapshot: of the symbol asked for, or of BTC.
Symbol(j) == IF j.part = "own" THEN j.request.symbol ELSE Btc
Steps(j) == IF j.part = "own" THEN j.request.steps ELSE {BtcStep}
FormulasOf(j) == Formulas[j.version]
BaseOf(j) == IF j.part = "own" THEN j.request.base ELSE BtcStep

\* evaluate: no value without the whole window; a formula may not apply.
Evaluate(formulas, series, s, f) ==
    LET a == Assess(s, Need[formulas][f])
        value == Figures[formulas][series][Max(s.times)][f]
    IN  IF a.status # "value"
        THEN [status |-> a.status, quality |-> a.quality, severity |-> a.severity, value |-> None]
        ELSE [status |-> IF value = None THEN "not_available" ELSE "value",
              quality |-> "valid", severity |-> a.severity, value |-> value]

SeriesOf(j, step) == Prepare(j.reads[step], step, j.request.asOf)
Computed(j) ==
    [step \in Steps(j) |-> [f \in Names |->
        Evaluate(FormulasOf(j), <<Symbol(j), step>>, SeriesOf(j, step), f)]]

\* The bars that the longest feature can see, and their number; the series loaded
\* has one more.  Mutant: one bar too few.
Inputs(j, n) ==
    {<<Symbol(j), step, j.request.asOf, Latest(SeriesOf(j, step).times, n), RequiredBars(FormulasOf(j))>> :
        step \in Steps(j)}
FingerprintOfFewer(j) == Inputs(j, RequiredBars(FormulasOf(j)) - 1)
Fingerprint(j) == Inputs(j, RequiredBars(FormulasOf(j)))
\* The key of the cache names the formulas too, that of a regime does not.
FeatureKey(j) == [symbol |-> Symbol(j), base |-> BaseOf(j), asOf |-> j.request.asOf,
                  set |-> Steps(j), formulas |-> FormulasOf(j), input |-> Fingerprint(j)]

---------------------------------------------------------------------------
\* classify_timeframe.

\* The worst of what is wrong with the required features, in this order.
Severest == <<"invalid", "stale", "gap", "missing_history", "insufficient_history">>
FeatureQuality(f) == IF f.quality = "valid" THEN "invalid" ELSE f.quality
Worst(bad) == Severest[Min({i \in DOMAIN Severest : Severest[i] \in bad})]

Vote(x, threshold) == IF x >= threshold THEN 1 ELSE IF x <= -threshold THEN -1 ELSE 0

Unknown(quality, through, why) ==
    [regime |-> "unknown", direction |-> "unknown", strength |-> "unknown", volatility |-> "unknown",
     quality |-> quality, through |-> through, why |-> why]

Volatility(ratio) ==
    IF ratio >= Config.high THEN "high" ELSE IF ratio <= Config.low THEN "low" ELSE "normal"

Direction(votes) ==
    LET count(v) == Cardinality({k \in DOMAIN votes : votes[k] = v})
    IN  IF count(1) > 0 /\ count(-1) > 0 THEN "conflict"
        ELSE IF count(1) >= 2 THEN "up"
        ELSE IF count(-1) >= 2 THEN "down" ELSE "neutral"

\* The optional horizon may veto a trend and is needed for a strong one.
Trending(votes, v) ==
    /\ \A k \in {"spread", "slope", "displacement"} : votes[k] = v
    /\ "return" \in DOMAIN votes => votes["return"] # -v
RegimeOf(votes, volatility) ==
    IF volatility = "high" THEN "high_volatility"
    ELSE IF Trending(votes, 1) THEN "trending_up"
    ELSE IF Trending(votes, -1) THEN "trending_down"
    ELSE IF votes["spread"] = 0 /\ votes["slope"] = 0 THEN "ranging" ELSE "transition"
Trends == {"trending_up", "trending_down"}

ClassifyTimeframe(fs, step, asOf) ==
    LET bad == {f \in Required : fs[f].status # "value"}
        missing == {<<f, fs[f].status, fs[f].quality>> : f \in {g \in Names : fs[g].status # "value"}}
        through == Floor(asOf, step)
        voters == {"spread", "slope", "displacement"} \cup {f \in Optional : fs[f].status = "value"}
        votes == [f \in voters |-> Vote(fs[f].value, Config[f])]
        volatility == Volatility(fs["ratio"].value)
        regime == RegimeOf(votes, volatility)
        strong == /\ fs["slope"].value >= Config.strong \/ fs["slope"].value <= -Config.strong
                  /\ "return" \in DOMAIN votes /\ votes["return"] # 0
    IN  IF bad # {} THEN Unknown(Worst({FeatureQuality(fs[f]) : f \in bad}), through, missing)
        ELSE IF fs["atr"].value <= 0 THEN Unknown("valid", through, missing)
        ELSE [regime |-> regime, direction |-> Direction(votes),
              strength |-> IF regime \notin Trends THEN "none" ELSE IF strong THEN "strong" ELSE "moderate",
              volatility |-> volatility, quality |-> "valid", through |-> through, why |-> missing]

---------------------------------------------------------------------------
\* RegimeEngine.

\* Conflicts of timeframes are reported, an unknown one never hides them.
MtfAlignment(results) ==
    LET of == {results[s].regime : s \in DOMAIN results}
    IN  IF Cardinality(DOMAIN results) = 1 THEN "single"
        ELSE IF Trends \subseteq of THEN "conflict"
        ELSE IF "unknown" \in of THEN "partial"
        ELSE IF Cardinality(of) = 1 /\ of \subseteq Trends THEN "aligned" ELSE "mixed"

StatusFor(quality) ==
    IF quality = "valid" THEN "available" ELSE IF quality = "stale" THEN "stale" ELSE "unavailable"

\* A background that is not usable carries no regime and no time.
Context(status, r) ==
    LET usable == status \in {"available", "self"}
    IN  [status |-> status, regime |-> IF usable THEN r.regime ELSE "unknown",
         direction |-> IF usable THEN r.direction ELSE "unknown",
         volatility |-> IF usable THEN r.volatility ELSE "unknown", quality |-> r.quality,
         through |-> IF usable THEN r.through ELSE None, why |-> r.why]
BtcContext(request, results, btc) ==
    IF request.symbol = Btc
    THEN Context(IF results[BtcStep].quality = "valid" THEN "self" ELSE StatusFor(results[BtcStep].quality),
                 results[BtcStep])
    ELSE LET r == ClassifyTimeframe(btc[BtcStep], BtcStep, request.asOf) IN Context(StatusFor(r.quality), r)

Classify(request, own, btc, v) ==
    LET results == [s \in request.steps |-> ClassifyTimeframe(own[s], s, request.asOf)]
    IN  [regime |-> results[request.base].regime, quality |-> results[request.base].quality,
         timeframes |-> results, alignment |-> MtfAlignment(results),
         btc |-> BtcContext(request, results, btc), version |-> v, formulas |-> Formulas[v]]
RegimeKey(j) == [symbol |-> j.request.symbol, base |-> j.request.base, asOf |-> j.request.asOf,
                 input |-> <<j.inputs.own, j.inputs.btc>>]

---------------------------------------------------------------------------
Idle == [pc |-> "none"]
Init ==
    /\ rows = Initial /\ version \in Versions /\ \A v \in Versions : version <= v
    /\ features = {} /\ regimes = {} /\ refused = {}
    /\ job = [p \in Procs |-> Idle] /\ asked = 0

Deliver == \E r \in Late \ rows : rows' = rows \cup {r} /\ UNCHANGED <<version, tables, job, asked, refused>>
Upgrade == \E v \in Versions : v > version /\ version' = v /\ UNCHANGED <<rows, tables, job, asked, refused>>

\* A process keeps the release it was started with, and takes the latest formulas it has.
Analyze(p) ==
    /\ job[p] = Idle /\ asked < MaxAsks /\ asked' = asked + 1
    /\ \E r \in Requests, cached \in BOOLEAN :
         job' = [job EXCEPT ![p] = [pc |-> "read", request |-> r, cached |-> cached, version |-> version,
                    part |-> "own", reads |-> <<>>, found |-> None, own |-> None, btc |-> None,
                    inputs |-> [own |-> None, btc |-> None]]]
    /\ UNCHANGED <<rows, version, tables, refused>>

\* The features of this part are there: BTC is next, or the classification.
WithFeatures(j, key, fs) ==
    IF j.part = "own" THEN [j EXCEPT !.own = fs, !.inputs.own = key.input, !.reads = <<>>, !.found = None]
    ELSE [j EXCEPT !.btc = fs, !.inputs.btc = key.input, !.reads = <<>>, !.found = None]
Proceed(p, key, fs) ==
    LET kept == WithFeatures(job[p], key, fs)
    IN  job' = [job EXCEPT ![p] =
            IF kept.part = "own" /\ kept.request.symbol # Btc THEN [kept EXCEPT !.part = "btc", !.pc = "read"]
            ELSE [kept EXCEPT !.pc = "check regime"]]

\* One timeframe at a time; one bar more than needed, so that a missing last bar
\* shows as stale.
ReadSeries(p) ==
    /\ job[p].pc = "read" /\ Steps(job[p]) # DOMAIN job[p].reads
    /\ LET j == job[p]
           step == Min(Steps(j) \ DOMAIN j.reads)
           found == LastRows(Rows(<<Symbol(j), step>>), Floor(j.request.asOf, step),
                           RequiredBars(FormulasOf(j)) + 1)
       IN  job' = [job EXCEPT ![p].reads =
                      [s \in DOMAIN @ \cup {step} |-> IF s = step THEN found ELSE @[s]]]
    /\ UNCHANGED <<rows, version, tables, asked, refused>>

\* FeatureService.snapshot: the cache, or the engine.
Hits(key) == {x.features : x \in {y \in features : y.key = key}}
Snapshot(p) ==
    /\ job[p].pc = "read" /\ Steps(job[p]) = DOMAIN job[p].reads
    /\ LET key == FeatureKey(job[p])
           hits == Hits(key)
       IN  IF ~job[p].cached THEN Proceed(p, key, Computed(job[p]))
           ELSE IF hits # {} THEN \E fs \in hits : Proceed(p, key, fs)
           ELSE job' = [job EXCEPT ![p].pc = "check features", ![p].reads = <<>>,
                                   ![p].found = [key |-> key, features |-> Computed(job[p])]]
    /\ UNCHANGED <<rows, version, tables, asked, refused>>

\* Both stores look first and insert in another transaction; a key is unique.
Fails(p, what, stored, new) ==
    /\ refused' = refused \cup {[what |-> what, stored |-> stored, new |-> new]}
    /\ job' = [job EXCEPT ![p] = Idle]

CheckFeatures(p) ==
    /\ job[p].pc = "check features"
    /\ LET new == job[p].found
       IN  IF Hits(new.key) = {} THEN job' = [job EXCEPT ![p].pc = "insert features"] /\ UNCHANGED refused
           ELSE \E fs \in Hits(new.key) :
                   IF fs = new.features THEN Proceed(p, new.key, fs) /\ UNCHANGED refused
                   ELSE Fails(p, "features", fs, new.features)
    /\ UNCHANGED <<rows, version, tables, asked>>
InsertFeatures(p) ==
    /\ job[p].pc = "insert features"
    /\ LET new == job[p].found
       IN  IF Hits(new.key) = {}
           THEN features' = features \cup {new} /\ Proceed(p, new.key, new.features) /\ UNCHANGED refused
           ELSE \E fs \in Hits(new.key) : Fails(p, "features", fs, new.features) /\ UNCHANGED features
    /\ UNCHANGED <<rows, version, regimes, asked>>

Result(j) == Classify(j.request, j.own, j.btc, j.version)
Stored(key) == {x.snapshot : x \in {y \in regimes : y.key = key}}
CheckRegime(p) ==
    /\ job[p].pc = "check regime"
    /\ LET key == RegimeKey(job[p])
           new == Result(job[p])
       IN  IF Stored(key) = {} THEN job' = [job EXCEPT ![p].pc = "insert regime"] /\ UNCHANGED refused
           ELSE \E old \in Stored(key) :
                   IF old = new THEN job' = [job EXCEPT ![p] = Idle] /\ UNCHANGED refused
                   ELSE Fails(p, "regime", old, new)
    /\ UNCHANGED <<rows, version, tables, asked>>
InsertRegime(p) ==
    /\ job[p].pc = "insert regime"
    /\ LET key == RegimeKey(job[p])
           new == Result(job[p])
       IN  IF Stored(key) = {}
           THEN /\ regimes' = regimes \cup {[key |-> key, request |-> job[p].request, snapshot |-> new]}
                /\ job' = [job EXCEPT ![p] = Idle] /\ UNCHANGED refused
           ELSE \E old \in Stored(key) : Fails(p, "regime", old, new) /\ UNCHANGED regimes
    /\ UNCHANGED <<rows, version, features, asked>>

\* The process ends, or the command was asked not to save.
Leave(p) ==
    /\ job[p] # Idle /\ job' = [job EXCEPT ![p] = Idle]
    /\ UNCHANGED <<rows, version, tables, asked, refused>>

Next ==
    \/ Deliver \/ Upgrade
    \/ \E p \in Procs :
        \/ Analyze(p) \/ ReadSeries(p) \/ Snapshot(p) \/ CheckFeatures(p) \/ InsertFeatures(p)
        \/ CheckRegime(p) \/ InsertRegime(p) \/ Leave(p)
Spec == Init /\ [][Next]_vars

---------------------------------------------------------------------------
\* The same formulas never give two regimes for one key, although one may come from
\* features cached before a gap was filled, by another release or by another process:
\* a save is refused only because the formulas or the version differ, because somebody
\* else saved the same in between, or (features only) for the gap in front of the
\* window, which the key of the cache does not see.  Features cached with other
\* formulas are never taken for these.
SameInputsSameRegime ==
    \A x \in refused :
        IF x.what = "regime"
        THEN x.stored.formulas = x.new.formulas =>
                [x.stored EXCEPT !.version = None] = [x.new EXCEPT !.version = None]
        ELSE \A s \in DOMAIN x.new, f \in Names :
                [x.stored[s][f] EXCEPT !.severity = None] = [x.new[s][f] EXCEPT !.severity = None]

\* A timeframe has a regime only if every required feature had the whole window of its
\* formula, without a gap, up to the last bar closed at the decision; so has BTC as the
\* background.  Alignment needs all of them, and no conflict is hidden.  These are
\* also the conditions under which the snapshots refuse to be built (domain/regime.py).
Grounded(formulas, series, through) ==
    \A k \in 1..Max({Need[formulas][f] : f \in Required}) : through - k * series[2] \in Rows(series)
RegimesAreGrounded ==
    \A x \in regimes :
        LET r == x.snapshot
            of == {r.timeframes[s].regime : s \in DOMAIN r.timeframes}
        IN  /\ \A s \in DOMAIN r.timeframes :
                 r.timeframes[s].regime # "unknown" =>
                     /\ r.timeframes[s].quality = "valid"
                     /\ r.timeframes[s].through + s > x.request.asOf /\ r.timeframes[s].through <= x.request.asOf
                     /\ Grounded(r.formulas, <<x.request.symbol, s>>, r.timeframes[s].through)
            /\ r.btc.regime # "unknown" =>
                 r.btc.quality = "valid" /\ Grounded(r.formulas, <<Btc, BtcStep>>, r.btc.through)
            /\ r.alignment = "aligned" => Cardinality(of) = 1 /\ of \subseteq Trends
            /\ Trends \subseteq of => r.alignment = "conflict"

\* The views that replays use (tail, upto) are the series that a service loading
\* at that moment would have seen (quality.py tail; setup/service.py "exactly
\* the bars StructureService.analyze(t) would load").
ViewsAreSeries ==
    \A series \in Series, v \in Versions :
        LET step == series[2]
            there == Rows(series)
            last == Max(there) + step
            most == RequiredBars(Formulas[v])
            seen == Prepare(LastRows(there, last, most + Lookback), step, last)
        IN  \A k \in 0..Lookback, n \in 1..most :
                LET t == last - k * step
                IN  TailView(UpTo(seen, t), n) = Prepare(LastRows(there, t, n), step, t)
\* The views depend on the rows alone: every set of rows is there before an analysis.
PointInTime == RegimesAreGrounded /\ (asked = 0 => ViewsAreSeries)
=============================================================================
