------------------------------ MODULE Monitor ------------------------------
(***************************************************************************)
(* The market monitor: MarketMonitor of app/monitor/runtime.py.            *)
(*                                                                         *)
(* One thread runs ticks; a tick visits every unit in configuration order  *)
(* and, for the last bar that closed before (now - grace), synchronises    *)
(* the series it needs, analyses the bar, stores the result and then runs  *)
(* the structure step and the setup step.  A step of the model is one call *)
(* of the code that can fail on its own, so a kill, a stop request, the    *)
(* clock and the exchange may come between any two of them.                *)
(*                                                                         *)
(* Times are natural numbers, a bar is named by its close time.  Counters  *)
(* and texts of the health report are left out: no decision reads them.    *)
(* The heartbeat and the run registry are in Supervision.                  *)
(***************************************************************************)
EXTENDS MonitorHealth, Sequences, FiniteSets

CONSTANTS N,              \* number of units; unit u is the u-th visited
          Symbols,        \* configured symbols and the BTC context symbol
          SymbolOf,       \* [1..N -> Symbols]
          NameInside,     \* pairs <<a, b>>: the name a is a substring of b
          Series,         \* (symbol, timeframe) series the units share
          Base,           \* [1..N -> Series] the unit's own series
          Context,        \* [1..N -> Seq(Series)] higher timeframes and BTC
          Length,         \* [Series -> Nat] bar length
          FirstClose,     \* [Series -> Nat] first bar the exchange has
          RequiredBars,   \* bars_per_value(): one more than a feature needs
          Grace, StaleAfter, Poll, ApiDownAfter, MaxRuntime,
          StructureOn, SetupOn,
          Operator,       \* whether somebody asks the run to stop
          SyncFaults,     \* statuses a failed synchronisation may have
          MaxLost,        \* [Series -> Nat] bound on the bars answers leave out
          StartTime, MaxTime,   \* the clock runs from StartTime to MaxTime
          MaxRestarts           \* bound on process restarts

Units == 1..N

\* classify_data_error: what a failed synchronisation can mean for a unit.
SyncStatuses == {"persistence_error", "invalid_data", "api_temporary_error",
                 "api_error", "internal_error"}

ASSUME MonitorAssumption ==
    /\ N \in Nat \ {0}
    /\ SymbolOf \in [Units -> Symbols]
    /\ Base \in [Units -> Series]
    /\ Context \in [Units -> Seq(Series)]
    /\ Length \in [Series -> Nat \ {0}]
    /\ FirstClose \in [Series -> Nat]
    /\ MaxLost \in [Series -> Nat]
    /\ RequiredBars \in Nat \ {0}
    /\ {Grace, StaleAfter, ApiDownAfter, MaxRuntime, MaxRestarts} \subseteq Nat
    /\ Poll \in Nat \ {0}
    /\ {StructureOn, SetupOn, Operator} \subseteq BOOLEAN
    /\ SyncFaults \subseteq SyncStatuses
    /\ StartTime \in Nat
    /\ MaxTime \in Nat
    /\ \A s \in Series : StartTime >= Grace + Length[s]

VARIABLES clock, delivered, unknown,              \* the environment
          stored, regimes, structures, setups,    \* the database
          stop_requested,                         \* flag in the run's row
          pc, now, at, cx, job,                   \* where the thread is
          unit, structure, setup,                 \* health per unit
          series, api, disabled, instruments_synced,
          stop_flag, crashes, started, outcome,
          spent, run, lost        \* history: attempts used, process number,
                                  \* bars that the last answer about them left out

env      == <<clock, delivered, unknown>>
db       == <<stored, lost, regimes, structures, setups>>
cursor   == <<now, at, cx, job>>
health   == <<unit, structure, setup, spent>>
data     == <<series, api, disabled, instruments_synced>>
control  == <<stop_flag, crashes, started, outcome, stop_requested, run>>
vars     == <<env, db, pc, cursor, health, data, control>>
-----------------------------------------------------------------------------
(* Timeframe.floor, and the bars of a series up to the model's horizon. *)
Floor(t, len) == (t \div len) * len

Closes(s) == {c \in 1..MaxTime : Floor(c, Length[s]) = c}

Expected(u) == Floor(now - Grace, Length[Base[u]])

NoJob == [as_of |-> None, owed |-> FALSE]

NewSeries == [synced_through |-> None, warmup_done |-> FALSE]

Running == pc \notin {"down", "done"}

(* _api_success and _api_failure. *)
ApiOk == [status |-> "ok", failures |-> 0]

ApiFailed ==
    LET n == Min2(api.failures + 1, ApiDownAfter)
    IN  [status |-> IF n >= ApiDownAfter THEN "down" ELSE "degraded",
         failures |-> n]

ApiAfter(fault) ==
    IF fault \in {"api_temporary_error", "api_error", "invalid_data"}
    THEN ApiFailed ELSE api
-----------------------------------------------------------------------------
(* What _sync_series decides for series s when bar b is analysed. *)
Target(s, b) == Floor(b, Length[s])

WindowStart(s, b) == Target(s, b) - Length[s] * RequiredBars

Synced(s, b) == series[s].synced_through >= Target(s, b)

\* Mutant: the window is shifted by one bar and misses the newest one.
LocalButNewest(s, b) ==
    /\ ~series[s].warmup_done
    /\ \A i \in 1..RequiredBars :
          Target(s, b) - i * Length[s] \in stored[s]

(* A restart over a complete local history needs no request. *)
LocalComplete(s, b) ==
    /\ ~series[s].warmup_done
    /\ \A i \in 0..(RequiredBars - 1) :
          Target(s, b) - i * Length[s] \in stored[s]

\* Mutant: after the warm-up only the newest bar is requested.
FetchNewestOnly(s, b) ==
    IF series[s].warmup_done THEN Target(s, b) - Length[s]
    ELSE WindowStart(s, b)

FetchAfter(s, b) ==
    IF series[s].warmup_done /\ series[s].synced_through > WindowStart(s, b)
    THEN series[s].synced_through
    ELSE WindowStart(s, b)

\* The bars of the request that the exchange has.
Asked(s, b) ==
    {c \in Closes(s) : /\ FetchAfter(s, b) < c /\ c <= Target(s, b)
                       /\ FirstClose[s] <= c /\ c <= delivered[s]}

(* backfill() without an error.  A row that cannot be read, two rows that   *)
(* contradict each other and a short page only become entries of a report   *)
(* that _sync_series does not look at: what is stored is what is left.      *)
Fetch(s, b) ==
    \E left \in SUBSET (Asked(s, b) \ stored[s]) :
        /\ Cardinality((lost[s] \ Asked(s, b)) \cup left) <= MaxLost[s]
        /\ stored' = [stored EXCEPT ![s] = @ \cup (Asked(s, b) \ left)]
        /\ lost' = [lost EXCEPT ![s] = (@ \ Asked(s, b)) \cup left]

(* The close of the newest stored bar up to t; None when there is none. *)
IsNewest(c, bars, t) ==
    \/ c \in bars /\ c <= t /\ \A d \in bars : d <= t => d <= c
    \/ c = None /\ \A d \in bars : d > t

(* _sync_series without an error. *)
SyncSucceeds(s, b) ==
    \/ /\ Synced(s, b)
       /\ UNCHANGED <<stored, lost, series, api>>
    \/ /\ ~Synced(s, b)
       /\ LocalComplete(s, b)
       /\ series' = [series EXCEPT ![s] = [synced_through |-> Target(s, b),
                                           warmup_done |-> TRUE]]
       /\ UNCHANGED <<stored, lost, api>>
    \/ /\ ~Synced(s, b)
       /\ ~LocalComplete(s, b)
       /\ Fetch(s, b)
       /\ api' = ApiOk
       /\ \E c \in stored'[s] \cup {None} :
             /\ IsNewest(c, stored'[s], Target(s, b))
             /\ series' = [series EXCEPT ![s] = [synced_through |-> c,
                                                 warmup_done |-> TRUE]]

(* _sync_series raises: before anything is stored, after the bars are      *)
(* stored when recording the backfill run fails, or after the warm-up when *)
(* the newest bar cannot be read back.                                     *)
SyncFails(s, b, fault) ==
    /\ ~Synced(s, b)
    /\ \/ /\ LocalComplete(s, b) => fault \in {"persistence_error", "internal_error"}
          /\ api' = ApiAfter(fault)
          /\ UNCHANGED <<stored, lost, series>>
       \/ /\ ~LocalComplete(s, b)
          /\ fault = "persistence_error"
          /\ Fetch(s, b)
          /\ \/ UNCHANGED <<api, series>>
             \/ /\ api' = ApiOk
                /\ series' = [series EXCEPT ![s] = [@ EXCEPT !.warmup_done = TRUE]]
-----------------------------------------------------------------------------
(* data_quality of the regime snapshot: contiguous bars ending at b, out of *)
(* the RequiredBars newest stored ones; a bad value makes it "invalid".     *)
Contiguous(s, b, n) == \A i \in 0..(n - 1) : b - i * Length[s] \in stored[s]

HistoryFor(s, b) == {c \in stored[s] : c <= b}

Qualities(s, b) ==
    {"invalid"} \cup
    {IF Contiguous(s, b, RequiredBars - 1) THEN "valid"
     ELSE IF Cardinality(HistoryFor(s, b)) < RequiredBars - 1
     THEN "insufficient_history" ELSE "gap"}

StatusFor(q) ==
    IF q = "valid" THEN "ok"
    ELSE IF q = "insufficient_history" THEN "warmup_insufficient"
    ELSE "data_quality_failure"
-----------------------------------------------------------------------------
\* What MarketMonitor.__init__ gives every unit.
NewUnits == [u \in Units |-> NewUnit]
NewSteps == [u \in Units |-> NewStep]
NothingSpent == [u \in Units |-> [b \in 1..MaxTime |-> 0]]

Init ==
    /\ clock = StartTime
    /\ delivered = [s \in Series |-> Floor(StartTime, Length[s])]
    /\ unknown \in SUBSET Symbols
    /\ stored = [s \in Series |-> {}]
    /\ lost = [s \in Series |-> {}]
    /\ regimes = {} /\ structures = {} /\ setups = {}
    /\ pc = "tick" /\ now = None /\ at = 1 /\ cx = 1 /\ job = NoJob
    /\ unit = NewUnits /\ structure = NewSteps /\ setup = NewSteps
    /\ spent = NothingSpent
    /\ series = [s \in Series |-> NewSeries]
    /\ api = [status |-> "unknown", failures |-> 0]
    /\ disabled = {} /\ instruments_synced = FALSE
    /\ stop_flag = FALSE /\ crashes = 0 /\ started = StartTime
    /\ outcome = "running" /\ stop_requested = FALSE /\ run = 0
-----------------------------------------------------------------------------
(* tick(): the time of the whole cycle is read once. *)
StartTick ==
    /\ pc = "tick"
    /\ pc' = IF instruments_synced THEN "visit" ELSE "instruments"
    /\ now' = clock
    /\ at' = 1
    /\ UNCHANGED <<env, db, cx, job, health, data, control>>

(* _sync_instruments: every name is known; or some are unknown, which is a *)
(* configuration error, and every name found in the text of that error is  *)
(* disabled for the rest of the run; or the call failed and is repeated in *)
(* the next tick.                                                          *)
NamesIn(missing) == {n \in Symbols : \E m \in missing : <<n, m>> \in NameInside}

SyncInstruments ==
    /\ pc = "instruments"
    /\ pc' = "visit"
    /\ \/ /\ unknown = {}
          /\ instruments_synced' = TRUE
          /\ api' = ApiOk
          /\ UNCHANGED <<unit, disabled>>
       \/ /\ unknown # {}
          /\ instruments_synced' = TRUE
          /\ disabled' = NamesIn(unknown)
          /\ unit' = [u \in Units |->
                         IF SymbolOf[u] \in NamesIn(unknown)
                         THEN [unit[u] EXCEPT !.status = "api_error"]
                         ELSE unit[u]]
          /\ UNCHANGED api
       \/ /\ api' = ApiFailed
          /\ UNCHANGED <<unit, disabled, instruments_synced>>
    /\ UNCHANGED <<env, db, cursor, structure, setup, spent, series, control>>

NextUnit ==
    pc' = "visit" /\ at' = at + 1 /\ job' = NoJob /\ cx' = 1 /\ UNCHANGED now

Goto(step, b, owed) ==
    /\ pc' = step
    /\ job' = [as_of |-> b, owed |-> owed]
    /\ cx' = 1
    /\ UNCHANGED <<now, at>>

StructureOwed(u, b) == StructureOn /\ StepPending(structure[u], b)
SetupOwed(u, b) == SetupOn /\ StepPending(setup[u], b)

InBackoff(u) == unit[u].next_attempt_at # None /\ now < unit[u].next_attempt_at

(* _visit up to the call of _process, _process_structure or _process_setup. *)
Visit(u) ==
    /\ pc = "visit" /\ at = u /\ ~stop_flag
    /\ LET b == Expected(u)
           done == unit[u].last_processed_as_of = b
       IN  \/ /\ SymbolOf[u] \in disabled
              /\ NextUnit
           \/ /\ SymbolOf[u] \notin disabled
              /\ done /\ StructureOwed(u, b)
              /\ Goto("structure", b, TRUE)
           \/ /\ SymbolOf[u] \notin disabled
              /\ done /\ ~StructureOwed(u, b) /\ SetupOwed(u, b)
              /\ Goto("setup", b, TRUE)
           \/ /\ SymbolOf[u] \notin disabled
              /\ done /\ ~StructureOwed(u, b) /\ ~SetupOwed(u, b)
              /\ NextUnit
           \/ /\ SymbolOf[u] \notin disabled
              /\ ~done /\ InBackoff(u)
              /\ NextUnit
           \/ /\ SymbolOf[u] \notin disabled
              /\ ~done /\ ~InBackoff(u)
              /\ Goto("base", b, FALSE)
    /\ UNCHANGED <<env, db, health, data, control>>

\* Mutant: the last unit is not visited.
LeaveVisitsEarly ==
    /\ pc = "visit"
    /\ at >= N \/ stop_flag
    /\ pc' = "end"
    /\ UNCHANGED <<env, db, cursor, health, data, control>>

(* Every unit was visited, or the loop over the units stops early. *)
LeaveVisits ==
    /\ pc = "visit"
    /\ at > N \/ stop_flag
    /\ pc' = "end"
    /\ UNCHANGED <<env, db, cursor, health, data, control>>

(* _apply and the rest of _visit that depends on the outcome alone. *)
Record(u, status) ==
    /\ unit' = [unit EXCEPT ![u] = Applied(@, status, job.as_of, now)]
    /\ spent' = IF status \in RetryableStatuses
                THEN [spent EXCEPT ![u][job.as_of] = @ + 1] ELSE spent

(* _process, step 1: the base series; an error ends the attempt. *)
SyncBase(u) ==
    /\ pc = "base" /\ at = u
    /\ \/ /\ SyncSucceeds(Base[u], job.as_of)
          /\ pc' = "context"
          /\ UNCHANGED <<cursor, unit, spent>>
       \/ \E fault \in SyncFaults :
             /\ SyncFails(Base[u], job.as_of, fault)
             /\ Record(u, fault)
             /\ NextUnit
    /\ UNCHANGED <<env, regimes, structures, setups, structure, setup,
                   disabled, instruments_synced, control>>

(* _process, step 2: a context series that fails blocks nothing. *)
SyncContext(u) ==
    /\ pc = "context" /\ at = u
    /\ \/ /\ cx > Len(Context[u])
          /\ pc' = "analyse"
          /\ UNCHANGED <<cx, stored, lost, series, api>>
       \/ /\ cx <= Len(Context[u])
          /\ \/ SyncSucceeds(Context[u][cx], job.as_of)
             \/ \E fault \in SyncFaults :
                   SyncFails(Context[u][cx], job.as_of, fault)
          /\ cx' = cx + 1
          /\ UNCHANGED pc
    /\ UNCHANGED <<env, regimes, structures, setups, now, at, job, health,
                   disabled, instruments_synced, control>>

\* The unit is finished for this tick unless it has a regime snapshot to
\* build structure and setups on.
AfterRegime(snapshot) ==
    IF snapshot /\ StructureOn THEN Goto("structure", job.as_of, FALSE)
    ELSE IF snapshot /\ SetupOn THEN Goto("setup", job.as_of, FALSE)
    ELSE NextUnit

(* _process, steps 3 to 7, then _apply: one disjunct per way it can end.   *)
BarMissing(u) ==
    /\ job.as_of \notin stored[Base[u]]
    /\ Record(u, IF now - (job.as_of + Grace) < StaleAfter
                 THEN "waiting_for_bar" ELSE "stale")
    /\ NextUnit
    /\ UNCHANGED regimes

EngineRaises(u) ==
    /\ job.as_of \in stored[Base[u]]
    /\ \E status \in {"feature_error", "regime_error"} : Record(u, status)
    /\ NextUnit
    /\ UNCHANGED regimes

\* Mutant: a snapshot that was not saved is reported as ok.
SaveRaisesUnnoticed(u) ==
    /\ job.as_of \in stored[Base[u]]
    /\ Record(u, "ok")
    /\ AfterRegime(TRUE)
    /\ UNCHANGED regimes

SaveRaises(u) ==
    /\ job.as_of \in stored[Base[u]]
    /\ Record(u, "persistence_error")
    /\ AfterRegime(TRUE)
    /\ UNCHANGED regimes

Classified(u) ==
    /\ job.as_of \in stored[Base[u]]
    /\ \E q \in Qualities(Base[u], job.as_of) :
          /\ regimes' = regimes \cup {<<u, job.as_of, q>>}
          /\ Record(u, StatusFor(q))
    /\ AfterRegime(TRUE)

\* Reads outside every try block: the stored bar, and the history count of
\* a unit that is still warming up.  The exception leaves tick().
ReadRaises ==
    /\ pc' = "crashed"
    /\ UNCHANGED <<cursor, unit, spent, regimes>>

Analyse(u) ==
    /\ pc = "analyse" /\ at = u
    /\ BarMissing(u) \/ EngineRaises(u) \/ SaveRaises(u) \/ Classified(u)
       \/ ReadRaises
    /\ UNCHANGED <<env, stored, lost, structures, setups, structure, setup, data,
                   control>>

(* _process_structure: analyse, save, bookkeeping. *)
StructureStep(u) ==
    /\ pc = "structure" /\ at = u
    /\ \E result \in StepResults :
          /\ structure' = [structure EXCEPT ![u] = Stepped(@, job.as_of, result)]
          /\ structures' = IF result \in StepRetryable THEN structures
                           ELSE structures \cup {<<u, job.as_of>>}
    /\ IF (SetupOn /\ ~job.owed) \/ (job.owed /\ SetupOwed(u, job.as_of))
       THEN Goto("setup", job.as_of, job.owed)
       ELSE NextUnit
    /\ UNCHANGED <<env, stored, lost, regimes, setups, unit, setup, spent, data,
                   control>>

(* _process_setup: the same for the setup step. *)
SetupStep(u) ==
    /\ pc = "setup" /\ at = u
    /\ \E result \in StepResults :
          /\ setup' = [setup EXCEPT ![u] = Stepped(@, job.as_of, result)]
          /\ setups' = IF result \in StepRetryable THEN setups
                       ELSE setups \cup {<<u, job.as_of>>}
    /\ NextUnit
    /\ UNCHANGED <<env, stored, lost, regimes, structures, unit, structure, spent,
                   data, control>>
-----------------------------------------------------------------------------
(* run(): what happens between two ticks. *)
\* The locals of tick() are gone when it returns or raises.
LeaveTick == now' = None /\ at' = 1 /\ cx' = 1 /\ job' = NoJob

EndTick ==
    /\ pc = "end"
    /\ pc' = "check"
    /\ crashes' = 0
    /\ LeaveTick
    /\ UNCHANGED <<env, db, health, data, stop_flag, started, outcome,
                   stop_requested, run>>

Finish(status) ==
    /\ pc' = "done"
    /\ outcome' = status

TickCrashed ==
    /\ pc = "crashed"
    /\ crashes' = crashes + 1
    /\ LeaveTick
    /\ IF crashes + 1 >= UnitMaxAttempts
       THEN Finish("failed")
       ELSE pc' = "check" /\ UNCHANGED outcome
    /\ UNCHANGED <<env, db, health, data, stop_flag, started, stop_requested,
                   run>>

\* Mutant: the flag is overwritten with what the database says.
CheckStopOfTheRow ==
    /\ pc = "check"
    /\ \E readable \in BOOLEAN :
          LET stop == readable /\ stop_requested
          IN  /\ stop_flag' = stop
              /\ \/ stop /\ Finish("stopped")
                 \/ ~stop /\ clock - started >= MaxRuntime /\ Finish("completed")
                 \/ /\ ~stop /\ clock - started < MaxRuntime
                    /\ pc' = "wait"
                    /\ UNCHANGED outcome
    /\ UNCHANGED <<env, db, cursor, health, data, crashes, started,
                   stop_requested, run>>

\* _should_stop and the runtime limit; a failed read of the flag is logged.
CheckStop ==
    /\ pc = "check"
    /\ \E readable \in BOOLEAN :
          LET stop == stop_flag \/ (readable /\ stop_requested)
          IN  /\ stop_flag' = stop
              /\ \/ stop /\ Finish("stopped")
                 \/ ~stop /\ clock - started >= MaxRuntime /\ Finish("completed")
                 \/ /\ ~stop /\ clock - started < MaxRuntime
                    /\ pc' = "wait"
                    /\ UNCHANGED outcome
    /\ UNCHANGED <<env, db, cursor, health, data, crashes, started,
                   stop_requested, run>>

\* _wait: at least the poll interval passes, more when the computer slept.
Wait ==
    /\ pc = "wait"
    /\ \/ /\ stop_flag
          /\ Finish("stopped")
          /\ UNCHANGED clock
       \/ /\ ~stop_flag
          /\ clock' \in (clock + Poll)..MaxTime
          /\ pc' = "tick"
          /\ UNCHANGED outcome
    /\ UNCHANGED <<delivered, unknown, db, cursor, health, data, stop_flag, crashes,
                   started, stop_requested, run>>
-----------------------------------------------------------------------------
(* What happens around the thread. *)

\* First Ctrl+C: the flag.  Second: KeyboardInterrupt, run() still finishes.
Interrupt ==
    /\ Running /\ Operator
    /\ IF stop_flag
       THEN Finish("stopped") /\ UNCHANGED stop_flag
       ELSE stop_flag' = TRUE /\ UNCHANGED <<pc, outcome>>
    /\ UNCHANGED <<env, db, cursor, health, data, crashes, started,
                   stop_requested, run>>

\* `monitor stop` in another process.
RequestStop ==
    /\ Running /\ Operator /\ ~stop_requested
    /\ stop_requested' = TRUE
    /\ UNCHANGED <<env, db, pc, cursor, health, data, stop_flag, crashes,
                   started, outcome, run>>

\* Power loss or kill: only the database survives.
Kill ==
    /\ Running
    /\ run < MaxRestarts
    /\ pc' = "down"
    /\ LeaveTick
    /\ unit' = NewUnits /\ structure' = NewSteps /\ setup' = NewSteps
    /\ spent' = NothingSpent
    /\ series' = [s \in Series |-> NewSeries]
    /\ api' = [status |-> "unknown", failures |-> 0]
    /\ disabled' = {} /\ instruments_synced' = FALSE
    /\ stop_flag' = FALSE /\ crashes' = 0 /\ stop_requested' = FALSE
    /\ UNCHANGED <<env, db, started, outcome, run>>

\* A new process: a new MarketMonitor and a new row in the run registry.
Restart ==
    /\ pc = "down"
    /\ pc' = "tick"
    /\ started' = clock
    /\ outcome' = "running"
    /\ run' = run + 1
    /\ UNCHANGED <<env, db, cursor, health, data, stop_flag, crashes,
                   stop_requested>>

\* Time passes during the calls to the exchange (and while the process is
\* down), and a closed bar becomes available there, in order, some time after
\* its close.
Advance ==
    /\ pc \in {"instruments", "base", "context", "down"}
    /\ clock < MaxTime
    /\ clock' = clock + 1
    /\ UNCHANGED <<delivered, unknown, db, pc, cursor, health, data, control>>

Deliver(s) ==
    /\ delivered[s] + Length[s] <= clock
    /\ delivered' = [delivered EXCEPT ![s] = @ + Length[s]]
    /\ UNCHANGED <<clock, unknown, db, pc, cursor, health, data, control>>

TickStep == StartTick \/ SyncInstruments \/ LeaveVisits \/ EndTick \/ TickCrashed
            \/ CheckStop

UnitStep(u) == Visit(u) \/ SyncBase(u) \/ SyncContext(u) \/ Analyse(u)
               \/ StructureStep(u) \/ SetupStep(u)

Next ==
    \/ TickStep
    \/ \E u \in Units : UnitStep(u)
    \/ Wait \/ Interrupt \/ RequestStop \/ Kill \/ Restart \/ Advance
    \/ \E s \in Series : Deliver(s)

Spec == Init /\ [][Next]_vars

\* The thread is scheduled: a loop that can take its next step takes it.
FairSpec ==
    Spec /\ WF_vars(TickStep \/ (\E u \in Units : UnitStep(u)) \/ Wait)
-----------------------------------------------------------------------------
EnvOK ==
    /\ clock \in Nat
    /\ delivered \in [Series -> Nat]
    /\ unknown \subseteq Symbols

StoreOK ==
    /\ stored \in [Series -> SUBSET Nat]
    /\ lost \in [Series -> SUBSET Nat]

PcOK == pc \in {"tick", "instruments", "visit", "base", "context", "analyse",
                "structure", "setup", "end", "crashed", "check", "wait",
                "done", "down"}

CursorOK ==
    /\ now \in Nat
    /\ at \in 1..(N + 1)
    /\ cx \in Nat \ {0}
    /\ job \in [as_of : Nat, owed : BOOLEAN]

HealthOK ==
    /\ unit \in [Units -> UnitState]
    /\ structure \in [Units -> StepState]
    /\ setup \in [Units -> StepState]
    /\ spent \in [Units -> [1..MaxTime -> Nat]]

SeriesTypes == [synced_through : Nat, warmup_done : BOOLEAN]

ApiTypes == [status : {"unknown", "ok", "degraded", "down"}, failures : Nat]

DataOK ==
    /\ series \in [Series -> SeriesTypes]
    /\ api \in ApiTypes
    /\ disabled \subseteq Symbols
    /\ instruments_synced \in BOOLEAN

ControlOK ==
    /\ stop_flag \in BOOLEAN
    /\ stop_requested \in BOOLEAN
    /\ crashes \in Nat
    /\ started \in Nat
    /\ run \in Nat
    /\ outcome \in {"running", "stopped", "completed", "failed"}

\* Every variable stays in its domain (UnitState, HealthState, SeriesState).
TypeOK ==
    EnvOK /\ StoreOK /\ PcOK /\ CursorOK /\ HealthOK /\ DataOK /\ ControlOK

\* No bar of a unit gets more than unit_max_attempts failed attempts in one
\* run, whatever mix of errors, waits, polls and backoffs happens
\* (_apply; docs/V070_MARKET_MONITOR.md, "Retry / recovery").
AttemptBudget ==
    \A u \in Units : \A b \in 1..MaxTime : spent[u][b] <= UnitMaxAttempts

\* "ok" is never reported for a bar whose valid regime snapshot is not in the
\* database (health's last_ok_as_of against the store).
OkIsPersisted ==
    \A u \in Units : unit[u].last_ok_as_of # None
        => <<u, unit[u].last_ok_as_of, "valid">> \in regimes

\* When the base series was synchronised for the bar being analysed, every bar
\* of the required window up to the mark that the exchange has had is stored,
\* or an answer to a request that covered it left it out.  The code never skips
\* a bar unasked: not after an outage, a kill, a failed record of the backfill
\* or a sleep of several bars.  Later requests start at the mark, so a bar that
\* an answer left out stays a hole for as long as the process lives, and the
\* analysis is made on it (_sync_series).
HolesAreLostBars ==
    pc \in {"context", "analyse"} =>
        LET s == Base[at]
        IN  \A i \in 0..(RequiredBars - 1) :
               LET c == job.as_of - i * Length[s]
               IN  (1 <= c /\ FirstClose[s] <= c /\ c <= series[s].synced_through)
                   => c \in stored[s] \cup lost[s]

\* The mark of a series is the close of a bar that is stored, so the shortcut
\* "synchronised already" never hides a missing bar.
MarkIsStored ==
    \A s \in Series : series[s].synced_through # None
        => series[s].synced_through \in stored[s]

\* Between two visits, a bar whose regime ended with a snapshot has its
\* structure and setup steps finished or still owed: none is forgotten.
StepNotForgotten ==
    pc \in {"visit", "end", "check", "wait"} =>
        \A u \in Units :
            LET b == unit[u].last_processed_as_of
                closed(p) == p.last_as_of = b \/ StepPending(p, b)
            IN  (b # None /\ unit[u].attempt_bar = b /\ unit[u].status \in
                    {"ok", "warmup_insufficient", "data_quality_failure"})
                => /\ StructureOn => closed(structure[u])
                   /\ SetupOn => closed(setup[u])

\* The structure step and the setup step keep the budget of attempts too,
\* although an attempt of theirs is made by every attempt of the regime that
\* produced a snapshot and, later, by the retries of the step alone.
StepBudget ==
    \A u \in Units : \A p \in {structure[u], setup[u]} : p.attempts <= UnitMaxAttempts

\* A step that fails is neither repeated for ever nor dropped.
StepsAreSettled == StepNotForgotten /\ StepBudget

Covered(u) ==
    \/ SymbolOf[u] \in disabled
    \/ unit[u].last_processed_as_of = Expected(u)
    \/ unit[u].attempt_bar = Expected(u)
    \/ InBackoff(u)

\* A tick that was neither stopped nor crashed leaves no enabled unit without
\* a reason: its bar is finished, waited for, being retried, or the unit is
\* in backoff (one unit's trouble never starves another).
TickCoversUnits == (pc = "end" /\ ~stop_flag) => \A u \in Units : Covered(u)

\* A graceful stop is honoured: after the first Ctrl+C the run finishes
\* (request_stop: "the current unit finishes, then the loop exits").
StopIsHonoured == stop_flag ~> pc \in {"done", "down"}
=============================================================================
