--------------------------- MODULE MonitorProofs ---------------------------
(***************************************************************************)
(* What holds of the monitor for every value of its constants: the types,  *)
(* the marks of the series and what is stored behind them, the truth of    *)
(* "ok", the budget of attempts, the units a tick covers and the steps that *)
(* are owed.  The lemmas on MonitorHealth come first, then each theorem     *)
(* with the invariant it needs.                                            *)
(***************************************************************************)
EXTENDS Monitor, TLAPS

(* Arithmetic of the time frames. *)
LEMMA FloorFacts ==
    ASSUME NEW t \in Nat, NEW len \in Nat \ {0}
    PROVE  Floor(t, len) \in Nat /\ Floor(t, len) <= t
BY DEF Floor

LEMMA FloorMonotone ==
    ASSUME NEW s \in Nat, NEW t \in Nat, NEW len \in Nat \ {0}, s <= t
    PROVE  Floor(s, len) <= Floor(t, len)
<1>1. s \div len <= t \div len
    OBVIOUS
<1>2. s \div len \in Nat /\ t \div len \in Nat
    OBVIOUS
<1>3. (s \div len) * len <= (t \div len) * len
    BY <1>1, <1>2
<1> QED
    BY <1>3 DEF Floor

-----------------------------------------------------------------------------
(* The bookkeeping of MonitorHealth. *)
LEMMA BackoffType == ASSUME NEW n \in Nat PROVE Backoff(n) \in Nat
<1> DEFINE fits == {d \in 0..BackoffMax : d = BackoffBase * 2^(n - 1)}
<1>1. Backoff(n) = IF fits = {} THEN BackoffMax ELSE CHOOSE d \in fits : TRUE
    BY DEF Backoff
<1>2. CASE fits = {}
    BY <1>1, <1>2, ConfigAssumption
<1>3. CASE fits # {}
    <2>1. (CHOOSE d \in fits : TRUE) \in fits
        BY <1>3
    <2>2. Backoff(n) \in fits
        BY <1>1, <1>3, <2>1
    <2>3. fits \subseteq Nat
        BY ConfigAssumption
    <2> QED
        BY <2>2, <2>3
<1> QED
    BY <1>2, <1>3

\* v is r after one more failed attempt for bar b.
AttemptCounted(r, b, v) ==
    /\ v \in UnitState
    /\ v.attempt_bar = r.attempt_bar
    /\ v.last_ok_as_of = r.last_ok_as_of
    /\ \/ /\ r.attempts_for_bar + 1 < UnitMaxAttempts
          /\ v.attempts_for_bar = r.attempts_for_bar + 1
          /\ v.last_processed_as_of = r.last_processed_as_of
       \/ /\ v.attempts_for_bar = 0
          /\ v.last_processed_as_of = b

LEMMA RetriedFacts ==
    ASSUME NEW r \in UnitState, NEW status \in RetryableStatuses,
           NEW b \in Nat, NEW t \in Nat
    PROVE  AttemptCounted(r, b, Retried(r, status, b, t))
<1>1. r.consecutive_failures + 1 \in Nat
    BY DEF UnitState
<1>2. Backoff(r.consecutive_failures + 1) \in Nat
    BY <1>1, BackoffType
<1>3. t + Backoff(r.consecutive_failures + 1) \in Nat
    BY <1>2
<1> QED
    BY <1>1, <1>3, ConfigAssumption
       DEF AttemptCounted, Retried, UnitState, UnitStatuses, FailureStatuses

LEMMA FinishedFacts ==
    ASSUME NEW r \in UnitState, NEW status \in FinalStatuses \cup {"api_error"},
           NEW b \in Nat, NEW t \in Nat,
           NEW v, v = Finished(r, status, b, t)
    PROVE  /\ v \in UnitState
           /\ v.attempt_bar = r.attempt_bar
           /\ v.attempts_for_bar = 0
           /\ v.last_processed_as_of = b
           /\ v.last_ok_as_of = IF status = "ok" THEN b ELSE r.last_ok_as_of
<1> DEFINE f == IF status \in FailureStatuses THEN r.consecutive_failures + 1
                ELSE 0
<1>1. f \in Nat
    BY DEF UnitState
<1>2. Backoff(f) \in Nat
    BY <1>1, BackoffType
<1>3. status \in UnitStatuses
    BY DEF UnitStatuses, FailureStatuses
<1> QED
    BY <1>1, <1>2, <1>3 DEF Finished, UnitState, None

LEMMA BudgetedFacts ==
    ASSUME NEW r \in UnitState, NEW b \in Nat
    PROVE  LET v == Budgeted(r, b)
           IN  /\ v \in UnitState
               /\ v.attempt_bar = b
               /\ v.attempts_for_bar =
                     IF r.attempt_bar = b THEN r.attempts_for_bar ELSE 0
               /\ v.last_processed_as_of = r.last_processed_as_of
               /\ v.last_ok_as_of = r.last_ok_as_of
BY DEF Budgeted, UnitState

\* The attempts already counted for bar b.
Counted(r, b) == IF r.attempt_bar = b THEN r.attempts_for_bar ELSE 0

\* v is r after the outcome `status` for bar b.
OutcomeCounted(r, status, b, v) ==
    /\ v \in UnitState
    /\ v.attempt_bar = b
    /\ v.last_ok_as_of = IF status = "ok" THEN b ELSE r.last_ok_as_of
    /\ \/ /\ status \notin RetryableStatuses
          /\ v.attempts_for_bar = Counted(r, b)
          /\ v.last_processed_as_of = r.last_processed_as_of
       \/ /\ status \in RetryableStatuses
          /\ Counted(r, b) + 1 < UnitMaxAttempts
          /\ v.attempts_for_bar = Counted(r, b) + 1
          /\ v.last_processed_as_of = r.last_processed_as_of
       \/ /\ v.attempts_for_bar = 0
          /\ v.last_processed_as_of = b

LEMMA AppliedFacts ==
    ASSUME NEW r \in UnitState, NEW status \in Outcomes,
           NEW b \in Nat, NEW t \in Nat
    PROVE  OutcomeCounted(r, status, b, Applied(r, status, b, t))
<1> DEFINE w == Budgeted(r, b)
           v == Applied(r, status, b, t)
<1> SUFFICES OutcomeCounted(r, status, b, v)
    OBVIOUS
<1>1. /\ w \in UnitState
      /\ w.attempt_bar = b
      /\ w.attempts_for_bar = Counted(r, b)
      /\ w.last_processed_as_of = r.last_processed_as_of
      /\ w.last_ok_as_of = r.last_ok_as_of
    BY BudgetedFacts DEF Counted
<1> HIDE DEF v, w
<1>2. CASE status = "waiting_for_bar"
    <2>1. v = [w EXCEPT !.status = status, !.next_attempt_at = None]
        BY <1>2 DEF Applied, v, w
    <2>2. status \notin RetryableStatuses /\ status # "ok"
        BY <1>2 DEF RetryableStatuses
    <2> DEFINE x == [w EXCEPT !.status = status]
    <2>3. x \in UnitState
        BY <1>1, <1>2 DEF UnitState, UnitStatuses
    <2>4. /\ x.attempt_bar = b /\ x.attempts_for_bar = Counted(r, b)
          /\ x.last_processed_as_of = r.last_processed_as_of
          /\ x.last_ok_as_of = r.last_ok_as_of
        BY <1>1, <2>3 DEF UnitState
    <2>5. v = [x EXCEPT !.next_attempt_at = None]
        BY <2>1
    <2> HIDE DEF x
    <2> QED
        BY <2>2, <2>3, <2>4, <2>5 DEF UnitState, None, OutcomeCounted
<1>3. CASE status \in RetryableStatuses
    <2>1. v = Retried(w, status, b, t) /\ status # "ok"
        BY <1>3 DEF Applied, v, w, RetryableStatuses
    <2>2. AttemptCounted(w, b, v)
        BY <1>1, <1>3, <2>1, RetriedFacts
    <2> QED
        BY <1>1, <1>3, <2>1, <2>2 DEF AttemptCounted, OutcomeCounted
<1>4. CASE status \in FinalStatuses \cup {"api_error"}
    <2>1. v = Finished(w, status, b, t) /\ status \notin RetryableStatuses
        BY <1>4 DEF Applied, v, w, RetryableStatuses, FinalStatuses
    <2> QED
        BY <1>1, <1>4, <2>1, FinishedFacts DEF OutcomeCounted
<1> QED
    BY <1>2, <1>3, <1>4 DEF Outcomes

LEMMA SteppedType ==
    ASSUME NEW p \in StepState, NEW b \in Nat, NEW result \in StepResults
    PROVE  Stepped(p, b, result) \in StepState
BY DEF Stepped, StepState, StepStatuses, StepResults, StepRetryable

-----------------------------------------------------------------------------
(* Types.  Inside a tick the clock was read after the start of the model, so *)
(* the last closed bar of a unit is a natural number.                        *)
InTick == pc \in {"instruments", "visit", "base", "context", "analyse",
                  "structure", "setup", "end", "crashed"}

InUnit == pc \in {"base", "context", "analyse", "structure", "setup"}

ClockInv ==
    /\ StartTime <= clock
    /\ InTick => StartTime <= now /\ now <= clock
    /\ InUnit => at \in Units

TypeInv == TypeOK /\ ClockInv

LEMMA ExpectedType ==
    ASSUME TypeInv, InTick, NEW u \in Units
    PROVE  Expected(u) \in Nat
<1>1. Base[u] \in Series /\ Length[Base[u]] \in Nat \ {0}
    BY MonitorAssumption
<1>2. now - Grace \in Nat
    BY <1>1, MonitorAssumption DEF TypeInv, TypeOK, CursorOK, ClockInv
<1> QED
    BY <1>1, <1>2, FloorFacts DEF Expected

LEMMA InitTyped == Init => TypeInv
<1> SUFFICES ASSUME Init PROVE TypeInv
    OBVIOUS
<1>1. EnvOK /\ StoreOK
    <2>1. \A s \in Series : Floor(StartTime, Length[s]) \in Nat
        BY MonitorAssumption, FloorFacts
    <2> QED
        BY <2>1, MonitorAssumption DEF Init, EnvOK, StoreOK
<1>2. PcOK /\ CursorOK
    BY MonitorAssumption DEF Init, PcOK, CursorOK, None, NoJob
<1>3. HealthOK
    <2>1. NewUnit \in UnitState /\ NewStep \in StepState
        BY DEF NewUnit, NewStep, UnitState, StepState, UnitStatuses,
               StepStatuses, None
    <2> QED
        BY <2>1 DEF Init, HealthOK, NewUnits, NewSteps, NothingSpent
<1>4. DataOK
    BY DEF Init, DataOK, NewSeries, SeriesTypes, ApiTypes, None
<1>5. ControlOK
    BY MonitorAssumption DEF Init, ControlOK
<1>6. ClockInv
    BY MonitorAssumption DEF Init, ClockInv, InTick, InUnit
<1> QED
    BY <1>1, <1>2, <1>3, <1>4, <1>5, <1>6 DEF TypeInv, TypeOK

LEMMA UnchangedTyped ==
    ASSUME TypeOK
    PROVE  /\ UNCHANGED env => EnvOK'
           /\ UNCHANGED <<stored, lost>> => StoreOK'
           /\ UNCHANGED db => StoreOK'
           /\ UNCHANGED pc => PcOK'
           /\ UNCHANGED cursor => CursorOK'
           /\ UNCHANGED health => HealthOK'
           /\ UNCHANGED data => DataOK'
           /\ UNCHANGED control => ControlOK'
<1>1. UNCHANGED env => EnvOK'
    BY DEF TypeOK, EnvOK, env
<1>2. (UNCHANGED <<stored, lost>> => StoreOK') /\ (UNCHANGED db => StoreOK')
    BY DEF TypeOK, StoreOK, db
<1>3. (UNCHANGED pc => PcOK') /\ (UNCHANGED cursor => CursorOK')
    BY DEF TypeOK, PcOK, CursorOK, cursor
<1>4. UNCHANGED health => HealthOK'
    BY DEF TypeOK, HealthOK, health
<1>5. UNCHANGED data => DataOK'
    BY DEF TypeOK, DataOK, data
<1>6. UNCHANGED control => ControlOK'
    BY DEF TypeOK, ControlOK, control
<1> QED
    BY <1>1, <1>2, <1>3, <1>4, <1>5, <1>6

(* A request without an error: bars of it are stored, and those that are    *)
(* still missing afterwards are known as lost.                              *)
LEMMA FetchFacts ==
    ASSUME TypeOK, NEW s \in Series, NEW b \in Nat, Fetch(s, b)
    PROVE  /\ StoreOK'
           /\ \A r \in Series : r # s => stored'[r] = stored[r] /\ lost'[r] = lost[r]
           /\ stored[s] \subseteq stored'[s]
           /\ stored'[s] \subseteq stored[s] \cup Asked(s, b)
           /\ stored[s] \cup lost[s] \cup Asked(s, b) \subseteq stored'[s] \cup lost'[s]
<1>1. PICK left \in SUBSET (Asked(s, b) \ stored[s]) :
         /\ stored' = [stored EXCEPT ![s] = @ \cup (Asked(s, b) \ left)]
         /\ lost' = [lost EXCEPT ![s] = (@ \ Asked(s, b)) \cup left]
    BY DEF Fetch
<1>2. Asked(s, b) \subseteq Nat
    BY MonitorAssumption DEF Asked, Closes
<1>3. stored \in [Series -> SUBSET Nat] /\ lost \in [Series -> SUBSET Nat]
    BY DEF TypeOK, StoreOK
<1>4. StoreOK'
    BY <1>1, <1>2, <1>3 DEF StoreOK
<1>5. \A r \in Series : r # s => stored'[r] = stored[r] /\ lost'[r] = lost[r]
    BY <1>1, <1>3
<1>6. /\ stored'[s] = stored[s] \cup (Asked(s, b) \ left)
      /\ lost'[s] = (lost[s] \ Asked(s, b)) \cup left
    BY <1>1, <1>3
<1> QED
    BY <1>4, <1>5, <1>6

(* What synchronising a series leaves behind is typed. *)
LEMMA SeriesTyped ==
    ASSUME TypeOK, NEW s \in Series, NEW b \in Nat,
           \/ SyncSucceeds(s, b)
           \/ \E fault \in SyncFaults : SyncFails(s, b, fault)
    PROVE  StoreOK' /\ series' \in [Series -> SeriesTypes] /\ api' \in ApiTypes
<1>1. Target(s, b) \in Nat
    BY MonitorAssumption, FloorFacts DEF Target
<1>2. ApiOk \in ApiTypes
    BY DEF ApiOk, ApiTypes
<1>3. ApiFailed \in ApiTypes
    BY MonitorAssumption DEF ApiFailed, Min2, TypeOK, DataOK, ApiTypes
<1>6. CASE SyncSucceeds(s, b)
    <2>1. CASE UNCHANGED <<stored, lost, series, api>>
        BY <2>1 DEF TypeOK, StoreOK, DataOK
    <2>2. CASE /\ series' = [series EXCEPT ![s] =
                     [synced_through |-> Target(s, b), warmup_done |-> TRUE]]
               /\ UNCHANGED <<stored, lost, api>>
        BY <1>1, <2>2 DEF TypeOK, StoreOK, DataOK, SeriesTypes
    <2>3. CASE /\ Fetch(s, b)
               /\ api' = ApiOk
               /\ \E c \in stored'[s] \cup {None} :
                     series' = [series EXCEPT ![s] =
                         [synced_through |-> c, warmup_done |-> TRUE]]
        <3>1. StoreOK'
            BY <2>3, FetchFacts
        <3>2. \A c \in stored'[s] \cup {None} : c \in Nat
            BY <3>1 DEF StoreOK, None
        <3> QED
            BY <1>2, <2>3, <3>1, <3>2 DEF TypeOK, DataOK, SeriesTypes
    <2> QED
        BY <1>6, <2>1, <2>2, <2>3 DEF SyncSucceeds
<1>7. CASE \E fault \in SyncFaults : SyncFails(s, b, fault)
    <2>1. \A fault : ApiAfter(fault) \in ApiTypes
        BY <1>3 DEF ApiAfter, TypeOK, DataOK
    <2>2. [series EXCEPT ![s] = [@ EXCEPT !.warmup_done = TRUE]] \in
             [Series -> SeriesTypes]
        <3>1. [series[s] EXCEPT !.warmup_done = TRUE] \in SeriesTypes
            BY DEF TypeOK, DataOK, SeriesTypes
        <3> QED
            BY <3>1 DEF TypeOK, DataOK
    <2>3. /\ UNCHANGED <<stored, lost>> \/ Fetch(s, b)
          /\ \/ api' = api \/ api' = ApiOk
             \/ \E fault \in SyncFaults : api' = ApiAfter(fault)
          /\ \/ series' = series
             \/ series' = [series EXCEPT ![s] = [@ EXCEPT !.warmup_done = TRUE]]
        BY <1>7 DEF SyncFails
    <2>4. StoreOK'
        BY <2>3, FetchFacts DEF TypeOK, StoreOK
    <2>5. series' \in [Series -> SeriesTypes]
        BY <2>2, <2>3 DEF TypeOK, DataOK
    <2>6. api' \in ApiTypes
        BY <1>2, <2>1, <2>3 DEF TypeOK, DataOK
    <2> QED
        BY <2>4, <2>5, <2>6
<1> QED
    BY <1>6, <1>7

LEMMA RecordTyped ==
    ASSUME TypeOK, NEW u \in Units, NEW status \in Outcomes, Record(u, status),
           UNCHANGED <<structure, setup>>
    PROVE  HealthOK'
<1>1. job.as_of \in Nat /\ now \in Nat /\ unit[u] \in UnitState
    BY DEF TypeOK, CursorOK, HealthOK
<1>2. Applied(unit[u], status, job.as_of, now) \in UnitState
    BY <1>1, AppliedFacts DEF OutcomeCounted
<1>3. unit' \in [Units -> UnitState]
    BY <1>2 DEF Record, TypeOK, HealthOK
<1>4. [spent EXCEPT ![u][job.as_of] = @ + 1] \in [Units -> [1..MaxTime -> Nat]]
    <2>1. spent[u] \in [1..MaxTime -> Nat]
        BY DEF TypeOK, HealthOK
    <2> DEFINE f == spent[u]
               b == job.as_of
               g == [f EXCEPT ![b] = @ + 1]
    <2> HIDE DEF f, b
    <2>2. g = [x \in 1..MaxTime |-> IF x = b THEN f[b] + 1 ELSE f[x]]
        BY <2>1 DEF f
    <2>3. \A x \in 1..MaxTime : f[x] \in Nat
        BY <2>1 DEF f
    <2> HIDE DEF g
    <2>4. \A x \in 1..MaxTime : g[x] \in Nat
        BY <2>2, <2>3
    <2>5. g \in [1..MaxTime -> Nat]
        BY <2>2, <2>4
    <2> QED
        BY <2>5 DEF TypeOK, HealthOK, f, b, g
<1> QED
    BY <1>3, <1>4 DEF Record, TypeOK, HealthOK

(* Moving on to the next unit or to the next step of a unit. *)
LEMMA CursorTyped ==
    ASSUME TypeInv, InTick, at \in Units, UNCHANGED clock,
           NEW b \in Nat, NEW owed \in BOOLEAN,
           NEW step \in {"base", "structure", "setup"},
           NextUnit \/ Goto(step, b, owed)
    PROVE  PcOK' /\ CursorOK' /\ ClockInv'
<1>1. N \in Nat /\ at + 1 \in 1..(N + 1) /\ at \in 1..(N + 1)
    BY MonitorAssumption DEF Units
<1>2. CASE NextUnit
    BY <1>1, <1>2 DEF NextUnit, NoJob, None, TypeInv, TypeOK, CursorOK, PcOK,
                      ClockInv, InTick, InUnit
<1>3. CASE Goto(step, b, owed)
    BY <1>1, <1>3 DEF Goto, TypeInv, TypeOK, CursorOK, PcOK, ClockInv, InTick,
                      InUnit
<1> QED
    BY <1>2, <1>3

LEMMA LeaveTickTyped ==
    ASSUME LeaveTick
    PROVE  CursorOK'
BY MonitorAssumption DEF LeaveTick, CursorOK, NoJob, None

-----------------------------------------------------------------------------
(* Every action keeps the types: actions of the thread between visits. *)
LEMMA LoopTyped ==
    ASSUME TypeInv, TickStep \/ Wait
    PROVE  TypeInv'
<1> USE DEF TypeInv
<1>1. CASE StartTick
    <2>1. EnvOK' /\ StoreOK' /\ HealthOK' /\ DataOK' /\ ControlOK'
        BY <1>1, UnchangedTyped DEF StartTick
    <2>2. PcOK' /\ CursorOK' /\ ClockInv'
        BY <1>1, MonitorAssumption
           DEF StartTick, TypeOK, EnvOK, PcOK, CursorOK, ClockInv, InTick,
               InUnit, env
    <2> QED
        BY <2>1, <2>2 DEF TypeOK
<1>2. CASE SyncInstruments
    <2>1. EnvOK' /\ StoreOK' /\ CursorOK' /\ ControlOK'
        BY <1>2, UnchangedTyped DEF SyncInstruments
    <2>2. PcOK' /\ ClockInv'
        BY <1>2 DEF SyncInstruments, PcOK, ClockInv, InTick, InUnit, env, cursor
    <2>3. HealthOK'
        <3>1. \A u \in Units : [unit[u] EXCEPT !.status = "api_error"] \in UnitState
            BY DEF TypeOK, HealthOK, UnitState, UnitStatuses, FailureStatuses
        <3>2. unit' = unit \/ unit' = [u \in Units |->
                         IF SymbolOf[u] \in NamesIn(unknown)
                         THEN [unit[u] EXCEPT !.status = "api_error"]
                         ELSE unit[u]]
            BY <1>2 DEF SyncInstruments
        <3>3. unit' \in [Units -> UnitState]
            <4>1. unit \in [Units -> UnitState]
                BY DEF TypeOK, HealthOK
            <4> QED
                BY <3>1, <3>2, <4>1
        <3> QED
            BY <1>2, <3>3 DEF SyncInstruments, TypeOK, HealthOK
    <2>4. DataOK'
        <3>1. ApiOk \in ApiTypes /\ ApiFailed \in ApiTypes
            BY MonitorAssumption
               DEF ApiOk, ApiFailed, Min2, TypeOK, DataOK, ApiTypes
        <3>2. NamesIn(unknown) \subseteq Symbols
            BY DEF NamesIn
        <3> QED
            BY <1>2, <3>1, <3>2 DEF SyncInstruments, TypeOK, DataOK
    <2> QED
        BY <2>1, <2>2, <2>3, <2>4 DEF TypeOK
<1>3. CASE LeaveVisits
    <2>1. /\ EnvOK' /\ StoreOK' /\ CursorOK' /\ HealthOK' /\ DataOK'
          /\ ControlOK'
        BY <1>3, UnchangedTyped DEF LeaveVisits
    <2>2. PcOK' /\ ClockInv'
        BY <1>3 DEF LeaveVisits, PcOK, ClockInv, InTick, InUnit, env, cursor
    <2> QED
        BY <2>1, <2>2 DEF TypeOK
<1>4. CASE EndTick
    <2>1. EnvOK' /\ StoreOK' /\ HealthOK' /\ DataOK' /\ CursorOK'
        BY <1>4, UnchangedTyped, LeaveTickTyped DEF EndTick
    <2>2. PcOK' /\ ClockInv' /\ ControlOK'
        BY <1>4 DEF EndTick, PcOK, ClockInv, InTick, InUnit, TypeOK, ControlOK,
                    env
    <2> QED
        BY <2>1, <2>2 DEF TypeOK
<1>5. CASE TickCrashed
    <2>1. EnvOK' /\ StoreOK' /\ HealthOK' /\ DataOK' /\ CursorOK'
        BY <1>5, UnchangedTyped, LeaveTickTyped DEF TickCrashed
    <2>2. PcOK' /\ ClockInv' /\ ControlOK'
        BY <1>5 DEF TickCrashed, Finish, PcOK, ClockInv, InTick, InUnit, TypeOK,
                    ControlOK, env
    <2> QED
        BY <2>1, <2>2 DEF TypeOK
<1>6. CASE CheckStop
    <2>1. EnvOK' /\ StoreOK' /\ CursorOK' /\ HealthOK' /\ DataOK'
        BY <1>6, UnchangedTyped DEF CheckStop
    <2>2. PcOK' /\ ClockInv' /\ ControlOK'
        BY <1>6 DEF CheckStop, Finish, PcOK, ClockInv, InTick, InUnit, TypeOK,
                    ControlOK, env, cursor
    <2> QED
        BY <2>1, <2>2 DEF TypeOK
<1>7. CASE Wait
    <2>1. StoreOK' /\ CursorOK' /\ HealthOK' /\ DataOK'
        BY <1>7, UnchangedTyped DEF Wait
    <2>2. clock' \in Nat /\ clock <= clock'
        BY <1>7, MonitorAssumption DEF Wait, TypeOK, EnvOK
    <2>3. EnvOK' /\ PcOK' /\ ControlOK'
        BY <1>7, <2>2 DEF Wait, Finish, PcOK, TypeOK, EnvOK, ControlOK
    <2>4. ClockInv'
        BY <1>7, <2>2, MonitorAssumption
           DEF Wait, Finish, ClockInv, InTick, InUnit, cursor, TypeOK, EnvOK
    <2> QED
        BY <2>1, <2>3, <2>4 DEF TypeOK
<1> QED
    BY <1>1, <1>2, <1>3, <1>4, <1>5, <1>6, <1>7 DEF TickStep

(* The thread inside a unit. *)
LEMMA UnitTyped ==
    ASSUME TypeInv, NEW u \in Units, UnitStep(u)
    PROVE  TypeInv'
<1> USE DEF TypeInv
<1>0. /\ Base[u] \in Series
      /\ \A i \in 1..Len(Context[u]) : Context[u][i] \in Series
    BY MonitorAssumption
<1>1. job.as_of \in Nat /\ cx \in Nat
    BY DEF TypeOK, CursorOK
<1>2. SyncFaults \subseteq Outcomes
    BY MonitorAssumption DEF Outcomes, SyncStatuses, RetryableStatuses
<1>3. CASE Visit(u)
    <2>1. EnvOK' /\ StoreOK' /\ HealthOK' /\ DataOK' /\ ControlOK'
        BY <1>3, UnchangedTyped DEF Visit
    <2>2. InTick /\ at \in Units /\ UNCHANGED clock
        BY <1>3 DEF Visit, InTick, env
    <2>3. Expected(u) \in Nat
        BY <2>2, ExpectedType
    <2>4. \/ NextUnit
          \/ \E owed \in BOOLEAN, step \in {"base", "structure", "setup"} :
                Goto(step, Expected(u), owed)
        BY <1>3 DEF Visit
    <2>5. PcOK' /\ CursorOK' /\ ClockInv'
        BY <2>2, <2>3, <2>4, CursorTyped
    <2> QED
        BY <2>1, <2>5 DEF TypeOK
<1>4. CASE SyncBase(u)
    <2>1. EnvOK' /\ ControlOK'
        BY <1>4, UnchangedTyped DEF SyncBase
    <2>2. InTick /\ at \in Units /\ UNCHANGED clock
        BY <1>4 DEF SyncBase, InTick, env
    <2>3. StoreOK' /\ DataOK'
        <3>1. \/ SyncSucceeds(Base[u], job.as_of)
              \/ \E fault \in SyncFaults : SyncFails(Base[u], job.as_of, fault)
            BY <1>4 DEF SyncBase
        <3>2. StoreOK' /\ series' \in [Series -> SeriesTypes] /\ api' \in ApiTypes
            BY <1>0, <1>1, <3>1, SeriesTyped
        <3> QED
            BY <1>4, <3>2 DEF SyncBase, TypeOK, DataOK
    <2>4. CASE pc' = "context" /\ UNCHANGED <<cursor, unit, spent>>
        <3>1. HealthOK' /\ CursorOK'
            BY <1>4, <2>4, UnchangedTyped DEF SyncBase, health
        <3>2. PcOK' /\ ClockInv'
            BY <2>2, <2>4 DEF PcOK, ClockInv, InTick, InUnit, cursor
        <3> QED
            BY <2>1, <2>3, <3>1, <3>2 DEF TypeOK
    <2>5. CASE NextUnit /\ \E fault \in SyncFaults : Record(u, fault)
        <3>1. HealthOK'
            BY <1>2, <1>4, <2>5, RecordTyped DEF SyncBase
        <3>2. PcOK' /\ CursorOK' /\ ClockInv'
            BY <1>1, <2>2, <2>5, CursorTyped
        <3> QED
            BY <2>1, <2>3, <3>1, <3>2 DEF TypeOK
    <2> QED
        BY <1>4, <2>4, <2>5 DEF SyncBase
<1>5. CASE SyncContext(u)
    <2>1. EnvOK' /\ HealthOK' /\ ControlOK'
        BY <1>5, UnchangedTyped DEF SyncContext
    <2>2. StoreOK' /\ series' \in [Series -> SeriesTypes] /\ api' \in ApiTypes
        <3>1. CASE UNCHANGED <<stored, lost, series, api>>
            BY <3>1, UnchangedTyped DEF TypeOK, DataOK
        <3>2. CASE /\ cx <= Len(Context[u])
                   /\ \/ SyncSucceeds(Context[u][cx], job.as_of)
                      \/ \E fault \in SyncFaults :
                            SyncFails(Context[u][cx], job.as_of, fault)
            <4>1. Context[u][cx] \in Series
                BY <1>0, <1>1, <3>2 DEF TypeOK, CursorOK
            <4> QED
                BY <1>1, <3>2, <4>1, SeriesTyped
        <3> QED
            BY <1>5, <3>1, <3>2 DEF SyncContext
    <2>3. DataOK'
        BY <1>5, <2>2 DEF SyncContext, TypeOK, DataOK
    <2>4. PcOK' /\ CursorOK' /\ ClockInv'
        BY <1>1, <1>5 DEF SyncContext, TypeOK, PcOK, CursorOK, ClockInv, InTick,
                          InUnit, env
    <2> QED
        BY <2>1, <2>2, <2>3, <2>4 DEF TypeOK
<1>6. CASE Analyse(u)
    <2>1. EnvOK' /\ StoreOK' /\ DataOK' /\ ControlOK'
        BY <1>6, UnchangedTyped DEF Analyse
    <2>2. InTick /\ at \in Units /\ UNCHANGED clock
        BY <1>6 DEF Analyse, InTick, env
    <2>3. CASE ReadRaises
        <3>1. HealthOK' /\ CursorOK'
            BY <1>6, <2>3, UnchangedTyped DEF Analyse, ReadRaises, health
        <3>2. PcOK' /\ ClockInv'
            BY <2>2, <2>3 DEF ReadRaises, PcOK, ClockInv, InTick, InUnit, cursor
        <3> QED
            BY <2>1, <3>1, <3>2 DEF TypeOK
    <2>4. CASE ~ReadRaises
        <3>1. \E status \in Outcomes : Record(u, status)
            BY <1>6, <2>4
               DEF Analyse, BarMissing, EngineRaises, SaveRaises, Classified,
                   StatusFor, Outcomes, RetryableStatuses, FinalStatuses
        <3>2. HealthOK'
            BY <1>6, <3>1, RecordTyped DEF Analyse
        <3>3. \/ NextUnit
              \/ \E step \in {"structure", "setup"} : Goto(step, job.as_of, FALSE)
            BY <1>6, <2>4
               DEF Analyse, BarMissing, EngineRaises, SaveRaises, Classified,
                   AfterRegime
        <3>4. PcOK' /\ CursorOK' /\ ClockInv'
            BY <1>1, <2>2, <3>3, CursorTyped
        <3> QED
            BY <2>1, <3>2, <3>4 DEF TypeOK
    <2> QED
        BY <2>3, <2>4
<1>7. CASE StructureStep(u)
    <2>1. EnvOK' /\ StoreOK' /\ DataOK' /\ ControlOK'
        BY <1>7, UnchangedTyped DEF StructureStep
    <2>2. InTick /\ at \in Units /\ UNCHANGED clock
        BY <1>7 DEF StructureStep, InTick, env
    <2>3. HealthOK'
        <3>1. \A r \in StepResults : Stepped(structure[u], job.as_of, r) \in StepState
            BY <1>1, SteppedType DEF TypeOK, HealthOK
        <3> QED
            BY <1>7, <3>1 DEF StructureStep, TypeOK, HealthOK
    <2>4. job.owed \in BOOLEAN
        BY DEF TypeOK, CursorOK
    <2>5. NextUnit \/ Goto("setup", job.as_of, job.owed)
        BY <1>7 DEF StructureStep
    <2>6. PcOK' /\ CursorOK' /\ ClockInv'
        BY <1>1, <2>2, <2>4, <2>5, CursorTyped
    <2> QED
        BY <2>1, <2>3, <2>6 DEF TypeOK
<1>8. CASE SetupStep(u)
    <2>1. EnvOK' /\ StoreOK' /\ DataOK' /\ ControlOK'
        BY <1>8, UnchangedTyped DEF SetupStep
    <2>2. InTick /\ at \in Units /\ UNCHANGED clock /\ NextUnit
        BY <1>8 DEF SetupStep, InTick, env
    <2>3. HealthOK'
        <3>1. \A r \in StepResults : Stepped(setup[u], job.as_of, r) \in StepState
            BY <1>1, SteppedType DEF TypeOK, HealthOK
        <3> QED
            BY <1>8, <3>1 DEF SetupStep, TypeOK, HealthOK
    <2>4. PcOK' /\ CursorOK' /\ ClockInv'
        BY <1>1, <2>2, CursorTyped
    <2> QED
        BY <2>1, <2>3, <2>4 DEF TypeOK
<1> QED
    BY <1>3, <1>4, <1>5, <1>6, <1>7, <1>8 DEF UnitStep

(* What happens around the thread. *)
LEMMA AroundTyped ==
    ASSUME TypeInv,
           \/ Interrupt \/ RequestStop \/ Kill \/ Restart \/ Advance
           \/ \E s \in Series : Deliver(s)
    PROVE  TypeInv'
<1> USE DEF TypeInv
<1>1. CASE Interrupt
    <2>1. EnvOK' /\ StoreOK' /\ CursorOK' /\ HealthOK' /\ DataOK'
        BY <1>1, UnchangedTyped DEF Interrupt
    <2>2. PcOK' /\ ControlOK' /\ ClockInv'
        BY <1>1 DEF Interrupt, Finish, TypeOK, PcOK, ControlOK, ClockInv, InTick,
                    InUnit, env, cursor
    <2> QED
        BY <2>1, <2>2 DEF TypeOK
<1>2. CASE RequestStop
    <2>1. /\ EnvOK' /\ StoreOK' /\ PcOK' /\ CursorOK' /\ HealthOK'
          /\ DataOK'
        BY <1>2, UnchangedTyped DEF RequestStop
    <2>2. ControlOK' /\ ClockInv'
        BY <1>2 DEF RequestStop, TypeOK, ControlOK, ClockInv, InTick, InUnit,
                    env, cursor
    <2> QED
        BY <2>1, <2>2 DEF TypeOK
<1>3. CASE Kill
    <2>1. EnvOK' /\ StoreOK' /\ CursorOK'
        BY <1>3, UnchangedTyped, LeaveTickTyped DEF Kill
    <2>2. HealthOK'
        <3>1. NewUnit \in UnitState /\ NewStep \in StepState
            BY DEF NewUnit, NewStep, UnitState, StepState, UnitStatuses,
                   StepStatuses, None
        <3> QED
            BY <1>3, <3>1 DEF Kill, HealthOK, NewUnits, NewSteps, NothingSpent
    <2>3. DataOK'
        BY <1>3 DEF Kill, DataOK, NewSeries, SeriesTypes, ApiTypes, None
    <2>4. PcOK' /\ ControlOK' /\ ClockInv'
        BY <1>3 DEF Kill, TypeOK, PcOK, ControlOK, ClockInv, InTick, InUnit, env
    <2> QED
        BY <2>1, <2>2, <2>3, <2>4 DEF TypeOK
<1>4. CASE Restart
    <2>1. EnvOK' /\ StoreOK' /\ CursorOK' /\ HealthOK' /\ DataOK'
        BY <1>4, UnchangedTyped DEF Restart
    <2>2. PcOK' /\ ControlOK' /\ ClockInv'
        BY <1>4 DEF Restart, TypeOK, EnvOK, PcOK, ControlOK, ClockInv, InTick,
                    InUnit, env
    <2> QED
        BY <2>1, <2>2 DEF TypeOK
<1>5. CASE Advance
    <2>1. /\ StoreOK' /\ PcOK' /\ CursorOK' /\ HealthOK' /\ DataOK'
          /\ ControlOK'
        BY <1>5, UnchangedTyped DEF Advance
    <2>2. EnvOK' /\ clock \in Nat /\ clock' = clock + 1
        BY <1>5 DEF Advance, TypeOK, EnvOK
    <2>3. ClockInv'
        BY <1>5, <2>2, MonitorAssumption
           DEF Advance, TypeOK, CursorOK, ClockInv, InTick, InUnit, cursor
    <2> QED
        BY <2>1, <2>2, <2>3 DEF TypeOK
<1>6. ASSUME NEW s \in Series, Deliver(s) PROVE TypeInv'
    <2>1. /\ StoreOK' /\ PcOK' /\ CursorOK' /\ HealthOK' /\ DataOK'
          /\ ControlOK'
        BY <1>6, UnchangedTyped DEF Deliver
    <2>2. EnvOK'
        <3>1. delivered[s] + Length[s] \in Nat
            BY MonitorAssumption DEF TypeOK, EnvOK
        <3> QED
            BY <1>6, <3>1 DEF Deliver, TypeOK, EnvOK
    <2>3. ClockInv'
        BY <1>6 DEF Deliver, ClockInv, InTick, InUnit, cursor
    <2> QED
        BY <2>1, <2>2, <2>3 DEF TypeOK
<1> QED
    BY <1>1, <1>2, <1>3, <1>4, <1>5, <1>6

LEMMA NextTyped == TypeInv /\ [Next]_vars => TypeInv'
<1>1. ASSUME TypeInv, UNCHANGED vars PROVE TypeInv'
    <2>1. /\ EnvOK' /\ StoreOK' /\ PcOK' /\ CursorOK' /\ HealthOK' /\ DataOK'
          /\ ControlOK'
        BY <1>1, UnchangedTyped DEF TypeInv, vars
    <2>2. ClockInv'
        BY <1>1 DEF TypeInv, ClockInv, InTick, InUnit, vars, env, cursor
    <2> QED
        BY <2>1, <2>2 DEF TypeInv, TypeOK
<1> QED
    BY <1>1, LoopTyped, UnitTyped, AroundTyped DEF Next

\* The monitor is type correct: every variable of the code stays in the domain
\* that the dataclasses of health.py and the loop of runtime.py give it.
THEOREM TypeCorrect == Spec => []TypeOK
<1>1. TypeInv => TypeOK
    BY DEF TypeInv
<1> QED
    BY <1>1, InitTyped, NextTyped, PTL DEF Spec

-----------------------------------------------------------------------------
(* Safety, on top of the types. *)
LEMMA TypeInvariant == Spec => []TypeInv
BY InitTyped, NextTyped, PTL DEF Spec

-----------------------------------------------------------------------------
(* Marks. *)
Sync(s, b) ==
    \/ SyncSucceeds(s, b)
    \/ \E fault \in SyncFaults : SyncFails(s, b, fault)

LEMMA SyncMarks ==
    ASSUME TypeInv, MarkIsStored, NEW s \in Series, NEW b \in Nat, Sync(s, b)
    PROVE  MarkIsStored'
<1> SUFFICES ASSUME NEW r \in Series, series'[r].synced_through # None
             PROVE  series'[r].synced_through \in stored'[r]
    BY DEF MarkIsStored
<1>1. series \in [Series -> SeriesTypes] /\ stored \in [Series -> SUBSET Nat]
    BY DEF TypeInv, TypeOK, DataOK, StoreOK
<1>2. stored[r] \subseteq stored'[r]
    <2>1. UNCHANGED stored \/ Fetch(s, b)
        BY DEF Sync, SyncSucceeds, SyncFails
    <2> QED
        BY <2>1, FetchFacts DEF TypeInv
<1>3. series'[r].synced_through = series[r].synced_through
      => series'[r].synced_through \in stored'[r]
    BY <1>2 DEF MarkIsStored
<1>4. CASE r # s
    <2>1. series'[r] = series[r]
        BY <1>1, <1>4 DEF Sync, SyncSucceeds, SyncFails
    <2> QED
        BY <1>3, <2>1
<1>5. CASE r = s /\ SyncSucceeds(s, b)
    <2>1. CASE series' = series
        BY <1>3, <2>1
    <2>2. CASE /\ LocalComplete(s, b)
               /\ series' = [series EXCEPT ![s] =
                     [synced_through |-> Target(s, b), warmup_done |-> TRUE]]
        <3>1. 0 \in 0..(RequiredBars - 1)
            BY MonitorAssumption
        <3>2. Target(s, b) - 0 * Length[s] \in stored[s]
            BY <2>2, <3>1 DEF LocalComplete
        <3>3. Target(s, b) - 0 * Length[s] = Target(s, b)
            <4>1. Length[s] \in Nat \ {0}
                BY MonitorAssumption
            <4>2. Target(s, b) \in Nat
                BY <4>1, FloorFacts DEF Target
            <4> QED
                BY <4>1, <4>2
        <3>4. series'[s].synced_through = Target(s, b)
            BY <1>1, <2>2
        <3> QED
            BY <1>2, <1>5, <3>2, <3>3, <3>4
    <2>3. CASE \E c \in stored'[s] \cup {None} :
                  series' = [series EXCEPT ![s] =
                      [synced_through |-> c, warmup_done |-> TRUE]]
        BY <1>1, <1>5, <2>3
    <2> QED
        BY <1>5, <2>1, <2>2, <2>3 DEF SyncSucceeds
<1>6. CASE r = s /\ \E fault \in SyncFaults : SyncFails(s, b, fault)
    <2>1. series'[s].synced_through = series[s].synced_through
        BY <1>1, <1>6 DEF SyncFails, SeriesTypes
    <2> QED
        BY <1>3, <1>6, <2>1
<1> QED
    BY <1>4, <1>5, <1>6 DEF Sync

LEMMA MarksKept ==
    ASSUME MarkIsStored, UNCHANGED <<stored, series>>
    PROVE  MarkIsStored'
BY DEF MarkIsStored

\* _sync_series never moves the mark of a series past a bar that is not in the
\* database, through warm-up, restart, outage and half-finished backfills: the
\* shortcut "synchronised already" is sound for every set of series.
THEOREM MarksAreStored == Spec => []MarkIsStored
<1>1. Init => MarkIsStored
    BY DEF Init, MarkIsStored, NewSeries
<1>2. ASSUME TypeInv, MarkIsStored, [Next]_vars PROVE MarkIsStored'
    <2>1. CASE UNCHANGED vars
        BY <1>2, <2>1, MarksKept DEF vars, db, data
    <2>2. CASE TickStep \/ Wait \/ Interrupt \/ RequestStop \/ Restart \/ Advance
               \/ \E s \in Series : Deliver(s)
        <3>1. UNCHANGED <<stored, series>>
            BY <2>2 DEF TickStep, StartTick, SyncInstruments, LeaveVisits, EndTick,
               TickCrashed, CheckStop, Wait, Interrupt, RequestStop, Restart,
               Advance, Deliver, db, data
        <3> QED
            BY <1>2, <3>1, MarksKept
    <2>3. CASE Kill
        BY <2>3 DEF Kill, MarkIsStored, NewSeries
    <2>4. ASSUME NEW u \in Units, UnitStep(u) PROVE MarkIsStored'
        <3>1. CASE Visit(u) \/ Analyse(u) \/ StructureStep(u) \/ SetupStep(u)
            <4>1. UNCHANGED <<stored, series>>
                BY <3>1 DEF Visit, Analyse, StructureStep, SetupStep, db, data
            <4> QED
                BY <1>2, <4>1, MarksKept
        <3>2. job.as_of \in Nat /\ cx \in Nat \ {0}
            BY <1>2 DEF TypeInv, TypeOK, CursorOK
        <3>3. CASE SyncBase(u)
            <4>1. Base[u] \in Series
                BY MonitorAssumption
            <4>2. Sync(Base[u], job.as_of)
                BY <3>3 DEF SyncBase, Sync
            <4> QED
                BY <1>2, <3>2, <4>1, <4>2, SyncMarks
        <3>4. CASE SyncContext(u)
            <4>1. CASE cx > Len(Context[u])
                <5>1. Len(Context[u]) \in Nat
                    BY MonitorAssumption
                <5>2. UNCHANGED <<stored, series>>
                    BY <3>2, <3>4, <4>1, <5>1 DEF SyncContext
                <5> QED
                    BY <1>2, <5>2, MarksKept
            <4>2. CASE ~(cx > Len(Context[u]))
                <5>1. Sync(Context[u][cx], job.as_of)
                    BY <3>4, <4>2 DEF SyncContext, Sync
                <5>2. Context[u][cx] \in Series
                    BY <3>2, <4>2, MonitorAssumption
                <5> QED
                    BY <1>2, <3>2, <5>1, <5>2, SyncMarks
            <4> QED
                BY <4>1, <4>2
        <3> QED
            BY <2>4, <3>1, <3>3, <3>4 DEF UnitStep
    <2> QED
        BY <1>2, <2>1, <2>2, <2>3, <2>4 DEF Next
<1> QED
    BY <1>1, <1>2, TypeInvariant, PTL DEF Spec

-----------------------------------------------------------------------------
(* The truth of "ok". *)
LEMMA RecordOk ==
    ASSUME TypeInv, OkIsPersisted, NEW u \in Units, NEW status \in Outcomes,
           Record(u, status), regimes \subseteq regimes',
           status = "ok" => <<u, job.as_of, "valid">> \in regimes'
    PROVE  OkIsPersisted'
<1> SUFFICES ASSUME NEW v \in Units, unit'[v].last_ok_as_of # None
             PROVE  <<v, unit'[v].last_ok_as_of, "valid">> \in regimes'
    BY DEF OkIsPersisted
<1>1. /\ unit \in [Units -> UnitState] /\ unit[u] \in UnitState
      /\ job.as_of \in Nat /\ now \in Nat
    BY DEF TypeInv, TypeOK, HealthOK, CursorOK
<1>2. CASE v # u
    BY <1>1, <1>2 DEF Record, OkIsPersisted
<1>3. CASE v = u
    <2>1. unit'[u] = Applied(unit[u], status, job.as_of, now)
        BY <1>1 DEF Record
    <2>2. OutcomeCounted(unit[u], status, job.as_of, unit'[u])
        BY <1>1, <2>1, AppliedFacts
    <2>3. unit'[u].last_ok_as_of =
              IF status = "ok" THEN job.as_of ELSE unit[u].last_ok_as_of
        BY <2>2 DEF OutcomeCounted
    <2> QED
        BY <1>3, <2>3 DEF OkIsPersisted
<1> QED
    BY <1>2, <1>3

LEMMA OkKept ==
    ASSUME OkIsPersisted, UNCHANGED <<unit, regimes>>
    PROVE  OkIsPersisted'
BY DEF OkIsPersisted

\* _process and _apply: a unit is "ok" for a bar only after the valid snapshot
\* of that bar is in the database, so the health report never runs ahead of
\* what a restart would find.
THEOREM OkIsTrue == Spec => []OkIsPersisted
<1>1. Init => OkIsPersisted
    BY DEF Init, OkIsPersisted, NewUnits, NewUnit
<1>2. ASSUME TypeInv, OkIsPersisted, [Next]_vars PROVE OkIsPersisted'
    <2>1. CASE UNCHANGED vars
        BY <1>2, <2>1, OkKept DEF vars, db, health
    <2>2. CASE \/ StartTick \/ LeaveVisits \/ EndTick \/ TickCrashed \/ CheckStop
               \/ Wait \/ Interrupt \/ RequestStop \/ Restart \/ Advance
               \/ \E s \in Series : Deliver(s)
        <3>1. UNCHANGED <<unit, regimes>>
            BY <2>2 DEF StartTick, LeaveVisits, EndTick, TickCrashed, CheckStop,
               Wait, Interrupt, RequestStop, Restart, Advance, Deliver, db, health
        <3> QED
            BY <1>2, <3>1, OkKept
    <2>3. CASE SyncInstruments
        <3>1. /\ regimes' = regimes
              /\ \A u \in Units : unit'[u].last_ok_as_of = unit[u].last_ok_as_of
            BY <1>2, <2>3
               DEF SyncInstruments, TypeInv, TypeOK, HealthOK, UnitState, db
        <3> QED
            BY <1>2, <3>1 DEF OkIsPersisted
    <2>4. CASE Kill
        BY <2>4 DEF Kill, OkIsPersisted, NewUnits, NewUnit
    <2>5. ASSUME NEW u \in Units, UnitStep(u) PROVE OkIsPersisted'
        <3>1. CASE Visit(u) \/ SyncContext(u) \/ StructureStep(u) \/ SetupStep(u)
            <4>1. UNCHANGED <<unit, regimes>>
                BY <3>1 DEF Visit, SyncContext, StructureStep, SetupStep, db, health
            <4> QED
                BY <1>2, <4>1, OkKept
        <3>2. CASE SyncBase(u)
            <4>1. CASE UNCHANGED <<unit, regimes>>
                BY <1>2, <4>1, OkKept
            <4>2. CASE \E fault \in SyncFaults : Record(u, fault)
                <5>1. PICK fault \in SyncFaults : Record(u, fault)
                    BY <4>2
                <5>2. fault \in Outcomes /\ fault # "ok"
                    BY MonitorAssumption DEF Outcomes, RetryableStatuses, SyncStatuses
                <5>3. regimes' = regimes
                    BY <3>2 DEF SyncBase
                <5> QED
                    BY <1>2, <5>1, <5>2, <5>3, RecordOk
            <4> QED
                BY <3>2, <4>1, <4>2 DEF SyncBase
        <3>3. CASE Analyse(u)
            <4>1. CASE ReadRaises
                BY <1>2, <4>1, OkKept DEF ReadRaises
            <4>2. CASE BarMissing(u) \/ EngineRaises(u) \/ SaveRaises(u)
                <5>1. PICK status \in Outcomes \ {"ok"} : Record(u, status)
                    BY <4>2 DEF BarMissing, EngineRaises, SaveRaises, Outcomes,
                                RetryableStatuses, FinalStatuses
                <5>2. regimes' = regimes
                    BY <4>2 DEF BarMissing, EngineRaises, SaveRaises
                <5> QED
                    BY <1>2, <5>1, <5>2, RecordOk
            <4>3. CASE Classified(u)
                <5>1. PICK q \in Qualities(Base[u], job.as_of) :
                         /\ regimes' = regimes \cup {<<u, job.as_of, q>>}
                         /\ Record(u, StatusFor(q))
                    BY <4>3 DEF Classified
                <5>2. /\ StatusFor(q) \in Outcomes
                      /\ StatusFor(q) = "ok" => q = "valid"
                    BY DEF StatusFor, Outcomes, FinalStatuses
                <5> QED
                    BY <1>2, <5>1, <5>2, RecordOk
            <4> QED
                BY <3>3, <4>1, <4>2, <4>3 DEF Analyse
        <3> QED
            BY <2>5, <3>1, <3>2, <3>3 DEF UnitStep
    <2> QED
        BY <1>2, <2>1, <2>2, <2>3, <2>4, <2>5 DEF Next, TickStep
<1> QED
    BY <1>1, <1>2, TypeInvariant, PTL DEF Spec

-----------------------------------------------------------------------------
(* The budget of attempts.  Time only moves forward, so the bar of a unit    *)
(* does too: the attempts of the newest bar are those the unit counts, no    *)
(* later bar has any, and an older or finished bar gets none again.          *)
LastClosed(u) == Floor(clock - Grace, Length[Base[u]])

BarBudget(u, b) ==
    /\ spent[u][b] <= UnitMaxAttempts
    /\ b > unit[u].attempt_bar => spent[u][b] = 0
    /\ (b = unit[u].attempt_bar /\ b # unit[u].last_processed_as_of)
          => spent[u][b] = unit[u].attempts_for_bar

UnitBudget(u) ==
    /\ unit[u].attempts_for_bar < UnitMaxAttempts
    /\ unit[u].attempt_bar <= LastClosed(u)
    /\ InTick => unit[u].attempt_bar <= Expected(u)
    /\ \A b \in 1..MaxTime : BarBudget(u, b)

InAttempt == pc \in {"base", "context", "analyse"}

JobInv ==
    InAttempt => /\ job.as_of = Expected(at)
                 /\ job.as_of # unit[at].last_processed_as_of

BudgetInv == (\A u \in Units : UnitBudget(u)) /\ JobInv

LEMMA LastClosedType ==
    ASSUME TypeInv, NEW u \in Units
    PROVE  /\ LastClosed(u) \in Nat
           /\ InTick => Expected(u) \in Nat /\ Expected(u) <= LastClosed(u)
<1>1. Base[u] \in Series /\ Length[Base[u]] \in Nat \ {0}
    BY MonitorAssumption
<1>2. clock - Grace \in Nat
    BY <1>1, MonitorAssumption DEF TypeInv, TypeOK, EnvOK, ClockInv
<1>3. ASSUME InTick PROVE now - Grace \in Nat /\ now - Grace <= clock - Grace
    BY <1>1, <1>3, MonitorAssumption
       DEF TypeInv, TypeOK, EnvOK, CursorOK, ClockInv
<1> QED
    BY <1>1, <1>2, <1>3, FloorFacts, FloorMonotone DEF LastClosed, Expected

(* A step that changes no count, while time may pass or a tick may start. *)
LEMMA BudgetKept ==
    ASSUME TypeInv, TypeInv', BudgetInv, UNCHANGED spent,
           \A u \in Units :
              /\ unit'[u].attempt_bar = unit[u].attempt_bar
              /\ unit'[u].attempts_for_bar = unit[u].attempts_for_bar
              /\ unit'[u].last_processed_as_of = unit[u].last_processed_as_of,
           clock <= clock',
           InTick' => (InTick /\ now' = now) \/ now' = clock',
           JobInv'
    PROVE  BudgetInv'
<1> SUFFICES ASSUME NEW u \in Units PROVE UnitBudget(u)'
    BY DEF BudgetInv
<1>1. UnitBudget(u)
    BY DEF BudgetInv
<1>2. Base[u] \in Series /\ Length[Base[u]] \in Nat \ {0}
    BY MonitorAssumption
<1>3. clock - Grace \in Nat /\ clock' - Grace \in Nat /\ Grace \in Nat
      /\ clock \in Nat /\ clock' \in Nat
    <2>1. clock \in Nat /\ clock' \in Nat /\ StartTime <= clock /\ StartTime <= clock'
        BY DEF TypeInv, TypeOK, EnvOK, ClockInv
    <2>2. Grace \in Nat /\ StartTime \in Nat /\ StartTime >= Grace + Length[Base[u]]
        BY <1>2, MonitorAssumption
    <2>3. \A c, t, g, l \in Nat : t >= g + l /\ t <= c => c - g \in Nat
        OBVIOUS
    <2> QED
        BY <1>2, <2>1, <2>2, <2>3
<1>4. LastClosed(u) \in Nat /\ LastClosed(u)' \in Nat
      /\ LastClosed(u) <= LastClosed(u)'
    BY <1>2, <1>3, FloorFacts, FloorMonotone DEF LastClosed
<1>5. unit[u].attempt_bar \in Nat
    BY DEF TypeInv, TypeOK, HealthOK, UnitState
<1>6. unit'[u].attempt_bar <= LastClosed(u)'
    BY <1>1, <1>4, <1>5 DEF UnitBudget
<1>7. ASSUME InTick' PROVE unit'[u].attempt_bar <= Expected(u)'
    <2>1. CASE InTick /\ now' = now
        BY <1>1, <2>1 DEF UnitBudget, Expected
    <2>2. CASE now' = clock'
        BY <1>6, <2>2 DEF Expected, LastClosed
    <2> QED
        BY <1>7, <2>1, <2>2
<1>8. \A b \in 1..MaxTime : BarBudget(u, b)'
    BY <1>1 DEF UnitBudget, BarBudget
<1> QED
    BY <1>1, <1>6, <1>7, <1>8 DEF UnitBudget

(* An attempt that ends is counted against its bar. *)
LEMMA BudgetRecorded ==
    ASSUME TypeInv, TypeInv', BudgetInv, NEW u \in Units, at = u, InAttempt,
           NEW status \in Outcomes, Record(u, status),
           UNCHANGED <<clock, now>>, ~InAttempt'
    PROVE  BudgetInv'
<1> SUFFICES ASSUME NEW v \in Units PROVE UnitBudget(v)'
    BY DEF BudgetInv, JobInv
<1> DEFINE b == job.as_of
           r == unit[u]
           w == Applied(r, status, b, now)
           n == Counted(r, b)
<1>1. /\ unit \in [Units -> UnitState] /\ r \in UnitState
      /\ b \in Nat /\ now \in Nat
      /\ spent \in [Units -> [1..MaxTime -> Nat]]
    BY DEF TypeInv, TypeOK, HealthOK, CursorOK
<1>2. UnitBudget(u) /\ UnitBudget(v)
    BY DEF BudgetInv
<1>3. b = Expected(u) /\ b # r.last_processed_as_of /\ InTick
    BY DEF BudgetInv, JobInv, InAttempt, InTick
<1>4. b <= LastClosed(u) /\ r.attempt_bar <= b
    BY <1>2, <1>3, LastClosedType DEF UnitBudget
<1>5. Expected(v)' = Expected(v) /\ LastClosed(v)' = LastClosed(v)
    BY DEF Expected, LastClosed
<1>6. CASE v # u
    <2>1. unit'[v] = unit[v]
        BY <1>1, <1>6 DEF Record
    <2>2. spent'[v] = spent[v]
        BY <1>1, <1>6 DEF Record
    <2>3. InTick
        BY <1>3
    <2> QED
        BY <1>2, <1>5, <2>1, <2>2, <2>3 DEF UnitBudget, BarBudget
<1>7. CASE v = u
    <2>1. unit'[u] = w
        BY <1>1 DEF Record
    <2>2. OutcomeCounted(r, status, b, w)
        BY <1>1, AppliedFacts
    <2> HIDE DEF w
    <2>3. n \in Nat /\ n < UnitMaxAttempts /\ UnitMaxAttempts \in Nat
        BY <1>1, <1>2, ConfigAssumption DEF UnitBudget, UnitState, Counted
    <2>4. w.attempts_for_bar < UnitMaxAttempts
        BY <2>2, <2>3 DEF OutcomeCounted
    <2>5. ASSUME NEW c \in 1..MaxTime PROVE BarBudget(u, c)'
        <3>1. BarBudget(u, c) /\ spent[u][c] \in Nat /\ r.attempt_bar \in Nat
            BY <1>1, <1>2 DEF UnitBudget, UnitState
        <3>2. CASE c # b
            <4>1. spent'[u][c] = spent[u][c]
                BY <1>1, <3>2 DEF Record
            <4>2. c > b => c > r.attempt_bar
                BY <1>1, <1>4, <3>1
            <4> QED
                BY <2>1, <2>2, <3>1, <3>2, <4>1, <4>2
                   DEF BarBudget, OutcomeCounted
        <3>3. CASE c = b
            <4>1. spent[u][c] = n
                <5>1. CASE r.attempt_bar = b
                    BY <1>3, <3>1, <3>3, <5>1 DEF BarBudget, Counted
                <5>2. CASE r.attempt_bar # b
                    BY <1>1, <1>4, <3>1, <3>3, <5>2 DEF BarBudget, Counted
                <5> QED
                    BY <5>1, <5>2
            <4>2. spent'[u][c] = IF status \in RetryableStatuses THEN n + 1 ELSE n
                BY <1>1, <3>1, <3>3, <4>1 DEF Record
            <4> HIDE DEF n
            <4>3. spent'[u][c] <= UnitMaxAttempts
                BY <2>3, <4>2
            <4>4. c # w.last_processed_as_of => spent'[u][c] = w.attempts_for_bar
                BY <2>2, <3>3, <4>2 DEF OutcomeCounted, n
            <4>5. ~(c > w.attempt_bar)
                BY <1>1, <2>2, <3>3 DEF OutcomeCounted
            <4> QED
                BY <2>1, <4>3, <4>4, <4>5 DEF BarBudget
        <3> QED
            BY <3>2, <3>3
    <2>6. w.attempt_bar <= LastClosed(u) /\ w.attempt_bar <= Expected(u)
        BY <1>1, <1>3, <1>4, <2>2 DEF OutcomeCounted
    <2> QED
        <3>1. /\ unit'[u].attempts_for_bar < UnitMaxAttempts
              /\ unit'[u].attempt_bar <= LastClosed(u)'
              /\ unit'[u].attempt_bar <= Expected(u)'
            BY <1>5, <1>7, <2>1, <2>4, <2>6
        <3>2. \A c \in 1..MaxTime : BarBudget(u, c)'
            BY <2>5
        <3> QED
            BY <1>7, <3>1, <3>2 DEF UnitBudget
<1> QED
    BY <1>6, <1>7

(* The bar of an attempt is the one the tick expects, and every count fits.  *)
LEMMA BudgetInvariant == Spec => []BudgetInv
<1>1. ASSUME Init PROVE BudgetInv
    <2>1. TypeInv
        BY <1>1, InitTyped
    <2>2. ASSUME NEW u \in Units PROVE UnitBudget(u)
        <3>1. /\ unit[u].attempt_bar = 0 /\ unit[u].attempts_for_bar = 0
              /\ \A b \in 1..MaxTime : spent[u][b] = 0
            BY <1>1 DEF Init, NewUnits, NewUnit, NothingSpent, None
        <3>2. LastClosed(u) \in Nat /\ ~InTick
            BY <1>1, <2>1, LastClosedType DEF Init, InTick
        <3> QED
            BY <3>1, <3>2, ConfigAssumption DEF UnitBudget, BarBudget
    <2> QED
        BY <1>1, <2>2 DEF BudgetInv, JobInv, InAttempt, Init
<1>2. ASSUME TypeInv, TypeInv', BudgetInv, [Next]_vars PROVE BudgetInv'
    <2> USE <1>2
    <2>0. clock \in Nat
        BY DEF TypeInv, TypeOK, EnvOK
    <2>1. CASE UNCHANGED vars
        <3>1. JobInv'
            BY <2>1 DEF BudgetInv, JobInv, InAttempt, Expected, vars, cursor, health
        <3> QED
            BY <2>0, <2>1, <3>1, BudgetKept
               DEF vars, env, cursor, health, InTick
    <2>2. CASE StartTick \/ LeaveVisits \/ EndTick \/ TickCrashed \/ CheckStop
        <3>1. JobInv'
            BY <2>2 DEF StartTick, LeaveVisits, EndTick, TickCrashed, CheckStop,
                        Finish, JobInv, InAttempt
        <3>2. UNCHANGED <<clock, unit, spent>>
            BY <2>2 DEF StartTick, LeaveVisits, EndTick, TickCrashed, CheckStop,
                        env, health
        <3>3. InTick' => (InTick /\ now' = now) \/ now' = clock'
            BY <2>2 DEF StartTick, LeaveVisits, EndTick, TickCrashed, CheckStop,
                        Finish, InTick, env, cursor
        <3> QED
            BY <2>0, <3>1, <3>2, <3>3, BudgetKept
    <2>3. CASE SyncInstruments
        <3>1. \A u \in Units :
                 /\ unit'[u].attempt_bar = unit[u].attempt_bar
                 /\ unit'[u].attempts_for_bar = unit[u].attempts_for_bar
                 /\ unit'[u].last_processed_as_of = unit[u].last_processed_as_of
            BY <2>3 DEF SyncInstruments, TypeInv, TypeOK, HealthOK, UnitState
        <3>2. JobInv' /\ UNCHANGED <<clock, now, spent>> /\ InTick
            BY <2>3 DEF SyncInstruments, JobInv, InAttempt, InTick, env, cursor
        <3> QED
            BY <2>0, <3>1, <3>2, BudgetKept
    <2>4. CASE Wait \/ Restart \/ RequestStop \/ Interrupt \/ Advance
               \/ \E s \in Series : Deliver(s)
        <3>1. UNCHANGED <<now, at, job, unit, spent>> /\ clock <= clock'
            BY <2>0, <2>4, MonitorAssumption
               DEF Wait, Restart, RequestStop, Interrupt, Advance, Deliver, env,
                   cursor, health
        <3>2. (InTick' => InTick) /\ (InAttempt' => InAttempt)
            BY <2>4 DEF Wait, Restart, RequestStop, Interrupt, Advance, Deliver,
                        Finish, InTick, InAttempt
        <3>3. JobInv'
            BY <3>1, <3>2 DEF BudgetInv, JobInv, Expected
        <3> QED
            BY <3>1, <3>2, <3>3, BudgetKept
    <2>5. CASE Kill
        <3>1. ASSUME NEW u \in Units PROVE UnitBudget(u)'
            <4>1. /\ unit'[u].attempt_bar = 0 /\ unit'[u].attempts_for_bar = 0
                  /\ \A b \in 1..MaxTime : spent'[u][b] = 0
                BY <2>5 DEF Kill, NewUnits, NewUnit, NothingSpent, None
            <4>2. LastClosed(u)' \in Nat /\ ~InTick'
                BY <2>5, LastClosedType DEF Kill, InTick, LastClosed, env
            <4> QED
                BY <4>1, <4>2, ConfigAssumption DEF UnitBudget, BarBudget
        <3> QED
            BY <2>5, <3>1 DEF BudgetInv, JobInv, InAttempt, Kill
    <2>6. ASSUME NEW u \in Units, UnitStep(u) PROVE BudgetInv'
        <3>1. InTick /\ UNCHANGED <<clock, now>>
            BY <2>6 DEF UnitStep, Visit, SyncBase, SyncContext, Analyse,
               StructureStep, SetupStep, InTick, env, cursor, BarMissing,
               EngineRaises, SaveRaises, Classified, ReadRaises, AfterRegime,
               NextUnit, Goto
        <3>2. ASSUME UNCHANGED <<unit, spent>>, JobInv' PROVE BudgetInv'
            BY <2>0, <3>1, <3>2, BudgetKept
        <3>3. CASE Visit(u)
            <4>1. UNCHANGED <<unit, spent>>
                BY <3>3 DEF Visit, health
            <4>2. JobInv'
                BY <3>1, <3>3, <4>1
                   DEF Visit, NextUnit, Goto, JobInv, InAttempt, Expected
            <4> QED
                BY <3>2, <4>1, <4>2
        <3>4. CASE SyncBase(u)
            <4>1. CASE pc' = "context" /\ UNCHANGED <<cursor, unit, spent>>
                <5>1. JobInv'
                    BY <3>4, <4>1
                       DEF SyncBase, BudgetInv, JobInv, InAttempt, Expected, cursor
                <5> QED
                    BY <3>2, <4>1, <5>1
            <4>2. CASE NextUnit /\ \E fault \in SyncFaults : Record(u, fault)
                <5>1. PICK fault \in Outcomes : Record(u, fault)
                    BY <4>2, MonitorAssumption DEF Outcomes, SyncStatuses, RetryableStatuses
                <5>2. at = u /\ InAttempt /\ ~InAttempt'
                    BY <3>4, <4>2 DEF SyncBase, NextUnit, InAttempt
                <5> QED
                    BY <3>1, <5>1, <5>2, BudgetRecorded
            <4> QED
                BY <3>4, <4>1, <4>2 DEF SyncBase
        <3>5. CASE SyncContext(u)
            <4>1. UNCHANGED <<unit, spent>>
                BY <3>5 DEF SyncContext, health
            <4>2. JobInv'
                BY <3>5, <4>1 DEF SyncContext, BudgetInv, JobInv, InAttempt, Expected
            <4> QED
                BY <3>2, <4>1, <4>2
        <3>6. CASE Analyse(u)
            <4>1. CASE ReadRaises
                <5>1. JobInv'
                    BY <4>1 DEF ReadRaises, JobInv, InAttempt
                <5> QED
                    BY <3>2, <4>1, <5>1 DEF ReadRaises
            <4>2. CASE ~ReadRaises
                <5>1. PICK status \in Outcomes : Record(u, status)
                    BY <3>6, <4>2
                       DEF Analyse, BarMissing, EngineRaises, SaveRaises,
                           Classified, StatusFor, Outcomes, RetryableStatuses,
                           FinalStatuses
                <5>2. at = u /\ InAttempt /\ ~InAttempt'
                    BY <3>6, <4>2
                       DEF Analyse, BarMissing, EngineRaises, SaveRaises,
                           Classified, AfterRegime, NextUnit, Goto, InAttempt
                <5> QED
                    BY <3>1, <5>1, <5>2, BudgetRecorded
            <4> QED
                BY <4>1, <4>2
        <3>7. CASE StructureStep(u) \/ SetupStep(u)
            <4>1. UNCHANGED <<unit, spent>> /\ JobInv'
                BY <3>7 DEF StructureStep, SetupStep, NextUnit, Goto, JobInv,
                            InAttempt
            <4> QED
                BY <3>2, <4>1
        <3> QED
            BY <2>6, <3>3, <3>4, <3>5, <3>6, <3>7 DEF UnitStep
    <2> QED
        BY <2>1, <2>2, <2>3, <2>4, <2>5, <2>6 DEF Next, TickStep
<1> QED
    BY <1>1, <1>2, TypeInvariant, PTL DEF Spec

\* _apply counts at most unit_max_attempts failed attempts for any bar of any
\* unit in one run, although the count is kept for one bar only and is reset
\* whenever the bar changes, is finished or is given up: it is enough because
\* the clock of a run does not go back.
THEOREM AttemptsAreBounded == Spec => []AttemptBudget
<1>1. BudgetInv => AttemptBudget
    BY DEF BudgetInv, UnitBudget, BarBudget, AttemptBudget
<1> QED
    BY <1>1, BudgetInvariant, PTL

-----------------------------------------------------------------------------
(* No unit is starved.  Every unit the tick has passed is covered, and the   *)
(* unit of a snapshot is while its steps run.                                *)
CoverInv ==
    /\ pc = "instruments" => at = 1
    /\ pc = "visit" \/ InUnit => \A u \in Units : u < at => Covered(u)
    /\ pc \in {"structure", "setup"} => \A u \in Units : u = at => Covered(u)
    /\ TickCoversUnits

LEMMA CoverKept ==
    ASSUME UNCHANGED <<unit, now, disabled>>
    PROVE  \A u \in Units : Covered(u)' <=> Covered(u)
BY DEF Covered, Expected, InBackoff

(* An attempt that ends covers its unit and disturbs no other.               *)
LEMMA RecordCovers ==
    ASSUME TypeInv, BudgetInv, NEW u \in Units, at = u, InAttempt,
           NEW status \in Outcomes, Record(u, status), UNCHANGED <<now, disabled>>
    PROVE  Covered(u)' /\ \A v \in Units : v # u => (Covered(v)' <=> Covered(v))
<1>1. /\ unit \in [Units -> UnitState] /\ unit[u] \in UnitState
      /\ job.as_of \in Nat /\ now \in Nat
    BY DEF TypeInv, TypeOK, HealthOK, CursorOK
<1>2. unit'[u] = Applied(unit[u], status, job.as_of, now)
      /\ \A v \in Units : v # u => unit'[v] = unit[v]
    BY <1>1 DEF Record
<1>3. unit'[u].attempt_bar = job.as_of
    BY <1>1, <1>2, AppliedFacts DEF OutcomeCounted
<1>4. job.as_of = Expected(u) /\ Expected(u)' = Expected(u)
    BY DEF BudgetInv, JobInv, Expected
<1> QED
    BY <1>2, <1>3, <1>4 DEF Covered, Expected, InBackoff

(* A step of unit u: nothing before it changes, and it is covered when the   *)
(* visit goes on.                                                           *)
LEMMA UnitStepCovers ==
    ASSUME TypeInv, BudgetInv, CoverInv, NEW u \in Units, UnitStep(u)
    PROVE  CoverInv'
<1>1. at = u /\ u \in 1..N /\ N \in Nat /\ UNCHANGED <<now, disabled, stop_flag>>
      /\ (pc = "visit" \/ InUnit)
    BY MonitorAssumption
       DEF UnitStep, Visit, SyncBase, SyncContext, Analyse, StructureStep, SetupStep,
           BarMissing, EngineRaises, SaveRaises, Classified, ReadRaises, AfterRegime,
           NextUnit, Goto, Units, data, control, InUnit, cursor
<1>2. ASSUME \A v \in Units : v # u => (Covered(v)' <=> Covered(v)), Covered(u)',
             \/ pc' = "visit" /\ at' = u + 1
             \/ pc' \in {"structure", "setup"} /\ at' = at
      PROVE  CoverInv'
    <2>1. \A v \in Units : v < at' => v < at \/ v = u
        BY <1>1, <1>2 DEF Units
    <2>2. \A v \in Units : v < at' => Covered(v)'
        BY <1>1, <1>2, <2>1 DEF CoverInv
    <2>3. pc' \notin {"instruments", "end"}
        BY <1>2
    <2>4. pc' \in {"structure", "setup"} => at' = u
        BY <1>1, <1>2
    <2> QED
        BY <1>2, <2>2, <2>3, <2>4 DEF CoverInv, TickCoversUnits
<1>3. ASSUME \A v \in Units : Covered(v)' <=> Covered(v), at' = at,
             pc' \in {"base", "context", "analyse", "crashed"}
      PROVE  CoverInv'
    BY <1>1, <1>3 DEF CoverInv, TickCoversUnits, InUnit
<1>4. CASE Visit(u)
    <2>1. unit' = unit
        BY <1>4 DEF Visit, health
    <2>2. \A v \in Units : Covered(v)' <=> Covered(v)
        BY <1>1, <2>1, CoverKept
    <2>3. \/ pc' = "base" /\ at' = at
          \/ /\ Covered(u)
             /\ \/ pc' = "visit" /\ at' = u + 1
                \/ pc' \in {"structure", "setup"} /\ at' = at
        BY <1>4 DEF Visit, NextUnit, Goto, Covered
    <2> QED
        BY <1>2, <1>3, <2>2, <2>3
<1>5. CASE SyncBase(u)
    <2>1. CASE pc' = "context" /\ UNCHANGED <<cursor, unit, spent>>
        BY <1>1, <1>3, <2>1, CoverKept DEF cursor
    <2>2. CASE NextUnit /\ \E fault \in SyncFaults : Record(u, fault)
        <3>1. PICK fault \in Outcomes : Record(u, fault)
            BY <2>2, MonitorAssumption DEF Outcomes, SyncStatuses, RetryableStatuses
        <3>2. InAttempt
            BY <1>5 DEF SyncBase, InAttempt
        <3> QED
            BY <1>1, <1>2, <2>2, <3>1, <3>2, RecordCovers DEF NextUnit
    <2> QED
        BY <1>5, <2>1, <2>2 DEF SyncBase
<1>6. CASE SyncContext(u)
    <2>1. unit' = unit /\ at' = at /\ pc' \in {"context", "analyse"}
        BY <1>6 DEF SyncContext, health
    <2> QED
        BY <1>1, <1>3, <2>1, CoverKept
<1>7. CASE Analyse(u)
    <2>1. CASE ReadRaises
        BY <1>1, <1>3, <2>1, CoverKept DEF ReadRaises, cursor
    <2>2. CASE ~ReadRaises
        <3>1. PICK status \in Outcomes : Record(u, status)
            BY <1>7, <2>2
               DEF Analyse, BarMissing, EngineRaises, SaveRaises, Classified, StatusFor,
                   Outcomes, RetryableStatuses, FinalStatuses
        <3>2. InAttempt
            BY <1>7 DEF Analyse, InAttempt
        <3>3. \/ pc' = "visit" /\ at' = u + 1
              \/ pc' \in {"structure", "setup"} /\ at' = at
            BY <1>1, <1>7, <2>2
               DEF Analyse, BarMissing, EngineRaises, SaveRaises, Classified, AfterRegime,
                   NextUnit, Goto
        <3> QED
            BY <1>1, <1>2, <3>1, <3>2, <3>3, RecordCovers
    <2> QED
        BY <2>1, <2>2
<1>8. CASE StructureStep(u) \/ SetupStep(u)
    <2>1. unit' = unit /\ Covered(u)
        BY <1>1, <1>8 DEF StructureStep, SetupStep, CoverInv
    <2>2. \/ pc' = "visit" /\ at' = u + 1
          \/ pc' \in {"structure", "setup"} /\ at' = at
        BY <1>1, <1>8 DEF StructureStep, SetupStep, NextUnit, Goto
    <2> QED
        BY <1>1, <1>2, <2>1, <2>2, CoverKept
<1> QED
    BY <1>4, <1>5, <1>6, <1>7, <1>8 DEF UnitStep

\* A tick that neither crashed nor was told to stop leaves no enabled unit
\* without a reason: its bar is done, counted as an attempt, or the unit backs
\* off, however the units before it failed (tick, _visit).
THEOREM NoUnitIsStarved == Spec => []TickCoversUnits
<1>1. Init => CoverInv
    BY DEF Init, CoverInv, TickCoversUnits, InUnit
<1>2. ASSUME TypeInv, BudgetInv, CoverInv, [Next]_vars PROVE CoverInv'
    <2>1. CASE UNCHANGED vars
        <3>1. UNCHANGED <<pc, at, stop_flag, unit, now, disabled>>
            BY <2>1 DEF vars, cursor, health, data, control
        <3> QED
            BY <1>2, <3>1, CoverKept DEF CoverInv, TickCoversUnits, InUnit
    <2>2. CASE LeaveVisits
        <3>1. UNCHANGED <<unit, now, disabled, stop_flag>>
              /\ (at > N \/ stop_flag) /\ pc = "visit" /\ pc' = "end"
            BY <2>2 DEF LeaveVisits, cursor, health, data, control
        <3>2. at > N => \A u \in Units : u < at
            BY <1>2, MonitorAssumption DEF Units, TypeInv, TypeOK, CursorOK
        <3> QED
            BY <1>2, <3>1, <3>2, CoverKept DEF CoverInv, TickCoversUnits, InUnit
    <2>3. CASE StartTick \/ SyncInstruments
        <3>1. at' = 1 /\ pc' \in {"instruments", "visit"}
            BY <1>2, <2>3 DEF StartTick, SyncInstruments, CoverInv, cursor
        <3>2. \A u \in Units : ~(u < 1)
            BY MonitorAssumption DEF Units
        <3> QED
            BY <3>1, <3>2 DEF CoverInv, TickCoversUnits, InUnit
    <2>4. CASE EndTick \/ TickCrashed \/ CheckStop \/ Wait \/ Kill \/ Restart
        BY <2>4 DEF EndTick, TickCrashed, CheckStop, Wait, Kill, Restart, Finish,
                    CoverInv, TickCoversUnits, InUnit
    <2>5. CASE Interrupt
        <3>1. CASE pc' = "done"
            BY <3>1 DEF CoverInv, TickCoversUnits, InUnit
        <3>2. CASE pc' # "done"
            <4>1. UNCHANGED <<pc, at, unit, now, disabled>> /\ stop_flag' = TRUE
                BY <2>5, <3>2 DEF Interrupt, Finish, cursor, health, data
            <4> QED
                BY <1>2, <4>1, CoverKept DEF CoverInv, TickCoversUnits, InUnit
        <3> QED
            BY <3>1, <3>2
    <2>6. CASE RequestStop \/ Advance \/ \E s \in Series : Deliver(s)
        <3>1. UNCHANGED <<pc, at, unit, now, disabled, stop_flag>>
            BY <2>6 DEF RequestStop, Advance, Deliver, cursor, health, data, control
        <3> QED
            BY <1>2, <3>1, CoverKept DEF CoverInv, TickCoversUnits, InUnit
    <2>7. ASSUME NEW u \in Units, UnitStep(u) PROVE CoverInv'
        BY <1>2, <2>7, UnitStepCovers
    <2> QED
        BY <1>2, <2>1, <2>2, <2>3, <2>4, <2>5, <2>6, <2>7 DEF Next, TickStep
<1>3. CoverInv => TickCoversUnits
    BY DEF CoverInv
<1> QED
    BY <1>1, <1>2, <1>3, TypeInvariant, BudgetInvariant, PTL DEF Spec

-----------------------------------------------------------------------------
(* Holes.  Every bar the exchange has had is stored or lost in an answer if  *)
(* it lies behind the mark and inside the window of the newest target any    *)
(* unit can have had.                                                        *)
Horizon == IF InTick THEN now ELSE clock

Newest(s) == Floor(Horizon - Grace, Length[s])

NoHoles(s) ==
    \A c \in Closes(s) :
        (/\ FirstClose[s] <= c /\ c <= series[s].synced_through
         /\ Newest(s) - Length[s] * RequiredBars < c)
        => c \in stored[s] \cup lost[s]

HoleInv ==
    /\ \A s \in Series : \A c \in stored[s] :
          c \in Closes(s) /\ FirstClose[s] <= c /\ c <= delivered[s]
    /\ \A s \in Series : NoHoles(s)

LEMMA FloorIsMultiple ==
    ASSUME NEW t \in Nat, NEW len \in Nat \ {0}
    PROVE  Floor(Floor(t, len), len) = Floor(t, len)
<1>1. ASSUME NEW k \in Nat PROVE (k * len) \div len = k
    OBVIOUS
<1>2. t \div len \in Nat
    OBVIOUS
<1> QED
    BY <1>1, <1>2 DEF Floor

\* The bars of the last n periods up to bar t.
Back(t, len, n) == {t - i * len : i \in 0..(n - 1)}

LEMMA PeriodsBack ==
    ASSUME NEW len \in Nat \ {0}, NEW n \in Nat, NEW t \in Nat, NEW c \in Nat,
           Floor(t, len) = t, Floor(c, len) = c, c <= t, t - len * n < c
    PROVE  c \in Back(t, len, n)
<1> DEFINE q == t \div len
           p == c \div len
<1>1. q \in Nat /\ p \in Nat /\ t = q * len /\ c = p * len
    BY DEF Floor
<1> HIDE DEF q, p
<1>2. \A a, d \in Int : a * len <= d * len => a <= d
    OBVIOUS
<1>3. \A a, d \in Int : a * len < d * len => a < d
    OBVIOUS
<1>4. p <= q
    BY <1>1, <1>2
<1>5. (q - n) * len < p * len
    <2>1. (q - n) * len = q * len - len * n
        BY <1>1
    <2> QED
        BY <1>1, <2>1
<1>6. q - n < p
    BY <1>1, <1>3, <1>5
<1>7. q - p \in 0..(n - 1)
    BY <1>1, <1>4, <1>6
<1>8. t - (q - p) * len = c
    <2>1. (q - p) * len = q * len - p * len
        BY <1>1
    <2> QED
        BY <1>1, <2>1
<1> QED
    BY <1>7, <1>8 DEF Back

LEMMA MultiplesBack ==
    ASSUME NEW len \in Nat \ {0}, NEW t \in Nat, NEW i \in Nat, Floor(t, len) = t,
           NEW c \in Nat, c = t - i * len
    PROVE  Floor(c, len) = c
<1> DEFINE q == t \div len
<1>1. q \in Nat /\ t = q * len
    BY DEF Floor
<1> HIDE DEF q
<1>2. c = (q - i) * len
    BY <1>1
<1>3. q - i \in Nat
    <2>1. \A a \in Int : a * len >= 0 => a >= 0
        OBVIOUS
    <2> QED
        BY <1>1, <1>2, <2>1
<1> DEFINE k == q - i
<1>4. k \in Nat /\ c = k * len
    BY <1>2, <1>3
<1> HIDE DEF k
<1>5. (k * len) \div len = k
    BY <1>4
<1> QED
    BY <1>4, <1>5 DEF Floor

LEMMA NewestFacts ==
    ASSUME NEW s \in Series, NEW h \in Nat, StartTime <= h
    PROVE  h - Grace \in Nat /\ Floor(h - Grace, Length[s]) \in Nat
<1>1. Length[s] \in Nat \ {0} /\ Grace \in Nat /\ StartTime \in Nat
      /\ StartTime >= Grace + Length[s]
    BY MonitorAssumption
<1>2. \A t, g, l \in Nat : t >= g + l /\ t <= h => h - g \in Nat
    OBVIOUS
<1>3. h - Grace \in Nat
    BY <1>1, <1>2
<1> QED
    BY <1>1, <1>3, FloorFacts

LEMMA HorizonFacts ==
    ASSUME TypeInv
    PROVE  Horizon \in Nat /\ StartTime <= Horizon /\ \A s \in Series : Newest(s) \in Nat
<1>1. Horizon \in Nat /\ StartTime <= Horizon
    BY DEF Horizon, TypeInv, TypeOK, EnvOK, CursorOK, ClockInv
<1> QED
    BY <1>1, NewestFacts DEF Newest

(* As time goes on the window moves forward and the claim gets weaker.       *)
LEMMA HolesKept ==
    ASSUME TypeInv, TypeInv', HoleInv, UNCHANGED <<stored, lost, series>>,
           \A s \in Series : delivered[s] <= delivered'[s], Horizon <= Horizon'
    PROVE  HoleInv'
<1>1. ASSUME NEW s \in Series PROVE NoHoles(s)'
    <2>1. Length[s] \in Nat \ {0} /\ Grace \in Nat /\ RequiredBars \in Nat
          /\ series[s].synced_through \in Nat /\ Closes(s) \subseteq Nat
        BY MonitorAssumption DEF TypeInv, TypeOK, DataOK, SeriesTypes, Closes
    <2>2. /\ Horizon \in Nat /\ StartTime <= Horizon
          /\ Horizon' \in Nat /\ StartTime <= Horizon'
        BY DEF Horizon, TypeInv, TypeOK, EnvOK, CursorOK, ClockInv
    <2>3. /\ Horizon - Grace \in Nat /\ Horizon' - Grace \in Nat
          /\ Newest(s) \in Nat /\ Newest(s)' \in Nat
          /\ Horizon - Grace <= Horizon' - Grace
        <3>1. Horizon - Grace \in Nat /\ Newest(s) \in Nat
            BY <2>2, NewestFacts DEF Newest
        <3>2. Horizon' - Grace \in Nat /\ Newest(s)' \in Nat
            BY <2>2, NewestFacts DEF Newest
        <3>3. \A a, d, g \in Nat : a <= d => a - g <= d - g
            OBVIOUS
        <3>4. Horizon - Grace <= Horizon' - Grace
            BY <2>1, <2>2, <3>3
        <3> QED
            BY <3>1, <3>2, <3>4
    <2>4. Newest(s) <= Newest(s)'
        BY <2>1, <2>3, FloorMonotone DEF Newest
    <2>5. Length[s] * RequiredBars \in Nat
        BY <2>1
    <2>6. \A c \in Closes(s) : Newest(s)' - Length[s] * RequiredBars < c
                              => Newest(s) - Length[s] * RequiredBars < c
        BY <2>1, <2>3, <2>4, <2>5
    <2> QED
        BY <2>6 DEF HoleInv, NoHoles
<1>2. \A s \in Series : delivered[s] \in Nat /\ delivered'[s] \in Nat
                        /\ stored[s] \subseteq Nat
    BY DEF TypeInv, TypeOK, EnvOK, StoreOK
<1>3. \A s \in Series : \A c \in stored[s] :
          c \in Closes(s) /\ FirstClose[s] <= c /\ c <= delivered'[s]
    BY <1>2 DEF HoleInv
<1> QED
    BY <1>1, <1>3 DEF HoleInv, NoHoles

(* A request for a target that is not newer than the horizon leaves no hole  *)
(* behind the new mark: it starts at the old one, behind which there is none, *)
(* or at the start of the window, and asks for all that follows.             *)
LEMMA FetchFills ==
    ASSUME TypeInv, HoleInv, NEW s \in Series, NEW b \in Nat, Target(s, b) <= Newest(s),
           NEW c \in (stored[s] \cup Asked(s, b)) \cup {None},
           c <= Target(s, b),
           NEW d \in Closes(s), FirstClose[s] <= d, d <= c,
           Newest(s) - Length[s] * RequiredBars < d
    PROVE  d \in stored[s] \cup lost[s] \cup Asked(s, b)
<1>1. /\ Length[s] \in Nat \ {0} /\ RequiredBars \in Nat
      /\ series[s].synced_through \in Nat /\ delivered[s] \in Nat
      /\ d \in Nat /\ d > 0 /\ Newest(s) \in Nat
      /\ stored[s] \subseteq Nat
    <2>1. Length[s] \in Nat \ {0} /\ RequiredBars \in Nat /\ MaxTime \in Nat
        BY MonitorAssumption
    <2>2. /\ series[s].synced_through \in Nat /\ delivered[s] \in Nat
          /\ stored[s] \subseteq Nat
        BY DEF TypeInv, TypeOK, DataOK, EnvOK, StoreOK, SeriesTypes
    <2>3. d \in Nat /\ d > 0
        BY <2>1 DEF Closes
    <2> QED
        BY <2>1, <2>2, <2>3, HorizonFacts
<1>2. Target(s, b) \in Nat
    BY <1>1, FloorFacts DEF Target
<1>3. c \in Nat /\ c <= delivered[s]
    <2>1. c # None
        BY <1>1 DEF None
    <2>2. c \in Closes(s) /\ c <= delivered[s]
        BY <2>1 DEF HoleInv, Asked
    <2>3. Closes(s) \subseteq Nat
        BY DEF Closes
    <2> QED
        BY <2>2, <2>3
<1>4. d <= delivered[s] /\ d <= Target(s, b)
    BY <1>1, <1>2, <1>3
<1>5. WindowStart(s, b) < d
    <2>1. Length[s] * RequiredBars \in Nat
        BY <1>1
    <2> QED
        BY <1>1, <1>2, <2>1 DEF WindowStart
<1>6. CASE FetchAfter(s, b) = WindowStart(s, b)
    BY <1>4, <1>5, <1>6 DEF Asked
<1>7. CASE FetchAfter(s, b) = series[s].synced_through
    <2>1. CASE d <= series[s].synced_through
        BY <2>1 DEF HoleInv, NoHoles
    <2>2. CASE ~(d <= series[s].synced_through)
        BY <1>1, <1>4, <1>7, <2>2 DEF Asked
    <2> QED
        BY <2>1, <2>2
<1> QED
    BY <1>6, <1>7 DEF FetchAfter

LEMMA SyncKeepsHoles ==
    ASSUME TypeInv, HoleInv, NEW s \in Series, NEW b \in Nat, Sync(s, b),
           Target(s, b) <= Newest(s), UNCHANGED <<delivered, Horizon>>
    PROVE  HoleInv'
<1>1. /\ series \in [Series -> SeriesTypes] /\ stored \in [Series -> SUBSET Nat]
      /\ Length[s] \in Nat \ {0} /\ RequiredBars \in Nat \ {0}
    BY MonitorAssumption DEF TypeInv, TypeOK, DataOK, StoreOK
<1>2. UNCHANGED <<stored, lost>> \/ Fetch(s, b)
    BY DEF Sync, SyncSucceeds, SyncFails
<1>3. /\ \A r \in Series : r # s => stored'[r] = stored[r] /\ lost'[r] = lost[r]
      /\ stored[s] \subseteq stored'[s]
      /\ stored'[s] \subseteq stored[s] \cup Asked(s, b)
      /\ stored[s] \cup lost[s] \subseteq stored'[s] \cup lost'[s]
    BY <1>2, FetchFacts DEF TypeInv
<1>4. \A r \in Series : r # s => series'[r] = series[r]
    BY <1>1 DEF Sync, SyncSucceeds, SyncFails
<1>5. \A r \in Series : \A c \in stored'[r] :
          c \in Closes(r) /\ FirstClose[r] <= c /\ c <= delivered'[r]
    BY <1>3 DEF HoleInv, Asked
<1>6. \A r \in Series : Newest(r)' = Newest(r)
    BY DEF Newest
<1>7. \A r \in Series : r # s => NoHoles(r)'
    BY <1>3, <1>4, <1>6 DEF HoleInv, NoHoles
<1>8. NoHoles(s)'
    <2>1. CASE series'[s].synced_through = series[s].synced_through
        BY <1>3, <1>6, <2>1 DEF HoleInv, NoHoles
    <2>2. CASE LocalComplete(s, b) /\ series'[s].synced_through = Target(s, b)
        <3>1. SUFFICES ASSUME NEW d \in Closes(s), d <= Target(s, b),
                              Newest(s) - Length[s] * RequiredBars < d
                       PROVE  d \in stored[s]
            BY <1>3, <1>6, <2>2 DEF NoHoles
        <3>2. /\ Target(s, b) \in Nat /\ Floor(Target(s, b), Length[s]) = Target(s, b)
              /\ d \in Nat /\ Floor(d, Length[s]) = d /\ Newest(s) \in Nat
              /\ Length[s] * RequiredBars \in Nat
            BY <1>1, FloorFacts, FloorIsMultiple, HorizonFacts DEF Target, Closes
        <3>3. Target(s, b) - Length[s] * RequiredBars < d
            BY <3>1, <3>2
        <3>4. \E i \in 0..(RequiredBars - 1) : Target(s, b) - i * Length[s] = d
            <4> DEFINE t == Target(s, b)
                       len == Length[s]
            <4>1. /\ len \in Nat \ {0} /\ t \in Nat /\ d \in Nat /\ RequiredBars \in Nat
                  /\ Floor(t, len) = t /\ Floor(d, len) = d /\ d <= t
                  /\ t - len * RequiredBars < d
                BY <1>1, <3>1, <3>2, <3>3
            <4> HIDE DEF t, len
            <4>2. d \in Back(t, len, RequiredBars)
                BY <4>1, PeriodsBack
            <4> QED
                BY <4>2 DEF Back, t, len
        <3> QED
            BY <2>2, <3>4 DEF LocalComplete
    <2>3. CASE /\ Fetch(s, b)
               /\ \E c \in stored'[s] \cup {None} :
                     /\ IsNewest(c, stored'[s], Target(s, b))
                     /\ series'[s].synced_through = c
        <3>1. stored[s] \cup lost[s] \cup Asked(s, b) \subseteq stored'[s] \cup lost'[s]
            BY <2>3, FetchFacts DEF TypeInv
        <3>2. PICK c \in stored'[s] \cup {None} :
                 IsNewest(c, stored'[s], Target(s, b)) /\ series'[s].synced_through = c
            BY <2>3
        <3>3. c <= Target(s, b)
            <4>1. Target(s, b) \in Nat
                BY <1>1, FloorFacts DEF Target
            <4> QED
                BY <3>2, <4>1 DEF IsNewest, None
        <3>4. \A d \in Closes(s) :
                 (FirstClose[s] <= d /\ d <= c /\ Newest(s) - Length[s] * RequiredBars < d)
                    => d \in stored'[s] \cup lost'[s]
            BY <1>3, <3>1, <3>2, <3>3, FetchFills
        <3> QED
            BY <1>6, <3>2, <3>4 DEF NoHoles
    <2>4. CASE SyncSucceeds(s, b)
        BY <1>1, <2>1, <2>2, <2>3, <2>4 DEF SyncSucceeds
    <2>5. CASE \E fault \in SyncFaults : SyncFails(s, b, fault)
        <3>1. series'[s].synced_through = series[s].synced_through
            BY <1>1, <2>5 DEF SyncFails, SeriesTypes
        <3> QED
            BY <2>1, <3>1
    <2> QED
        BY <2>4, <2>5 DEF Sync
<1> QED
    BY <1>5, <1>7, <1>8 DEF HoleInv

(* The target of any series a unit needs is not newer than the horizon.      *)
LEMMA TargetIsPast ==
    ASSUME TypeInv, BudgetInv, InAttempt, NEW s \in Series
    PROVE  /\ Target(s, job.as_of) <= Newest(s)
           /\ s = Base[at] => job.as_of = Newest(s)
<1>1. at \in Units /\ InTick /\ now \in Nat /\ StartTime <= now
      /\ job.as_of = Floor(now - Grace, Length[Base[at]])
    BY DEF InAttempt, InUnit, InTick, TypeInv, TypeOK, CursorOK, ClockInv, BudgetInv, JobInv,
           Expected
<1>2. Base[at] \in Series /\ Length[s] \in Nat \ {0} /\ Length[Base[at]] \in Nat \ {0}
    BY <1>1, MonitorAssumption
<1>3. now - Grace \in Nat /\ Newest(s) = Floor(now - Grace, Length[s])
    BY <1>1, NewestFacts DEF Newest, Horizon
<1>4. job.as_of \in Nat /\ job.as_of <= now - Grace
    BY <1>1, <1>2, <1>3, FloorFacts
<1> QED
    BY <1>1, <1>2, <1>3, <1>4, FloorMonotone DEF Target

\* While a bar is analysed, every bar of the window its features need that the
\* exchange has had and that lies behind the mark of the series is stored, or
\* the last answer to a request for it left it out: however synchronisations
\* were shifted, interrupted, half recorded or shared with other units, the code
\* itself skips no bar (_sync_series).
THEOREM OnlyLostBarsAreMissing == Spec => []HolesAreLostBars
<1>1. ASSUME Init PROVE HoleInv
    BY <1>1 DEF Init, HoleInv, NoHoles, Closes, NewSeries, None
<1>2. ASSUME TypeInv, TypeInv', BudgetInv, HoleInv, [Next]_vars PROVE HoleInv'
    <2> USE <1>2
    <2>1. ASSUME UNCHANGED <<stored, lost, series, delivered>>, Horizon <= Horizon' PROVE HoleInv'
        <3>1. \A s \in Series : delivered[s] <= delivered'[s]
            BY <2>1 DEF TypeInv, TypeOK, EnvOK
        <3> QED
            BY <2>1, <3>1, HolesKept
    <2>2. clock \in Nat /\ now \in Nat /\ (InTick => now <= clock)
          /\ Horizon \in Nat
        BY HorizonFacts DEF TypeInv, TypeOK, EnvOK, CursorOK, ClockInv
    <2>3. CASE StartTick \/ SyncInstruments \/ LeaveVisits \/ EndTick \/ TickCrashed
               \/ CheckStop \/ Restart \/ RequestStop \/ UNCHANGED vars
        <3>1. UNCHANGED <<stored, lost, series, delivered, clock>>
            BY <2>3 DEF StartTick, SyncInstruments, LeaveVisits, EndTick, TickCrashed,
               CheckStop, Restart, RequestStop, env, db, data, vars
        <3>2. Horizon <= Horizon'
            BY <2>2, <2>3, <3>1
               DEF Horizon, InTick, StartTick, SyncInstruments, LeaveVisits, EndTick,
                   TickCrashed, CheckStop, Restart, RequestStop, Finish, cursor, vars
        <3> QED
            BY <2>1, <3>1, <3>2
    <2>4. CASE Wait \/ Interrupt \/ Advance
        <3>1. UNCHANGED <<stored, lost, series, delivered, now>> /\ clock <= clock'
            BY <2>2, <2>4, MonitorAssumption
               DEF Wait, Interrupt, Advance, db, data, env, cursor
        <3>2. InTick' => InTick
            BY <2>4 DEF InTick, Wait, Interrupt, Advance, Finish
        <3>3. clock' \in Nat
            BY DEF TypeInv, TypeOK, EnvOK
        <3>4. Horizon <= Horizon'
            BY <2>2, <3>1, <3>2, <3>3 DEF Horizon
        <3> QED
            BY <2>1, <3>1, <3>4
    <2>5. ASSUME NEW s \in Series, Deliver(s) PROVE HoleInv'
        <3>1. UNCHANGED <<stored, lost, series, pc, now, clock>>
            BY <2>5 DEF Deliver, db, data, cursor
        <3>3. \A r \in Series : delivered[r] <= delivered'[r]
            <4>1. delivered \in [Series -> Nat] /\ Length[s] \in Nat
                BY MonitorAssumption DEF TypeInv, TypeOK, EnvOK
            <4>2. delivered' = [delivered EXCEPT ![s] = @ + Length[s]]
                BY <2>5 DEF Deliver
            <4> QED
                BY <4>1, <4>2
        <3>2. Horizon <= Horizon'
            BY <2>2, <3>1 DEF Horizon, InTick
        <3> QED
            BY <3>1, <3>2, <3>3, HolesKept
    <2>6. CASE Kill
        <3>1. stored' = stored /\ delivered' = delivered
              /\ \A s \in Series : series'[s].synced_through = 0
            BY <2>6 DEF Kill, db, env, NewSeries, None
        <3>2. \A s \in Series : \A c \in Closes(s) : ~(c <= 0)
            BY DEF Closes
        <3> QED
            BY <3>1, <3>2 DEF HoleInv, NoHoles
    <2>7. ASSUME NEW u \in Units, UnitStep(u) PROVE HoleInv'
        <3>1. /\ InTick /\ InTick' /\ now' = now /\ delivered' = delivered
            BY <2>7 DEF UnitStep, Visit, SyncBase, SyncContext, Analyse, StructureStep,
               SetupStep, InTick, env, cursor, BarMissing, EngineRaises, SaveRaises,
               Classified, ReadRaises, AfterRegime, NextUnit, Goto
        <3>2. Horizon' = Horizon
            BY <3>1 DEF Horizon
        <3>3. ASSUME UNCHANGED <<stored, lost, series>> PROVE HoleInv'
            BY <2>1, <2>2, <3>1, <3>2, <3>3
        <3>4. job.as_of \in Nat /\ cx \in Nat \ {0}
            BY DEF TypeInv, TypeOK, CursorOK
        <3>5. ASSUME NEW s \in Series, Sync(s, job.as_of), InAttempt PROVE HoleInv'
            BY <3>1, <3>2, <3>4, <3>5, TargetIsPast, SyncKeepsHoles
        <3>6. CASE Visit(u) \/ Analyse(u) \/ StructureStep(u) \/ SetupStep(u)
            BY <3>3, <3>6 DEF Visit, Analyse, StructureStep, SetupStep, db, data
        <3>7. CASE SyncBase(u)
            <4>1. Base[u] \in Series /\ InAttempt /\ Sync(Base[u], job.as_of)
                BY <3>7, MonitorAssumption DEF SyncBase, Sync, InAttempt
            <4> QED
                BY <3>5, <4>1
        <3>8. CASE SyncContext(u)
            <4>1. CASE cx > Len(Context[u])
                <5>1. Len(Context[u]) \in Nat
                    BY MonitorAssumption
                <5> QED
                    BY <3>3, <3>4, <3>8, <4>1, <5>1 DEF SyncContext
            <4>2. CASE ~(cx > Len(Context[u]))
                <5>1. Sync(Context[u][cx], job.as_of) /\ InAttempt
                    BY <3>8, <4>2 DEF SyncContext, Sync, InAttempt
                <5>2. Context[u][cx] \in Series
                    BY <3>4, <4>2, MonitorAssumption
                <5> QED
                    BY <3>5, <5>1, <5>2
            <4> QED
                BY <4>1, <4>2
        <3> QED
            BY <2>7, <3>6, <3>7, <3>8 DEF UnitStep
    <2> QED
        BY <2>3, <2>4, <2>5, <2>6, <2>7 DEF Next, TickStep
<1>3. ASSUME TypeInv, BudgetInv, HoleInv, MarkIsStored PROVE HolesAreLostBars
    <2> DEFINE s == Base[at]
               len == Length[s]
               m == series[s].synced_through
    <2>1. SUFFICES ASSUME pc \in {"context", "analyse"}, NEW i \in 0..(RequiredBars - 1),
                          NEW c, c = job.as_of - i * len,
                          1 <= c, FirstClose[s] <= c, c <= m
                   PROVE  c \in stored[s] \cup lost[s]
        BY DEF HolesAreLostBars
    <2>2. s \in Series /\ len \in Nat \ {0} /\ m \in Nat /\ RequiredBars \in Nat \ {0}
        BY <1>3, <2>1, MonitorAssumption
           DEF TypeInv, ClockInv, InUnit, TypeOK, DataOK, SeriesTypes
    <2>3. InAttempt
        BY <2>1 DEF InAttempt
    <2> HIDE DEF s, len, m
    <2>4. job.as_of = Newest(s) /\ Newest(s) \in Nat
        BY <1>3, <2>2, <2>3, TargetIsPast, HorizonFacts DEF s
    <2>5. Floor(job.as_of, len) = job.as_of
        <3>1. Horizon - Grace \in Nat
            BY <1>3, <2>2, HorizonFacts, NewestFacts
        <3> QED
            BY <2>2, <2>4, <3>1, FloorIsMultiple DEF Newest, len
    <2>6. c \in Nat /\ i \in Nat /\ i * len \in Nat
        BY <2>1, <2>2, <2>4
    <2>7. Floor(c, len) = c
        BY <2>1, <2>2, <2>4, <2>5, <2>6, MultiplesBack
    <2>8. c <= MaxTime
        <3>1. m \in stored[s]
            BY <1>3, <2>1, <2>2, <2>6 DEF MarkIsStored, None, m
        <3>2. m \in Nat /\ m <= MaxTime
            BY <1>3, <2>2, <3>1 DEF HoleInv, Closes
        <3> QED
            BY <2>1, <2>6, <3>2, MonitorAssumption
    <2>9. c \in Closes(s)
        BY <2>1, <2>6, <2>7, <2>8, MonitorAssumption DEF Closes, len
    <2>10. Newest(s) - len * RequiredBars < c
        <3>1. i * len < RequiredBars * len
            BY <2>1, <2>2
        <3>2. RequiredBars * len = len * RequiredBars /\ RequiredBars * len \in Nat
            BY <2>2
        <3> QED
            BY <2>1, <2>4, <2>6, <3>1, <3>2
    <2> QED
        BY <1>3, <2>1, <2>2, <2>9, <2>10 DEF HoleInv, NoHoles, len, m
<1> QED
    BY <1>1, <1>2, <1>3, TypeInvariant, BudgetInvariant, MarksAreStored, PTL DEF Spec

-----------------------------------------------------------------------------
(* The structure and setup steps. *)
StepClosed(p, b) == p.last_as_of = b \/ StepPending(p, b)

Analysed(u) ==
    /\ unit[u].last_processed_as_of # None
    /\ unit[u].attempt_bar = unit[u].last_processed_as_of
    /\ unit[u].status \in {"ok", "warmup_insufficient", "data_quality_failure"}

StructureDue(u) == pc = "structure" /\ at = u /\ ~job.owed
SetupDue(u) == pc \in {"structure", "setup"} /\ at = u /\ ~job.owed

\* The attempts step p has had for the bar of its unit, against those of the
\* unit: every attempt of the step belongs to one of the regime, or is a retry
\* of its own after the regime was finished.
StepSpent(u, p) == IF p.attempt_bar = unit[u].attempt_bar THEN p.attempts ELSE 0

StepCounts(u, p, due) ==
    LET open == unit[u].attempt_bar # unit[u].last_processed_as_of
    IN  /\ p.attempts <= UnitMaxAttempts
        /\ p.attempt_bar <= unit[u].attempt_bar
        /\ StepPending(p, p.attempt_bar) => p.attempts < UnitMaxAttempts
        /\ open => StepSpent(u, p) <= unit[u].attempts_for_bar
        /\ due => StepSpent(u, p) < UnitMaxAttempts
        /\ due /\ open => StepSpent(u, p) < unit[u].attempts_for_bar

UnitSteps(u) ==
    /\ unit[u].last_processed_as_of <= unit[u].attempt_bar
    /\ structure[u].attempts <= UnitMaxAttempts
    /\ setup[u].attempts <= UnitMaxAttempts
    /\ pc # "done" => /\ StepCounts(u, structure[u], StructureDue(u))
                      /\ StepCounts(u, setup[u], SetupDue(u))
    /\ pc # "done" /\ Analysed(u) =>
          LET b == unit[u].last_processed_as_of
          IN  /\ StructureOn /\ ~StructureDue(u) => StepClosed(structure[u], b)
              /\ SetupOn /\ ~SetupDue(u) => StepClosed(setup[u], b)

StepJob ==
    pc \in {"structure", "setup"} =>
        /\ job.as_of = unit[at].attempt_bar
        /\ job.owed => /\ job.as_of = unit[at].last_processed_as_of
                       /\ pc = "structure" => StepPending(structure[at], job.as_of)
                       /\ pc = "setup" => StepPending(setup[at], job.as_of)

StepInv == StepJob /\ \A u \in Units : UnitSteps(u)

LEMMA SteppedFacts ==
    ASSUME NEW p \in StepState, NEW b \in Nat, NEW result \in StepResults,
           p.attempt_bar = b => p.attempts < UnitMaxAttempts,
           NEW v, v = Stepped(p, b, result)
    PROVE  /\ v \in StepState /\ v.attempt_bar = b
           /\ v.attempts <= UnitMaxAttempts
           /\ v.attempts <= (IF p.attempt_bar = b THEN p.attempts ELSE 0) + 1
           /\ StepPending(v, b) => v.attempts < UnitMaxAttempts
           /\ StepClosed(v, b)
<1> DEFINE n == IF p.attempt_bar = b THEN p.attempts ELSE 0
<1>1. v \in StepState
    BY SteppedType
<1>2. n \in Nat /\ n < UnitMaxAttempts /\ UnitMaxAttempts \in Nat
    BY ConfigAssumption DEF StepState
<1>3. CASE result \in StepRetryable /\ n + 1 >= UnitMaxAttempts
    BY <1>1, <1>2, <1>3 DEF Stepped, StepPending, StepClosed, StepRetryable
<1>4. CASE result \in StepRetryable /\ ~(n + 1 >= UnitMaxAttempts)
    BY <1>1, <1>2, <1>4 DEF Stepped, StepPending, StepClosed
<1>5. CASE result \notin StepRetryable
    BY <1>1, <1>2, <1>5 DEF Stepped, StepPending, StepClosed
<1> QED
    BY <1>3, <1>4, <1>5

SnapshotStatuses == {"ok", "warmup_insufficient", "data_quality_failure"}

LEMMA AppliedStatus ==
    ASSUME NEW r \in UnitState, NEW status \in Outcomes, NEW b \in Nat, NEW t \in Nat,
           NEW v, v = Applied(r, status, b, t)
    PROVE  /\ v.status \in SnapshotStatuses => status \in SnapshotStatuses
           /\ status \in SnapshotStatuses => v.last_processed_as_of = b
<1> DEFINE w == Budgeted(r, b)
<1>1. w \in UnitState
    BY BudgetedFacts
<1> HIDE DEF w
<1>2. CASE status = "waiting_for_bar"
    <2>1. v = [w EXCEPT !.status = status, !.next_attempt_at = None]
        BY <1>2 DEF Applied, w
    <2>2. v.status = status
        BY <1>1, <2>1 DEF UnitState
    <2> QED
        BY <1>2, <2>2 DEF SnapshotStatuses
<1>3. CASE status \in RetryableStatuses
    <2>1. v = Retried(w, status, b, t)
        BY <1>3 DEF Applied, w, RetryableStatuses
    <2>2. v.status \in {status, "retry_exhausted"}
        BY <2>1 DEF Retried
    <2> QED
        BY <1>3, <2>2 DEF SnapshotStatuses, RetryableStatuses
<1>4. CASE status \in FinalStatuses \cup {"api_error"}
    <2>1. v = Finished(w, status, b, t)
        BY <1>4 DEF Applied, w, RetryableStatuses, FinalStatuses
    <2> QED
        BY <1>4, <2>1 DEF Finished
<1> QED
    BY <1>2, <1>3, <1>4 DEF Outcomes

(* A step that changes neither the unit's bar nor the state of its steps.    *)
LEMMA StepsKept ==
    ASSUME NEW u \in Units, UnitSteps(u),
           /\ unit'[u].attempt_bar = unit[u].attempt_bar
           /\ unit'[u].attempts_for_bar = unit[u].attempts_for_bar
           /\ unit'[u].last_processed_as_of = unit[u].last_processed_as_of
           /\ unit'[u].status \in {unit[u].status, "api_error"},
           structure'[u] = structure[u], setup'[u] = setup[u],
           pc' # "done" => /\ pc # "done"
                           /\ StructureDue(u)' <=> StructureDue(u)
                           /\ SetupDue(u)' <=> SetupDue(u)
    PROVE  UnitSteps(u)'
<1>1. Analysed(u)' => Analysed(u)
    BY DEF Analysed
<1> QED
    BY <1>1 DEF UnitSteps, StepCounts, StepSpent

(* An attempt of the regime that ends: the steps of its unit follow when it  *)
(* produced a snapshot, and they never have had more attempts than it has.   *)
LEMMA RecordSteps ==
    ASSUME TypeInv, BudgetInv, StepInv, NEW u \in Units, at = u, InAttempt,
           NEW status \in Outcomes, Record(u, status), UNCHANGED <<structure, setup, now>>,
           \/ /\ pc' = "visit"
              /\ status \in SnapshotStatuses => ~StructureOn /\ ~SetupOn
           \/ /\ pc' = "structure" /\ at' = u /\ job' = [as_of |-> job.as_of, owed |-> FALSE]
              /\ status \in SnapshotStatuses \cup {"persistence_error"}
           \/ /\ pc' = "setup" /\ at' = u /\ job' = [as_of |-> job.as_of, owed |-> FALSE]
              /\ status \in SnapshotStatuses \cup {"persistence_error"} /\ ~StructureOn
    PROVE  UnitSteps(u)' /\ unit'[u].attempt_bar = job.as_of
<1> DEFINE r == unit[u]
           b == job.as_of
           v == unit'[u]
<1>1. /\ unit \in [Units -> UnitState] /\ r \in UnitState /\ b \in Nat /\ now \in Nat
      /\ structure[u] \in StepState /\ setup[u] \in StepState
    BY DEF TypeInv, TypeOK, HealthOK, CursorOK
<1>2. v = Applied(r, status, b, now)
    BY <1>1 DEF Record
<1>3. UnitSteps(u) /\ UnitBudget(u) /\ pc # "done"
      /\ InTick /\ b = Expected(u) /\ b # r.last_processed_as_of
    BY DEF StepInv, BudgetInv, JobInv, InAttempt, InTick
<1>4. r.attempt_bar <= b /\ r.last_processed_as_of <= r.attempt_bar
    BY <1>3 DEF UnitBudget, UnitSteps
<1> HIDE DEF v, b, r
<1>5. OutcomeCounted(r, status, b, v)
    BY <1>1, <1>2, AppliedFacts
<1>6. /\ v.status \in SnapshotStatuses => status \in SnapshotStatuses
      /\ status \in SnapshotStatuses => v.last_processed_as_of = b
    BY <1>1, <1>2, AppliedStatus
<1>7. /\ v \in UnitState /\ v.attempt_bar = b
      /\ v.last_processed_as_of \in {b, r.last_processed_as_of}
      /\ Counted(r, b) \in Nat /\ Counted(r, b) < UnitMaxAttempts
    BY <1>1, <1>3, <1>5, ConfigAssumption DEF OutcomeCounted, Counted, UnitBudget, UnitState, r
<1>8. v.last_processed_as_of <= v.attempt_bar
    BY <1>1, <1>4, <1>7 DEF UnitState
<1>9. v.attempt_bar # v.last_processed_as_of =>
          /\ Counted(r, b) <= v.attempts_for_bar
          /\ status \in RetryableStatuses => Counted(r, b) < v.attempts_for_bar
    BY <1>5, <1>7 DEF OutcomeCounted
<1>10. pc' # "visit" /\ v.attempt_bar # v.last_processed_as_of => status \in RetryableStatuses
    BY <1>6, <1>7 DEF RetryableStatuses
<1>11. ASSUME NEW p \in StepState, NEW due, StepCounts(u, p, due)
       PROVE  /\ p.attempts <= UnitMaxAttempts
              /\ p.attempt_bar <= v.attempt_bar
              /\ StepPending(p, p.attempt_bar) => p.attempts < UnitMaxAttempts
              /\ (IF p.attempt_bar = v.attempt_bar THEN p.attempts ELSE 0) <= Counted(r, b)
    <2>1. p.attempt_bar \in Nat /\ p.attempts \in Nat /\ r.attempt_bar \in Nat
        BY <1>1 DEF StepState, UnitState
    <2>2. /\ p.attempts <= UnitMaxAttempts /\ p.attempt_bar <= r.attempt_bar
          /\ StepPending(p, p.attempt_bar) => p.attempts < UnitMaxAttempts
          /\ r.attempt_bar # r.last_processed_as_of => StepSpent(u, p) <= r.attempts_for_bar
        BY <1>11 DEF StepCounts, r
    <2>3. CASE p.attempt_bar = b
        <3>1. r.attempt_bar = b /\ r.attempt_bar # r.last_processed_as_of
            BY <1>1, <1>3, <1>4, <2>1, <2>2, <2>3
        <3> QED
            BY <1>7, <2>1, <2>2, <2>3, <3>1 DEF StepSpent, Counted, r
    <2>4. CASE p.attempt_bar # b
        BY <1>1, <1>4, <1>7, <2>1, <2>2, <2>4
    <2> QED
        BY <2>3, <2>4
<1>12. ASSUME NEW p \in StepState, NEW due, StepCounts(u, p, due),
              NEW later \in BOOLEAN, later => pc' # "visit"
       PROVE  /\ p.attempts <= UnitMaxAttempts
              /\ p.attempt_bar <= unit'[u].attempt_bar
              /\ StepPending(p, p.attempt_bar) => p.attempts < UnitMaxAttempts
              /\ unit'[u].attempt_bar # unit'[u].last_processed_as_of =>
                    (IF p.attempt_bar = unit'[u].attempt_bar THEN p.attempts ELSE 0)
                       <= unit'[u].attempts_for_bar
              /\ later => (IF p.attempt_bar = unit'[u].attempt_bar THEN p.attempts ELSE 0)
                             < UnitMaxAttempts
              /\ later /\ unit'[u].attempt_bar # unit'[u].last_processed_as_of =>
                    (IF p.attempt_bar = unit'[u].attempt_bar THEN p.attempts ELSE 0)
                       < unit'[u].attempts_for_bar
    <2>1. v.attempts_for_bar \in Nat /\ UnitMaxAttempts \in Nat
          /\ (IF p.attempt_bar = v.attempt_bar THEN p.attempts ELSE 0) \in Nat
        BY <1>7, ConfigAssumption DEF UnitState, StepState
    <2> QED
        BY <1>7, <1>9, <1>10, <1>11, <1>12, <2>1 DEF v
<1>13. /\ StructureDue(u)' \in BOOLEAN /\ SetupDue(u)' \in BOOLEAN
       /\ StructureDue(u)' => pc' # "visit"
       /\ SetupDue(u)' => pc' # "visit"
    BY DEF StructureDue, SetupDue
<1>14. StepCounts(u, structure[u], StructureDue(u)) /\ StepCounts(u, setup[u], SetupDue(u))
    BY <1>3 DEF UnitSteps
<1>15. StepCounts(u, structure[u], StructureDue(u))'
    BY <1>1, <1>12, <1>13, <1>14 DEF StepCounts, StepSpent
<1>16. StepCounts(u, setup[u], SetupDue(u))'
    BY <1>1, <1>12, <1>13, <1>14 DEF StepCounts, StepSpent
<1>17. Analysed(u)' => (StructureOn => StructureDue(u)') /\ (SetupOn => SetupDue(u)')
    <2>1. Analysed(u)' => status \in SnapshotStatuses
        BY <1>6 DEF Analysed, v, SnapshotStatuses
    <2> QED
        BY <2>1 DEF StructureDue, SetupDue
<1>18. structure'[u].attempts <= UnitMaxAttempts /\ setup'[u].attempts <= UnitMaxAttempts
    BY <1>15, <1>16 DEF StepCounts
<1> QED
    BY <1>7, <1>8, <1>15, <1>16, <1>17, <1>18 DEF UnitSteps, v, b

(* An attempt of a step that follows its regime, or of one still owed.       *)
LEMMA SteppedSteps ==
    ASSUME TypeInv, StepInv, NEW u \in Units, at = u,
           StructureStep(u) \/ SetupStep(u)
    PROVE  UnitSteps(u)' /\ StepJob'
<1> DEFINE r == unit[u]
           b == job.as_of
<1>1. /\ structure \in [Units -> StepState] /\ setup \in [Units -> StepState]
      /\ structure[u] \in StepState /\ setup[u] \in StepState
      /\ r \in UnitState /\ b \in Nat /\ UnitMaxAttempts \in Nat
    BY ConfigAssumption DEF TypeInv, TypeOK, HealthOK, CursorOK
<1>2. /\ pc \in {"structure", "setup"} /\ unit' = unit /\ at' \in {at, at + 1}
      /\ pc = "structure" <=> StructureStep(u)
      /\ pc = "setup" <=> SetupStep(u)
    BY DEF StructureStep, SetupStep, NextUnit, Goto
<1>3. /\ b = r.attempt_bar
      /\ job.owed => /\ b = r.last_processed_as_of
                     /\ pc = "structure" => StepPending(structure[u], b)
                     /\ pc = "setup" => StepPending(setup[u], b)
    BY <1>2 DEF StepInv, StepJob
<1>4. UnitSteps(u) /\ pc # "done"
    BY <1>2 DEF StepInv
<1>5. ASSUME NEW p \in StepState, NEW due \in BOOLEAN, StepCounts(u, p, due),
             due \/ (job.owed /\ StepPending(p, b)),
             NEW result \in StepResults, NEW v, v = Stepped(p, b, result)
      PROVE  StepCounts(u, v, FALSE) /\ StepClosed(v, b)
    <2>1. p.attempt_bar = b => p.attempts < UnitMaxAttempts
        BY <1>3, <1>5 DEF StepCounts, StepSpent, StepPending
    <2>2. /\ v \in StepState /\ v.attempt_bar = b
          /\ v.attempts <= UnitMaxAttempts
          /\ v.attempts <= (IF p.attempt_bar = b THEN p.attempts ELSE 0) + 1
          /\ StepPending(v, b) => v.attempts < UnitMaxAttempts
          /\ StepClosed(v, b)
        BY <1>1, <1>5, <2>1, SteppedFacts
    <2>3. (r.attempt_bar # r.last_processed_as_of) => StepSpent(u, v) <= r.attempts_for_bar
        <3>1. SUFFICES ASSUME r.attempt_bar # r.last_processed_as_of
                       PROVE  StepSpent(u, v) <= r.attempts_for_bar
            OBVIOUS
        <3>2. StepSpent(u, p) < r.attempts_for_bar
            BY <1>3, <1>5, <3>1 DEF StepCounts
        <3>3. /\ v.attempts <= StepSpent(u, p) + 1 /\ StepSpent(u, v) = v.attempts
              /\ StepSpent(u, p) \in Nat /\ v.attempts \in Nat /\ r.attempts_for_bar \in Nat
            BY <1>1, <1>3, <1>5, <2>2 DEF StepSpent, StepState, UnitState
        <3> QED
            BY <3>2, <3>3
    <2>4. v.attempt_bar <= r.attempt_bar
        BY <1>1, <1>3, <2>2
    <2> QED
        BY <2>2, <2>3, <2>4 DEF StepCounts
<1>6. CASE StructureStep(u)
    <2>1. PICK result \in StepResults :
             structure' = [structure EXCEPT ![u] = Stepped(@, b, result)]
        BY <1>6 DEF StructureStep
    <2>2. /\ structure'[u] = Stepped(structure[u], b, result) /\ setup' = setup
          /\ pc = "structure" /\ (StructureDue(u) <=> ~job.owed)
          /\ (SetupDue(u) <=> ~job.owed)
        BY <1>1, <1>2, <1>6, <2>1 DEF StructureStep, StructureDue, SetupDue
    <2>3. StepCounts(u, structure[u], StructureDue(u)) /\ StepCounts(u, setup[u], SetupDue(u))
          /\ StructureDue(u) \in BOOLEAN
        BY <1>4 DEF UnitSteps, StructureDue
    <2>4. StepCounts(u, structure'[u], FALSE) /\ StepClosed(structure'[u], b)
        BY <1>1, <1>3, <1>5, <2>2, <2>3
    <2>5. \/ /\ pc' = "setup" /\ job' = [as_of |-> b, owed |-> job.owed] /\ at' = at
             /\ SetupOn /\ (job.owed => StepPending(setup[u], b))
          \/ /\ pc' = "visit" /\ (SetupOn => job.owed)
        BY <1>6 DEF StructureStep, Goto, NextUnit, SetupOwed
    <2>6. ~StructureDue(u)' /\ (SetupDue(u)' => SetupDue(u))
        BY <2>2, <2>5 DEF StructureDue, SetupDue
    <2>7. StepCounts(u, structure[u], StructureDue(u))'
        BY <1>2, <2>4, <2>6 DEF StepCounts, StepSpent
    <2>8. StepCounts(u, setup[u], SetupDue(u))'
        BY <1>2, <2>2, <2>3, <2>6 DEF StepCounts, StepSpent
    <2>9. Analysed(u)' => /\ StructureOn /\ ~StructureDue(u)' =>
                                StepClosed(structure'[u], unit'[u].last_processed_as_of)
                          /\ SetupOn /\ ~SetupDue(u)' =>
                                StepClosed(setup'[u], unit'[u].last_processed_as_of)
        <3>1. Analysed(u)' <=> Analysed(u)
            BY <1>2 DEF Analysed
        <3>2. Analysed(u) => r.last_processed_as_of = b
            BY <1>3 DEF Analysed
        <3>3. SetupOn /\ ~SetupDue(u)' => ~SetupDue(u)
            BY <2>2, <2>5 DEF SetupDue
        <3> QED
            BY <1>2, <1>4, <2>2, <2>4, <3>1, <3>2, <3>3 DEF UnitSteps
    <2>10. StepJob'
        BY <1>2, <1>3, <2>2, <2>5 DEF StepJob
    <2>11. structure'[u].attempts <= UnitMaxAttempts /\ setup'[u].attempts <= UnitMaxAttempts
        BY <2>7, <2>8 DEF StepCounts
    <2> QED
        BY <1>2, <1>4, <2>7, <2>8, <2>9, <2>10, <2>11 DEF UnitSteps
<1>7. CASE SetupStep(u)
    <2>1. PICK result \in StepResults :
             setup' = [setup EXCEPT ![u] = Stepped(@, b, result)]
        BY <1>7 DEF SetupStep
    <2>2. /\ setup'[u] = Stepped(setup[u], b, result) /\ structure' = structure
          /\ pc = "setup" /\ pc' = "visit" /\ ~StructureDue(u)
          /\ (SetupDue(u) <=> ~job.owed)
        BY <1>1, <1>2, <1>7, <2>1 DEF SetupStep, StructureDue, SetupDue, NextUnit
    <2>3. StepCounts(u, structure[u], FALSE) /\ StepCounts(u, setup[u], SetupDue(u))
          /\ SetupDue(u) \in BOOLEAN
        BY <1>4, <2>2 DEF UnitSteps, SetupDue, StepCounts
    <2>4. StepCounts(u, setup'[u], FALSE) /\ StepClosed(setup'[u], b)
        BY <1>1, <1>3, <1>5, <2>2, <2>3
    <2>5. ~StructureDue(u)' /\ ~SetupDue(u)'
        BY <2>2 DEF StructureDue, SetupDue
    <2>6. StepCounts(u, structure[u], StructureDue(u))'
        BY <1>2, <2>2, <2>3, <2>5 DEF StepCounts, StepSpent
    <2>7. StepCounts(u, setup[u], SetupDue(u))'
        BY <1>2, <2>4, <2>5 DEF StepCounts, StepSpent
    <2>8. Analysed(u)' => /\ StructureOn =>
                                StepClosed(structure'[u], unit'[u].last_processed_as_of)
                          /\ StepClosed(setup'[u], unit'[u].last_processed_as_of)
        <3>1. Analysed(u)' <=> Analysed(u)
            BY <1>2 DEF Analysed
        <3>2. Analysed(u) => r.last_processed_as_of = b
            BY <1>3 DEF Analysed
        <3> QED
            BY <1>2, <1>4, <2>2, <2>4, <3>1, <3>2 DEF UnitSteps
    <2>9. StepJob'
        BY <2>2 DEF StepJob
    <2>10. structure'[u].attempts <= UnitMaxAttempts /\ setup'[u].attempts <= UnitMaxAttempts
        BY <2>6, <2>7 DEF StepCounts
    <2> QED
        BY <1>2, <1>4, <2>6, <2>7, <2>8, <2>9, <2>10 DEF UnitSteps
<1> QED
    BY <1>6, <1>7

(* A unit whose turn it is not.                                             *)
LEMMA OtherUnitsSteps ==
    ASSUME TypeInv, StepInv, NEW u \in Units, UnitStep(u), NEW w \in Units, w # u
    PROVE  UnitSteps(w)'
<1>1. /\ at = u /\ at' \in {u, u + 1}
      /\ pc' \in {"structure", "setup"} => at' = u
      /\ pc # "done" /\ pc' # "done"
    BY DEF UnitStep, Visit, SyncBase, SyncContext, Analyse, StructureStep, SetupStep,
           BarMissing, EngineRaises, SaveRaises, Classified, ReadRaises, AfterRegime,
           NextUnit, Goto, cursor
<1>2. UNCHANGED unit \/ \E status : Record(u, status)
    BY DEF UnitStep, Visit, SyncBase, SyncContext, Analyse, StructureStep, SetupStep,
           BarMissing, EngineRaises, SaveRaises, Classified, ReadRaises, health
<1>3. unit'[w] = unit[w]
    BY <1>2 DEF Record, TypeInv, TypeOK, HealthOK
<1>4. structure'[w] = structure[w] /\ setup'[w] = setup[w]
    BY DEF UnitStep, Visit, SyncBase, SyncContext, Analyse, StructureStep, SetupStep,
           health, TypeInv, TypeOK, HealthOK
<1>5. /\ StructureDue(w)' <=> StructureDue(w)
      /\ SetupDue(w)' <=> SetupDue(w)
    BY <1>1 DEF StructureDue, SetupDue
<1> QED
    BY <1>1, <1>3, <1>4, <1>5, StepsKept DEF StepInv

(* The unit whose turn it is.                                               *)
LEMMA TurnKeepsSteps ==
    ASSUME TypeInv, BudgetInv, StepInv, NEW u \in Units, UnitStep(u)
    PROVE  UnitSteps(u)' /\ StepJob'
<1>1. at = u /\ pc # "done" /\ UnitSteps(u)
    BY DEF UnitStep, Visit, SyncBase, SyncContext, Analyse, StructureStep, SetupStep,
           StepInv
<1>2. ASSUME UNCHANGED <<unit, structure, setup>>, ~StructureDue(u), ~SetupDue(u),
             ~StructureDue(u)', ~SetupDue(u)'
      PROVE  UnitSteps(u)'
    BY <1>1, <1>2, StepsKept
<1>3. CASE Visit(u)
    <2>1. UNCHANGED <<unit, structure, setup>> /\ pc = "visit"
        BY <1>3 DEF Visit, health
    <2>2. \/ pc' \in {"visit", "base"}
          \/ /\ pc' = "structure" /\ job' = [as_of |-> Expected(u), owed |-> TRUE]
             /\ at' = at /\ unit[u].last_processed_as_of = Expected(u)
             /\ StepPending(structure[u], Expected(u))
          \/ /\ pc' = "setup" /\ job' = [as_of |-> Expected(u), owed |-> TRUE]
             /\ at' = at /\ unit[u].last_processed_as_of = Expected(u)
             /\ StepPending(setup[u], Expected(u))
        BY <1>3 DEF Visit, NextUnit, Goto, StructureOwed, SetupOwed
    <2>3. UnitSteps(u)'
        BY <1>2, <2>1, <2>2 DEF StructureDue, SetupDue
    <2>4. unit[u].last_processed_as_of = Expected(u) => unit[u].attempt_bar = Expected(u)
        <3>1. InTick /\ unit[u].attempt_bar <= Expected(u)
            BY <2>1 DEF BudgetInv, UnitBudget, InTick
        <3>2. unit[u].last_processed_as_of <= unit[u].attempt_bar
            BY <1>1 DEF UnitSteps
        <3>3. unit[u].attempt_bar \in Nat
            BY DEF TypeInv, TypeOK, HealthOK, UnitState
        <3>4. unit[u].last_processed_as_of \in Nat
            BY DEF TypeInv, TypeOK, HealthOK, UnitState
        <3> QED
            BY <3>1, <3>2, <3>3, <3>4
    <2>5. StepJob'
        BY <1>1, <2>1, <2>2, <2>4 DEF StepJob
    <2> QED
        BY <2>3, <2>5
<1>4. CASE SyncBase(u)
    <2>1. CASE pc' = "context" /\ UNCHANGED <<cursor, unit, spent>>
        BY <1>2, <1>4, <2>1 DEF SyncBase, StructureDue, SetupDue, StepJob
    <2>2. CASE NextUnit /\ \E fault \in SyncFaults : Record(u, fault)
        <3>1. PICK fault \in SyncFaults : Record(u, fault)
            BY <2>2
        <3>2. fault \in Outcomes /\ fault \notin SnapshotStatuses
            BY MonitorAssumption
               DEF Outcomes, SyncStatuses, RetryableStatuses, SnapshotStatuses
        <3>3. InAttempt /\ UNCHANGED <<structure, setup, now>> /\ pc' = "visit"
            BY <1>4, <2>2 DEF SyncBase, InAttempt, NextUnit
        <3>4. UnitSteps(u)'
            BY <1>1, <3>1, <3>2, <3>3, RecordSteps
        <3> QED
            BY <3>3, <3>4 DEF StepJob
    <2> QED
        BY <1>4, <2>1, <2>2 DEF SyncBase
<1>5. CASE SyncContext(u)
    BY <1>2, <1>5 DEF SyncContext, StructureDue, SetupDue, StepJob, health
<1>6. CASE Analyse(u)
    <2>1. CASE ReadRaises
        BY <1>2, <1>6, <2>1 DEF Analyse, ReadRaises, StructureDue, SetupDue, StepJob
    <2>2. CASE ~ReadRaises
        <3>1. UNCHANGED <<structure, setup, now>> /\ InAttempt
            BY <1>6, <2>2
               DEF Analyse, BarMissing, EngineRaises, SaveRaises, Classified, AfterRegime,
                   NextUnit, Goto, InAttempt
        <3>2. \E status \in Outcomes : Record(u, status) /\
                 \/ NextUnit /\ (status \in SnapshotStatuses => ~StructureOn /\ ~SetupOn)
                 \/ /\ Goto("structure", job.as_of, FALSE)
                    /\ status \in SnapshotStatuses \cup {"persistence_error"}
                 \/ /\ Goto("setup", job.as_of, FALSE) /\ ~StructureOn
                    /\ status \in SnapshotStatuses \cup {"persistence_error"}
            <4>1. CASE BarMissing(u) \/ EngineRaises(u)
                <5>1. CASE BarMissing(u)
                    <6>1. PICK status \in {"waiting_for_bar", "stale"} : Record(u, status)
                        BY <5>1 DEF BarMissing
                    <6> QED
                        BY <5>1, <6>1 DEF BarMissing, SnapshotStatuses, Outcomes, FinalStatuses
                <5>2. CASE EngineRaises(u)
                    BY <5>2 DEF EngineRaises, SnapshotStatuses, Outcomes, RetryableStatuses
                <5> QED
                    BY <4>1, <5>1, <5>2
            <4>2. CASE SaveRaises(u)
                BY <4>2 DEF SaveRaises, AfterRegime, SnapshotStatuses, Outcomes,
                            RetryableStatuses
            <4>3. CASE Classified(u)
                BY <4>3 DEF Classified, AfterRegime, StatusFor, SnapshotStatuses, Outcomes,
                            FinalStatuses
            <4> QED
                BY <1>6, <2>2, <4>1, <4>2, <4>3 DEF Analyse
        <3>3. PICK status \in Outcomes : Record(u, status) /\
                 \/ NextUnit /\ (status \in SnapshotStatuses => ~StructureOn /\ ~SetupOn)
                 \/ /\ Goto("structure", job.as_of, FALSE)
                    /\ status \in SnapshotStatuses \cup {"persistence_error"}
                 \/ /\ Goto("setup", job.as_of, FALSE) /\ ~StructureOn
                    /\ status \in SnapshotStatuses \cup {"persistence_error"}
            BY <3>2
        <3>4. \/ pc' = "visit" /\ (status \in SnapshotStatuses => ~StructureOn /\ ~SetupOn)
              \/ /\ pc' = "structure" /\ at' = u
                 /\ job' = [as_of |-> job.as_of, owed |-> FALSE]
                 /\ status \in SnapshotStatuses \cup {"persistence_error"}
              \/ /\ pc' = "setup" /\ at' = u /\ job' = [as_of |-> job.as_of, owed |-> FALSE]
                 /\ status \in SnapshotStatuses \cup {"persistence_error"} /\ ~StructureOn
            BY <1>1, <3>3 DEF NextUnit, Goto
        <3>5. UnitSteps(u)' /\ unit'[u].attempt_bar = job.as_of
            BY <1>1, <3>1, <3>3, <3>4, RecordSteps
        <3> QED
            BY <3>4, <3>5 DEF StepJob
    <2> QED
        BY <2>1, <2>2
<1>7. CASE StructureStep(u) \/ SetupStep(u)
    BY <1>1, <1>7, SteppedSteps
<1> QED
    BY <1>3, <1>4, <1>5, <1>6, <1>7 DEF UnitStep

\* A structure or setup step that fails is neither repeated for ever nor
\* dropped: its attempts stay within unit_max_attempts, although they are made
\* by every attempt of the regime and by the retries of the step alone, and
\* between two visits every bar with a snapshot has its steps finished or owed
\* (_process, _process_structure, _process_setup, _visit).
THEOREM StepsAreAlwaysSettled == Spec => []StepsAreSettled
<1>1. ASSUME Init PROVE StepInv
    <2>1. ASSUME NEW u \in Units PROVE UnitSteps(u)
        BY <1>1, ConfigAssumption
           DEF Init, UnitSteps, StepCounts, StepSpent, Analysed, NewUnits, NewSteps, NewUnit,
               NewStep, None, StepPending, StructureDue, SetupDue, StepRetryable
    <2> QED
        BY <1>1, <2>1 DEF StepInv, StepJob, Init
<1>2. ASSUME TypeInv, BudgetInv, StepInv, [Next]_vars PROVE StepInv'
    <2> USE <1>2
    <2>1. ASSUME UNCHANGED <<structure, setup>>,
                 \A u \in Units :
                    /\ unit'[u].attempt_bar = unit[u].attempt_bar
                    /\ unit'[u].attempts_for_bar = unit[u].attempts_for_bar
                    /\ unit'[u].last_processed_as_of = unit[u].last_processed_as_of
                    /\ unit'[u].status \in {unit[u].status, "api_error"},
                 pc' # "done" => pc # "done",
                 \/ pc' \notin {"structure", "setup"} /\ pc \notin {"structure", "setup"}
                 \/ pc' = "done"
                 \/ UNCHANGED <<pc, at, job>>
          PROVE  StepInv'
        <3>1. pc' # "done" => \A u \in Units : /\ StructureDue(u)' <=> StructureDue(u)
                                               /\ SetupDue(u)' <=> SetupDue(u)
            BY <2>1 DEF StructureDue, SetupDue
        <3>2. \A u \in Units : UnitSteps(u)'
            BY <2>1, <3>1, StepsKept DEF StepInv
        <3>3. pc' \in {"structure", "setup"} => UNCHANGED <<pc, at, job>> /\ at \in Units
            BY <2>1 DEF TypeInv, ClockInv, InUnit
        <3>4. StepJob'
            BY <2>1, <3>3 DEF StepInv, StepJob
        <3> QED
            BY <3>2, <3>4 DEF StepInv
    <2>2. CASE StartTick \/ LeaveVisits \/ EndTick \/ TickCrashed \/ CheckStop \/ Wait
               \/ Restart
        <3>1. UNCHANGED <<unit, structure, setup>> /\ pc # "done"
              /\ pc' \notin {"structure", "setup"} /\ pc \notin {"structure", "setup"}
            BY <2>2 DEF StartTick, LeaveVisits, EndTick, TickCrashed, CheckStop, Wait, Restart,
               Finish, health
        <3> QED
            BY <2>1, <3>1
    <2>3. CASE SyncInstruments
        <3>1. /\ UNCHANGED <<structure, setup>> /\ pc = "instruments" /\ pc' = "visit"
              /\ \/ unit' = unit
                 \/ unit' = [u \in Units |-> IF SymbolOf[u] \in NamesIn(unknown)
                                             THEN [unit[u] EXCEPT !.status = "api_error"]
                                             ELSE unit[u]]
            BY <2>3 DEF SyncInstruments
        <3>2. \A u \in Units :
                    /\ unit'[u].attempt_bar = unit[u].attempt_bar
                    /\ unit'[u].attempts_for_bar = unit[u].attempts_for_bar
                    /\ unit'[u].last_processed_as_of = unit[u].last_processed_as_of
                    /\ unit'[u].status \in {unit[u].status, "api_error"}
            BY <3>1 DEF TypeInv, TypeOK, HealthOK, UnitState
        <3> QED
            BY <2>1, <3>1, <3>2
    <2>4. CASE Interrupt \/ RequestStop \/ Advance \/ (\E s \in Series : Deliver(s))
               \/ UNCHANGED vars
        <3>1. /\ UNCHANGED <<unit, structure, setup>>
              /\ pc' # "done" => pc # "done"
              /\ pc' = "done" \/ UNCHANGED <<pc, at, job>>
            BY <2>4 DEF Interrupt, RequestStop, Advance, Deliver, Finish, Running, health, cursor,
                        vars
        <3> QED
            BY <2>1, <3>1
    <2>5. CASE Kill
        <3>1. ASSUME NEW u \in Units PROVE UnitSteps(u)'
            BY <2>5, ConfigAssumption
               DEF Kill, UnitSteps, StepCounts, StepSpent, Analysed, NewUnits, NewSteps, NewUnit,
                   NewStep, None, StepPending, StructureDue, SetupDue, StepRetryable
        <3> QED
            BY <2>5, <3>1 DEF Kill, StepInv, StepJob
    <2>6. ASSUME NEW u \in Units, UnitStep(u) PROVE StepInv'
        BY <2>6, OtherUnitsSteps, TurnKeepsSteps DEF StepInv
    <2> QED
        BY <2>2, <2>3, <2>4, <2>5, <2>6 DEF Next, TickStep
<1>3. ASSUME StepInv PROVE StepsAreSettled
    <2>1. StepNotForgotten
        BY <1>3 DEF StepInv, UnitSteps, StepNotForgotten, Analysed, StructureDue, SetupDue,
                    StepClosed
    <2>2. StepBudget
        BY <1>3 DEF StepInv, UnitSteps, StepBudget
    <2> QED
        BY <2>1, <2>2 DEF StepsAreSettled
<1> QED
    BY <1>1, <1>2, <1>3, TypeInvariant, BudgetInvariant, PTL DEF Spec
=============================================================================
