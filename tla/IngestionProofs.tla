--------------------------- MODULE IngestionProofs ---------------------------
(***************************************************************************)
(* What the store of market data promises for every set of processes,      *)
(* every range, page size and number of faults: rows are written once, a    *)
(* candle is what the exchange said of a closed bar, a run recorded as "ok" *)
(* left no hole, and no walk over the pages is given up.                    *)
(***************************************************************************)
EXTENDS Ingestion, TLAPS, FiniteSetTheorems, WellFoundedInduction

Values == Final \cup Garbage
Row == [t : Bars, v : Values, closed : BOOLEAN]

\* What may be stored: the final word of the exchange, or the moving values of a
\* bar that came without a time and that the local clock holds to be closed.
Trusted(t, v) == v \in Final \/ (v = "guessed" /\ t + 1 <= LocalNow)

\* A closed row is trusted, or another row of the same bar contradicts it.
Sound(rows) ==
    \A r \in rows : r.closed => Trusted(r.t, r.v) \/ \E q \in rows : q.t = r.t /\ q # r

Ends == {hi \in Int : hi <= LastBar + 1}

\* The records of a job; the fields the proofs do not speak of are free.
Fetch(j) ==
    /\ j \in [pc : {"fetching"}, dataset : Datasets, lo : Bars, hi : Ends, cursor : {j.cursor},
              pages : {j.pages}, attempt : {j.attempt}, rows : SUBSET Row, bad : {j.bad}]
    /\ j.dataset = "candles" => Sound(j.rows)
Store(j) ==
    /\ j \in [pc : {"storing", "writing", "checking", "recording"}, dataset : Datasets,
              lo : Bars, hi : Ends, rows : SUBSET Row, bad : {j.bad}, status : {j.status}]
    /\ j.dataset = "candles" => \A r \in j.rows : Trusted(r.t, r.v)
Fail(j) == j \in [pc : {"failing"}, dataset : Datasets, lo : Bars, hi : Ends, why : {j.why}]
JobOK(j) == j = Idle \/ Fetch(j) \/ Store(j) \/ Fail(j)

JobInv == DOMAIN job = Procs /\ job = [p \in Procs |-> job[p]] /\ \A p \in Procs : JobOK(job[p])

TypeInv ==
    /\ exchange \in [Bars -> Final \cup {None}] /\ server \in Nat
    /\ stored \in [Keys -> Values \cup {None}]
    /\ launch \in {None, Launch}
    /\ JobInv

---------------------------------------------------------------------------
\* Rows that the exchange serves: closed ones can be trusted.
LEMMA ServedRows ==
    ASSUME IngestionAssumption, TypeInv, NEW j, NEW timed \in BOOLEAN
    PROVE  \A r \in Served(j, timed) :
              r \in Row /\ (r.closed => Trusted(r.t, r.v)) /\ r.v # "wrong"
<1>1. Bars \subseteq Int /\ LocalNow \in Int /\ server \in Int
    BY DEF IngestionAssumption, Bars, TypeInv
<1> SUFFICES ASSUME NEW r \in Served(j, timed)
             PROVE  r \in Row /\ (r.closed => Trusted(r.t, r.v)) /\ r.v # "wrong"
    OBVIOUS
<1>2. PICK t \in Bars : exchange[t] # None /\ (r = Candle(t, timed) \/ r = Rate(t))
    BY DEF Served, Newest
<1>3. exchange[t] \in Final
    BY <1>2 DEF TypeInv
<1>4. CASE r = Candle(t, timed)
    <2> DEFINE v == IF t < server THEN exchange[t] ELSE IF timed THEN "moving" ELSE "guessed"
               c == t + 1 <= IF timed THEN server ELSE LocalNow
    <2>1. r = [t |-> t, closed |-> c, v |-> v]
        BY <1>4 DEF Candle, IsClosed
    <2>2. c => (timed /\ t < server) \/ (~timed /\ t + 1 <= LocalNow)
        BY <1>1
    <2>3. v \in Final \cup {"moving", "guessed"} /\ (c => Trusted(t, v)) /\ c \in BOOLEAN
        BY <1>3, <2>2 DEF Trusted
    <2>4. r.t = t /\ r.v = v /\ (r.closed <=> c)
        BY <2>1, Zenon
    <2> HIDE DEF v, c
    <2>5. r \in Row
        BY <2>1, <2>3 DEF Row, Values, Final, Garbage
    <2> QED
        BY <2>3, <2>4, <2>5 DEF Final
<1>5. CASE r = Rate(t)
    BY <1>3, <1>5 DEF Rate, Row, Values, Final, Garbage, Trusted
<1> QED
    BY <1>2, <1>4, <1>5

\* A page, honest or faulty, is made of rows, and no wrong row stands alone.
LEMMA AnswerRows ==
    ASSUME IngestionAssumption, TypeInv, NEW j, NEW timed \in BOOLEAN,
           NEW page \in {Honest(Served(j, timed))} \cup Faulty(Served(j, timed))
    PROVE  page.rows \subseteq Row /\ Sound(page.rows)
<1> DEFINE S == Served(j, timed)
<1>1. \A r \in S : r \in Row /\ (r.closed => Trusted(r.t, r.v)) /\ r.v # "wrong"
    BY ServedRows
<1>2. CASE page = Honest(S)
    BY <1>1, <1>2 DEF Honest, Page, Sound
<1>3. CASE \E r \in S : page.rows = S \ {r}
    BY <1>1, <1>3 DEF Sound
<1>4. CASE \E r \in S : page.rows = S \cup {[r EXCEPT !.v = "wrong"]}
    <2>1. PICK r \in S : page.rows = S \cup {[r EXCEPT !.v = "wrong"]}
        BY <1>4
    <2>2. /\ [r EXCEPT !.v = "wrong"] \in Row
          /\ [r EXCEPT !.v = "wrong"].t = r.t
          /\ [r EXCEPT !.v = "wrong"] # r
        BY <1>1 DEF Row, Values, Garbage
    <2> QED
        BY <1>1, <2>1, <2>2 DEF Sound
<1>5. page \in Faulty(S) => \/ \E r \in S : page.rows = S \ {r}
                           \/ \E r \in S : page.rows = S \cup {[r EXCEPT !.v = "wrong"]}
    <2> HIDE DEF S
    <2> SUFFICES ASSUME page \in Faulty(S)
                 PROVE  \/ \E r \in S : page.rows = S \ {r}
                        \/ \E r \in S : page.rows = S \cup {[r EXCEPT !.v = "wrong"]}
        OBVIOUS
    <2>1. CASE \E r \in S : page = Page(S \ {r}, Times(S), Cardinality(S), TRUE)
        <3>1. PICK r \in S : page = Page(S \ {r}, Times(S), Cardinality(S), TRUE)
            BY <2>1
        <3>2. page.rows = S \ {r}
            BY <3>1 DEF Page
        <3> QED
            BY <3>2
    <2>2. CASE \E r \in S : page = Page(S \ {r}, Times(S \ {r}), Cardinality(S) - 1, TRUE)
        <3>1. PICK r \in S : page = Page(S \ {r}, Times(S \ {r}), Cardinality(S) - 1, TRUE)
            BY <2>2
        <3>2. page.rows = S \ {r}
            BY <3>1 DEF Page
        <3> QED
            BY <3>2
    <2>3. CASE \E r \in S : page = Page(S \cup {[r EXCEPT !.v = "wrong"]}, Times(S), Cardinality(S) + 1, FALSE)
        <3>1. PICK r \in S : page = Page(S \cup {[r EXCEPT !.v = "wrong"]}, Times(S), Cardinality(S) + 1, FALSE)
            BY <2>3
        <3>2. page.rows = S \cup {[r EXCEPT !.v = "wrong"]}
            BY <3>1 DEF Page
        <3> QED
            BY <3>2
    <2> QED
        BY <2>1, <2>2, <2>3, Zenon DEF Faulty
<1> QED
    BY <1>2, <1>3, <1>4, <1>5

LEMMA PageRows ==
    ASSUME IngestionAssumption, TypeInv, NEW j, NEW page \in {Honest(Served(j, TRUE))} \cup Spoilt(j)
    PROVE  page.rows \subseteq Row /\ Sound(page.rows)
<1>1. PICK timed \in BOOLEAN : page \in {Honest(Served(j, timed))} \cup Faulty(Served(j, timed))
    BY DEF Spoilt
<1> QED
    BY <1>1, AnswerRows

\* Whatever page ends or continues a walk, the job stays well formed: only
\* final values of closed bars are handed to the store.
LEMMA WalkedJob ==
    ASSUME IngestionAssumption, NEW j, Fetch(j), NEW page, page.rows \subseteq Row, Sound(page.rows),
           NEW k \in Walked(j, page)
    PROVE  JobOK(k) /\ k.pc # "recording"
<1> DEFINE rows == j.rows \cup InRange(j, page.rows)
           bad == j.bad \/ page.bad
           next == Oldest(page.times) - 1
<1>1. /\ rows \subseteq Row
      /\ j.dataset = "candles" => Sound(rows)
    <2>1. InRange(j, page.rows) \subseteq Row
        BY DEF InRange
    <2>2. Sound(InRange(j, page.rows))
        BY DEF InRange, Sound
    <2>3. j.rows \subseteq Row /\ (j.dataset = "candles" => Sound(j.rows))
        BY DEF Fetch
    <2> QED
        BY <2>1, <2>2, <2>3 DEF Sound
<1>2. j.dataset \in Datasets /\ j.lo \in Bars /\ j.hi \in Ends
    BY DEF Fetch
<1> HIDE DEF rows, bad, next
<1>3. ASSUME NEW why PROVE JobOK(Failing(j, why))
    BY <1>2 DEF JobOK, Fail, Failing
<1>4. ASSUME NEW b \in Batches(j, rows), NEW c PROVE JobOK(Storing(j, Closed(b), c))
    <2>1. Closed(b) \subseteq rows
        BY <1>4 DEF Batches, Closed, Deduped, LastWins
    <2>2. j.dataset = "candles" => \A r \in Closed(b) : Trusted(r.t, r.v)
        BY <1>1, <1>4 DEF Batches, Closed, Deduped, Sound
    <2> QED
        BY <1>1, <1>2, <2>1, <2>2 DEF JobOK, Store, Storing
<1>5. JobOK([j EXCEPT !.rows = rows, !.bad = bad, !.attempt = 1, !.cursor = next, !.pages = @ + 1])
    BY <1>1 DEF JobOK, Fetch
<1>6. \/ \E why : k = Failing(j, why)
      \/ \E b \in Batches(j, rows) : \E c : k = Storing(j, Closed(b), c)
      \/ k = [j EXCEPT !.rows = rows, !.bad = bad, !.attempt = 1, !.cursor = next, !.pages = @ + 1]
    BY DEF Walked, rows, bad, next
<1>7. k.pc # "recording"
    <2>1. \A why : Failing(j, why).pc # "recording"
        BY DEF Failing
    <2>2. \A b, c : Storing(j, b, c).pc # "recording"
        BY DEF Storing
    <2>3. [j EXCEPT !.rows = rows, !.bad = bad, !.attempt = 1, !.cursor = next, !.pages = @ + 1].pc
            # "recording"
        BY DEF Fetch
    <2> QED
        BY <1>6, <2>1, <2>2, <2>3
<1> QED
    BY <1>3, <1>4, <1>5, <1>6, <1>7

---------------------------------------------------------------------------
LEMMA JobStep ==
    ASSUME JobInv, NEW p \in Procs, NEW k, JobOK(k), job' = [job EXCEPT ![p] = k]
    PROVE  JobInv'
BY DEF JobInv

\* What the steps of the store do to a job: the next place, the same rows.
LEMMA StoreStep ==
    ASSUME NEW j, JobOK(j), j.pc \in {"storing", "writing", "checking", "recording"},
           NEW pc \in {"storing", "writing", "checking", "recording"}, NEW bad, NEW status
    PROVE  /\ Store(j)
           /\ JobOK([j EXCEPT !.pc = pc])
           /\ JobOK([j EXCEPT !.pc = pc, !.bad = bad])
           /\ JobOK([j EXCEPT !.pc = pc, !.status = status])
<1>1. Store(j)
    BY DEF JobOK, Idle, Fetch, Fail
<1>2. Store([j EXCEPT !.pc = pc])
    BY <1>1 DEF Store
<1>3. Store([j EXCEPT !.pc = pc, !.bad = bad])
    BY <1>1 DEF Store
<1>4. Store([j EXCEPT !.pc = pc, !.status = status])
    BY <1>1 DEF Store
<1> QED
    BY <1>1, <1>2, <1>3, <1>4 DEF JobOK

LEMMA FailingJob ==
    ASSUME NEW j, JobOK(j), j # Idle, NEW why
    PROVE  JobOK(Failing(j, why))
BY DEF JobOK, Fetch, Store, Fail, Failing

LEMMA FetchingPc ==
    ASSUME NEW j, JobOK(j), j.pc = "fetching"
    PROVE  Fetch(j)
BY DEF JobOK, Idle, Store, Fail

---------------------------------------------------------------------------
\* Invariance of TypeInv.

LEMMA InitTyped == ASSUME IngestionAssumption, Init PROVE TypeInv
<1>1. exchange \in [Bars -> Final \cup {None}] /\ server \in Nat
    BY DEF IngestionAssumption, Init, Final
<1>2. stored \in [Keys -> Values \cup {None}] /\ launch \in {None, Launch}
    BY DEF Init
<1>3. JobInv
    BY DEF Init, JobInv, JobOK
<1> QED
    BY <1>1, <1>2, <1>3 DEF TypeInv

\* The rows a transaction inserts are rows of its job.
LEMMA FreshValue ==
    ASSUME TypeInv, NEW p \in Procs, job[p].pc = "writing", NEW t \in Fresh(job[p])
    PROVE  /\ Value(job[p].rows, t) \in Values
           /\ job[p].dataset = "candles" => Trusted(t, Value(job[p].rows, t))
<1> DEFINE rows == job[p].rows
<1>1. Store(job[p])
    BY StoreStep DEF TypeInv, JobInv
<1>2. PICK r \in rows : r.t = t
    BY DEF Fresh
<1>3. (CHOOSE q \in rows : q.t = t) \in rows /\ (CHOOSE q \in rows : q.t = t).t = t
    BY <1>2
<1>4. PICK q \in rows : Value(rows, t) = q.v /\ q.t = t
    BY <1>3 DEF Value
<1> QED
    BY <1>1, <1>4 DEF Store, Row

\* Only a transaction changes the stored rows, and it only adds.
LEMMA StoreSteps ==
    ASSUME TypeInv, [Next]_vars
    PROVE  \/ stored' = stored
           \/ \E p \in Procs : job[p].pc = "writing" /\ Commit(p)
<1>1. ASSUME NEW p \in Procs, job[p].pc = "writing", Commit(p)
      PROVE  \E q \in Procs : job[q].pc = "writing" /\ Commit(q)
    BY <1>1
<1> QED
    BY <1>1 DEF Next, vars, Environment, SyncInstruments, Start, Step, AttemptFails, StoreFails, Kill,
        PageArrives, BeginWrite, Commit, Check, Record, Busy, RecordFailure

LEMMA StoredTyped ==
    ASSUME TypeInv, [Next]_vars
    PROVE  stored' \in [Keys -> Values \cup {None}]
<1>1. CASE stored' = stored
    BY <1>1 DEF TypeInv
<1>2. ASSUME NEW p \in Procs, job[p].pc = "writing", Commit(p)
      PROVE  stored' \in [Keys -> Values \cup {None}]
    <2>1. \A k \in Keys : (IF k[1] = job[p].dataset /\ k[2] \in Fresh(job[p])
                           THEN Value(job[p].rows, k[2]) ELSE stored[k]) \in Values \cup {None}
        BY <1>2, FreshValue DEF TypeInv
    <2> QED
        BY <1>2, <2>1 DEF Commit
<1> QED
    BY <1>1, <1>2, StoreSteps

LEMMA JobsTyped ==
    ASSUME IngestionAssumption, TypeInv, [Next]_vars
    PROVE  JobInv'
<1> USE DEF TypeInv
<1>1. CASE UNCHANGED job
    BY <1>1 DEF JobInv
<1>2. ASSUME NEW p \in Procs, NEW k, JobOK(k), job' = [job EXCEPT ![p] = k]
      PROVE  JobInv'
    BY <1>2, JobStep
<1>3. ASSUME NEW p \in Procs PROVE JobOK(job[p])
    BY DEF JobInv
<1>4. ASSUME NEW p \in Procs, Start(p) PROVE JobInv'
    <2>1. PICK w \in Wanted[p] :
            job' = [job EXCEPT ![p] = Fetching(w, IF w.hi < LocalNow THEN w.hi ELSE LocalNow)]
        BY <1>4 DEF Start
    <2>2. w.dataset \in Datasets /\ w.lo \in Bars
          /\ (IF w.hi < LocalNow THEN w.hi ELSE LocalNow) \in Ends
        BY DEF IngestionAssumption, Bars, Ends
    <2>3. ASSUME NEW hi \in Ends PROVE JobOK(Fetching(w, hi))
        BY <2>2 DEF JobOK, Fetch, Fetching, Sound
    <2> QED
        BY <1>2, <2>1, <2>2, <2>3
<1>5. ASSUME NEW p \in Procs, PageArrives(p) PROVE JobInv'
    <2>1. PICK page \in {Honest(Served(job[p], TRUE))} \cup Spoilt(job[p]) :
            \E k \in Walked(job[p], page) : job' = [job EXCEPT ![p] = k]
        BY <1>5 DEF PageArrives
    <2>2. PICK k \in Walked(job[p], page) : job' = [job EXCEPT ![p] = k]
        BY <2>1
    <2>3. Fetch(job[p])
        BY <1>3, <1>5, FetchingPc DEF PageArrives
    <2>4. JobOK(k)
        BY <2>3, PageRows, WalkedJob
    <2> QED
        BY <1>2, <2>2, <2>4
<1>6. ASSUME NEW p \in Procs, BeginWrite(p) PROVE JobInv'
    <2>1. JobOK([job[p] EXCEPT !.pc = "writing"])
        BY <1>3, <1>6, StoreStep DEF BeginWrite
    <2> QED
        BY <1>2, <1>6, <2>1 DEF BeginWrite
<1>7. ASSUME NEW p \in Procs, Commit(p) PROVE JobInv'
    <2> DEFINE bad == job[p].bad \/ Conflicts(job[p]) # {}
    <2>1. JobOK([job[p] EXCEPT !.pc = "checking", !.bad = bad])
        BY <1>3, <1>7, StoreStep DEF Commit
    <2> QED
        BY <1>2, <1>7, <2>1 DEF Commit
<1>8. ASSUME NEW p \in Procs, Check(p) PROVE JobInv'
    <2>1. JobOK([job[p] EXCEPT !.pc = "recording", !.status = StatusOf(job[p])])
        BY <1>3, <1>8, StoreStep DEF Check
    <2> QED
        BY <1>2, <1>8, <2>1 DEF Check
<1>9. ASSUME NEW p \in Procs, Record(p) \/ RecordFailure(p) \/ Kill(p) PROVE JobInv'
    BY <1>2, <1>9 DEF Record, RecordFailure, Kill, JobOK
<1>10. ASSUME NEW p \in Procs, StoreFails(p) \/ Busy(p) PROVE JobInv'
    <2>1. job[p] # Idle
        BY <1>10 DEF StoreFails, Busy, Idle
    <2> QED
        BY <1>2, <1>3, <1>10, <2>1, FailingJob DEF StoreFails, Busy
<1>11. ASSUME NEW p \in Procs, AttemptFails(p) PROVE JobInv'
    <2>1. Fetch(job[p]) /\ job[p] # Idle
        BY <1>3, <1>11, FetchingPc DEF AttemptFails, Idle
    <2>2. JobOK([job[p] EXCEPT !.attempt = @ + 1])
        BY <2>1 DEF JobOK, Fetch
    <2>3. PICK e \in Errors : job' = [job EXCEPT ![p] = AfterError(@, e)]
        BY <1>11 DEF AttemptFails
    <2>4. JobOK(AfterError(job[p], e))
        BY <1>3, <2>1, <2>2, FailingJob DEF AfterError
    <2> QED
        BY <1>2, <2>3, <2>4
<1> QED
    BY <1>1, <1>4, <1>5, <1>6, <1>7, <1>8, <1>9, <1>10, <1>11
    DEF Next, vars, Environment, SyncInstruments, Step

LEMMA StepTyped ==
    ASSUME IngestionAssumption, TypeInv, [Next]_vars
    PROVE  TypeInv'
<1>1. CASE Environment
    <2>1. exchange' \in [Bars -> Final \cup {None}]
        BY <1>1 DEF TypeInv, Environment, Advance, Deliver, Revise, Final
    <2>2. server' \in Nat
        BY <1>1 DEF TypeInv, Environment, Advance, Deliver, Revise
    <2> QED
        BY <1>1, <2>1, <2>2, StoredTyped, JobsTyped DEF TypeInv, Environment
<1>2. CASE ~Environment
    <2>1. exchange' = exchange /\ server' = server /\ launch' \in {launch, Launch}
        BY <1>2 DEF Next, vars, SyncInstruments, Start, Step, AttemptFails, StoreFails, Kill, PageArrives,
            BeginWrite, Commit, Check, Record, Busy, RecordFailure
    <2> QED
        BY <2>1, StoredTyped, JobsTyped DEF TypeInv
<1> QED
    BY <1>1, <1>2

LEMMA Typed == Spec => []TypeInv
<1>1. Init => TypeInv
    BY InitTyped, IngestionAssumption
<1>2. TypeInv /\ [Next]_vars => TypeInv'
    BY StepTyped, IngestionAssumption
<1> QED
    BY <1>1, <1>2, PTL DEF Spec

---------------------------------------------------------------------------
LEMMA OnlyAdded ==
    ASSUME TypeInv, [Next]_vars
    PROVE  [Abstract!Next]_stored
<1>1. stored' \in [Keys -> Values \cup {None}]
    BY StoredTyped
<1>2. CASE stored' = stored
    BY <1>2
<1>3. ASSUME NEW p \in Procs, Commit(p)
      PROVE  \A k \in Keys : stored[k] # None => stored'[k] = stored[k]
    <2> SUFFICES ASSUME NEW k \in Keys, stored[k] # None PROVE stored'[k] = stored[k]
        OBVIOUS
    <2>1. k = <<k[1], k[2]>>
        BY DEF Keys
    <2>2. k[1] = job[p].dataset => k[2] \notin Fresh(job[p])
        BY <2>1 DEF Fresh
    <2> QED
        BY <1>3, <2>2 DEF Commit
<1> QED
    BY <1>1, <1>2, <1>3, StoreSteps DEF Abstract!Next, Values

\* The tables of candles and funding rates implement the write-once map: a
\* transaction gives values to absent keys and leaves the others alone, whatever
\* is fetched twice, contradicts itself, fails or is killed (upsert_candles,
\* upsert_funding in app/storage/market_data.py).
THEOREM StoreImplementsWriteOnce == Spec => StoreIsWriteOnce
<1>1. Init => Abstract!Init
    BY DEF Init, Abstract!Init
<1>2. TypeInv /\ [Next]_vars => [Abstract!Next]_stored
    BY OnlyAdded
<1> QED
    BY <1>1, <1>2, Typed, PTL DEF Spec, StoreIsWriteOnce, Abstract!Spec

\* A candle is the final word of the exchange, or the moving values of a bar that
\* an answer without a time served and the local clock, being ahead, held to be
\* closed; never one of two rows that contradict each other (candles,
\* parse_klines, dedupe, the filter on is_closed).
THEOREM CandlesFinalOrGuessed == Spec => []CandlesAreFinalOrGuessed
<1>1. Init => CandlesAreFinalOrGuessed
    BY DEF Init, CandlesAreFinalOrGuessed, Keys, Datasets
<1>2. TypeInv /\ CandlesAreFinalOrGuessed /\ [Next]_vars => CandlesAreFinalOrGuessed'
    <2> SUFFICES ASSUME TypeInv, CandlesAreFinalOrGuessed, [Next]_vars PROVE CandlesAreFinalOrGuessed'
        OBVIOUS
    <2>1. CASE stored' = stored
        BY <2>1 DEF CandlesAreFinalOrGuessed
    <2>2. ASSUME NEW p \in Procs, job[p].pc = "writing", Commit(p) PROVE CandlesAreFinalOrGuessed'
        <3> SUFFICES ASSUME NEW t \in Bars
                     PROVE  LET v == stored'[<<"candles", t>>] IN v = None \/ Trusted(t, v)
            BY DEF CandlesAreFinalOrGuessed, Trusted
        <3>1. <<"candles", t>> \in Keys
            BY DEF Keys, Datasets
        <3>2. CASE job[p].dataset = "candles" /\ t \in Fresh(job[p])
            BY <2>2, <3>1, <3>2, FreshValue DEF Commit
        <3>3. CASE ~(job[p].dataset = "candles" /\ t \in Fresh(job[p]))
            BY <2>2, <3>1, <3>3 DEF Commit, CandlesAreFinalOrGuessed, Trusted
        <3> QED
            BY <3>2, <3>3
    <2> QED
        BY <2>1, <2>2, StoreSteps
<1> QED
    BY <1>1, <1>2, Typed, PTL DEF Spec

---------------------------------------------------------------------------
\* Every bar of the range of a job, from the listing on, is stored.
Filled(j) == \A t \in j.lo..j.hi - 1 : t >= Launch => stored[<<"candles", t>>] # None

\* The verdict of a run is reached before it is recorded: what was complete then
\* must still be complete.
OkInv ==
    /\ \A r \in runs : r.lo \in Bars /\ r.hi \in Ends
    /\ \A r \in runs : r.dataset = "candles" /\ r.status = "ok" => Filled(r)
    /\ \A p \in Procs :
        job[p].pc = "recording" /\ job[p].dataset = "candles" /\ job[p].status = "ok" => Filled(job[p])

LEMMA StaysStored ==
    ASSUME TypeInv, [Next]_vars, NEW t \in Bars, stored[<<"candles", t>>] # None
    PROVE  stored'[<<"candles", t>>] # None
<1>1. [Abstract!Next]_stored
    BY OnlyAdded
<1>2. <<"candles", t>> \in Keys
    BY DEF Keys, Datasets
<1> QED
    BY <1>1, <1>2 DEF Abstract!Next

LEMMA StaysFilled ==
    ASSUME IngestionAssumption, TypeInv, [Next]_vars, NEW j, j.lo \in Bars, j.hi \in Ends, Filled(j)
    PROVE  \A t \in j.lo..j.hi - 1 : t >= Launch => stored'[<<"candles", t>>] # None
<1>1. j.lo..j.hi - 1 \subseteq Bars
    BY DEF Bars, Ends, IngestionAssumption
<1> QED
    BY <1>1, StaysStored DEF Filled

\* A job that is to be recorded came there by the search for gaps.
LEMMA RecordingSteps ==
    ASSUME TypeInv, [Next]_vars, IngestionAssumption, NEW p \in Procs, job'[p].pc = "recording"
    PROVE  Check(p) \/ job'[p] = job[p]
<1> USE DEF TypeInv
<1>1. ASSUME NEW q \in Procs, NEW k, k.pc # "recording", job' = [job EXCEPT ![q] = k]
      PROVE  job'[p] = job[p]
    BY <1>1 DEF JobInv
<1>2. ASSUME NEW q \in Procs, PageArrives(q) PROVE job'[p] = job[p]
    <2>1. PICK page \in {Honest(Served(job[q], TRUE))} \cup Spoilt(job[q]) :
            \E k \in Walked(job[q], page) : job' = [job EXCEPT ![q] = k]
        BY <1>2 DEF PageArrives
    <2>2. PICK k \in Walked(job[q], page) : job' = [job EXCEPT ![q] = k]
        BY <2>1
    <2>3. Fetch(job[q])
        BY <1>2, FetchingPc DEF PageArrives, JobInv
    <2>4. k.pc # "recording"
        BY <2>3, PageRows, WalkedJob
    <2> QED
        BY <1>1, <2>2, <2>4
<1>3. ASSUME NEW q \in Procs, AttemptFails(q) PROVE job'[p] = job[p]
    <2>1. PICK e \in Errors : job' = [job EXCEPT ![q] = AfterError(@, e)]
        BY <1>3 DEF AttemptFails
    <2>2. AfterError(job[q], e).pc # "recording"
        <3>1. Fetch(job[q])
            BY <1>3, FetchingPc DEF AttemptFails, JobInv
        <3> QED
            BY <3>1 DEF AfterError, Failing, Fetch
    <2> QED
        BY <1>1, <2>1, <2>2
<1>4. ASSUME NEW q \in Procs, Start(q) PROVE job'[p] = job[p]
    <2>1. PICK w \in Wanted[q], hi \in {w.hi : w \in Wanted[q]} \cup {LocalNow} :
            job' = [job EXCEPT ![q] = Fetching(w, hi)]
        BY <1>4 DEF Start
    <2> QED
        BY <1>1, <2>1 DEF Fetching
<1>5. ASSUME NEW q \in Procs, BeginWrite(q) \/ Commit(q) \/ Check(q) PROVE Check(p) \/ job'[p] = job[p]
    <2>1. CASE Check(q)
        BY <2>1 DEF Check, JobInv
    <2>2. CASE BeginWrite(q) \/ Commit(q)
        <3>1. Store(job[q])
            BY <2>2, StoreStep DEF BeginWrite, Commit, JobInv
        <3> QED
            BY <2>2, <3>1 DEF BeginWrite, Commit, JobInv, Store
    <2> QED
        BY <1>5, <2>1, <2>2
<1>6. ASSUME NEW q \in Procs, Record(q) \/ RecordFailure(q) \/ Kill(q) \/ StoreFails(q) \/ Busy(q)
      PROVE  job'[p] = job[p]
    <2>1. \E k : k.pc # "recording" /\ job' = [job EXCEPT ![q] = k]
        BY <1>6 DEF Record, RecordFailure, Kill, StoreFails, Busy, Idle, Failing
    <2> QED
        BY <1>1, <2>1
<1> QED
    BY <1>2, <1>3, <1>4, <1>5, <1>6 DEF Next, vars, Environment, SyncInstruments, Step

LEMMA RunSteps ==
    ASSUME TypeInv, [Next]_vars
    PROVE  \/ runs' = runs
           \/ \E p \in Procs :
                \/ job[p].pc = "recording" /\ runs' = runs \cup {RunRow(job[p], job[p].status)}
                \/ job[p].pc = "failing" /\ runs' = runs \cup {RunRow(job[p], "failed")}
BY DEF Next, vars, Environment, SyncInstruments, Start, Step, AttemptFails, StoreFails, Kill,
        PageArrives, BeginWrite, Commit, Check, Record, Busy, RecordFailure

LEMMA OkStep ==
    ASSUME IngestionAssumption, TypeInv, OkInv, [Next]_vars
    PROVE  OkInv'
<1>1. ASSUME NEW p \in Procs, job[p].pc \in {"recording", "failing"}
      PROVE  job[p].lo \in Bars /\ job[p].hi \in Ends
    BY <1>1 DEF TypeInv, JobInv, JobOK, Idle, Fetch, Store, Fail
<1>2. \A r \in runs' : r.lo \in Bars /\ r.hi \in Ends
    BY <1>1, RunSteps DEF OkInv, RunRow
<1>3. ASSUME NEW r \in runs', r.dataset = "candles", r.status = "ok"
      PROVE  \A t \in r.lo..r.hi - 1 : t >= Launch => stored'[<<"candles", t>>] # None
    <2>1. CASE r \in runs
        BY <1>3, <2>1, StaysFilled DEF OkInv
    <2>2. CASE \E p \in Procs : job[p].pc = "recording" /\ r = RunRow(job[p], job[p].status)
        <3>1. PICK p \in Procs : job[p].pc = "recording" /\ r = RunRow(job[p], job[p].status)
            BY <2>2
        <3>2. r.lo = job[p].lo /\ r.hi = job[p].hi
              /\ job[p].dataset = "candles" /\ job[p].status = "ok"
            BY <1>3, <3>1 DEF RunRow
        <3> QED
            BY <1>1, <3>1, <3>2, StaysFilled DEF OkInv
    <2> QED
        BY <1>3, <2>1, <2>2, RunSteps DEF RunRow
<1>4. ASSUME NEW p \in Procs, job'[p].pc = "recording", job'[p].dataset = "candles", job'[p].status = "ok"
      PROVE  \A t \in job'[p].lo..job'[p].hi - 1 : t >= Launch => stored'[<<"candles", t>>] # None
    <2>1. CASE job'[p] = job[p]
        BY <1>1, <1>4, <2>1, StaysFilled DEF OkInv
    <2>2. CASE Check(p)
        <3>1. Store(job[p])
            BY <2>2, StoreStep DEF Check, TypeInv, JobInv
        <3>2. job'[p] = [job[p] EXCEPT !.pc = "recording", !.status = StatusOf(job[p])] /\ stored' = stored
            BY <2>2 DEF Check, TypeInv, JobInv
        <3>3. /\ job'[p].dataset = job[p].dataset /\ job'[p].lo = job[p].lo
              /\ job'[p].hi = job[p].hi /\ job'[p].status = StatusOf(job[p])
            BY <3>1, <3>2 DEF Store
        <3>4. Gaps(job[p]) = {}
            BY <1>4, <3>3 DEF StatusOf
        <3>5. \A t \in job[p].lo..job[p].hi - 1 : t >= Launch => t \in AvailableFrom(job[p])..job[p].hi - 1
            BY <1>1, <3>1 DEF AvailableFrom, TypeInv, Store, Bars, Ends, IngestionAssumption
        <3> QED
            BY <3>2, <3>3, <3>4, <3>5 DEF Gaps
    <2> QED
        BY <1>4, <2>1, <2>2, RecordingSteps
<1> QED
    BY <1>2, <1>3, <1>4 DEF OkInv, Filled

\* A run recorded as "ok" left no bar of its range out, from the listing of the
\* instrument on, however its pages ended, and nothing that happens later takes
\* one away (BackfillService.backfill, find_gaps).
THEOREM OkRunsAreComplete == Spec => []OkIsComplete
<1>1. Init => OkInv
    BY DEF Init, OkInv, Idle
<1>2. TypeInv /\ OkInv /\ [Next]_vars => OkInv'
    BY OkStep, IngestionAssumption
<1>3. OkInv => OkIsComplete
    BY DEF OkInv, OkIsComplete, Filled
<1> QED
    BY <1>1, <1>2, <1>3, Typed, PTL DEF Spec

---------------------------------------------------------------------------
\* The walk over the pages.

LEMMA OldestIsThere ==
    ASSUME NEW S, S \subseteq Nat, S # {}
    PROVE  Oldest(S) \in S /\ \A u \in S : Oldest(S) <= u
<1>1. \E t \in S : \A u \in S : ~(<<u, t>> \in OpToRel(<, Nat))
    BY WFMin, NatLessThanWellFounded
<1>2. \A u, t \in Nat : u < t => <<u, t>> \in OpToRel(<, Nat)
    BY DEF OpToRel
<1>3. \E t \in S : \A u \in S : ~(u < t)
    BY <1>1, <1>2
<1>4. \E t \in S : \A u \in S : t <= u
    BY <1>3
<1> QED
    BY <1>4 DEF Oldest

\* A set of times that ends at the cursor reaches as far back as it has members.
LEMMA OldestIsFar ==
    ASSUME NEW S, S \subseteq Nat, S # {}, NEW c \in Int, \A t \in S : t <= c
    PROVE  /\ Oldest(S) \in Nat
           /\ IsFiniteSet(S)
           /\ Cardinality(S) \in Nat
           /\ Oldest(S) - 1 <= c - Cardinality(S)
           /\ Oldest(S) - 1 < c
<1> DEFINE o == Oldest(S)
<1>1. o \in S /\ o \in Nat /\ \A u \in S : o <= u
    BY OldestIsThere
<1>2. o <= c
    BY <1>1
<1>3. S \subseteq o..c
    BY <1>1
<1> HIDE DEF o
<1>4. IsFiniteSet(o..c) /\ Cardinality(o..c) = c - o + 1
    BY <1>1, <1>2, FS_Interval
<1>5. IsFiniteSet(S) /\ Cardinality(S) <= Cardinality(o..c)
    BY <1>3, <1>4, FS_Subset
<1>6. Cardinality(S) \in Nat
    BY <1>5, FS_CardinalityType
<1>7. o - 1 <= c - Cardinality(S) /\ o - 1 < c
    BY <1>1, <1>2, <1>4, <1>5, <1>6
<1> QED
    BY <1>1, <1>5, <1>6, <1>7 DEF o

\* The exchange serves one row of a bar, and none beyond the cursor.
LEMMA ServedTimes ==
    ASSUME IngestionAssumption, NEW j, NEW timed, NEW rows, rows \subseteq Served(j, timed)
    PROVE  /\ Times(rows) \subseteq Bars
           /\ \A t \in Times(rows) : t <= j.cursor
           /\ IsFiniteSet(rows)
           /\ Cardinality(rows) <= Cardinality(Times(rows))
<1> DEFINE RowOf(t) == IF j.dataset = "candles" THEN Candle(t, timed) ELSE Rate(t)
           T == Times(rows)
           f == [t \in T |-> RowOf(t)]
<1>1. ASSUME NEW r \in rows PROVE r.t \in Bars /\ r.t <= j.cursor /\ r = RowOf(r.t)
    <2>1. CASE j.dataset = "candles"
        <3>1. PICK t \in Bars : t <= j.cursor /\ r = Candle(t, timed)
            BY <2>1 DEF Served, Newest
        <3>2. r.t = t
            BY <3>1 DEF Candle
        <3> QED
            BY <2>1, <3>1, <3>2
    <2>2. CASE j.dataset # "candles"
        <3>1. PICK t \in Bars : t <= j.cursor /\ r = Rate(t)
            BY <2>2 DEF Served, Newest
        <3>2. r.t = t
            BY <3>1 DEF Rate
        <3> QED
            BY <2>2, <3>1, <3>2
    <2> QED
        BY <2>1, <2>2
<1> HIDE DEF RowOf
<1>2. T \subseteq Bars /\ \A t \in T : t <= j.cursor
    BY <1>1 DEF Times
<1>3. IsFiniteSet(Bars)
    BY FS_Interval DEF Bars, IngestionAssumption
<1>4. IsFiniteSet(T)
    BY <1>2, <1>3, FS_Subset
<1>5. f \in Surjection(T, rows)
    <2>1. \A t \in T : RowOf(t) \in rows
        BY <1>1 DEF Times
    <2>2. \A r \in rows : \E t \in T : f[t] = r
        BY <1>1 DEF Times
    <2> QED
        BY <2>1, <2>2 DEF Surjection
<1>6. IsFiniteSet(rows) /\ Cardinality(rows) <= Cardinality(T)
    BY ONLY <1>4, <1>5, FS_Surjection
<1> QED
    BY <1>2, <1>6

\* A page has at most one row more than it has times, and that only by a fault.
LEMMA AnswerTimes ==
    ASSUME IngestionAssumption, TypeInv, NEW j, j.cursor \in Int, NEW lost \in {0, 1}, NEW timed,
           NEW page,
           page = Honest(Served(j, timed)) \/ (lost = 1 /\ page \in Faulty(Served(j, timed)))
    PROVE  /\ page.times \subseteq Bars
           /\ \A t \in page.times : t <= j.cursor
           /\ page.n <= Cardinality(page.times) + lost
           /\ page.n \in Int
<1> DEFINE S == Served(j, timed)
<1>1. /\ Times(S) \subseteq Bars /\ \A t \in Times(S) : t <= j.cursor
      /\ IsFiniteSet(S) /\ Cardinality(S) <= Cardinality(Times(S))
    BY ServedTimes
<1>2. Bars \subseteq Nat /\ IsFiniteSet(Bars)
    BY FS_Interval DEF Bars, IngestionAssumption
<1>3. Cardinality(S) \in Nat
    BY <1>1, FS_CardinalityType
<1>4. ASSUME NEW T, T \subseteq Bars PROVE Cardinality(T) \in Nat
    BY <1>2, <1>4, FS_Subset, FS_CardinalityType
<1> HIDE DEF S
<1>5. CASE page = Honest(S)
    <2>1. page.times = Times(S) /\ page.n = Cardinality(S)
        BY <1>5 DEF Honest, Page
    <2> QED
        BY <1>1, <1>3, <1>4, <2>1
<1>6. ASSUME NEW r \in S, lost = 1, page = Page(S \ {r}, Times(S), Cardinality(S), TRUE)
      PROVE  /\ page.times \subseteq Bars /\ \A t \in page.times : t <= j.cursor
             /\ page.n <= Cardinality(page.times) + lost /\ page.n \in Int
    <2>1. page.times = Times(S) /\ page.n = Cardinality(S)
        BY <1>6 DEF Page
    <2> QED
        BY <1>1, <1>3, <1>4, <2>1
<1>7. ASSUME NEW r \in S, lost = 1, page = Page(S \ {r}, Times(S \ {r}), Cardinality(S) - 1, TRUE)
      PROVE  /\ page.times \subseteq Bars /\ \A t \in page.times : t <= j.cursor
             /\ page.n <= Cardinality(page.times) + lost /\ page.n \in Int
    <2>1. page.times = Times(S \ {r}) /\ page.n = Cardinality(S) - 1
        BY <1>7 DEF Page
    <2>2. S \ {r} \subseteq Served(j, timed)
        BY DEF S
    <2>3. /\ Times(S \ {r}) \subseteq Bars /\ \A t \in Times(S \ {r}) : t <= j.cursor
          /\ Cardinality(S \ {r}) <= Cardinality(Times(S \ {r}))
        BY <2>2, ServedTimes
    <2>4. Cardinality(S \ {r}) = Cardinality(S) - 1
        BY <1>1, <1>7, FS_RemoveElement
    <2>5. Cardinality(Times(S \ {r})) \in Nat
        BY <1>4, <2>3
    <2>6. page.n <= Cardinality(page.times) + lost /\ page.n \in Int
        <3>1. lost = 1
            BY <1>7
        <3> QED
            BY <1>3, <2>1, <2>3, <2>4, <2>5, <3>1
    <2> QED
        BY <2>1, <2>3, <2>6
<1>8. ASSUME NEW r \in S, lost = 1,
             page = Page(S \cup {[r EXCEPT !.v = "wrong"]}, Times(S), Cardinality(S) + 1, FALSE)
      PROVE  /\ page.times \subseteq Bars /\ \A t \in page.times : t <= j.cursor
             /\ page.n <= Cardinality(page.times) + lost /\ page.n \in Int
    <2>1. page.times = Times(S) /\ page.n = Cardinality(S) + 1
        BY <1>8 DEF Page
    <2>2. Cardinality(Times(S)) \in Nat
        BY <1>1, <1>4
    <2>3. page.n <= Cardinality(page.times) + lost /\ page.n \in Int
        <3>1. lost = 1
            BY <1>8
        <3> QED
            BY <1>1, <1>3, <2>1, <2>2, <3>1
    <2> QED
        BY <1>1, <2>1, <2>3
<1>9. page = Honest(S) \/ (lost = 1 /\ page \in Faulty(S))
    BY DEF S
<1>10. page \in Faulty(S) =>
            \/ \E r \in S : page = Page(S \ {r}, Times(S), Cardinality(S), TRUE)
            \/ \E r \in S : page = Page(S \ {r}, Times(S \ {r}), Cardinality(S) - 1, TRUE)
            \/ \E r \in S : page = Page(S \cup {[r EXCEPT !.v = "wrong"]}, Times(S), Cardinality(S) + 1, FALSE)
    BY Zenon DEF Faulty
<1> QED
    BY <1>5, <1>6, <1>7, <1>8, <1>9, <1>10

\* The page of an honest answer, or one spoilt by a fault.
IsPage(j, lost, page) == page = Honest(Served(j, TRUE)) \/ (lost = 1 /\ page \in Spoilt(j))

LEMMA PageTimes ==
    ASSUME IngestionAssumption, TypeInv, NEW j, j.cursor \in Int, NEW lost \in {0, 1},
           NEW page, IsPage(j, lost, page)
    PROVE  /\ page.times \subseteq Bars
           /\ \A t \in page.times : t <= j.cursor
           /\ page.n <= Cardinality(page.times) + lost
           /\ page.n \in Int
<1>1. PICK timed : page = Honest(Served(j, timed)) \/ (lost = 1 /\ page \in Faulty(Served(j, timed)))
    BY DEF IsPage, Spoilt
<1> QED
    BY <1>1, AnswerTimes

---------------------------------------------------------------------------
\* What a walk has behind it: pages pages that were full but for a row a fault.
Walking(j, lost) ==
    /\ j.lo < j.hi /\ j.lo - 1 <= j.cursor /\ j.cursor < j.hi
    /\ j.cursor \in Int /\ j.pages \in Nat \ {0}
    /\ (j.pages - 1) * PageLimit <= j.hi - 1 - j.cursor + lost

\* The budget is enough for a range whose last bar has been reached, with two
\* pages for the rows that faults have taken.
LEMMA BudgetIsEnough ==
    ASSUME NEW L \in Nat \ {0}, NEW span \in Nat \ {0}, NEW pages \in Nat \ {0}, NEW lost \in 0..2 * L,
           pages * L <= span - 1 + lost
    PROVE  pages + 1 <= ((span + L - 1) \div L) + 2
<1> DEFINE q == (span + L - 1) \div L
<1>1. q \in Int /\ span + L - 1 < (q + 1) * L
    OBVIOUS
<1> HIDE DEF q
<1>2. pages * L < q * L + 2 * L
    <2>1. (q + 1) * L = q * L + L
        BY <1>1
    <2>2. pages * L \in Int /\ q * L \in Int
        BY <1>1
    <2> QED
        BY <1>1, <2>1, <2>2
<1>3. pages < q + 2
    <2> SUFFICES ASSUME q + 2 <= pages PROVE FALSE
        BY <1>1
    <2>1. (q + 2) * L <= pages * L
        BY <1>1
    <2> QED
        BY <1>1, <1>2, <2>1
<1> QED
    BY <1>1, <1>3 DEF q

\* A page that does not end the walk takes it a page further back.
LEMMA WalkGoesOn ==
    ASSUME IngestionAssumption, TypeInv, NEW j, Fetch(j), NEW before \in Nat, Walking(j, before),
           NEW lost \in {0, 1}, before + lost <= 2 * PageLimit,
           NEW page, IsPage(j, lost, page),
           ~LastPage(j, page)
    PROVE  LET next == Oldest(page.times) - 1 IN
           /\ ~(next >= j.cursor) /\ ~(j.pages + 1 > MaxPages(j))
           /\ next \in Int /\ j.lo - 1 <= next
           /\ j.pages * PageLimit <= j.hi - 1 - next + before + lost
<1> DEFINE next == Oldest(page.times) - 1
           c == Cardinality(page.times)
           span == j.hi - j.lo
<1>1. PageLimit \in Nat \ {0} /\ LastBar \in Nat /\ Bars \subseteq Nat
    BY DEF IngestionAssumption, Bars
<1>2. j.lo \in Int /\ j.hi \in Int
    BY <1>1 DEF Fetch, Ends
<1>3. /\ j.lo < j.hi /\ j.lo - 1 <= j.cursor /\ j.cursor < j.hi
      /\ j.cursor \in Int /\ j.pages \in Nat \ {0}
      /\ (j.pages - 1) * PageLimit <= j.hi - 1 - j.cursor + before
    BY DEF Walking
<1>4. /\ page.times \subseteq Bars /\ \A t \in page.times : t <= j.cursor
      /\ page.n <= c + lost /\ page.n \in Int
    BY <1>3, PageTimes
<1>5. page.times # {} /\ ~(Oldest(page.times) <= j.lo) /\ ~(page.n < PageLimit)
    BY DEF LastPage
<1>6. next \in Int /\ c \in Nat /\ next <= j.cursor - c /\ next < j.cursor
    <2>1. page.times \subseteq Nat
        BY <1>1, <1>4
    <2>2. j.cursor \in Int /\ page.times # {} /\ \A t \in page.times : t <= j.cursor
        BY <1>3, <1>4, <1>5
    <2>3. /\ Oldest(page.times) \in Nat /\ c \in Nat
          /\ next <= j.cursor - c /\ next < j.cursor
        BY ONLY <2>1, <2>2, OldestIsFar
    <2> QED
        BY <2>3
<1>7. next \in Int /\ j.lo <= next /\ next + PageLimit - lost <= j.cursor
    <2> HIDE DEF c
    <2>1. lost \in Int /\ PageLimit <= c + lost
        BY <1>1, <1>4, <1>5, <1>6
    <2>2. Oldest(page.times) \in Nat
        <3>1. page.times \subseteq Nat
            BY <1>1, <1>4
        <3> QED
            BY <1>5, <3>1, OldestIsThere
    <2>3. j.lo <= next
        BY <1>2, <1>5, <2>2
    <2> HIDE DEF next
    <2> QED
        BY <1>1, <1>2, <1>3, <1>6, <2>1, <2>3
<1> HIDE DEF next, c
<1>8. j.pages * PageLimit <= j.hi - 1 - next + before + lost
    <2>1. (j.pages - 1) * PageLimit = j.pages * PageLimit - PageLimit /\ j.pages * PageLimit \in Int
        BY <1>1, <1>3
    <2> QED
        BY <1>1, <1>2, <1>3, <1>7, <2>1
<1>9. ~(j.pages + 1 > MaxPages(j))
    <2>1. span \in Nat \ {0} /\ j.pages * PageLimit \in Int
        BY <1>1, <1>2, <1>3
    <2>2. j.pages * PageLimit <= span - 1 + (before + lost) /\ before + lost \in 0..2 * PageLimit
        BY <1>1, <1>2, <1>7, <1>8, <2>1
    <2>3. j.pages + 1 <= ((span + PageLimit - 1) \div PageLimit) + 2
        BY <1>1, <1>3, <2>1, <2>2, BudgetIsEnough
    <2>4. (span + PageLimit - 1) \div PageLimit \in Int
        BY <1>1, <2>1
    <2> QED
        BY <1>1, <1>3, <2>3, <2>4 DEF MaxPages
<1> QED
    BY <1>2, <1>3, <1>6, <1>7, <1>8, <1>9 DEF next

---------------------------------------------------------------------------
\* A job that walks is within its budget, and none has failed in it.
WalkOK(j, lost) ==
    /\ j.pc = "fetching" => Walking(j, lost)
    /\ j.pc = "failing" => j.why # "pagination"

WalkInv == faults \in 0..MaxFaults /\ \A p \in Procs : WalkOK(job[p], faults)

LEMMA WalkingLonger ==
    ASSUME NEW j, NEW lost \in Nat, NEW more \in Nat, lost <= more, JobOK(j), WalkOK(j, lost), IngestionAssumption
    PROVE  WalkOK(j, more)
<1> SUFFICES ASSUME j.pc = "fetching", Walking(j, lost) PROVE Walking(j, more)
    BY DEF WalkOK
<1>1. j.hi \in Int /\ PageLimit \in Nat
    BY FetchingPc DEF Fetch, Ends, IngestionAssumption
<1>2. (j.pages - 1) * PageLimit \in Int /\ j.cursor \in Int
    BY <1>1 DEF Walking
<1> QED
    BY <1>1, <1>2 DEF Walking

\* A page leaves a walk in order, whether it ends or goes on.
LEMMA WalkedOK ==
    ASSUME IngestionAssumption, TypeInv, NEW j, Fetch(j), NEW before \in Nat, Walking(j, before),
           NEW lost \in {0, 1}, before + lost <= 2 * PageLimit,
           NEW page, IsPage(j, lost, page),
           NEW k \in Walked(j, page)
    PROVE  WalkOK(k, before + lost)
<1>1. CASE LastPage(j, page)
    <2>1. \/ k = Failing(j, "two open bars")
          \/ \E rows, bad : k = Storing(j, rows, bad)
        BY <1>1 DEF Walked
    <2>2. /\ Failing(j, "two open bars").pc = "failing"
          /\ Failing(j, "two open bars").why = "two open bars"
        BY DEF Failing
    <2>3. \A rows, bad : Storing(j, rows, bad).pc = "storing"
        BY DEF Storing
    <2> QED
        BY <2>1, <2>2, <2>3 DEF WalkOK
<1>2. CASE ~LastPage(j, page)
    <2> DEFINE next == Oldest(page.times) - 1
    <2>1. /\ ~(next >= j.cursor) /\ ~(j.pages + 1 > MaxPages(j))
          /\ next \in Int /\ j.lo - 1 <= next
          /\ j.pages * PageLimit <= j.hi - 1 - next + before + lost
        BY <1>2, WalkGoesOn
    <2>2. PICK rows, bad :
            k = [j EXCEPT !.rows = rows, !.bad = bad, !.attempt = 1, !.cursor = next, !.pages = @ + 1]
        BY <1>2, <2>1 DEF Walked
    <2>3. /\ k.pc = "fetching" /\ k.lo = j.lo /\ k.hi = j.hi
          /\ k.cursor = next /\ k.pages = j.pages + 1
        BY <2>2 DEF Fetch
    <2>4. j.lo \in Int /\ j.hi \in Int /\ PageLimit \in Nat
        BY DEF Fetch, Ends, IngestionAssumption, Bars
    <2> HIDE DEF next
    <2>5. (k.pages - 1) * PageLimit = j.pages * PageLimit /\ k.pages \in Nat \ {0}
        BY <2>3 DEF Walking
    <2>6. Walking(k, before + lost)
        BY <2>1, <2>3, <2>4, <2>5 DEF Walking
    <2> QED
        BY <2>3, <2>6 DEF WalkOK
<1> QED
    BY <1>1, <1>2

LEMMA WalkInit == ASSUME MaxFaults \in Nat, Init PROVE WalkInv
BY DEF Init, WalkInv, WalkOK, Idle

\* Whatever a process does to its own job, the others keep walking.
LEMMA OneWalks ==
    ASSUME IngestionAssumption, TypeInv, WalkInv, MaxFaults \in Nat, NEW p \in Procs, NEW k,
           WalkOK(k, faults'), job' = [job EXCEPT ![p] = k],
           UNCHANGED faults \/ Fault
    PROVE  WalkInv'
<1>1. faults \in Nat /\ faults' \in 0..MaxFaults /\ faults' \in Nat /\ faults <= faults'
    BY DEF WalkInv, Fault
<1>2. ASSUME NEW q \in Procs PROVE WalkOK(job'[q], faults')
    <2>1. CASE q = p
        BY <2>1 DEF TypeInv, JobInv
    <2>2. CASE q # p
        <3>1. job'[q] = job[q]
            BY <2>2 DEF TypeInv, JobInv
        <3>2. JobOK(job[q]) /\ WalkOK(job[q], faults)
            BY DEF TypeInv, JobInv, WalkInv
        <3> QED
            BY ONLY <1>1, <3>1, <3>2, WalkingLonger, IngestionAssumption
    <2> QED
        BY <2>1, <2>2
<1> QED
    BY <1>1, <1>2 DEF WalkInv

\* A page arrives that has lost so many rows, and the job goes on as k.
Arrives(p, lost, page, k) ==
    /\ lost \in {0, 1}
    /\ IsPage(job[p], lost, page)
    /\ k \in Walked(job[p], page) /\ job' = [job EXCEPT ![p] = k]
    /\ faults' = faults + lost /\ (lost = 1 => Fault) /\ faults' <= MaxFaults

LEMMA WalkStep ==
    ASSUME IngestionAssumption, MaxFaults \in 0..2 * PageLimit, TypeInv, WalkInv, [Next]_vars
    PROVE  WalkInv'
<1>1. MaxFaults \in Nat /\ faults \in Nat /\ faults <= MaxFaults
    BY DEF WalkInv, IngestionAssumption
<1>2. ASSUME NEW p \in Procs PROVE JobOK(job[p]) /\ WalkOK(job[p], faults)
    BY DEF TypeInv, JobInv, WalkInv
<1>3. CASE UNCHANGED <<job, faults>>
    BY <1>3 DEF WalkInv, WalkOK
<1>4. ASSUME NEW p \in Procs, Start(p) PROVE WalkInv'
    <2>1. PICK w \in Wanted[p] :
            /\ w.lo < (IF w.hi < LocalNow THEN w.hi ELSE LocalNow)
            /\ job' = [job EXCEPT ![p] = Fetching(w, IF w.hi < LocalNow THEN w.hi ELSE LocalNow)]
        BY <1>4 DEF Start
    <2> DEFINE hi == IF w.hi < LocalNow THEN w.hi ELSE LocalNow
    <2>2. w.lo \in Int /\ hi \in Int /\ PageLimit \in Nat
        BY DEF IngestionAssumption
    <2>3. w.lo < hi /\ job' = [job EXCEPT ![p] = Fetching(w, hi)]
        BY <2>1
    <2> HIDE DEF hi
    <2>4. Walking(Fetching(w, hi), faults)
        <3> DEFINE k == Fetching(w, hi)
        <3>1. k.lo = w.lo /\ k.hi = hi /\ k.cursor = hi - 1 /\ k.pages = 1
            BY DEF Fetching
        <3> HIDE DEF k
        <3>2. (k.pages - 1) * PageLimit = 0
            BY <2>2, <3>1
        <3>3. Walking(k, faults)
            BY <1>1, <2>2, <2>3, <3>1, <3>2 DEF Walking
        <3> QED
            BY <3>3 DEF k
    <2>5. WalkOK(Fetching(w, hi), faults) /\ faults' = faults
        BY <1>4, <2>4 DEF WalkOK, Fetching, Start
    <2> QED
        BY <1>1, <2>3, <2>5, OneWalks
<1>5. ASSUME NEW p \in Procs, PageArrives(p) PROVE WalkInv'
    <2>1. Fetch(job[p]) /\ Walking(job[p], faults)
        BY <1>2, <1>5, FetchingPc DEF PageArrives, WalkOK
    <2>2. \E lost, page, k : Arrives(p, lost, page, k)
        <3>1. CASE /\ \E k \in Walked(job[p], Honest(Served(job[p], TRUE))) : job' = [job EXCEPT ![p] = k]
                   /\ UNCHANGED faults
            <4>1. 0 \in {0, 1} /\ faults' = faults + 0 /\ faults' <= MaxFaults /\ ~(0 = 1)
                BY <1>1, <3>1
            <4>2. PICK k : k \in Walked(job[p], Honest(Served(job[p], TRUE))) /\ job' = [job EXCEPT ![p] = k]
                BY <3>1
            <4> QED
                <5>1. Arrives(p, 0, Honest(Served(job[p], TRUE)), k)
                    BY <4>1, <4>2 DEF Arrives, IsPage
                <5> QED
                    BY <5>1
        <3>2. CASE /\ Fault
                   /\ \E page \in Spoilt(job[p]) : \E k \in Walked(job[p], page) :
                        job' = [job EXCEPT ![p] = k]
            <4>1. faults' = faults + 1 /\ faults' <= MaxFaults
                BY <1>1, <3>2 DEF Fault
            <4>2. PICK page, k : /\ page \in Spoilt(job[p])
                                 /\ k \in Walked(job[p], page) /\ job' = [job EXCEPT ![p] = k]
                BY <3>2
            <4>3. 1 \in {0, 1}
                OBVIOUS
            <4> QED
                <5>1. Arrives(p, 1, page, k)
                    BY <3>2, <4>1, <4>2, <4>3 DEF Arrives, IsPage
                <5> QED
                    BY <5>1
        <3> QED
            BY <1>5, <3>1, <3>2 DEF PageArrives
    <2>3. PICK lost, page, k : Arrives(p, lost, page, k)
        BY <2>2
    <2> USE <2>3 DEF Arrives
    <2>4. faults + lost <= 2 * PageLimit
        BY <1>1, <2>3 DEF IngestionAssumption
    <2>5. WalkOK(k, faults + lost)
        BY ONLY <1>1, <2>1, <2>3, <2>4, WalkedOK, IngestionAssumption, TypeInv
    <2>6. UNCHANGED faults \/ Fault
        BY <1>1, <2>3
    <2> QED
        BY <1>1, <2>3, <2>5, <2>6, OneWalks
<1>6. ASSUME NEW p \in Procs, AttemptFails(p) PROVE WalkInv'
    <2>1. PICK e \in Errors : job' = [job EXCEPT ![p] = AfterError(job[p], e)] /\ Fault
        BY <1>6 DEF AttemptFails
    <2>2. Fetch(job[p]) /\ Walking(job[p], faults)
        BY <1>2, <1>6, FetchingPc DEF AttemptFails, WalkOK
    <2>3. WalkOK(AfterError(job[p], e), faults)
        <3>1. WalkOK(Failing(job[p], "request"), faults)
            BY DEF WalkOK, Failing
        <3>2. WalkOK([job[p] EXCEPT !.attempt = @ + 1], faults)
            BY <2>2 DEF WalkOK, Walking, Fetch
        <3> QED
            BY <3>1, <3>2 DEF AfterError
    <2>4. JobOK(AfterError(job[p], e))
        <3>1. JobOK([job[p] EXCEPT !.attempt = @ + 1])
            BY <2>2 DEF JobOK, Fetch
        <3>2. job[p] # Idle
            BY <2>2 DEF Fetch, Idle
        <3> QED
            BY <1>2, <3>1, <3>2, FailingJob DEF AfterError
    <2>5. faults' \in Nat /\ faults <= faults'
        BY <1>1, <2>1 DEF Fault
    <2>6. WalkOK(AfterError(job[p], e), faults')
        BY ONLY <1>1, <2>3, <2>4, <2>5, WalkingLonger, IngestionAssumption
    <2> QED
        BY <1>1, <2>1, <2>6, OneWalks
<1>7. ASSUME NEW p \in Procs, BeginWrite(p) \/ Commit(p) \/ Check(p) PROVE WalkInv'
    <2>1. Store(job[p])
        BY <1>2, <1>7, StoreStep DEF BeginWrite, Commit, Check
    <2>2. \E k : k.pc \notin {"fetching", "failing"} /\ job' = [job EXCEPT ![p] = k]
        BY <1>7, <2>1 DEF BeginWrite, Commit, Check, Store
    <2>3. PICK k : k.pc \notin {"fetching", "failing"} /\ job' = [job EXCEPT ![p] = k]
        BY <2>2
    <2>4. WalkOK(k, faults') /\ UNCHANGED faults
        BY <1>7, <2>3 DEF WalkOK, BeginWrite, Commit, Check
    <2> QED
        BY <1>1, <2>3, <2>4, OneWalks
<1>8. ASSUME NEW p \in Procs, Record(p) \/ RecordFailure(p) \/ Kill(p) PROVE WalkInv'
    <2>1. WalkOK(Idle, faults')
        BY DEF WalkOK, Idle
    <2>2. job' = [job EXCEPT ![p] = Idle] /\ (UNCHANGED faults \/ Fault)
        BY <1>8 DEF Record, RecordFailure, Kill
    <2> QED
        BY <1>1, <2>1, <2>2, OneWalks
<1>9. ASSUME NEW p \in Procs, StoreFails(p) \/ Busy(p) PROVE WalkInv'
    <2>1. WalkOK(Failing(job[p], "store"), faults')
        BY DEF WalkOK, Failing
    <2>2. job' = [job EXCEPT ![p] = Failing(job[p], "store")] /\ (UNCHANGED faults \/ Fault)
        BY <1>9 DEF StoreFails, Busy
    <2> QED
        BY <1>1, <2>1, <2>2, OneWalks
<1> QED
    BY <1>3, <1>4, <1>5, <1>6, <1>7, <1>8, <1>9
    DEF Next, vars, Environment, SyncInstruments, Step

\* A walk over the pages is never given up for its budget or for lack of
\* progress, however far the range reaches and whatever arrives late, as long as
\* the faults are no more than two pages of rows, which is what the two spare
\* pages of max_pages pay for (BybitMarketDataProvider.candles, funding_history).
THEOREM WalksAreFinished == MaxFaults \in 0..2 * PageLimit /\ Spec => []WalkIsNotLost
<1> SUFFICES ASSUME MaxFaults \in 0..2 * PageLimit PROVE Spec => []WalkIsNotLost
    OBVIOUS
<1>1. Init => WalkInv
    BY WalkInit, IngestionAssumption DEF IngestionAssumption
<1>2. TypeInv /\ WalkInv /\ [Next]_vars => WalkInv'
    BY WalkStep, IngestionAssumption
<1>3. WalkInv => WalkIsNotLost
    BY DEF WalkInv, WalkOK, WalkIsNotLost
<1> QED
    BY <1>1, <1>2, <1>3, Typed, PTL DEF Spec
=============================================================================
