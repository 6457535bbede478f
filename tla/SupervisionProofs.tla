------------------------- MODULE SupervisionProofs -------------------------
(***************************************************************************)
(* For every policy and every number of processes: the supervisor leaves no *)
(* monitor behind, cuts off crash loops, and repeats nothing final; a run    *)
(* closed as abandoned is dead and only hanging monitors are killed, as long *)
(* as nobody else starts one.                                               *)
(***************************************************************************)
EXTENDS Supervision, TLAPS, FiniteSetTheorems, WellFoundedInduction

ProcStates ==
    [pc : {"none", "boot", "marked", "up", "hung", "dead"},
     code : {"none", "ok", "failed", "crash", "config", "killed"},
     born : Nat, started : Nat, supervised : BOOLEAN, ctrl_c : BOOLEAN]

RowStates ==
    [there : BOOLEAN, heartbeat : Nat, finished : BOOLEAN, stop_requested : BOOLEAN,
     status : {"none", "running", "stopped", "completed", "failed", "abandoned"}]

Used(p) == proc[p].pc # "none"

TypeOK ==
    /\ clock \in Nat \ {0}
    /\ phase \in {"loop", "watch", "shutdown", "pause", "done"}
    /\ child \in Procs \cup {None}
    /\ phase \in {"watch", "shutdown"} => child \in Procs
    /\ launched \in Nat
    /\ until \in Nat
    /\ restart_times \subseteq [of : Procs, at : Nat] /\ IsFiniteSet(restart_times)
    /\ proc \in [Procs -> ProcStates]
    /\ row \in [Procs -> RowStates]

(* Processes are numbered in the order of their launches, so the child of   *)
(* the moment is the last of the supervisor's own.                          *)
InOrder ==
    /\ \A p \in Procs : ~Used(p) => proc[p] = NoProc
    /\ \A p, q \in Procs : Used(p) /\ ~Used(q) => p < q
    /\ \A p \in Supervised : p <= child
    /\ phase \in {"watch", "shutdown"} => child \in Supervised

(* A child that is not watched any more ended after it was launched, and     *)
(* the guard still counts that, or it is an hour old.                       *)
Counted(p) ==
    \E t \in 1..clock : /\ proc[p].born <= t
                        /\ [of |-> p, at |-> t] \in restart_times \/ t <= clock - Hour

Over(p) == p # child \/ phase \in {"loop", "pause"}

GuardInv ==
    /\ \A p \in Procs : proc[p].born <= clock
    /\ \A p \in Supervised : Over(p) => Counted(p)
    /\ \A p \in Supervised : Over(p) => proc[p].code \notin {"ok", "config"}
    /\ Cardinality(restart_times) <= MaxPerHour

IInv == TypeOK /\ InOrder /\ OnlyTheWatchedLives /\ GuardInv

(* Without anybody else starting a monitor: one is alive at a time.          *)
AloneInv ==
    /\ \A p \in Procs : Used(p) => p \in Supervised
    /\ \A p \in Procs : row[p].there => proc[p].pc \in {"up", "hung", "dead"}
    /\ \A p \in Procs : row[p].status = "abandoned" => row[p].there
    /\ AbandonedIsDead

(* A healthy monitor registered and beat in time, and runs of earlier        *)
(* children started before the launch of the present one.                   *)
OnTime(p) == clock <= IF row[p].heartbeat = None THEN proc[p].born + WarmUp
                      ELSE row[p].heartbeat + BeatEvery

TimeInv ==
    /\ \A p \in Procs : Alive(p) => proc[p].code = "none"
    /\ \A p \in Procs : proc[p].pc = "up" => row[p].there
    /\ \A p \in Procs : ~row[p].there => row[p].heartbeat = None
    /\ \A p \in Procs : proc[p].pc = "marked" \/ row[p].there => proc[p].born <= proc[p].started
    /\ \A p \in Procs : proc[p].started <= clock
    /\ \A p \in Procs : Healthy(p) => OnTime(p)
    /\ phase \in {"watch", "shutdown"} =>
          /\ launched = proc[child].born
          /\ \A p \in Procs : p # child => proc[p].started < launched
    /\ phase = "loop" => \A p \in Procs : proc[p].started < clock
    /\ phase = "pause" => \A p \in Procs : proc[p].started < until
-----------------------------------------------------------------------------
(* The numbers of processes.                                                *)
LEMMA LeastNumber ==
    ASSUME NEW S \in SUBSET Nat, S # {}
    PROVE  \E m \in S : \A k \in S : m <= k
<1>1. IsWellFoundedOn(OpToRel(<, Nat), Nat)
  BY NatLessThanWellFounded
<1>2. \E m \in S : \A k \in S : <<k, m>> \notin OpToRel(<, Nat)
  BY <1>1, WFMin
<1>3. \A k, m \in Nat : k < m => <<k, m>> \in OpToRel(<, Nat)
  BY DEF OpToRel
<1>4. \E m \in S : \A k \in S : ~(k < m)
  BY <1>2, <1>3
<1> QED
  BY <1>4

LEMMA NextProcIsFirst ==
    ASSUME Unused # {}
    PROVE  /\ NextProc \in Procs /\ ~Used(NextProc)
           /\ \A q \in Procs : ~Used(q) => NextProc <= q
<1>1. Unused \subseteq Procs /\ Procs \subseteq Nat
  BY SupervisionAssumption DEF Unused, Procs
<1>2. Unused \in SUBSET Nat
  BY <1>1
<1>3. \E p \in Unused : \A q \in Unused : p <= q
  BY <1>2, LeastNumber
<1>4. NextProc \in Unused /\ \A q \in Unused : NextProc <= q
  BY <1>3 DEF NextProc
<1> QED
  BY <1>1, <1>4 DEF Unused, Used

LEMMA PauseIsPositive ==
    ASSUME NEW n
    PROVE  Pause(n) \in Nat \ {0}
<1> DEFINE fits == {d \in 1..BackoffMax : d = BackoffBase * 2^(n - 1)}
<1>1. BackoffMax \in Nat \ {0}
  BY SupervisionAssumption
<1>2. fits \subseteq Nat \ {0}
  BY <1>1
<1>3. CASE fits = {}
  BY <1>1, <1>3 DEF Pause
<1>4. CASE fits # {}
  <2>1. Pause(n) = CHOOSE d \in fits : TRUE
    BY <1>4 DEF Pause
  <2> HIDE DEF fits
  <2> QED
    BY <1>2, <1>4, <2>1
<1> QED
  BY <1>3, <1>4

(* What the supervisor does with a child that ended: it finishes, or it     *)
(* waits before the next launch and counts the restart.                     *)
Finishes ==
    phase' = "done" /\ until' = until /\ restart_times' \in {restart_times, Recent}

Replaces ==
    /\ phase' = "pause"
    /\ until' \in Nat /\ until' > clock
    /\ Cardinality(Recent) < MaxPerHour
    /\ restart_times' = Recent \cup {[of |-> child, at |-> clock]}

LEMMA DecideEffect ==
    ASSUME NEW code, NEW hung, Decide(code, hung), clock \in Nat,
           hung => code = "killed", Cardinality(Recent) \in Nat
    PROVE  /\ UNCHANGED <<clock, child, launched, row, stop_asked>>
           /\ Finishes \/ (Replaces /\ code \notin {"ok", "config"})
<1>1. UNCHANGED <<clock, child, launched, row, stop_asked>>
  BY DEF Decide
<1>2. \/ Finishes
      \/ code \notin {"ok", "config"} /\ Restart
  BY DEF Decide, End, Finishes
<1>3. ASSUME Restart PROVE Finishes \/ Replaces
  <2>1. CASE Cardinality(Recent) >= MaxPerHour
    BY <1>3, <2>1 DEF Restart, End, Finishes
  <2>2. CASE ~(Cardinality(Recent) >= MaxPerHour)
    <3>1. PICK n : /\ phase' = "pause" /\ until' = clock + Pause(n)
                   /\ restart_times' = Recent \cup {[of |-> child, at |-> clock]}
      BY <1>3, <2>2 DEF Restart
    <3>2. Pause(n) \in Nat \ {0}
      BY PauseIsPositive
    <3>3. MaxPerHour \in Nat
      BY SupervisionAssumption
    <3> QED
      BY <2>2, <3>1, <3>2, <3>3 DEF Replaces
  <2> QED
    BY <2>1, <2>2
<1> QED
  BY <1>1, <1>2, <1>3

LEMMA RecentIsPart ==
    ASSUME TypeOK
    PROVE  /\ Recent \subseteq restart_times /\ IsFiniteSet(Recent)
           /\ Cardinality(Recent) \in Nat /\ Cardinality(restart_times) \in Nat
           /\ Cardinality(Recent) <= Cardinality(restart_times)
<1>1. IsFiniteSet(restart_times) /\ Recent \in SUBSET restart_times
  BY DEF TypeOK, Recent
<1>2. IsFiniteSet(Recent) /\ Cardinality(Recent) <= Cardinality(restart_times)
  BY <1>1, FS_Subset
<1> QED
  BY <1>1, <1>2, FS_CardinalityType

(* Kinds of steps.  A child ends by itself or is killed; a process goes on;  *)
(* a process is born; or nothing happens that the invariants depend on.     *)
EndsChild ==
    /\ phase \in {"watch", "shutdown"}
    /\ UNCHANGED <<clock, child, launched, row>>
    /\ proc' = proc \/ (Alive(child) /\ Kill(child))
    /\ proc'[child].pc = "dead"
    /\ Finishes \/ (Replaces /\ proc'[child].code \notin {"ok", "config"})

GoesOn(p) ==
    /\ UNCHANGED <<clock, phase, child, launched, until, restart_times>>
    /\ Alive(p)
    /\ proc' \in [Procs -> ProcStates] /\ row' \in [Procs -> RowStates]
    /\ \A q \in Procs \ {p} : proc'[q] = proc[q]
    /\ Used(p)'
    /\ proc'[p].born = proc[p].born /\ proc'[p].supervised = proc[p].supervised

RowsAreKept ==
    \A p \in Procs : /\ row'[p].there = row[p].there
                     /\ row'[p].status = row[p].status
                     /\ row'[p].heartbeat = row[p].heartbeat

Quiet ==
    /\ UNCHANGED <<child, launched, restart_times>>
    /\ clock' \in Nat /\ clock <= clock' /\ until' \in Nat
    /\ row' \in [Procs -> RowStates] /\ RowsAreKept
    /\ \/ proc' = proc
       \/ phase = "watch" /\ proc' = [proc EXCEPT ![child].ctrl_c = TRUE]
    /\ \/ phase' = phase
       \/ phase \in {"loop", "pause"} /\ phase' = "done"
       \/ phase = "pause" /\ phase' = "loop" /\ until <= clock
       \/ phase = "watch" /\ phase' = "shutdown"
    /\ phase = "watch" \/ until' = until

LEMMA ChildEnds ==
    ASSUME TypeOK,
           ChildEnded \/ CheckHeartbeat \/ ShutdownTimeout \/ (CtrlC /\ phase = "shutdown")
    PROVE  EndsChild
<1>1. phase \in {"watch", "shutdown"} /\ child \in Procs
  BY DEF TypeOK, ChildEnded, CheckHeartbeat, ShutdownTimeout, CtrlC
<1>2. Cardinality(Recent) \in Nat /\ clock \in Nat
  BY RecentIsPart DEF TypeOK
<1>3. CASE ChildEnded
  <2>1. proc' = proc /\ proc[child].pc = "dead" /\ Decide(proc[child].code, FALSE)
    BY <1>3 DEF ChildEnded
  <2>2. /\ UNCHANGED <<clock, child, launched, row>>
        /\ Finishes \/ (Replaces /\ proc[child].code \notin {"ok", "config"})
    BY <1>2, <2>1, DecideEffect
  <2> QED
    BY <1>1, <2>1, <2>2 DEF EndsChild
<1>4. CASE CheckHeartbeat \/ ShutdownTimeout \/ (CtrlC /\ phase = "shutdown")
  <2>1. PICK hung \in BOOLEAN : Alive(child) /\ Kill(child) /\ Decide("killed", hung)
    BY <1>4 DEF CheckHeartbeat, ShutdownTimeout, CtrlC
  <2>2. UNCHANGED <<clock, child, launched, row>> /\ (Finishes \/ Replaces)
    BY <1>2, <2>1, DecideEffect
  <2>3. proc'[child].pc = "dead" /\ proc'[child].code = "killed"
    BY <1>1, <2>1 DEF Kill, TypeOK, ProcStates
  <2> QED
    BY <1>1, <2>1, <2>2, <2>3 DEF EndsChild
<1> QED
  BY <1>3, <1>4

\* A step of a process on its own record and on the rows.
LEMMA ProcStep ==
    ASSUME TypeOK, NEW p \in Procs, Alive(p), UNCHANGED <<clock, sup>>, row' \in [Procs -> RowStates],
           NEW new \in ProcStates, new.pc # "none",
           new.born = proc[p].born, new.supervised = proc[p].supervised,
           proc' = [proc EXCEPT ![p] = new]
    PROVE  GoesOn(p)
<1>1. proc \in [Procs -> ProcStates]
  BY DEF TypeOK
<1>2. /\ proc' \in [Procs -> ProcStates] /\ proc'[p] = new
      /\ \A q \in Procs \ {p} : proc'[q] = proc[q]
  BY <1>1
<1> QED
  BY <1>2 DEF GoesOn, Used, sup

\* A step that gives the record a place, an exit code and a start.
LEMMA ProcMoves ==
    ASSUME TypeOK, NEW p \in Procs, Alive(p), UNCHANGED <<clock, sup>>, row' \in [Procs -> RowStates],
           NEW pc \in {"dead", "hung", "marked", "up"},
           NEW code \in {proc[p].code, "ok", "failed", "config", "crash"},
           NEW started \in {proc[p].started, clock},
           proc' = [proc EXCEPT ![p] = [proc[p] EXCEPT !.pc = pc, !.code = code, !.started = started]]
    PROVE  GoesOn(p)
<1> DEFINE new == [proc[p] EXCEPT !.pc = pc, !.code = code, !.started = started]
<1>1. proc[p] \in ProcStates /\ clock \in Nat
  BY DEF TypeOK
<1>2. /\ new \in ProcStates /\ new.pc # "none"
      /\ new.born = proc[p].born /\ new.supervised = proc[p].supervised
  BY <1>1 DEF ProcStates
<1>3. proc' = [proc EXCEPT ![p] = new]
  OBVIOUS
<1> HIDE DEF new
<1> QED
  BY <1>2, <1>3, ProcStep

\* The forms in which the steps write it.
LEMMA SameRecord ==
    ASSUME TypeOK, NEW p \in Procs, NEW pc, NEW code, NEW started
    PROVE  /\ [proc[p] EXCEPT !.pc = pc, !.code = code]
                = [proc[p] EXCEPT !.pc = pc, !.code = code, !.started = proc[p].started]
           /\ [proc[p] EXCEPT !.pc = pc, !.started = started]
                = [proc[p] EXCEPT !.pc = pc, !.code = proc[p].code, !.started = started]
           /\ [proc[p] EXCEPT !.pc = pc]
                = [proc[p] EXCEPT !.pc = pc, !.code = proc[p].code, !.started = proc[p].started]
BY DEF TypeOK, ProcStates

LEMMA MonitorGoesOn ==
    ASSUME TypeOK, NEW p \in Procs, MonitorStep(p)
    PROVE  GoesOn(p)
<1>1. /\ proc \in [Procs -> ProcStates] /\ row \in [Procs -> RowStates]
      /\ clock \in Nat
  BY DEF TypeOK
<1>2. CASE ConfigError(p) \/ Crash(p) \/ Hang(p)
  <2>1. UNCHANGED <<clock, sup, row>> /\ Alive(p)
    BY <1>2 DEF ConfigError, Crash, Hang, Alive, Healthy
  <2>2. PICK pc \in {"dead", "hung"}, code \in {proc[p].code, "config", "crash"} :
            proc' = [proc EXCEPT ![p].pc = pc, ![p].code = code]
    BY <1>1, <1>2 DEF ConfigError, Crash, Hang, Die, ProcStates
  <2>3. row' \in [Procs -> RowStates]
    BY <1>1, <2>1
  <2>4. proc' = [proc EXCEPT ![p] = [proc[p] EXCEPT !.pc = pc, !.code = code]]
    BY <1>1, <2>2
  <2>5. proc' = [proc EXCEPT ![p] = [proc[p] EXCEPT !.pc = pc, !.code = code, !.started = proc[p].started]]
    BY <2>4, SameRecord
  <2> QED
    BY <2>1, <2>3, <2>5, ProcMoves
<1>3. CASE MarkAbandoned(p)
  <2>1. UNCHANGED <<clock, sup>> /\ Alive(p)
    BY <1>3 DEF MarkAbandoned, Alive
  <2>2. proc' = [proc EXCEPT ![p].pc = "marked", ![p].started = clock]
    BY <1>3 DEF MarkAbandoned
  <2>3. \A q \in Procs : Abandon(row[q]) \in RowStates
    BY <1>1 DEF Abandon, RowStates
  <2>4. row' \in [Procs -> RowStates]
    BY <1>3, <2>3 DEF MarkAbandoned
  <2>5. proc' = [proc EXCEPT ![p] = [proc[p] EXCEPT !.pc = "marked", !.started = clock]]
    BY <1>1, <2>2
  <2>6. proc' = [proc EXCEPT ![p] = [proc[p] EXCEPT !.pc = "marked", !.code = proc[p].code, !.started = clock]]
    BY <2>5, SameRecord
  <2> QED
    BY <2>1, <2>4, <2>6, ProcMoves
<1>4. CASE StartRun(p)
  <2> DEFINE new == [NoRow EXCEPT !.there = TRUE, !.status = "running"]
  <2>1. UNCHANGED <<clock, sup>> /\ Alive(p) /\ proc' = [proc EXCEPT ![p].pc = "up"]
    BY <1>4 DEF StartRun, Alive
  <2>2. new \in RowStates
    BY DEF NoRow, None, RowStates
  <2>3. row' = [row EXCEPT ![p] = new]
    BY <1>4 DEF StartRun
  <2> HIDE DEF new
  <2>4. row' \in [Procs -> RowStates]
    BY <1>1, <2>2, <2>3
  <2>5. proc' = [proc EXCEPT ![p] = [proc[p] EXCEPT !.pc = "up"]]
    BY <1>1, <2>1
  <2>6. proc' = [proc EXCEPT ![p] = [proc[p] EXCEPT !.pc = "up", !.code = proc[p].code, !.started = proc[p].started]]
    BY <2>5, SameRecord
  <2> QED
    BY <2>1, <2>4, <2>6, ProcMoves
<1>5. CASE Heartbeat(p)
  <2>1. UNCHANGED <<clock, sup, proc>> /\ Alive(p)
    BY <1>5 DEF Heartbeat, Alive
  <2>2. row' = [row EXCEPT ![p].heartbeat = clock, ![p].status = "running"]
    BY <1>5 DEF Heartbeat
  <2>3. row' \in [Procs -> RowStates]
    BY <1>1, <2>2 DEF RowStates
  <2> QED
    BY <1>1, <2>1, <2>3 DEF GoesOn, Used, Alive, sup
<1>6. CASE FinishRun(p)
  <2>1. UNCHANGED <<clock, sup>> /\ Alive(p)
    BY <1>6 DEF FinishRun, Alive
  <2>2. PICK code \in {"ok", "failed"} :
            proc' = [proc EXCEPT ![p].pc = "dead", ![p].code = code]
    BY <1>6 DEF FinishRun, Die
  <2>3. PICK status \in {"stopped", "completed", "failed"} :
            \/ row' = [row EXCEPT ![p].finished = TRUE, ![p].status = status,
                                  ![p].heartbeat = clock]
            \/ row' = row
    BY <1>6 DEF FinishRun
  <2>4. row' \in [Procs -> RowStates]
    <3> DEFINE last == [row[p] EXCEPT !.finished = TRUE, !.status = status, !.heartbeat = clock]
    <3>1. last \in RowStates
      BY <1>1 DEF RowStates
    <3>2. row' = [row EXCEPT ![p] = last] \/ row' = row
      BY <2>3
    <3> HIDE DEF last
    <3> QED
      BY <1>1, <3>1, <3>2
  <2>5. proc' = [proc EXCEPT ![p] = [proc[p] EXCEPT !.pc = "dead", !.code = code]]
    BY <1>1, <2>2
  <2>6. proc' = [proc EXCEPT ![p] = [proc[p] EXCEPT !.pc = "dead", !.code = code, !.started = proc[p].started]]
    BY <2>5, SameRecord
  <2> QED
    BY <2>1, <2>4, <2>6, ProcMoves
<1> QED
  BY <1>2, <1>3, <1>4, <1>5, <1>6 DEF MonitorStep

LEMMA OthersAreQuiet ==
    ASSUME TypeOK,
           \/ DeadlineReached \/ Resume \/ (CtrlC /\ phase # "shutdown")
           \/ StopCommand \/ Tick \/ Sleep \/ UNCHANGED vars
    PROVE  Quiet
<1>1. /\ proc \in [Procs -> ProcStates] /\ row \in [Procs -> RowStates]
      /\ clock \in Nat /\ until \in Nat
  BY DEF TypeOK
<1>2. CASE DeadlineReached \/ Resume
  BY <1>1, <1>2 DEF DeadlineReached, Resume, End, Quiet, RowsAreKept
<1>3. CASE CtrlC /\ phase # "shutdown"
  <2>1. \/ /\ phase = "watch" /\ phase' = "shutdown" /\ until' = clock + GracefulTimeout
           /\ proc' = [proc EXCEPT ![child].ctrl_c = TRUE]
           /\ UNCHANGED <<clock, child, launched, restart_times, row>>
        \/ /\ phase \in {"loop", "pause"} /\ phase' = "done"
           /\ UNCHANGED <<clock, child, launched, restart_times, row, until, proc>>
    BY <1>3 DEF CtrlC, End
  <2>2. GracefulTimeout \in Nat
    BY SupervisionAssumption
  <2> QED
    BY <1>1, <2>1, <2>2 DEF Quiet, RowsAreKept
<1>4. CASE StopCommand
  <2>1. row' \in [Procs -> RowStates] /\ RowsAreKept
    BY <1>1, <1>4 DEF StopCommand, RowStates, RowsAreKept
  <2> QED
    BY <1>1, <1>4, <2>1 DEF StopCommand, sup, Quiet
<1>5. CASE Tick \/ Sleep
  BY <1>1, <1>5, SupervisionAssumption DEF Tick, Sleep, sup, Quiet, RowsAreKept
<1>6. CASE UNCHANGED vars
  BY <1>1, <1>6 DEF vars, sup, Quiet, RowsAreKept
<1> QED
  BY <1>2, <1>3, <1>4, <1>5, <1>6

LEMMA StepKinds ==
    ASSUME TypeOK, [Next]_vars
    PROVE  \/ Launch \/ RunByHand \/ EndsChild \/ Quiet
           \/ \E p \in Procs : MonitorStep(p) /\ GoesOn(p)
<1>1. \/ Launch \/ RunByHand
      \/ ChildEnded \/ CheckHeartbeat \/ ShutdownTimeout \/ (CtrlC /\ phase = "shutdown")
      \/ DeadlineReached \/ Resume \/ (CtrlC /\ phase # "shutdown")
      \/ StopCommand \/ Tick \/ Sleep \/ UNCHANGED vars
      \/ \E p \in Procs : MonitorStep(p)
  BY DEF Next, Supervise
<1> QED
  BY <1>1, ChildEnds, OthersAreQuiet, MonitorGoesOn
-----------------------------------------------------------------------------
(* The inductive invariant.                                                 *)
LEMMA IInvInit == Init => IInv
<1> SUFFICES ASSUME Init PROVE IInv
  OBVIOUS
<1>1. \A p \in Procs : proc[p] = NoProc /\ row[p] = NoRow
  BY DEF Init
<1>2. NoProc \in ProcStates /\ NoRow \in RowStates
  BY DEF NoProc, NoRow, ProcStates, RowStates, None
<1>3. TypeOK
  BY <1>2, FS_EmptySet DEF Init, TypeOK, None
<1>4. Supervised = {} /\ \A p \in Procs : ~Used(p)
  BY <1>1 DEF Supervised, Used, NoProc
<1>5. InOrder /\ OnlyTheWatchedLives
  BY <1>1, <1>4 DEF InOrder, OnlyTheWatchedLives, Init
<1>6. GuardInv
  BY <1>1, <1>4, FS_EmptySet, SupervisionAssumption DEF GuardInv, Init, NoProc, None
<1> QED
  BY <1>3, <1>5, <1>6 DEF IInv

LEMMA BirthKeepsIInv ==
    ASSUME IInv, Launch \/ RunByHand
    PROVE  IInv'
<1> DEFINE new(s) == [NoProc EXCEPT !.pc = "boot", !.born = clock, !.supervised = s]
<1>1. /\ proc \in [Procs -> ProcStates] /\ clock \in Nat
      /\ \A p \in Procs : p \in Nat /\ p > 0
      /\ Supervised \subseteq Procs
  BY SupervisionAssumption DEF IInv, TypeOK, Procs, Supervised
<1>2. PICK s \in BOOLEAN :
        /\ proc' = [proc EXCEPT ![NextProc] = new(s)]
        /\ UNCHANGED <<clock, until, restart_times, row>>
        /\ \/ s /\ phase = "loop" /\ phase' = "watch" /\ child' = NextProc /\ launched' = clock
           \/ ~s /\ UNCHANGED <<phase, child, launched>>
  BY DEF Launch, RunByHand, Born, sup
<1>3. /\ NextProc \in Procs /\ ~Used(NextProc)
      /\ \A q \in Procs : ~Used(q) => NextProc <= q
  BY NextProcIsFirst DEF Launch, RunByHand
<1>4. /\ new(s).pc = "boot" /\ new(s).code = "none" /\ new(s).born = clock
      /\ new(s).supervised = s /\ new(s) \in ProcStates
  BY <1>1 DEF NoProc, None, ProcStates
<1> HIDE DEF new
<1>5. \A p \in Procs : proc'[p] = IF p = NextProc THEN new(s) ELSE proc[p]
  BY <1>1, <1>2
<1>6. Supervised' = Supervised \cup (IF s THEN {NextProc} ELSE {})
  BY <1>3, <1>4, <1>5 DEF Supervised, Used, InOrder, NoProc, IInv
<1>7. \A p \in Supervised : Used(p) /\ p < NextProc
  BY <1>3 DEF Supervised, Used, InOrder, NoProc, IInv
<1>8. TypeOK'
  BY <1>1, <1>2, <1>3, <1>4, <1>5 DEF IInv, TypeOK
<1>9. InOrder'
  <2>1. \A p \in Procs : Used(p)' <=> p = NextProc \/ Used(p)
    BY <1>4, <1>5 DEF Used
  <2>2. \A p \in Procs : ~Used(p)' => (proc[p] = NoProc)'
    BY <1>5, <2>1 DEF IInv, InOrder
  <2>3. \A p, q \in Procs : Used(p)' /\ ~Used(q)' => p < q
    BY <1>1, <1>3, <2>1 DEF IInv, InOrder
  <2>4. \A p \in Supervised' : p <= child'
    BY <1>1, <1>2, <1>3, <1>6, <1>7 DEF IInv, InOrder
  <2>5. phase' \in {"watch", "shutdown"} => child' \in Supervised'
    BY <1>2, <1>6 DEF IInv, InOrder
  <2> QED
    BY <2>2, <2>3, <2>4, <2>5 DEF InOrder
<1>10. OnlyTheWatchedLives'
  BY <1>2, <1>4, <1>5, <1>6, <1>7, <1>1 DEF IInv, OnlyTheWatchedLives, Alive
<1>11. GuardInv'
  <2>1. \A p \in Procs : proc'[p].born <= clock'
    BY <1>1, <1>2, <1>4, <1>5 DEF IInv, GuardInv
  <2>2. \A p \in Supervised : proc'[p] = proc[p] /\ Counted(p)' = Counted(p)
    BY <1>1, <1>2, <1>5, <1>7 DEF Counted
  <2>3. \A p \in Supervised' : Over(p)' => p \in Supervised /\ Over(p)
    BY <1>1, <1>2, <1>6, <1>7 DEF Over
  <2> QED
    BY <1>2, <2>1, <2>2, <2>3 DEF IInv, GuardInv
<1> QED
  BY <1>8, <1>9, <1>10, <1>11 DEF IInv

(* Pruning forgets only restarts that are an hour old by now.               *)
LEMMA PruningKeepsCounts ==
    ASSUME TypeOK, NEW p \in Procs, proc[p].born <= clock, clock' = clock,
           proc'[p].born = proc[p].born, Recent \subseteq restart_times'
    PROVE  Counted(p) => Counted(p)'
<1> SUFFICES ASSUME Counted(p) PROVE Counted(p)'
  OBVIOUS
<1>1. clock \in Nat /\ Hour \in Nat
  BY SupervisionAssumption DEF TypeOK
<1>2. PICK t \in 1..clock :
        /\ proc[p].born <= t
        /\ [of |-> p, at |-> t] \in restart_times \/ t <= clock - Hour
  BY DEF Counted
<1>3. [of |-> p, at |-> t].at = t
  OBVIOUS
<1>4. [of |-> p, at |-> t] \in Recent \/ t <= clock - Hour
  BY <1>1, <1>2, <1>3 DEF Recent
<1> QED
  BY <1>1, <1>2, <1>4 DEF Counted

LEMMA EndKeepsIInv ==
    ASSUME IInv, EndsChild
    PROVE  IInv'
<1>1. /\ proc \in [Procs -> ProcStates] /\ clock \in Nat \ {0} /\ child \in Procs
      /\ child # None
      /\ Supervised \subseteq Procs
  BY DEF IInv, TypeOK, EndsChild, Procs, None, Supervised
<1>2. PICK code \in {"none", "ok", "failed", "crash", "config", "killed"} :
        /\ proc' = [proc EXCEPT ![child].pc = "dead", ![child].code = code]
  <2>1. CASE proc' = proc
    <3>1. proc' = [proc EXCEPT ![child].pc = "dead", ![child].code = proc[child].code]
      BY <1>1, <2>1 DEF EndsChild, ProcStates
    <3> QED
      BY <1>1, <3>1 DEF ProcStates
  <2>2. CASE Kill(child)
    BY <2>2 DEF Kill
  <2> QED
    BY <2>1, <2>2 DEF EndsChild
<1>3. \A p \in Procs : /\ proc'[p].born = proc[p].born
                       /\ proc'[p].supervised = proc[p].supervised
                       /\ p # child => proc'[p] = proc[p]
  BY <1>1, <1>2 DEF ProcStates
<1>4. Used(child)
  BY <1>1 DEF EndsChild, Used, Kill, Alive
<1>5. \A p \in Procs : Used(p)' = Used(p)
  BY <1>1, <1>2, <1>4 DEF Used, ProcStates
<1>6. Supervised' = Supervised
  BY <1>3 DEF Supervised
<1>7. UNCHANGED <<clock, child, launched, row>> /\ (Finishes \/ Replaces)
  BY DEF EndsChild
<1>8. /\ restart_times' \subseteq [of : Procs, at : Nat] /\ IsFiniteSet(restart_times')
      /\ Recent \subseteq restart_times'
      /\ Cardinality(restart_times') <= MaxPerHour
  <2>1. /\ Recent \subseteq restart_times /\ IsFiniteSet(Recent)
        /\ Cardinality(Recent) \in Nat /\ Cardinality(restart_times) \in Nat
        /\ Cardinality(Recent) <= Cardinality(restart_times)
        /\ Cardinality(restart_times) <= MaxPerHour /\ MaxPerHour \in Nat
    BY RecentIsPart, SupervisionAssumption DEF IInv, GuardInv
  <2>2. CASE Finishes
    BY <2>1, <2>2 DEF Finishes, IInv, TypeOK
  <2>3. CASE Replaces
    <3>1. IsFiniteSet(restart_times') /\ Cardinality(restart_times') <= Cardinality(Recent) + 1
      <4> DEFINE r == [of |-> child, at |-> clock]
      <4>1. restart_times' = Recent \cup {r}
        BY <2>3 DEF Replaces
      <4> HIDE DEF r
      <4>2. /\ IsFiniteSet(Recent \cup {r})
            /\ Cardinality(Recent \cup {r})
                 = IF r \in Recent THEN Cardinality(Recent) ELSE Cardinality(Recent) + 1
        BY <2>1, FS_AddElement
      <4> QED
        BY <2>1, <4>1, <4>2
    <3>2. Cardinality(restart_times') \in Nat
      BY <3>1, FS_CardinalityType
    <3>3. Cardinality(Recent) < MaxPerHour
      BY <2>3 DEF Replaces
    <3>4. Cardinality(restart_times') <= MaxPerHour
      BY <2>1, <3>1, <3>2, <3>3
    <3>5. [of |-> child, at |-> clock] \in [of : Procs, at : Nat]
      BY <1>1
    <3>6. restart_times \subseteq [of : Procs, at : Nat]
      BY DEF IInv, TypeOK
    <3>7. restart_times' = Recent \cup {[of |-> child, at |-> clock]}
      BY <2>3 DEF Replaces
    <3>8. restart_times' \subseteq [of : Procs, at : Nat] /\ Recent \subseteq restart_times'
      BY <2>1, <3>5, <3>6, <3>7
    <3> QED
      BY <3>1, <3>4, <3>8
  <2> QED
    BY <1>7, <2>2, <2>3
<1>9. /\ phase' \in {"pause", "done"} /\ until' \in Nat
  BY <1>7 DEF Finishes, Replaces, IInv, TypeOK
<1>10. TypeOK'
  <2>1. proc' \in [Procs -> ProcStates]
    <3>1. [proc[child] EXCEPT !.pc = "dead", !.code = code] \in ProcStates
      BY <1>1 DEF ProcStates
    <3> QED
      BY <1>1, <1>2, <3>1
  <2> QED
    BY <1>1, <1>7, <1>8, <1>9, <2>1 DEF IInv, TypeOK
<1>11. InOrder'
  BY <1>3, <1>4, <1>5, <1>6, <1>7, <1>9 DEF IInv, InOrder
<1>12. OnlyTheWatchedLives'
  <2>1. \A p \in Supervised' : ~Alive(p)'
    BY <1>1, <1>3, <1>6 DEF IInv, OnlyTheWatchedLives, Alive, EndsChild
  <2> QED
    BY <2>1 DEF OnlyTheWatchedLives
<1>13. GuardInv'
  <2>1. \A p \in Procs : proc'[p].born <= clock'
    BY <1>3, <1>7 DEF IInv, GuardInv
  <2>2. \A p \in Supervised : Over(p) => Counted(p)'
    BY <1>1, <1>3, <1>7, <1>8, PruningKeepsCounts DEF IInv, GuardInv
  <2>3. \A p \in Supervised : Over(p)' => Counted(p)'
    <3>1. CASE Replaces
      <4>1. [of |-> child, at |-> clock] \in restart_times'
        BY <3>1 DEF Replaces
      <4>2. clock' = clock /\ clock \in 1..clock /\ proc'[child].born <= clock
        BY <1>1, <1>3, <1>7 DEF IInv, GuardInv
      <4>3. \A p \in Supervised : p = child => Counted(p)'
        BY <4>1, <4>2 DEF Counted
      <4> QED
        BY <1>7, <2>2, <4>3 DEF Over
    <3>2. CASE Finishes
      BY <1>7, <2>2, <3>2 DEF Over, Finishes
    <3> QED
      BY <1>7, <3>1, <3>2
  <2>4. \A p \in Supervised : Over(p)' => proc'[p].code \notin {"ok", "config"}
    BY <1>1, <1>3, <1>7 DEF EndsChild, Finishes, Over, IInv, GuardInv
  <2> QED
    BY <1>6, <1>8, <2>1, <2>3, <2>4 DEF GuardInv
<1> QED
  BY <1>10, <1>11, <1>12, <1>13 DEF IInv

(* A process that goes on was alive, so the supervisor watches it or it was *)
(* started by hand: the guard has nothing to say about it.                  *)
LEMMA GoingOnKeepsIInv ==
    ASSUME IInv, NEW p \in Procs, GoesOn(p)
    PROVE  IInv'
<1>1. /\ UNCHANGED <<clock, phase, child, launched, until, restart_times>>
      /\ Alive(p) /\ Used(p) /\ Used(p)'
  BY DEF GoesOn, Alive, Used
<1>2. \A q \in Procs : /\ q # p => proc'[q] = proc[q]
                       /\ proc'[q].born = proc[q].born
                       /\ proc'[q].supervised = proc[q].supervised
                       /\ Used(q)' = Used(q)
  BY <1>1 DEF GoesOn, Used
<1>3. Supervised' = Supervised /\ Supervised \subseteq Procs
  BY <1>2 DEF Supervised
<1>4. p \in Supervised => p = child /\ phase \in {"watch", "shutdown"}
  BY <1>1 DEF IInv, OnlyTheWatchedLives
<1>5. TypeOK'
  BY <1>1 DEF IInv, TypeOK, GoesOn
<1>6. InOrder'
  BY <1>1, <1>2, <1>3 DEF IInv, InOrder
<1>7. OnlyTheWatchedLives'
  <2>1. \A q \in Supervised : Alive(q)' => q = p \/ Alive(q)
    BY <1>2, <1>3 DEF Alive
  <2> QED
    BY <1>1, <1>3, <1>4, <2>1 DEF IInv, OnlyTheWatchedLives
<1>8. GuardInv'
  <2>1. \A q \in Supervised : Over(q)' => Over(q) /\ q # p
    BY <1>1, <1>4 DEF Over
  <2>2. \A q \in Procs : Counted(q)' = Counted(q)
    BY <1>1, <1>2 DEF Counted
  <2> QED
    BY <1>1, <1>2, <1>3, <2>1, <2>2 DEF IInv, GuardInv
<1> QED
  BY <1>5, <1>6, <1>7, <1>8 DEF IInv

(* Time only makes restarts older, and only the supervisor's way into and    *)
(* out of a pause touches the phases in which a child is over.              *)
LEMMA QuietKeepsIInv ==
    ASSUME IInv, Quiet
    PROVE  IInv'
<1>1. /\ proc \in [Procs -> ProcStates]
      /\ clock \in Nat /\ clock # 0 /\ clock' \in Nat /\ clock <= clock' /\ Hour \in Nat
      /\ UNCHANGED <<child, launched, restart_times>>
  BY SupervisionAssumption DEF IInv, TypeOK, Quiet
<1>2. /\ proc' \in [Procs -> ProcStates]
      /\ \A p \in Procs : /\ proc'[p].pc = proc[p].pc /\ proc'[p].code = proc[p].code
                          /\ proc'[p].born = proc[p].born
                          /\ proc'[p].supervised = proc[p].supervised
                          /\ proc[p] = NoProc => proc'[p] = NoProc
  <2>1. CASE proc' = proc
    BY <1>1, <2>1
  <2>2. CASE phase = "watch" /\ proc' = [proc EXCEPT ![child].ctrl_c = TRUE]
    <3>1. child \in Procs
      BY <2>2 DEF IInv, TypeOK
    <3>2. proc' \in [Procs -> ProcStates]
      BY <1>1, <2>2, <3>1 DEF ProcStates
    <3>3. \A p \in Procs : /\ proc'[p].pc = proc[p].pc /\ proc'[p].code = proc[p].code
                           /\ proc'[p].born = proc[p].born
                           /\ proc'[p].supervised = proc[p].supervised
      BY <1>1, <2>2, <3>1 DEF ProcStates
    <3>4. \A p \in Procs : p # child => proc'[p] = proc[p]
      BY <1>1, <2>2, <3>1
    <3>5. proc[child] # NoProc
      BY <2>2 DEF IInv, InOrder, Supervised, NoProc
    <3> QED
      BY <3>2, <3>3, <3>4, <3>5
  <2> QED
    BY <2>1, <2>2 DEF Quiet
<1>3. /\ Supervised' = Supervised /\ Supervised \subseteq Procs
      /\ \A p \in Procs : (Used(p)' <=> Used(p)) /\ (Alive(p)' <=> Alive(p))
  BY <1>2 DEF Supervised, Used, Alive
<1>4. TypeOK'
  BY <1>1, <1>2 DEF IInv, TypeOK, Quiet
<1>5. InOrder'
  BY <1>1, <1>2, <1>3 DEF IInv, InOrder, Quiet
<1>6. OnlyTheWatchedLives'
  BY <1>1, <1>3 DEF IInv, OnlyTheWatchedLives, Quiet
<1>7. GuardInv'
  <2>1. \A p \in Supervised : Over(p)' => Over(p)
    BY <1>1 DEF Over, Quiet
  <2>2. \A p \in Supervised : Counted(p) => Counted(p)'
    <3>1. SUFFICES ASSUME NEW p \in Supervised, Counted(p) PROVE Counted(p)'
      OBVIOUS
    <3>2. PICK t \in 1..clock :
            /\ proc[p].born <= t
            /\ [of |-> p, at |-> t] \in restart_times \/ t <= clock - Hour
      BY <3>1 DEF Counted
    <3>3. t \in 1..clock' /\ (t <= clock - Hour => t <= clock' - Hour)
      <4>1. t \in Nat /\ t > 0 /\ t <= clock
        BY <1>1, <3>2
      <4>2. \A c, d, h, n \in Nat : n <= c /\ c <= d /\ 0 < n
                => n \in 1..d /\ (n <= c - h => n <= d - h)
        OBVIOUS
      <4>3. clock \in Nat /\ clock' \in Nat /\ Hour \in Nat /\ clock <= clock'
        BY <1>1
      <4> QED
        BY <4>1, <4>2, <4>3
    <3> QED
      BY <1>1, <1>2, <1>3, <3>2, <3>3 DEF Counted
  <2>3. \A p \in Procs : proc'[p].born <= clock'
    <3>1. \A p \in Procs : proc[p].born \in Nat /\ proc[p].born <= clock
      BY <1>1 DEF IInv, GuardInv, ProcStates
    <3> QED
      BY <1>1, <1>2, <3>1
  <2> QED
    BY <1>1, <1>2, <1>3, <2>1, <2>2, <2>3 DEF IInv, GuardInv
<1> QED
  BY <1>4, <1>5, <1>6, <1>7 DEF IInv

LEMMA StepKeepsIInv == IInv /\ [Next]_vars => IInv'
<1> SUFFICES ASSUME IInv, [Next]_vars PROVE IInv'
  OBVIOUS
<1>1. \/ Launch \/ RunByHand \/ EndsChild \/ Quiet
      \/ \E p \in Procs : MonitorStep(p) /\ GoesOn(p)
  BY StepKinds DEF IInv
<1> QED
  BY <1>1, BirthKeepsIInv, EndKeepsIInv, QuietKeepsIInv, GoingOnKeepsIInv

LEMMA AlwaysIInv == Spec => []IInv
BY IInvInit, StepKeepsIInv, PTL DEF Spec
-----------------------------------------------------------------------------
(* Whatever fails and whoever else starts monitors: a process the supervisor *)
(* launched is alive only while it is watched.                              *)
THEOREM SupervisorLeavesNobodyBehind == Spec => []OnlyTheWatchedLives
<1>1. IInv => OnlyTheWatchedLives
  BY DEF IInv
<1> QED
  BY <1>1, AlwaysIInv, PTL

(* Every launch of the last hour but the present one is counted by a restart *)
(* that the guard still remembers, and a final exit was never repeated.     *)
THEOREM RestartsAreBounded == Spec => []LaunchesAreJustified
<1>1. ASSUME IInv PROVE LaunchesAreJustified
  <2> DEFINE late == {p \in Supervised : proc[p].born > clock - Hour}
             replaced == {r.of : r \in restart_times}
             who == [r \in restart_times |-> r.of]
  <2>1. /\ proc \in [Procs -> ProcStates] /\ clock \in Nat /\ Hour \in Nat
        /\ IsFiniteSet(restart_times) /\ Supervised \subseteq Procs
        /\ MaxPerHour \in Nat /\ child \in Nat
        /\ Procs \subseteq Nat
    BY <1>1, SupervisionAssumption DEF IInv, TypeOK, Supervised, Procs, None
  <2>2. late \subseteq replaced \cup {child}
    <3>1. SUFFICES ASSUME NEW p \in late, p # child PROVE p \in replaced
      OBVIOUS
    <3>2. Counted(p)
      BY <1>1, <3>1 DEF IInv, GuardInv, Over
    <3>3. PICK t \in 1..clock :
            /\ proc[p].born <= t
            /\ [of |-> p, at |-> t] \in restart_times \/ t <= clock - Hour
      BY <3>2 DEF Counted
    <3>4. \A b, n, h \in Int : b > h /\ b <= n => ~(n <= h)
      OBVIOUS
    <3>5. proc[p].born \in Nat /\ proc[p].born > clock - Hour /\ t \in Nat
      BY <2>1, <3>1 DEF ProcStates
    <3>6. [of |-> p, at |-> t] \in restart_times
      BY <2>1, <3>3, <3>4, <3>5
    <3>7. [of |-> p, at |-> t].of = p
      OBVIOUS
    <3> QED
      BY <3>6, <3>7
  <2>3. IsFiniteSet(replaced) /\ Cardinality(replaced) <= Cardinality(restart_times)
    <3>1. who \in Surjection(restart_times, replaced)
      BY DEF Surjection
    <3> QED
      BY <2>1, <3>1, FS_Surjection
  <2>4. Cardinality(restart_times) <= MaxPerHour
    BY <1>1 DEF IInv, GuardInv
  <2> HIDE DEF late, replaced, who
  <2>5. /\ IsFiniteSet(replaced \cup {child})
        /\ Cardinality(replaced \cup {child})
             = IF child \in replaced THEN Cardinality(replaced) ELSE Cardinality(replaced) + 1
    BY <2>3, FS_AddElement
  <2>6. IsFiniteSet(late) /\ Cardinality(late) <= Cardinality(replaced \cup {child})
    BY <2>2, <2>5, FS_Subset
  <2>7. Cardinality(late) \in Nat /\ Cardinality(replaced) \in Nat
        /\ Cardinality(restart_times) \in Nat
    BY <2>1, <2>3, <2>6, FS_CardinalityType
  <2>8. Cardinality(late) <= MaxPerHour + 1
    BY <2>1, <2>3, <2>4, <2>5, <2>6, <2>7
  <2>9. \A p, q \in Supervised : p < q => proc[p].code \notin {"ok", "config"}
    <3>1. SUFFICES ASSUME NEW p \in Supervised, NEW q \in Supervised, p < q
                   PROVE  proc[p].code \notin {"ok", "config"}
      OBVIOUS
    <3>2. q <= child /\ p \in Nat /\ q \in Nat
      BY <1>1, <2>1 DEF IInv, InOrder
    <3>3. p # child
      BY <2>1, <3>1, <3>2
    <3> QED
      BY <1>1, <3>3 DEF IInv, GuardInv, Over
  <2> QED
    BY <2>8, <2>9 DEF LaunchesAreJustified, late
<1> QED
  BY <1>1, AlwaysIInv, PTL
-----------------------------------------------------------------------------
(* One monitor at a time.                                                   *)
LEMMA OnlyTheChildGoesOn ==
    ASSUME IInv, AloneInv
    PROVE  \A p \in Procs : Alive(p) =>
              p \in Supervised /\ p = child /\ phase \in {"watch", "shutdown"}
BY DEF IInv, AloneInv, OnlyTheWatchedLives, Used, Alive

(* What one step of a monitor does to its own run and to the others': it     *)
(* closes the runs before it, registers, beats, ends, or hangs or dies       *)
(* without a word.                                                          *)
Closes(p) ==
    /\ proc[p].pc = "boot" /\ proc'[p].pc = "marked"
    /\ proc'[p].started = clock /\ proc'[p].code = proc[p].code
    /\ \A q \in Procs : /\ row'[q].there = row[q].there
                        /\ row'[q].heartbeat = row[q].heartbeat
                        /\ row'[q].status = "abandoned"
                             => row[q].there \/ row[q].status = "abandoned"

Registers(p) ==
    /\ proc[p].pc = "marked" /\ proc'[p].pc = "up"
    /\ proc'[p].started = proc[p].started /\ proc'[p].code = proc[p].code
    /\ row'[p].there /\ row'[p].status = "running" /\ row'[p].heartbeat = None
    /\ \A q \in Procs \ {p} : row'[q] = row[q]

Beats(p) ==
    /\ proc[p].pc = "up" /\ proc' = proc
    /\ row'[p].there = row[p].there
    /\ row'[p].heartbeat = clock /\ row'[p].status = "running"
    /\ \A q \in Procs \ {p} : row'[q] = row[q]

Finishing(p) ==
    /\ proc[p].pc = "up" /\ proc'[p].pc = "dead"
    /\ proc'[p].started = proc[p].started
    /\ row'[p].there = row[p].there
    /\ row'[p].status \in {row[p].status, "stopped", "completed", "failed"}
    /\ \A q \in Procs \ {p} : row'[q] = row[q]

IsLost(p) ==
    /\ Healthy(p) /\ proc'[p].pc \in {"hung", "dead"}
    /\ proc'[p].started = proc[p].started
    /\ proc'[p].pc = "hung" => proc'[p].code = proc[p].code
    /\ row' = row

LEMMA MonitorStepEffect ==
    ASSUME TypeOK, NEW p \in Procs, MonitorStep(p)
    PROVE  /\ Closes(p) \/ Registers(p) \/ Beats(p) \/ Finishing(p) \/ IsLost(p)
           /\ proc'[p].code # "killed" \/ proc'[p].code = proc[p].code
<1>1. proc \in [Procs -> ProcStates] /\ row \in [Procs -> RowStates]
  BY DEF TypeOK
<1>2. CASE ConfigError(p) \/ Crash(p) \/ Hang(p)
  BY <1>1, <1>2 DEF ConfigError, Crash, Hang, Die, IsLost, Healthy, ProcStates
<1>3. CASE MarkAbandoned(p)
  BY <1>1, <1>3 DEF MarkAbandoned, Closes, Abandon, ProcStates, RowStates
<1>4. CASE StartRun(p)
  BY <1>1, <1>4 DEF StartRun, Registers, NoRow, ProcStates, RowStates
<1>5. CASE Heartbeat(p)
  BY <1>1, <1>5 DEF Heartbeat, Beats, ProcStates, RowStates
<1>6. CASE FinishRun(p)
  BY <1>1, <1>6 DEF FinishRun, Finishing, Die, ProcStates, RowStates
<1> QED
  BY <1>2, <1>3, <1>4, <1>5, <1>6 DEF MonitorStep

LEMMA StepKeepsAloneInv ==
    ASSUME ~ByHand, IInv, AloneInv, [Next]_vars
    PROVE  AloneInv'
<1>1. /\ proc \in [Procs -> ProcStates] /\ row \in [Procs -> RowStates]
      /\ Supervised \subseteq Procs
  BY DEF IInv, TypeOK, Supervised
<1>2. CASE Launch
  <2>1. proc' = [proc EXCEPT ![NextProc] = [NoProc EXCEPT
                   !.pc = "boot", !.born = clock, !.supervised = TRUE]]
    BY <1>2 DEF Launch, Born
  <2>2. NextProc \in Procs /\ proc[NextProc].pc = "none" /\ row' = row
    BY <1>2, NextProcIsFirst DEF Launch, Used
  <2>3. ~row[NextProc].there
    BY <2>2 DEF AloneInv
  <2>4. \A p \in Procs : p # NextProc => proc'[p] = proc[p]
    BY <1>1, <2>1, <2>2
  <2>5. proc'[NextProc].pc = "boot" /\ proc'[NextProc].supervised
    BY <1>1, <2>1, <2>2 DEF NoProc
  <2> QED
    BY <2>2, <2>3, <2>4, <2>5 DEF AloneInv, AbandonedIsDead, Used, Supervised, Alive
<1>3. CASE EndsChild
  <2>1. child \in Procs /\ row' = row
    BY <1>3 DEF EndsChild, IInv, TypeOK
  <2>2. \A p \in Procs : /\ p # child => proc'[p] = proc[p]
                         /\ proc'[p].supervised = proc[p].supervised
                         /\ proc'[p].pc \in {proc[p].pc, "dead"}
                         /\ Used(p)' => Used(p)
    BY <1>1, <1>3, <2>1 DEF EndsChild, Kill, ProcStates, Used, Alive
  <2> QED
    BY <2>1, <2>2 DEF AloneInv, AbandonedIsDead, Used, Supervised, Alive
<1>4. CASE Quiet
  <2>1. phase = "watch" => child \in Procs
    BY DEF IInv, TypeOK
  <2>2. \A p \in Procs : /\ proc'[p].supervised = proc[p].supervised
                         /\ proc'[p].pc = proc[p].pc
    BY <1>1, <1>4, <2>1 DEF Quiet, ProcStates
  <2> QED
    BY <1>4, <2>2 DEF AloneInv, AbandonedIsDead, Used, Supervised, Alive, Quiet, RowsAreKept
<1>5. ASSUME NEW p \in Procs, MonitorStep(p), GoesOn(p) PROVE AloneInv'
  <2>1. Closes(p) \/ Registers(p) \/ Beats(p) \/ Finishing(p) \/ IsLost(p)
    BY <1>5, MonitorStepEffect DEF IInv
  <2>2. \A q \in Procs : /\ q # p => proc'[q] = proc[q]
                         /\ proc'[q].supervised = proc[q].supervised
                         /\ Used(q)' => Used(q)
    BY <1>5 DEF GoesOn, Used, Alive
  <2>3. \A q \in Procs : Alive(q) => q = p
    BY <1>5, OnlyTheChildGoesOn DEF GoesOn
  <2>4. \A q \in Procs : Used(q)' => q \in Supervised'
    BY <1>1, <2>2 DEF AloneInv, Supervised
  <2>5. CASE Closes(p)
    <3>1. ~row[p].there
      BY <2>5 DEF Closes, AloneInv
    <3> QED
      BY <2>2, <2>3, <2>4, <2>5, <3>1 DEF Closes, AloneInv, AbandonedIsDead, Alive
  <2>6. CASE Registers(p)
    BY <2>2, <2>3, <2>4, <2>6 DEF Registers, AloneInv, AbandonedIsDead, Alive
  <2>7. CASE Beats(p)
    BY <2>2, <2>3, <2>4, <2>7 DEF Beats, AloneInv, AbandonedIsDead, Alive
  <2>8. CASE Finishing(p)
    BY <2>2, <2>3, <2>4, <2>8 DEF Finishing, AloneInv, AbandonedIsDead, Alive
  <2>9. CASE IsLost(p)
    <3>1. row[p].there => proc'[p].pc \in {"up", "hung", "dead"}
      BY <2>9 DEF IsLost
    <3>2. row[p].status # "abandoned"
      BY <2>9 DEF IsLost, Healthy, Alive, AloneInv, AbandonedIsDead
    <3> QED
      BY <2>2, <2>3, <2>4, <2>9, <3>1, <3>2 DEF IsLost, AloneInv, AbandonedIsDead, Alive
  <2> QED
    BY <2>1, <2>5, <2>6, <2>7, <2>8, <2>9
<1> QED
  BY <1>2, <1>3, <1>4, <1>5, StepKinds DEF RunByHand, IInv

(* While only the supervisor starts monitors, a run is closed as abandoned   *)
(* only when its process is gone.                                           *)
THEOREM ClosedRunsAreDead == ASSUME ~ByHand PROVE Spec => []AbandonedIsDead
<1>1. Init => AloneInv
  BY DEF Init, AloneInv, AbandonedIsDead, Used, NoProc, NoRow
<1>2. IInv /\ AloneInv /\ [Next]_vars => AloneInv'
  BY StepKeepsAloneInv
<1>3. AloneInv => AbandonedIsDead
  BY DEF AloneInv
<1> QED
  BY <1>1, <1>2, <1>3, AlwaysIInv, PTL DEF Spec
-----------------------------------------------------------------------------
(* Time.  None of the steps but those of time itself makes a monitor late.   *)
LEMMA BirthKeepsTimeInv ==
    ASSUME IInv, AloneInv, TimeInv, Launch
    PROVE  TimeInv'
<1> DEFINE new == [NoProc EXCEPT !.pc = "boot", !.born = clock, !.supervised = TRUE]
<1>1. /\ proc \in [Procs -> ProcStates] /\ row \in [Procs -> RowStates]
      /\ clock \in Nat /\ WarmUp \in Nat
  BY SupervisionAssumption DEF IInv, TypeOK
<1>2. /\ phase = "loop" /\ phase' = "watch" /\ child' = NextProc /\ launched' = clock
      /\ UNCHANGED <<clock, row, until>>
      /\ NextProc \in Procs /\ proc[NextProc].pc = "none"
      /\ proc' = [proc EXCEPT ![NextProc] = new]
  BY NextProcIsFirst DEF Launch, Used, Born
<1>3. /\ new.pc = "boot" /\ new.code = "none" /\ new.born = clock /\ new.started = 0
  BY DEF NoProc, None
<1> HIDE DEF new
<1>4. \A p \in Procs : proc'[p] = IF p = NextProc THEN new ELSE proc[p]
  BY <1>1, <1>2
<1>5. ~row[NextProc].there /\ row[NextProc].heartbeat = None
  BY <1>2 DEF AloneInv, TimeInv
<1>6. \A p \in Procs : proc[p].started < clock /\ proc[p].started \in Nat
  BY <1>1, <1>2 DEF TimeInv, ProcStates
<1>7. \A p \in Procs : Healthy(p)' => OnTime(p)'
  BY <1>1, <1>2, <1>3, <1>4, <1>5 DEF TimeInv, OnTime, Healthy
<1>8. \A p \in Procs : /\ Alive(p)' => (proc[p].code = "none")'
                       /\ (proc[p].pc = "up" => row[p].there)'
                       /\ (~row[p].there => row[p].heartbeat = None)'
                       /\ (proc[p].pc = "marked" \/ row[p].there
                              => proc[p].born <= proc[p].started)'
                       /\ (proc[p].started <= clock)'
  BY <1>1, <1>2, <1>3, <1>4, <1>5, <1>6 DEF TimeInv, Alive
<1>9. /\ launched' = proc'[child'].born
      /\ \A p \in Procs : p # child' => proc'[p].started < launched'
  BY <1>2, <1>3, <1>4, <1>6
<1> QED
  BY <1>2, <1>7, <1>8, <1>9 DEF TimeInv

LEMMA EndKeepsTimeInv ==
    ASSUME IInv, AloneInv, TimeInv, EndsChild
    PROVE  TimeInv'
<1>1. /\ proc \in [Procs -> ProcStates] /\ child \in Procs /\ clock \in Nat
      /\ UNCHANGED <<clock, child, launched, row>>
  BY DEF EndsChild, IInv, TypeOK
<1>2. \A p \in Procs : /\ p # child => proc'[p] = proc[p]
                       /\ proc'[p].started = proc[p].started
                       /\ proc'[p].born = proc[p].born
                       /\ p = child => proc'[p].pc = "dead"
  BY <1>1 DEF EndsChild, Kill, ProcStates
<1>3. \/ phase' = "done"
      \/ phase' = "pause" /\ until' \in Nat /\ until' > clock
  BY DEF EndsChild, Finishes, Replaces
<1>4. \A p \in Procs : proc[p].started \in Nat /\ proc[p].started <= clock
  BY <1>1 DEF ProcStates, TimeInv
<1>5. phase' = "pause" => \A p \in Procs : proc'[p].started < until'
  BY <1>1, <1>2, <1>3, <1>4
<1>6. \A p \in Procs : Healthy(p)' => OnTime(p)'
  BY <1>1, <1>2 DEF TimeInv, OnTime, Healthy
<1> QED
  BY <1>1, <1>2, <1>3, <1>5, <1>6 DEF TimeInv, Alive

LEMMA QuietKeepsTimeInv ==
    ASSUME IInv, AloneInv, TimeInv, Quiet,
           clock' # clock => /\ clock' = clock + 1
                             /\ \A p \in Procs : Healthy(p) => InTime(p)
    PROVE  TimeInv'
<1>1. /\ proc \in [Procs -> ProcStates] /\ row \in [Procs -> RowStates]
      /\ clock \in Nat /\ clock' \in Nat /\ clock <= clock' /\ until \in Nat
      /\ {WarmUp, BeatEvery} \subseteq Nat
      /\ UNCHANGED <<child, launched>>
      /\ phase = "watch" => child \in Procs
  BY SupervisionAssumption DEF IInv, TypeOK, Quiet
<1>2. \A p \in Procs : /\ proc'[p].pc = proc[p].pc /\ proc'[p].code = proc[p].code
                       /\ proc'[p].started = proc[p].started
                       /\ proc'[p].born = proc[p].born
  BY <1>1 DEF Quiet, ProcStates
<1>3. \A p \in Procs : /\ row'[p].there = row[p].there
                       /\ row'[p].heartbeat = row[p].heartbeat
  BY DEF Quiet, RowsAreKept
<1>4. \A p \in Procs : proc[p].started \in Nat /\ proc[p].born \in Nat
                       /\ row[p].heartbeat \in Nat
  BY <1>1 DEF ProcStates, RowStates
<1>5. \A p \in Procs : Healthy(p)' => OnTime(p)'
  <2>1. SUFFICES ASSUME NEW p \in Procs, Healthy(p)' PROVE OnTime(p)'
    OBVIOUS
  <2>2. Healthy(p) /\ OnTime(p)
    BY <1>2, <2>1 DEF Healthy, TimeInv
  <2>3. CASE clock' = clock
    BY <1>2, <1>3, <2>2, <2>3 DEF OnTime
  <2>4. CASE clock' # clock
    <3>1. clock' = clock + 1 /\ InTime(p)
      BY <2>2, <2>4
    <3> QED
      BY <1>1, <1>2, <1>3, <1>4, <3>1 DEF OnTime, InTime
  <2> QED
    BY <2>3, <2>4
<1>6. \A p \in Procs : proc[p].started <= clock'
  BY <1>1, <1>4 DEF TimeInv
<1>7. /\ phase' = "loop" => \A p \in Procs : proc'[p].started < clock'
      /\ phase' = "pause" => \A p \in Procs : proc'[p].started < until'
  <2>1. CASE phase' = "loop"
    <3>1. \A p \in Procs : proc[p].started < clock
      BY <1>1, <1>4, <2>1 DEF Quiet, TimeInv
    <3> QED
      BY <1>1, <1>2, <1>4, <2>1, <3>1
  <2>2. CASE phase' = "pause"
    BY <1>2, <2>2 DEF Quiet, TimeInv
  <2> QED
    BY <2>1, <2>2
<1>8. phase' \in {"watch", "shutdown"} =>
        /\ launched' = proc'[child'].born
        /\ \A p \in Procs : p # child' => proc'[p].started < launched'
  <2>1. phase' \in {"watch", "shutdown"} =>
          phase \in {"watch", "shutdown"} /\ child \in Procs
    BY DEF Quiet, IInv, TypeOK
  <2> QED
    BY <1>1, <1>2, <2>1 DEF TimeInv
<1> QED
  BY <1>2, <1>3, <1>5, <1>6, <1>7, <1>8 DEF TimeInv, Alive

LEMMA MonitorKeepsTimeInv ==
    ASSUME IInv, AloneInv, TimeInv, NEW p \in Procs, MonitorStep(p), GoesOn(p)
    PROVE  TimeInv'
<1>1. /\ proc \in [Procs -> ProcStates] /\ row \in [Procs -> RowStates]
      /\ clock \in Nat \ {0} /\ {WarmUp, BeatEvery} \subseteq Nat
      /\ UNCHANGED <<clock, phase, child, launched, until>>
  BY SupervisionAssumption DEF IInv, TypeOK, GoesOn
<1>2. Closes(p) \/ Registers(p) \/ Beats(p) \/ Finishing(p) \/ IsLost(p)
  BY MonitorStepEffect DEF IInv
<1>3. p = child /\ phase \in {"watch", "shutdown"}
  BY OnlyTheChildGoesOn DEF GoesOn
<1>4. proc'[p].born = proc[p].born /\ \A q \in Procs \ {p} : proc'[q] = proc[q]
  BY DEF GoesOn
<1>5. \A q \in Procs : /\ proc[q].born \in Nat /\ proc[q].started \in Nat
                       /\ row[q].heartbeat \in Nat /\ proc[q].born <= clock
  BY <1>1 DEF ProcStates, RowStates, IInv, GuardInv
<1>6. Alive(p) /\ proc[p].code = "none"
  BY DEF GoesOn, TimeInv
<1>7. \A q \in Procs \ {p} : row'[q].there = row[q].there /\ row'[q].heartbeat = row[q].heartbeat
  BY <1>2 DEF Closes, Registers, Beats, Finishing, IsLost
<1>8. \A q \in Procs \ {p} :
        /\ Alive(q)' => (proc[q].code = "none")'
        /\ (proc[q].pc = "up" => row[q].there)'
        /\ (~row[q].there => row[q].heartbeat = None)'
        /\ (proc[q].pc = "marked" \/ row[q].there => proc[q].born <= proc[q].started)'
        /\ (proc[q].started <= clock)'
        /\ Healthy(q)' => OnTime(q)'
        /\ (proc[q].started < launched)'
  BY <1>1, <1>3, <1>4, <1>7 DEF TimeInv, Alive, Healthy, OnTime
<1>9. /\ Alive(p)' => (proc[p].code = "none")'
      /\ (proc[p].pc = "up" => row[p].there)'
      /\ (~row[p].there => row[p].heartbeat = None)'
      /\ (proc[p].pc = "marked" \/ row[p].there => proc[p].born <= proc[p].started)'
      /\ (proc[p].started <= clock)'
      /\ Healthy(p)' => OnTime(p)'
  <2>1. CASE Closes(p)
    <3>1. ~row[p].there
      BY <2>1 DEF Closes, AloneInv
    <3> QED
      BY <1>1, <1>4, <1>5, <1>6, <2>1, <3>1 DEF Closes, TimeInv, Alive, Healthy, OnTime
  <2>2. CASE Registers(p)
    <3>1. ~row[p].there /\ row[p].heartbeat = None /\ OnTime(p)
      BY <2>2 DEF Registers, AloneInv, TimeInv, Healthy
    <3> QED
      BY <1>1, <1>4, <1>5, <1>6, <2>2, <3>1 DEF Registers, TimeInv, Alive, Healthy, OnTime
  <2>3. CASE Beats(p)
    BY <1>1, <1>4, <1>5, <1>6, <2>3 DEF Beats, TimeInv, Alive, Healthy, OnTime, None
  <2>4. CASE Finishing(p)
    BY <1>1, <1>4, <1>5, <1>6, <2>4 DEF Finishing, TimeInv, Alive, Healthy
  <2>5. CASE IsLost(p)
    BY <1>1, <1>4, <1>5, <1>6, <2>5 DEF IsLost, TimeInv, Alive, Healthy
  <2> QED
    BY <1>2, <2>1, <2>2, <2>3, <2>4, <2>5
<1> QED
  BY <1>1, <1>3, <1>4, <1>8, <1>9 DEF TimeInv

LEMMA OnlyTimeMovesTheClock ==
    ASSUME ~Sleeps, [Next]_vars, clock' # clock
    PROVE  clock' = clock + 1 /\ \A p \in Procs : Healthy(p) => InTime(p)
<1>1. Tick
  BY DEF Next, Supervise, Launch, DeadlineReached, ChildEnded, CheckHeartbeat, Resume,
         ShutdownTimeout, Decide, CtrlC, RunByHand, StopCommand, Sleep, MonitorStep,
         ConfigError, MarkAbandoned, StartRun, Heartbeat, FinishRun, Crash, Hang, vars
<1> QED
  BY <1>1 DEF Tick

LEMMA StepKeepsTimeInv ==
    ASSUME ~ByHand, ~Sleeps, IInv, AloneInv, TimeInv, [Next]_vars
    PROVE  TimeInv'
<1>1. \/ Launch \/ EndsChild \/ Quiet
      \/ \E p \in Procs : MonitorStep(p) /\ GoesOn(p)
  BY StepKinds DEF RunByHand, IInv
<1> QED
  BY <1>1, BirthKeepsTimeInv, EndKeepsTimeInv, QuietKeepsTimeInv, MonitorKeepsTimeInv,
     OnlyTimeMovesTheClock

(* The heart of the matter: what the supervisor reads of a monitor that is   *)
(* not hung is never old enough to be taken for silence.                    *)
LEMMA HealthyIsNotSilent ==
    ASSUME ~BusyReads, WarmUp <= StartupGrace, WarmUp <= HangAfter, BeatEvery <= HangAfter,
           IInv, AloneInv, TimeInv, phase = "watch", Healthy(child),
           NEW hb \in Readings
    PROVE  ~Silent(hb)
<1>1. /\ child \in Procs /\ clock \in Nat
      /\ \A p \in Procs : proc[p].born \in Nat /\ proc[p].started \in Nat
                          /\ row[p].heartbeat \in Nat
      /\ {WarmUp, BeatEvery, StartupGrace, HangAfter} \subseteq Nat
  BY SupervisionAssumption DEF IInv, TypeOK, ProcStates, RowStates
<1>2. /\ launched = proc[child].born /\ OnTime(child)
      /\ \A p \in Procs : p # child => proc[p].started < launched
  BY <1>1 DEF TimeInv
<1>3. Newest \subseteq {child}
  <2>1. \A p \in Newest : p \in Procs /\ proc[p].started >= launched
    BY DEF Newest
  <2> QED
    BY <1>1, <1>2, <2>1
<1>4. CASE ~row[child].there
  <2>1. Newest = {}
    BY <1>3, <1>4 DEF Newest
  <2>2. hb = None
    BY <2>1 DEF Readings
  <2>3. row[child].heartbeat = None
    BY <1>1, <1>4 DEF TimeInv
  <2> QED
    BY <1>1, <1>2, <2>2, <2>3 DEF Silent, OnTime
<1>5. CASE row[child].there
  <2>1. launched <= proc[child].started
    BY <1>1, <1>2, <1>5 DEF TimeInv
  <2>2. \A q \in Procs : proc[q].started <= proc[child].started
    BY <1>1, <1>2, <2>1
  <2>3. Newest = {child}
    BY <1>1, <1>3, <1>5, <2>1, <2>2 DEF Newest
  <2>4. hb = IF row[child].heartbeat = None THEN proc[child].started ELSE row[child].heartbeat
    BY <2>3 DEF Readings
  <2>5. CASE row[child].heartbeat = None
    BY <1>1, <1>2, <2>1, <2>4, <2>5 DEF Silent, OnTime, None
  <2>6. CASE row[child].heartbeat # None
    BY <1>1, <1>2, <2>4, <2>6 DEF Silent, OnTime
  <2> QED
    BY <2>5, <2>6
<1> QED
  BY <1>4, <1>5

(* The supervisor kills a monitor for silence only when it hangs, if nobody  *)
(* else starts one, the computer does not sleep, the probe answers, and a    *)
(* healthy monitor registers and beats within the times the policy grants.   *)
THEOREM HealthyMonitorsAreSpared ==
    ASSUME ~ByHand, ~Sleeps, ~BusyReads,
           WarmUp <= StartupGrace, WarmUp <= HangAfter, BeatEvery <= HangAfter
    PROVE  Spec => OnlyHungIsKilled
<1> DEFINE All == IInv /\ AloneInv /\ TimeInv
           Spared == \A p \in Procs : (phase = "watch" /\ Alive(p) /\ proc'[p].code = "killed")
                                         => proc[p].pc = "hung"
<1>1. Init => All
  <2> SUFFICES ASSUME Init PROVE All
    OBVIOUS
  <2>1. IInv
    BY IInvInit
  <2>2. AloneInv
    BY DEF Init, AloneInv, AbandonedIsDead, Used, NoProc, NoRow
  <2>3. TimeInv
    BY DEF Init, TimeInv, NoProc, NoRow, None, Alive, Healthy
  <2> QED
    BY <2>1, <2>2, <2>3
<1>2. All /\ [Next]_vars => All'
  BY StepKeepsIInv, StepKeepsAloneInv, StepKeepsTimeInv
<1>3. All /\ [Next]_vars => Spared
  <2> SUFFICES ASSUME IInv, AloneInv, TimeInv, [Next]_vars, phase = "watch",
                      NEW p \in Procs, Alive(p), proc'[p].code = "killed"
               PROVE  proc[p].pc = "hung"
    BY DEF All
  <2>1. /\ proc \in [Procs -> ProcStates] /\ proc[p].code = "none" /\ p = child
    BY OnlyTheChildGoesOn DEF IInv, TypeOK, TimeInv
  <2>2. CASE ChildEnded \/ DeadlineReached \/ Resume \/ ShutdownTimeout \/ Launch
             \/ StopCommand \/ Tick \/ Sleep \/ UNCHANGED vars
    BY <2>1, <2>2 DEF ChildEnded, DeadlineReached, Resume, ShutdownTimeout, Launch,
                      StopCommand, Tick, Sleep, vars
  <2>3. CASE CtrlC
    <3>1. proc' = [proc EXCEPT ![child].ctrl_c = TRUE]
      BY <2>3 DEF CtrlC
    <3> QED
      BY <2>1, <3>1 DEF ProcStates
  <2>4. CASE RunByHand
    BY <2>4 DEF RunByHand
  <2>5. CASE CheckHeartbeat
    <3>1. ~Healthy(child)
      BY <2>5, HealthyIsNotSilent DEF CheckHeartbeat
    <3> QED
      BY <2>1, <3>1 DEF Healthy, Alive
  <2>6. ASSUME NEW q \in Procs, MonitorStep(q) PROVE FALSE
    <3>1. q = child /\ (proc'[q].code # "killed" \/ proc'[q].code = proc[q].code)
      BY <2>6, MonitorStepEffect, MonitorGoesOn, OnlyTheChildGoesOn DEF GoesOn, IInv
    <3> QED
      BY <2>1, <3>1
  <2> QED
    BY <2>2, <2>3, <2>4, <2>5, <2>6 DEF Next, Supervise
<1> QED
  <2>1. Spec => [][Spared]_vars
    BY <1>1, <1>2, <1>3, PTL DEF Spec
  <2> QED
    BY <2>1 DEF OnlyHungIsKilled
=============================================================================
