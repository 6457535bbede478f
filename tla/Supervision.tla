---------------------------- MODULE Supervision ----------------------------
(***************************************************************************)
(* Who keeps the monitor alive: the supervisor (app/cli/supervisor.py), the *)
(* processes it launches, the registry of runs they share                   *)
(* (app/storage/monitor.py) and the commands `monitor run` and `monitor     *)
(* stop` (app/cli/monitor_cmds.py).                                         *)
(*                                                                          *)
(* Processes are numbered in the order they are launched; the run of a      *)
(* process has the number of the process.  What a monitor does between two  *)
(* heartbeats is in Monitor: here it registers, beats, finishes, crashes or *)
(* hangs.  The supervisor may look at any moment, not only every            *)
(* check_interval_s.                                                        *)
(***************************************************************************)
EXTENDS Integers, FiniteSets

CONSTANTS MaxProcs, MaxTime,      \* bounds: processes and clock
          HangAfter, StartupGrace, StableAfter, BackoffBase, BackoffMax,
          Hour, MaxPerHour, GracefulTimeout,
          Deadline,               \* end of the supervised run, None without
          WarmUp,                 \* longest time to a healthy first heartbeat
          BeatEvery,              \* longest time between healthy heartbeats
          ByHand,                 \* somebody may also start `monitor run`
          Sleeps,                 \* the computer may go to sleep
          BusyReads,              \* the probe of the database may fail
          MaxInterrupts           \* how often Ctrl+C is pressed

None == 0

Procs == 1..MaxProcs

ASSUME SupervisionAssumption ==
    /\ {MaxProcs, StableAfter, BackoffBase, BackoffMax, Hour, MaxPerHour,
        WarmUp, BeatEvery} \subseteq Nat \ {0}
    /\ {MaxTime, HangAfter, StartupGrace, GracefulTimeout, Deadline,
        MaxInterrupts} \subseteq Nat
    /\ {ByHand, Sleeps, BusyReads} \subseteq BOOLEAN

VARIABLES clock,
          phase, stop, outcome, child, launched, consecutive, restart_times,
          until,                  \* the supervisor and its report
          proc,                   \* the monitor processes
          row,                    \* monitor_runs
          interrupts, stop_asked  \* what the operator did

sup  == <<phase, stop, outcome, child, launched, consecutive, restart_times, until>>
vars == <<clock, sup, proc, row, interrupts, stop_asked>>

NoProc == [pc |-> "none", code |-> "none", born |-> None, started |-> None,
           supervised |-> FALSE, ctrl_c |-> FALSE]

NoRow == [there |-> FALSE, heartbeat |-> None, status |-> "none",
          finished |-> FALSE, stop_requested |-> FALSE]

Alive(p) == proc[p].pc \in {"boot", "marked", "up", "hung"}

Healthy(p) == proc[p].pc \in {"boot", "marked", "up"}

Unused == {p \in Procs : proc[p].pc = "none"}

NextProc == CHOOSE p \in Unused : \A q \in Unused : p <= q

Init ==
    /\ clock = 1
    /\ phase = "loop" /\ stop = FALSE /\ outcome = "running"
    /\ child = None /\ launched = None /\ consecutive = 0
    /\ restart_times = {} /\ until = None
    /\ proc = [p \in Procs |-> NoProc]
    /\ row = [p \in Procs |-> NoRow]
    /\ interrupts = 0 /\ stop_asked = FALSE
-----------------------------------------------------------------------------
(* The supervisor. *)
Born(p, supervised) ==
    proc' = [proc EXCEPT ![p] = [NoProc EXCEPT
                !.pc = "boot", !.born = clock, !.supervised = supervised]]

End(result) == phase' = "done" /\ outcome' = result

DeadlineOver == Deadline # None /\ clock >= Deadline

Launch ==
    /\ phase = "loop" /\ ~DeadlineOver
    /\ Unused # {}
    /\ phase' = "watch"
    /\ child' = NextProc
    /\ launched' = clock
    /\ Born(NextProc, TRUE)
    /\ UNCHANGED <<clock, stop, outcome, consecutive, restart_times, until, row,
                   interrupts, stop_asked>>

DeadlineReached ==
    /\ phase = "loop" /\ DeadlineOver
    /\ End("completed")
    /\ UNCHANGED <<clock, stop, child, launched, consecutive, restart_times,
                   until, proc, row, interrupts, stop_asked>>

\* base * 2^(n-1) where it fits under the cap, else the cap.
Pause(n) ==
    LET fits == {d \in 1..BackoffMax : d = BackoffBase * 2^(n - 1)}
    IN  IF fits = {} THEN BackoffMax ELSE CHOOSE d \in fits : TRUE

\* Mutant: the window of the crash-loop guard is anchored at the launch.
RecentSinceLaunch == {r \in restart_times : r.at > launched}

\* Restarts of the last hour; each one replaced another child.
Recent == {r \in restart_times : r.at > clock - Hour}

\* run(), between the end of a child and the next launch.
Restart ==
    LET n == IF clock - launched >= StableAfter THEN 1 ELSE consecutive + 1
    IN  /\ consecutive' = n
        /\ IF Cardinality(Recent) >= MaxPerHour
           THEN /\ End("gave_up")
                /\ restart_times' = Recent
                /\ UNCHANGED until
           ELSE /\ phase' = "pause"
                /\ restart_times' = Recent \cup {[of |-> child, at |-> clock]}
                /\ until' = clock + Pause(n)
                /\ UNCHANGED outcome

Decide(code, hung) ==
    /\ IF code = "ok" /\ ~hung
       THEN /\ End(IF DeadlineOver THEN "completed" ELSE "stopped")
            /\ UNCHANGED <<consecutive, restart_times, until>>
       ELSE IF code = "config"
       THEN End("config_error") /\ UNCHANGED <<consecutive, restart_times, until>>
       ELSE IF stop
       THEN End("stopped") /\ UNCHANGED <<consecutive, restart_times, until>>
       ELSE Restart
    /\ UNCHANGED <<clock, child, launched, row, stop_asked>>

\* proc.wait() returned.
ChildEnded ==
    /\ phase \in {"watch", "shutdown"}
    /\ proc[child].pc = "dead"
    /\ Decide(proc[child].code, FALSE)
    /\ UNCHANGED <<stop, proc, interrupts>>

\* Mutant: the process is told to terminate, nobody waits for it.
TerminateOnly(p) == UNCHANGED proc

\* _kill: terminate, wait, kill, wait.  The run row stays as it is.
Kill(p) == proc' = [proc EXCEPT ![p].pc = "dead", ![p].code = "killed"]

\* read_latest_heartbeat: the newest run started since the launch.
Newest ==
    {p \in Procs : /\ row[p].there /\ proc[p].started >= launched
                   /\ \A q \in Procs : row[q].there
                         => proc[q].started <= proc[p].started}

Readings ==
    (IF Newest = {} \/ BusyReads THEN {None} ELSE {}) \cup
    {IF row[p].heartbeat = None THEN proc[p].started ELSE row[p].heartbeat :
        p \in Newest}

\* Mutant: silence is counted from the launch.
SilentSinceLaunch(hb) ==
    clock - launched > (IF hb = None THEN StartupGrace ELSE HangAfter)

\* Mutant: a monitor that has not registered yet is never hung.
SilentOnceRegistered(hb) == hb # None /\ clock - hb > HangAfter

Silent(hb) ==
    IF hb = None THEN clock - launched > StartupGrace ELSE clock - hb > HangAfter

CheckHeartbeat ==
    /\ phase = "watch"
    /\ Alive(child)
    /\ \E hb \in Readings : Silent(hb)
    /\ Kill(child)
    /\ Decide("killed", TRUE)
    /\ UNCHANGED <<stop, interrupts>>

Resume ==
    /\ phase = "pause" /\ clock >= until
    /\ phase' = "loop"
    /\ UNCHANGED <<clock, stop, outcome, child, launched, consecutive,
                   restart_times, until, proc, row, interrupts, stop_asked>>

\* Ctrl+C on the console: the monitor gets it too (a hung one ignores it).
\* The supervisor waits for a watched child, the second time it kills it; in
\* a pause it stops at once.
CtrlC ==
    /\ interrupts < MaxInterrupts /\ phase # "done"
    /\ interrupts' = interrupts + 1
    /\ \/ /\ phase = "watch"
          /\ phase' = "shutdown" /\ stop' = TRUE
          /\ until' = clock + GracefulTimeout
          /\ proc' = [proc EXCEPT ![child].ctrl_c = TRUE]
          /\ UNCHANGED <<clock, outcome, child, launched, consecutive,
                         restart_times, row, stop_asked>>
       \/ /\ phase = "shutdown" /\ Alive(child)
          /\ Kill(child)
          /\ Decide("killed", FALSE)
          /\ UNCHANGED stop
       \/ /\ phase \in {"loop", "pause"}
          /\ End("stopped")
          /\ UNCHANGED <<clock, stop, child, launched, consecutive,
                         restart_times, until, proc, row, stop_asked>>

ShutdownTimeout ==
    /\ phase = "shutdown" /\ Alive(child) /\ clock >= until
    /\ Kill(child)
    /\ Decide("killed", FALSE)
    /\ UNCHANGED <<stop, interrupts>>
-----------------------------------------------------------------------------
(* `monitor run`, launched by the supervisor or by hand. *)
RunByHand ==
    /\ ByHand /\ Unused # {}
    /\ Born(NextProc, FALSE)
    /\ UNCHANGED <<clock, sup, row, interrupts, stop_asked>>

Die(p, code) == proc' = [proc EXCEPT ![p].pc = "dead", ![p].code = code]

ConfigError(p) ==
    /\ proc[p].pc = "boot"
    /\ Die(p, "config")
    /\ UNCHANGED <<clock, sup, row, interrupts, stop_asked>>

Abandon(r) == IF r.there /\ ~r.finished
              THEN [r EXCEPT !.finished = TRUE, !.status = "abandoned"]
              ELSE r

\* The monitor is built, then every run that is not finished is closed.
MarkAbandoned(p) ==
    /\ proc[p].pc = "boot"
    /\ proc' = [proc EXCEPT ![p].pc = "marked", ![p].started = clock]
    /\ row' = [q \in Procs |-> Abandon(row[q])]
    /\ UNCHANGED <<clock, sup, interrupts, stop_asked>>

\* Mutant: unfinished runs are closed after the new one was registered.
StartRunThenAbandon(p) ==
    /\ proc[p].pc = "marked"
    /\ proc' = [proc EXCEPT ![p].pc = "up"]
    /\ row' = [q \in Procs |->
                  IF q = p THEN Abandon([NoRow EXCEPT !.there = TRUE,
                                                      !.status = "running"])
                  ELSE Abandon(row[q])]
    /\ UNCHANGED <<clock, sup, interrupts, stop_asked>>

StartRun(p) ==
    /\ proc[p].pc = "marked"
    /\ proc' = [proc EXCEPT ![p].pc = "up"]
    /\ row' = [row EXCEPT ![p] = [NoRow EXCEPT !.there = TRUE,
                                               !.status = "running"]]
    /\ UNCHANGED <<clock, sup, interrupts, stop_asked>>

Heartbeat(p) ==
    /\ proc[p].pc = "up"
    /\ row' = [row EXCEPT ![p].heartbeat = clock, ![p].status = "running"]
    /\ UNCHANGED <<clock, sup, proc, interrupts, stop_asked>>

\* The first Ctrl+C and `monitor stop` ask a monitor to stop.
Asked(p) == proc[p].ctrl_c \/ row[p].stop_requested

\* finish(): the final state may fail to be written, the exit code is the same.
FinishRun(p) ==
    /\ proc[p].pc = "up"
    /\ \E status \in {"stopped", "completed", "failed"} :
          /\ status = "stopped" => Asked(p)
          /\ status = "completed" => DeadlineOver
          /\ Die(p, IF status = "failed" THEN "failed" ELSE "ok")
          /\ \/ row' = [row EXCEPT ![p].finished = TRUE, ![p].status = status,
                                   ![p].heartbeat = clock]
             \/ UNCHANGED row
    /\ UNCHANGED <<clock, sup, interrupts, stop_asked>>

Crash(p) ==
    /\ Healthy(p)
    /\ Die(p, "crash")
    /\ UNCHANGED <<clock, sup, row, interrupts, stop_asked>>

Hang(p) ==
    /\ Healthy(p)
    /\ proc' = [proc EXCEPT ![p].pc = "hung"]
    /\ UNCHANGED <<clock, sup, row, interrupts, stop_asked>>

\* `monitor stop`: every run that is not finished is asked to stop.
StopCommand ==
    /\ ~stop_asked /\ phase # "done"
    /\ stop_asked' = TRUE
    /\ row' = [q \in Procs |-> IF row[q].there /\ ~row[q].finished
                               THEN [row[q] EXCEPT !.stop_requested = TRUE]
                               ELSE row[q]]
    /\ UNCHANGED <<clock, sup, proc, interrupts>>

\* Time passes; a healthy monitor beats in time.
InTime(p) ==
    IF row[p].heartbeat = None THEN clock < proc[p].born + WarmUp
    ELSE clock < row[p].heartbeat + BeatEvery

Tick ==
    /\ clock < MaxTime
    /\ \A p \in Procs : Healthy(p) => InTime(p)
    /\ clock' = clock + 1
    /\ UNCHANGED <<sup, proc, row, interrupts, stop_asked>>

\* The computer sleeps: the clock moves on, nothing else does.
Sleep ==
    /\ Sleeps
    /\ clock' \in (clock + 1)..MaxTime
    /\ UNCHANGED <<sup, proc, row, interrupts, stop_asked>>

Supervise == Launch \/ DeadlineReached \/ ChildEnded \/ CheckHeartbeat \/ Resume
             \/ ShutdownTimeout

MonitorStep(p) ==
    ConfigError(p) \/ MarkAbandoned(p) \/ StartRun(p) \/ Heartbeat(p)
    \/ FinishRun(p) \/ Crash(p) \/ Hang(p)

Next ==
    \/ Supervise \/ CtrlC \/ RunByHand \/ StopCommand \/ Tick \/ Sleep
    \/ \E p \in Procs : MonitorStep(p)

Spec == Init /\ [][Next]_vars

\* The supervisor's loop runs and time passes; a healthy monitor goes on.
FairSpec ==
    /\ Spec
    /\ WF_vars(Supervise) /\ WF_vars(Tick)
    /\ \A p \in Procs : WF_vars(MarkAbandoned(p) \/ StartRun(p) \/ Heartbeat(p))
-----------------------------------------------------------------------------
Supervised == {p \in Procs : proc[p].supervised}

\* The supervisor never leaves a monitor behind: a process it launched is alive
\* only while it is being watched, so two of them never write to the database
\* together and none outlives the supervisor (_watch, _kill, _shutdown_child).
OnlyTheWatchedLives ==
    \A p \in Supervised : Alive(p) => p = child /\ phase \in {"watch", "shutdown"}

\* The crash-loop guard: within any hour at most max_restarts_per_hour + 1
\* launches, however long the pauses and the runs between them are; and a
\* process that ended by itself with exit code 0 (stopped, completed) or 2
\* (configuration) was the last one.
LaunchesAreJustified ==
    /\ Cardinality({p \in Supervised : proc[p].born > clock - Hour}) <= MaxPerHour + 1
    /\ \A p, q \in Supervised : p < q => proc[p].code \notin {"ok", "config"}

\* A run closed as abandoned belongs to a process that is gone (mark_abandoned:
\* "runs that never finished: process killed, crash, power loss").
AbandonedIsDead ==
    \A p \in Procs : row[p].status = "abandoned" => ~Alive(p)

\* The supervisor kills a watched monitor for silence only when it hangs.
OnlyHungIsKilled ==
    [][\A p \in Procs :
          (phase = "watch" /\ Alive(p) /\ proc'[p].code = "killed")
             => proc[p].pc = "hung"]_vars

\* The monitor p of the supervisor hangs or is gone, and the clock of this
\* instance still has the time the supervisor needs to notice.
Lost(p) ==
    /\ phase = "watch" /\ child = p /\ ~Healthy(p)
    /\ clock + HangAfter < MaxTime /\ clock + StartupGrace < MaxTime

\* A monitor that hangs, registered or not, or died is not watched for ever: the
\* supervisor gets to the decision whether it is replaced (_watch).
SupervisorRecovers ==
    \A p \in Procs : Lost(p) ~> ~(phase = "watch" /\ child = p)
=============================================================================
