------------------------------ MODULE SetupLog ------------------------------
(***************************************************************************)
(* Setups over time: bars close, SetupService.analyze replays them now and  *)
(* then (a monitor that is not always up, an operator with --at) and        *)
(* SQLiteSetupStore.save (app/storage/setup.py) records what it shows.      *)
(*                                                                          *)
(* The first record of a setup and of each of its transitions is            *)
(* authoritative; what disagrees later goes to setup_conflicts.  The        *)
(* regime, which changes no lifecycle, is left out, and with it the         *)
(* comparison of the payloads of a snapshot saved twice.                    *)
(***************************************************************************)
EXTENDS SetupEngine

CONSTANTS Bars,       \* prices, breaks and new levels of a closed bar
          Histories,  \* the bars that are stored at the start
          MaxBars,    \* bound: bars in total
          MaxAnalyses \* bound: analyses that are saved

ASSUME SetupLogAssumption ==
    /\ \A bar \in Bars : bar.l <= bar.c /\ bar.c <= bar.h
    /\ \A history \in Histories :
          history \in Seq(ToSet(history)) /\ Len(history) >= RequiredBars - 1

VARIABLES bars, shown, before,
          snapshots, setups, setup_events, setup_conflicts

\* What an analysis of the last bar shows, and one of the bar before: functions
\* of bars, kept because the properties compare the two.
views == <<shown, before>>

tables == <<snapshots, setups, setup_events, setup_conflicts>>
vars   == <<bars, views, tables>>

\* The parts of Setup.identity that the setup_id is the hash of.
Id(setup) == [type |-> setup.type, direction |-> setup.direction,
              trigger |-> setup.trigger, level |-> setup.level]

Identity(setup) == [id |-> Id(setup), created |-> setup.created, fail |-> setup.fail]

Init ==
    /\ bars \in Histories
    /\ shown = Shown(bars, Len(bars))
    /\ before = Shown(bars, Len(bars) - 1)
    /\ snapshots = {} /\ setups = {} /\ setup_events = {} /\ setup_conflicts = {}

\* StructureEngine._interact: a level is swept when the bar trades beyond it and
\* closes back, and is active no more once a bar has traded beyond it.
Closed(prev, bar) ==
    [bar EXCEPT !.buy    = @ \cup {p \in prev.buy : bar.h <= p},
                !.sell   = @ \cup {p \in prev.sell : bar.l >= p},
                !.sweeps = [side : {"buy"}, level : {p \in prev.buy : bar.c <= p /\ p < bar.h}]
                      \cup [side : {"sell"}, level : {p \in prev.sell : bar.l < p /\ p <= bar.c}]]

BarCloses ==
    /\ Len(bars) < MaxBars
    /\ \E bar \in Bars : bars' = Append(bars, Closed(Last(bars), bar))
    /\ shown' = Shown(bars', Len(bars'))
    /\ before' = shown
    /\ UNCHANGED tables

\* As a bug: a transition is recorded with the time of the analysis.
FactsAsOf(setup, n) ==
    {[id |-> Id(setup), status |-> t.status, at |-> n] : t \in ToSet(setup.log)}

Facts(setup, n) ==
    {[id |-> Id(setup), status |-> t.status, at |-> t.at] : t \in ToSet(setup.log)}

\* The rows of one snapshot, written in one transaction.
Save(n, snapshot) ==
    LET known == {setup \in snapshot : \E row \in setups : row.id = Id(setup)}
        other == {setup \in known : Identity(setup) \notin setups}
        facts == UNION {Facts(setup, n) : setup \in snapshot \ other}
        told(fact) == \E row \in setup_events : row.id = fact.id /\ row.status = fact.status
    IN  /\ snapshots' = snapshots \cup {n}
        /\ setups' = setups \cup {Identity(setup) : setup \in snapshot \ known}
        /\ setup_events' = setup_events \cup {fact \in facts : ~told(fact)}
        /\ setup_conflicts' = setup_conflicts
             \cup {[id |-> Id(setup), seen |-> n, kind |-> "identity"] : setup \in other}
             \cup {[id |-> fact.id, seen |-> n, kind |-> "transition"] :
                     fact \in {f \in facts : told(f) /\ f \notin setup_events}}

\* SetupService.analyze; it raises when a setup to show is not legal.
Analyse(n, snapshot) ==
    /\ n \notin snapshots
    /\ Cardinality(snapshots) < MaxAnalyses
    /\ \A setup \in snapshot : IsLegal(setup)
    /\ Save(n, snapshot)
    /\ UNCHANGED <<bars, views>>

Next ==
    \/ BarCloses
    \/ Analyse(Len(bars), shown)
    \/ Analyse(Len(bars) - 1, before)

Spec == Init /\ [][Next]_vars
-----------------------------------------------------------------------------
Now == Len(bars)

(* V070_PHASE6_SETUP_DETECTION.md:35: a setup visible at t is visible at    *)
(* t+1 with the same identity, and its transitions are only extended, as    *)
(* long as it is recent enough to be shown (lookback_bars, config.py:39).   *)
Stays(setup) ==
    setup.created >= Horizon(Now) =>
        \E later \in shown :
            Identity(later) = Identity(setup) /\ IsPrefix(setup.log, later.log)

(* It holds for every type but range rejections, which depend on earlier    *)
(* ones without end: two lives and the time of display are far enough back. *)
TriggersAreNotForgotten ==
    \A setup \in before : setup.type # "range_rejection" => Stays(setup)


(* No later analysis disagrees with what was recorded, whichever bars were  *)
(* analysed and in whatever order (save; migrations/0007_setup.sql).  A     *)
(* range rejection may vanish, but when it is shown it is the same.         *)
NoConflicts == setup_conflicts = {}

(* What the diagnosis of the data quality reads in the log (_check_setups,  *)
(* app/analytics/quality.py): the events of a setup in the order of time.    *)
Rank == [candidate |-> 0, confirmed |-> 1, invalidated |-> 2, expired |-> 2]
EventsOf(row) == {event \in setup_events : event.id = row.id}
Findings(row) ==
    LET events == EventsOf(row)
        ended  == {event \in events : event.status \in Terminal}
    IN  (IF \A event \in events : event.status # "candidate" THEN {"no candidate event"} ELSE {}) \cup
        (IF Cardinality(ended) > 1 THEN {"more than one terminal event"} ELSE {}) \cup
        (IF \E e \in ended : \E event \in events \ {e} : event.at >= e.at THEN {"transition after a terminal event"} ELSE {}) \cup
        (IF \E e, f \in events : e # f /\ (e.at = f.at \/ (e.at < f.at /\ Rank[e.status] > Rank[f.status]))
         THEN {"not strictly increasing in lifecycle order"} ELSE {})

\* still_active of live_setup_funnel (app/analytics/engine.py).
StillActive == {row \in setups : \A event \in EventsOf(row) : event.status \notin Terminal}

(* The log that irregular and late analyses leave is one that the diagnosis *)
(* accepts, and no setup counts as active for ever: one that was analysed   *)
(* while it was closed and still shown has its end in the log.  A range     *)
(* rejection is excepted: it may have vanished by then.                     *)
LogPassesAudit ==
    /\ \A row \in setups : Findings(row) = {}
    /\ \A row \in StillActive, n \in snapshots :
           row.id.type # "range_rejection" =>
               ~(row.created + TTL <= n /\ n <= row.created + TTL + RecentClosed)

\* The bars of a setup's life up to now.
Life(setup) == (setup.created + 1)..Min({Now, setup.created + TTL})

LostAt(setup) == {j \in Life(setup) : Lost(setup, bars[j])}

PassedAt(setup) ==
    {j \in Life(setup) :
        /\ \A i \in LostAt(setup) : j < i
        /\ CASE setup.type = "breakout" -> j - setup.created >= HoldBars
             [] setup.type = "sweep_reversal" /\ SweepByStructure ->
                  \E break \in bars[j].breaks : break.direction = setup.direction
             [] OTHER -> Beyond(setup.direction, bars[j].c, setup.pass)}

FirstIs(setup, status, when) ==
    {t.at : t \in {u \in ToSet(setup.log) : u.status = status}} =
        IF when = {} THEN {} ELSE {Min(when)}

(* The lifecycle of the document, without a replay: the first close beyond  *)
(* the level that is to hold invalidates, the first confirming close before *)
(* that confirms, the end of the life expires what was not invalidated.     *)
OutcomeIsFirstEvent ==
    \A setup \in shown :
        /\ FirstIs(setup, "invalidated", LostAt(setup))
        /\ FirstIs(setup, "confirmed", PassedAt(setup))
        /\ FirstIs(setup, "expired",
                   IF LostAt(setup) = {} THEN Life(setup) \cap {setup.created + TTL} ELSE {})

(* A pullback is the first return to a broken level after a close away from *)
(* it, within the life of the arm and with no close beyond its far side.    *)
PullbackIsFirstReturn ==
    \A setup \in shown : setup.type = "pullback" =>
        LET direction == setup.direction
            left  == {j \in setup.trigger..(setup.created - 1) :
                        Departs(direction, setup.level, bars[j])}
            Back(j) == ~Beyond(direction, Near(direction, bars[j]),
                                setup.level + direction * Zone)
        IN  /\ left # {}
            /\ setup.created - setup.trigger <= TTL
            /\ \A j \in (setup.trigger + 1)..setup.created :
                  ~Beyond(-direction, bars[j].c, setup.fail)
            /\ {j \in (Min(left) + 1)..setup.created : Back(j)} = {setup.created}
=============================================================================
