---------------------------- MODULE StructureLog ----------------------------
(***************************************************************************)
(* Structure over time: bars close, StructureService.analyze replays the    *)
(* window that ends at the last one, at once or not at all, and             *)
(* SQLiteStructureStore.save (app/storage/structure.py) records the events. *)
(* The first record of an event is authoritative, another label for it      *)
(* goes to structure_event_conflicts.                                       *)
(***************************************************************************)
EXTENDS StructureEngine

CONSTANTS
    Candles,        \* prices of a closed bar
    StoredCandles,  \* the bars stored at the start
    MaxCandles,     \* bound: bars in total
    MaxSaves        \* bound: analyses that are saved

IsCandle(bar) ==
    /\ bar \in [l : Int, h : Int, c : Int]
    /\ bar.l <= bar.c /\ bar.c <= bar.h

ASSUME CandlesAssumption ==
    /\ \A bar \in Candles : IsCandle(bar)
    /\ \A stored \in StoredCandles :
          stored \in Seq(ToSet(stored)) /\ \A t \in DOMAIN stored : IsCandle(stored[t])

VARIABLES
    candles,
    view,                   \* the snapshot of the last bar, a function of candles
    analysed,               \* the bars at whose close a snapshot was saved
    structure_events, structure_event_conflicts

structure_tables == <<analysed, structure_events, structure_event_conflicts>>
structure_vars == <<candles, view, structure_tables>>

StructureInit ==
    /\ candles \in StoredCandles
    /\ view = Snapshot(candles)
    /\ analysed = {} /\ structure_events = {} /\ structure_event_conflicts = {}

CandleCloses ==
    /\ Len(candles) < MaxCandles
    /\ \E bar \in Candles : candles' = Append(candles, bar)
    /\ view' = Snapshot(candles')
    /\ UNCHANGED structure_tables

\* The rows of a snapshot: breaks with their label, sweeps with their price.
BreakRow(e) == [id |-> e.id, kind |-> e.label, about |-> e.prior]
SweepRow(s) == [id |-> s.id, kind |-> "sweep", about |-> s.price]
Rows(snapshot) == {BreakRow(e) : e \in ToSet(snapshot.events)} \cup {SweepRow(s) : s \in snapshot.sweeps}

Known(id) == \E row \in structure_events : row.id = id

SaveStructure ==
    /\ Len(candles) \notin analysed /\ Cardinality(analysed) < MaxSaves
    /\ analysed' = analysed \cup {Len(candles)}
    /\ structure_events' = structure_events \cup {row \in Rows(view) : ~Known(row.id)}
    /\ structure_event_conflicts' = structure_event_conflicts \cup
           {row \in Rows(view) : Known(row.id) /\ row \notin structure_events}
    /\ UNCHANGED <<candles, view>>

StructureNext == CandleCloses \/ SaveStructure
StructureSpec == StructureInit /\ [][StructureNext]_structure_vars

---------------------------------------------------------------------------
\* An active level is one that no bar traded beyond since the first of the
\* extremes it is made of: two code paths settle levels (_interact) and move
\* their price and members (_on_swing), over pivots that become known late.
ActiveIsUntouched ==
    \A lv \in Active(view.levels) : \A t \in Head(lv.members) + 1..Len(candles) : ~Pierced(lv, candles[t])

\* The two ways in which a close beyond a pivot is noticed agree: the level of
\* the last pivot is invalidated only by the break of that pivot, and a broken
\* pivot has no active level (_interact, _breaks).
BreakAndLevelAgree ==
    \A side \in Sides : \A lv \in view.levels :
        lv.side = side /\ ~lv.eq /\ Head(lv.members) = view.ref[side] =>
            /\ lv.status = "active" => ~view.broken[side]
            /\ lv.status = "invalidated" => view.broken[side]

\* What the replay at the close of bar n finds, and what of it is shown.
Found(n) == ToSet(Replay(SubSeq(candles, 1, n), WindowStart(n)).events)
InWindow(pivot, n) == pivot - SwingLeft >= WindowStart(n)

\* A later analysis finds the same breaks as an earlier one, as far as their
\* pivots lie in its window: none is lost, none appears in hindsight.
BreaksAreFoundAgain ==
    \A n \in analysed : n >= MinBars =>
        {e.id : e \in {x \in Found(n) : InWindow(x.id[2], Len(candles))}} =
        {e.id : e \in {x \in Found(Len(candles)) : x.id[3] <= n}}

\* A break that is shown and that an earlier analysis could see was recorded
\* then, unless RecentEvents others had come after it.
BreaksAreRecorded ==
    \A e \in ToSet(view.events) : \A n \in analysed :
        n >= MinBars /\ e.id[3] <= n /\ Cardinality({x \in Found(n) : x.id[3] >= e.id[3]}) <= RecentEvents
            => Known(e.id)

\* The log disagrees with a later analysis in one way only: the direction
\* before a break.  Sweeps never differ, and a break that was recorded as the
\* first of its window is never given a direction later.
ConflictsAreLabels ==
    \A row \in structure_event_conflicts : \E first \in structure_events :
        /\ first.id = row.id
        /\ first.kind \in {"bos", "choch"} /\ row.kind # "sweep" /\ row.kind # first.kind

\* A break is the same fact whenever it is analysed, but for its label.
BreaksAreTimeless == BreaksAreFoundAgain /\ BreaksAreRecorded /\ ConflictsAreLabels
=============================================================================
