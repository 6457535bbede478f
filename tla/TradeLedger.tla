---------------------------- MODULE TradeLedger ----------------------------
(***************************************************************************)
(* A trade in the memory of a process and the same trade in the tables      *)
(* fills, trade_legs, funding_events and trades                             *)
(* (app/storage/repositories.py), while the exchange reports its executions *)
(* in any order and more than once and the process may die between any two  *)
(* calls.  The row of `trades` exists from the start                        *)
(* (TradeRepository.create).  Symbols and sides of the reported fills are   *)
(* those of the trade, so these checks of apply_fill never fail.            *)
(***************************************************************************)
EXTENDS TradeAccounting

CONSTANTS Episodes,  \* what may have happened at the exchange
          Fundings,  \* funding events [ref, amount]
          Reasons    \* exit reasons

\* Fill.__post_init__: quantity and price are positive, a fee may be a rebate.
IsFill(f) ==
    f \in [exec : Int, role : {"entry", "exit"}, qty : Nat \ {0}, price : Nat \ {0},
          fee : Int, time : Int]

\* The executions of one position in the order they happened, and later ones
\* of the same symbol that are offered to the trade by mistake.
IsEpisode(e) ==
    /\ e.sign \in {1, -1}
    /\ e.fills \in Seq(ToSet(e.fills))
    /\ \A f \in ToSet(e.fills) \cup e.later : IsFill(f)
    /\ \A i, j \in DOMAIN e.fills : i < j =>
          /\ e.fills[i].exec # e.fills[j].exec
          /\ e.fills[i].time <= e.fills[j].time
    /\ \A f \in ToSet(e.fills), g \in e.later : f.exec # g.exec /\ f.time < g.time
    /\ LET replayed == FoldLeft(LAMBDA s, leg : ReplayLeg(s, leg, e.sign),
                                NothingReplayed, e.fills)
       IN  replayed.ok /\ replayed.closed

ASSUME LedgerAssumption ==
    /\ \A e \in Episodes : IsEpisode(e)
    /\ \A f, g \in Fundings : f.ref = g.ref => f = g
    /\ \A e \in Fundings : e.amount \in Int
    /\ {"none", "gone", "raised"} \cap Reasons = {}

VARIABLES episode,       \* never changes
          live,          \* the Trade in memory, Gone between crash and load
          fills, trade_legs, funding_events, exit_reason

tables == <<fills, trade_legs, funding_events, exit_reason>>
vars   == <<episode, live, tables>>

Gone == [NewTrade EXCEPT !.reason = "gone"]

Running == live # Gone

Facts == ToSet(episode.fills)

Closed(trade) == Status(trade, episode.sign) = "closed"

\* As a bug: rows in the order of their primary key.
RowByExec(a, b) == a.exec < b.exec

\* ORDER BY f.exec_time, f.exec_id
RowBefore(a, b) == a.time < b.time \/ (a.time = b.time /\ a.exec < b.exec)

LastRow(rows) == CHOOSE r \in rows : \A q \in rows \ {r} : RowBefore(q, r)

\* The fills of the linked rows, applied one by one in this order.
LoadedLegs ==
    MapThenFoldSet(LAMBDA f, t : IF t = Raised THEN Raised
                                 ELSE ApplyFill(t, f, episode.sign),
                   NewTrade, LAMBDA f : f, LastRow,
                   {f \in fills : f.exec \in trade_legs})

\* The funding events are read in no particular order.
LoadedFunding ==
    FoldSet(LAMBDA e, t : ApplyFunding(t, e), LoadedLegs, funding_events)

\* As a bug: load forgets the exit reason.
LoadWithoutReason ==
    IF LoadedLegs = Raised THEN Raised
    ELSE LoadedFunding

\* TradeRepository.load: the legs, the funding, the exit reason.
Load ==
    IF LoadedLegs = Raised \/ (exit_reason # "none" /\ ~Closed(LoadedLegs))
    THEN Raised
    ELSE [legs |-> LoadedFunding.legs, funding |-> LoadedFunding.funding,
          reason |-> exit_reason]

Init ==
    /\ episode \in Episodes
    /\ live = NewTrade
    /\ fills = {}
    /\ trade_legs = {}
    /\ funding_events = {}
    /\ exit_reason = "none"

\* FillRepository.add: INSERT OR IGNORE, by a running process or by one that
\* restarts and first stores what it missed.
AddFill(f) ==
    /\ fills' = fills \cup {f}
    /\ UNCHANGED <<episode, live, trade_legs, funding_events, exit_reason>>

\* TradeRepository.link_fill; the foreign key wants the fill.
LinkFill(f) ==
    /\ f \in fills
    /\ trade_legs' = trade_legs \cup {f.exec}
    /\ UNCHANGED <<episode, live, fills, funding_events, exit_reason>>

\* Trade.apply_fill; when it raises the process keeps the trade it had.
Fill(f) ==
    /\ Running
    /\ LET t == ApplyFill(live, f, episode.sign) IN
       live' = IF t = Raised THEN live ELSE t
    /\ UNCHANGED <<episode, tables>>

\* TradeRepository.add_funding
AddFunding(e) ==
    /\ funding_events' = funding_events \cup {e}
    /\ UNCHANGED <<episode, live, fills, trade_legs, exit_reason>>

\* Trade.apply_funding
Fund(e) ==
    /\ Running
    /\ live' = ApplyFunding(live, e)
    /\ UNCHANGED <<episode, tables>>

\* Trade.close_with_reason
Close(reason) ==
    /\ Running
    /\ CloseWithReason(live, reason, episode.sign) # Raised
    /\ live' = CloseWithReason(live, reason, episode.sign)
    /\ UNCHANGED <<episode, tables>>

\* TradeRepository.set_exit_reason, called with the reason the trade accepted.
SetExitReason ==
    /\ Running
    /\ live.reason # "none"
    /\ exit_reason' = IF exit_reason = "none" THEN live.reason ELSE exit_reason
    /\ UNCHANGED <<episode, live, fills, trade_legs, funding_events>>

Crash ==
    /\ Running
    /\ live' = Gone
    /\ UNCHANGED <<episode, tables>>

Restart ==
    /\ ~Running
    /\ Load # Raised
    /\ live' = Load
    /\ UNCHANGED <<episode, tables>>

Next ==
    \/ \E f \in Facts : AddFill(f) \/ LinkFill(f)
    \/ \E f \in Facts \cup episode.later : Fill(f)
    \/ \E e \in Fundings : AddFunding(e) \/ Fund(e)
    \/ \E reason \in Reasons : Close(reason)
    \/ SetExitReason \/ Crash \/ Restart

Spec == Init /\ [][Next]_vars
-----------------------------------------------------------------------------
Linked == {f \in fills : f.exec \in trade_legs}

\* Some entry and some exit have the same execution time.
Tied == \E f, g \in Facts : f.role = "entry" /\ g.role = "exit" /\ f.time = g.time

\* Money that changed hands, without averages and without an order.
Cash(legs, events) ==
    LET Flow(leg) == (IF leg.role = "exit" THEN episode.sign ELSE -episode.sign)
                        * leg.qty * leg.price - leg.fee
    IN  SumFunction([leg \in legs |-> Flow(leg)]) + SumFunction([e \in events |-> e.amount])

(* The average-price arithmetic of a closed trade loses nothing and counts  *)
(* nothing twice: its net profit is the money that came in minus the money  *)
(* that went out over its distinct fills and funding events, in whatever    *)
(* order and however often they were applied (Trade._replay, pnl).          *)
ClosedNetIsCash ==
    Running /\ Closed(live) =>
        RatioEq(Net(live, episode.sign),
                Ratio(Cash(ToSet(live.legs), ToSet(live.funding)), 1))

(* When every fill of the position is linked, a restart finds the closed    *)
(* trade with its true profit, whatever was stored late, twice or out of    *)
(* order and whenever the exit reason was set (TradeRepository.load);       *)
(* positions in which an entry and an exit share a time are excepted.       *)
CompleteIsRecovered ==
    Linked = Facts /\ ~Tied =>
        /\ Load # Raised
        /\ Closed(Load)
        /\ RatioEq(Net(Load, episode.sign), Ratio(Cash(Facts, funding_events), 1))

\* The tables know what the process knows.
Persisted ==
    /\ Running
    /\ Linked = ToSet(live.legs)
    /\ funding_events = ToSet(live.funding)
    /\ exit_reason = live.reason

SameTrade(t, u) ==
    /\ ToSet(t.legs) = ToSet(u.legs)
    /\ ToSet(t.funding) = ToSet(u.funding)
    /\ t.reason = u.reason

(* test_storage.py:76: "Process dies after fills are persisted; a new       *)
(* process must rebuild the same trade" - without the exception for ties.   *)
MustRebuild ==
    Persisted /\ (live.reason # "none" => Closed(live)) =>
        Load # Raised /\ SameTrade(Load, live)

(* Memory and database never hold two different exit reasons, though each   *)
(* is written once by its own rule and a crash may come between them.       *)
ReasonsAgree ==
    Running /\ live.reason # "none" /\ exit_reason # "none" => live.reason = exit_reason

(* A closed trade is opened again only by a fill that executed before its   *)
(* last exit and was reported late, never by one that came after the close. *)
OnlyEarlierFillsReopen ==
    [][ \A leg \in ToSet(live'.legs) \ ToSet(live.legs) :
          Running /\ Closed(live) =>
            \E last \in ToSet(live.legs) : last.role = "exit" /\ Before(leg, last)
      ]_vars
=============================================================================
