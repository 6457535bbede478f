---------------------------- MODULE SetupEngine ----------------------------
(***************************************************************************)
(* SetupEngine.evaluate (app/research/setup/engine.py): one pass over the   *)
(* last closed bars that rebuilds every setup from its trigger.             *)
(*                                                                          *)
(* A bar is what the engine reads of it: the prices h, l, c, the structure  *)
(* breaks and sweeps of its close, the active liquidity levels buy and sell *)
(* known then, and whether structure and ATR could be computed (ready).     *)
(* Bars are numbered from 1 and a time is the number of the bar that closed *)
(* then.  Prices are integers; the distances that the configuration gives   *)
(* in ATR are constants; a level is named by its price.  Directions are 1   *)
(* (bullish) and -1 (bearish).                                              *)
(***************************************************************************)
EXTENDS Integers, Sequences, FiniteSetsExt, SequencesExt

CONSTANTS StructureBars,           \* structure.min_bars
          TTL, RecentClosed, HoldBars,
          Zone, Touch, RangeMin, RangeMax,
          SweepByStructure         \* sweep_confirmation = opposite_structure_break

ASSUME SetupConfigAssumption ==
    /\ StructureBars \in Nat \ {0}
    /\ TTL \in Nat \ {0} /\ RecentClosed \in Nat /\ HoldBars \in Nat \ {0}
    /\ Zone \in Nat /\ Touch \in Nat /\ RangeMin \in Nat /\ RangeMax \in Nat
    /\ Touch < RangeMin /\ RangeMin < RangeMax
    /\ SweepByStructure \in BOOLEAN

\* As a bug: the arms of pullbacks are not replayed.
LookbackOfOneLife == TTL + RecentClosed

LookbackBars == 2 * TTL + RecentClosed

RequiredBars == StructureBars + LookbackBars + 1

\* a lies beyond b in the given direction.
Beyond(direction, a, b) == direction * (a - b) > 0

Near(direction, bar) == IF direction = 1 THEN bar.l ELSE bar.h
Far(direction, bar)  == IF direction = 1 THEN bar.h ELSE bar.l

Terminal == {"invalidated", "expired"}

Status(setup) == Last(setup.log).status

IsOpen(setup) == Status(setup) \notin Terminal

To(setup, status, j) ==
    [setup EXCEPT !.log = Append(@, [status |-> status, at |-> j])]

(***************************************************************************)
(* A setup as the replay keeps it (_Draft): a close beyond `fail`, against  *)
(* its direction, invalidates it, one beyond `pass` confirms it.            *)
(***************************************************************************)
NewSetup(type, direction, trigger, level, j, fail, pass) ==
    [type |-> type, direction |-> direction, trigger |-> trigger, level |-> level,
     created |-> j, fail |-> fail, pass |-> pass, holds |-> 0,
     log |-> <<[status |-> "candidate", at |-> j]>>]

Breakout(break, j) ==
    NewSetup("breakout", break.direction, j, break.level, j, break.level, break.level)

\* Buy-side liquidity swept is a bearish setup.
Sweep(sweep, j, bar) ==
    LET direction == IF sweep.side = "buy" THEN -1 ELSE 1 IN
    NewSetup("sweep_reversal", direction, j, sweep.level, j,
             Far(-direction, bar), Far(direction, bar))

Lost(setup, bar) == Beyond(-setup.direction, bar.c, setup.fail)

Confirms(setup, bar) ==
    /\ Status(setup) = "candidate"
    /\ CASE setup.type = "breakout" -> setup.holds + 1 >= HoldBars
         [] setup.type = "sweep_reversal" /\ SweepByStructure ->
              \E break \in bar.breaks : break.direction = setup.direction
         [] OTHER -> Beyond(setup.direction, bar.c, setup.pass)

\* As a bug: a confirmation is looked for before the loss of the level.
StepHopeful(setup, j, bar) ==
    LET held      == [setup EXCEPT !.holds = IF Status(setup) = "candidate" THEN @ + 1 ELSE @]
        confirmed == IF Confirms(setup, bar) THEN To(held, "confirmed", j) ELSE held
    IN  IF ~IsOpen(setup) \/ j <= setup.created THEN setup
        ELSE IF Lost(setup, bar) /\ ~Confirms(setup, bar) THEN To(setup, "invalidated", j)
        ELSE IF j - setup.created >= TTL THEN To(confirmed, "expired", j)
        ELSE confirmed

\* _step at bar j: invalidation, then confirmation, then expiry.
Step(setup, j, bar) ==
    LET held      == [setup EXCEPT !.holds = IF Status(setup) = "candidate" THEN @ + 1 ELSE @]
        confirmed == IF Confirms(setup, bar) THEN To(held, "confirmed", j) ELSE held
    IN  IF ~IsOpen(setup) \/ j <= setup.created THEN setup
        ELSE IF Lost(setup, bar) THEN To(setup, "invalidated", j)
        ELSE IF j - setup.created >= TTL THEN To(confirmed, "expired", j)
        ELSE confirmed

(***************************************************************************)
(* A broken level that waits for price to leave and come back (_Arm).       *)
(***************************************************************************)
\* A close beyond the zone of a level, in the direction of its break.
Departs(direction, level, bar) == Beyond(direction, bar.c, level + direction * Zone)

NewArm(break, j, bar) ==
    [direction |-> break.direction, level |-> break.level, created |-> j,
     departed |-> Departs(break.direction, break.level, bar)]

ArmLost(arm, bar) == Beyond(-arm.direction, bar.c, arm.level - arm.direction * Zone)

\* As a bug: the bar of the departure may be the one of the return.
TouchedAtOnce(arm, j, bar) ==
    /\ j - arm.created <= TTL
    /\ arm.departed \/ Departs(arm.direction, arm.level, bar)
    /\ ~Beyond(arm.direction, Near(arm.direction, bar), arm.level + arm.direction * Zone)
    /\ ~ArmLost(arm, bar)

\* _arm_step: price departed on an earlier bar and is back without losing the level.
Touched(arm, j, bar) ==
    /\ j - arm.created <= TTL
    /\ arm.departed
    /\ ~Beyond(arm.direction, Near(arm.direction, bar), arm.level + arm.direction * Zone)
    /\ ~ArmLost(arm, bar)

Pullback(arm, j, bar) ==
    NewSetup("pullback", arm.direction, arm.created, arm.level, j,
             arm.level - arm.direction * Zone, Far(arm.direction, bar))

\* The arms after bar j: a touched, an old and a lost one is removed.
KeptArms(arms, j, bar) ==
    {[arm EXCEPT !.departed = @ \/ Departs(arm.direction, arm.level, bar)] :
        arm \in {a \in arms : ~Touched(a, j, bar) /\ j - a.created <= TTL /\ ~ArmLost(a, bar)}}

(***************************************************************************)
(* Rejections of the nearest active levels known before the bar opened.     *)
(***************************************************************************)
Top(prev)    == Min({p \in prev.buy : p >= prev.c})
Bottom(prev) == Max({p \in prev.sell : p <= prev.c})

HasRange(prev, bar) ==
    /\ prev.ready
    /\ \E p \in prev.buy : p >= prev.c
    /\ \E p \in prev.sell : p <= prev.c
    /\ bar.h # bar.l
    /\ Top(prev) - Bottom(prev) \in RangeMin..RangeMax

\* rejection_close_fraction is one half.
Rejects(direction, boundary, bar) ==
    LET edge == Near(direction, bar) IN
    /\ direction * (edge - boundary) \in 0..Touch
    /\ direction * (bar.c - edge) * 2 >= bar.h - bar.l

\* _range and _open_same.
Rejections(setups, j, prev, bar) ==
    IF ~HasRange(prev, bar) THEN {}
    ELSE {NewSetup("range_rejection", side[1], j, side[2], j, side[2], Far(side[1], bar)) :
            side \in {s \in {<<-1, Top(prev)>>, <<1, Bottom(prev)>>} :
                        /\ Rejects(s[1], s[2], bar)
                        /\ ~\E open \in setups :
                              /\ IsOpen(open) /\ open.type = "range_rejection"
                              /\ open.direction = s[1] /\ open.level = s[2]}}

(***************************************************************************)
(* The loop of evaluate and the setups it shows.                            *)
(***************************************************************************)
NothingSeen == [setups |-> {}, arms |-> {}]

Triggered(seen, j, prev, bar) ==
    LET bos == {break \in bar.breaks : break.type = "bos"} IN
    IF ~bar.ready THEN seen
    ELSE [setups |-> seen.setups
                       \cup {Breakout(break, j) : break \in bos}
                       \cup {Sweep(sweep, j, bar) : sweep \in bar.sweeps}
                       \cup Rejections(seen.setups, j, prev, bar),
          arms   |-> seen.arms \cup {NewArm(break, j, bar) : break \in bos}]

ReplayBar(seen, j, prev, bar) ==
    Triggered([setups |-> {Step(setup, j, bar) : setup \in seen.setups}
                            \cup {Pullback(arm, j, bar) :
                                    arm \in {a \in seen.arms : Touched(a, j, bar)}},
               arms   |-> KeptArms(seen.arms, j, bar)], j, prev, bar)

\* The replay of the bars up to n.
Replayed(bars, n) ==
    FoldLeft(LAMBDA seen, j : ReplayBar(seen, j, bars[j - 1], bars[j]),
             NothingSeen, [i \in 1..(LookbackBars + 1) |-> n - LookbackBars - 1 + i])

\* As a bug: a setup is shown for its life only.
HorizonOfLife(n) == n - TTL

Horizon(n) == n - (TTL + RecentClosed)

\* The setups of the snapshot at n; there are none without enough bars.
Shown(bars, n) ==
    IF n < RequiredBars THEN {}
    ELSE {setup \in Replayed(bars, n).setups : setup.created >= Horizon(n)}

\* Setup.__post_init__: transitions are strictly ordered in time.
IsLegal(setup) ==
    \A i \in 1..(Len(setup.log) - 1) : setup.log[i].at < setup.log[i + 1].at
=============================================================================
