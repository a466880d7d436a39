----------------------------- MODULE TrendHistory -----------------------------
(***************************************************************************)
(* How the runner knows the daily trend (phase1/streaming/                 *)
(* day_selection_gate.py, daily_swing_detector.py and the bootstrap and    *)
(* recovery of shadow_runner/runner.py): swings are confirmed two days     *)
(* late by a window of five closed days, journaled, and read back from the *)
(* journal after a restart.  The reference is daily_trend_as_of() of       *)
(* phase1/extract_golden_master.py over all days.                          *)
(*                                                                         *)
(* One step per database write; prices are small integers.                 *)
(***************************************************************************)
EXTENDS Integers, Sequences, FiniteSets

CONSTANTS
  Ranges,       \* the [high, low] a day may have
  History,      \* the days before the first start that the bridge still serves
  MaxDays,      \* bound: closed days in all
  MaxStarts,    \* bound: starts of the runner
  MaxLost       \* bound: journal writes that fail

ASSUME TrendAssumption ==
  /\ Ranges \subseteq [high : Int, low : Int] /\ \A r \in Ranges : r.low <= r.high
  /\ MaxDays \in Nat /\ MaxStarts \in Nat /\ MaxLost \in Nat
  /\ History \in Seq(Ranges) /\ Len(History) <= MaxDays

VARIABLES
  days,         \* the closed days of the market, in order
  window,       \* DailySwingDetector._window: [day, high, low]
  gateHighs,    \* DaySelectionGate._confirmed_highs, prices only
  gateLows,     \* DaySelectionGate._confirmed_lows
  journal,      \* the daily_swing_*_confirmed events: [kind, day, price]
  marker,       \* the trend_history_bootstrapped event is there
  pc,           \* "down", "marking", "seeding", "up", "ending"
  startedAt,    \* the day of the last start
  starts, lost, \* counters of the two bounds
  fedFrom,      \* history: the first day fed since the last start
  clean         \* history: every day since was fed once, with its range

vars == <<days, window, gateHighs, gateLows, journal, marker, pc, startedAt,
          starts, lost, fedFrom, clean>>

PivotN == 2

----------------------------------------------------------------------------
(* The reference.  Day i of the code is days[i + 1].                       *)

D(i) == days[i + 1]
Near(i) == (i - PivotN)..(i + PivotN)
Pivots == PivotN..(Len(days) - PivotN - 1)
SwingHighs == {i \in Pivots : \A k \in Near(i) : D(k).high <= D(i).high}
SwingLows == {i \in Pivots : \A k \in Near(i) : D(k).low >= D(i).low}

Max(S) == CHOOSE x \in S : \A y \in S : y <= x
LastTwo(S) == LET last == Max(S) IN <<Max(S \ {last}), last>>
Direction(h, l) ==
  CASE h[2] > h[1] /\ l[2] > l[1] -> "up"
    [] h[2] < h[1] /\ l[2] < l[1] -> "down"
    [] OTHER -> "none"

DailyTrendAsOf ==
  IF Cardinality(SwingHighs) < 2 \/ Cardinality(SwingLows) < 2 THEN "none"
  ELSE LET h == LastTwo(SwingHighs)
           l == LastTwo(SwingLows)
       IN  Direction(<<D(h[1]).high, D(h[2]).high>>, <<D(l[1]).low, D(l[2]).low>>)

----------------------------------------------------------------------------
(* DailySwingDetector.on_new_day and DaySelectionGate.on_day_closed.       *)

Push(w, x) == IF Len(w) < 2 * PivotN + 1 THEN Append(w, x) ELSE Append(Tail(w), x)
IsTopStrict(w) ==
  Len(w) = 2 * PivotN + 1 /\ \A k \in DOMAIN w \ {PivotN + 1} : w[k].high < w[PivotN + 1].high
IsTop(w) == Len(w) = 2 * PivotN + 1 /\ \A k \in DOMAIN w : w[k].high <= w[PivotN + 1].high
IsBottom(w) == Len(w) = 2 * PivotN + 1 /\ \A k \in DOMAIN w : w[k].low >= w[PivotN + 1].low

ConfirmedOneKind(w) ==
  LET c == w[PivotN + 1]
  IN  CASE IsTop(w) -> {[kind |-> "high", day |-> c.day, price |-> c.high]}
        [] ~IsTop(w) /\ IsBottom(w) -> {[kind |-> "low", day |-> c.day, price |-> c.low]}
        [] OTHER -> {}
Confirmed(w) ==
  LET c == w[PivotN + 1]
  IN  (IF IsTop(w) THEN {[kind |-> "high", day |-> c.day, price |-> c.high]} ELSE {})
      \cup (IF IsBottom(w) THEN {[kind |-> "low", day |-> c.day, price |-> c.low]} ELSE {})

OnDayClosed(day, r) ==
  LET w == Push(window, [day |-> day, high |-> r.high, low |-> r.low])
  IN  /\ window' = w
      /\ gateHighs' = IF IsTop(w) THEN Append(gateHighs, w[PivotN + 1].high) ELSE gateHighs
      /\ gateLows' = IF IsBottom(w) THEN Append(gateLows, w[PivotN + 1].low) ELSE gateLows

TrendForToday ==
  IF Len(gateHighs) < 2 \/ Len(gateLows) < 2 THEN "none"
  ELSE Direction(SubSeq(gateHighs, Len(gateHighs) - 1, Len(gateHighs)),
                 SubSeq(gateLows, Len(gateLows) - 1, Len(gateLows)))

----------------------------------------------------------------------------
Init ==
  /\ days = History /\ window = <<>> /\ gateHighs = <<>> /\ gateLows = <<>>
  /\ journal = {} /\ marker = FALSE /\ pc = "down" /\ startedAt = 0
  /\ starts = 0 /\ lost = 0 /\ fedFrom = 0 /\ clean = TRUE

(* The process ends, at any moment; memory is gone.                        *)
Crash ==
  /\ pc # "down" /\ starts < MaxStarts
  /\ pc' = "down" /\ window' = <<>> /\ gateHighs' = <<>> /\ gateLows' = <<>>
  /\ UNCHANGED <<days, journal, marker, startedAt, starts, lost, fedFrom, clean>>

(* The swings among the days the bridge serves, as on_day_closed confirms  *)
(* them one by one.                                                        *)
Served == [k \in DOMAIN days |-> [day |-> k - 1, high |-> days[k].high, low |-> days[k].low]]
LastOf(s, size) == IF Len(s) <= size THEN s ELSE SubSeq(s, Len(s) - size + 1, Len(s))
SwingEvents ==
  {[kind |-> "high", day |-> i, price |-> D(i).high] : i \in SwingHighs}
  \cup {[kind |-> "low", day |-> i, price |-> D(i).low] : i \in SwingLows}

(* _bootstrap_trend_history_if_needed: all days are fed, their events      *)
(* written in one commit.                                                  *)
Bootstrap ==
  /\ pc = "down" /\ starts < MaxStarts /\ ~marker /\ journal = {}
  /\ window' = LastOf(Served, 2 * PivotN + 1)
  /\ journal' = SwingEvents
  /\ pc' = "marking" /\ starts' = starts + 1
  /\ startedAt' = Len(days) /\ fedFrom' = 0 /\ clean' = TRUE
  /\ UNCHANGED <<days, gateHighs, gateLows, marker, lost>>

MarkBootstrapped ==
  /\ pc = "marking"
  /\ marker' = TRUE /\ pc' = "seeding"
  /\ UNCHANGED <<days, window, gateHighs, gateLows, journal, startedAt, starts, lost,
                 fedFrom, clean>>

(* Nothing to inject: it was done, or real swings are there already (which *)
(* writes the marker), or the bridge does not answer (which does not).     *)
SkipBootstrap ==
  /\ pc = "down" /\ starts < MaxStarts
  /\ marker' \in IF ~marker /\ journal # {} THEN {TRUE} ELSE {marker}
  /\ pc' = "seeding" /\ starts' = starts + 1
  /\ startedAt' = Len(days) /\ fedFrom' = Len(days) /\ clean' = TRUE
  /\ UNCHANGED <<days, window, gateHighs, gateLows, journal, lost>>

(* get_recent_swing_history and seed_trend_history: the last two prices of *)
(* each kind replace the lists.  The window stays as it is.                *)
PricesOf(events) ==
  LET Later(e) == {o \in events : o.day > e.day}
      recent == {e \in events : Cardinality(Later(e)) < 2}
      Rank(e) == Cardinality(recent) - Cardinality(Later(e))
  IN  [k \in 1..Cardinality(recent) |-> (CHOOSE e \in recent : Rank(e) = k).price]
OfKind(events, kind) == {e \in events : e.kind = kind}
Prices(kind) == PricesOf(OfKind(journal, kind))

SeedTrendHistory ==
  /\ pc = "seeding"
  /\ gateHighs' = Prices("high") /\ gateLows' = Prices("low")
  /\ pc' = "up"
  /\ UNCHANGED <<days, window, journal, marker, startedAt, starts, lost, fedFrom, clean>>

----------------------------------------------------------------------------
(* A day ends while the runner is up: the range of the bars it saw is fed, *)
(* and then the events are written.  On the day of a start the first bars  *)
(* may be out of reach of the replay, so that only a part of the range was *)
(* seen.                                                                   *)
Seen(r) ==
  IF Len(days) = startedAt THEN {r, [high |-> r.low, low |-> r.low]} ELSE {r}
DayCloses ==
  /\ pc = "up" /\ Len(days) < MaxDays
  /\ \E r \in Ranges : \E o \in Seen(r) :
       /\ days' = Append(days, r)
       /\ OnDayClosed(Len(days), o)
       /\ clean' = (clean /\ o = r)
  /\ pc' = "ending"
  /\ UNCHANGED <<journal, marker, startedAt, starts, lost, fedFrom>>

(* What on_day_closed returned and the runner has yet to write.            *)
WriteSwings ==
  /\ pc = "ending"
  /\ journal' = journal \cup Confirmed(window)
  /\ pc' = "up"
  /\ UNCHANGED <<days, window, gateHighs, gateLows, marker, startedAt, starts, lost,
                 fedFrom, clean>>

(* The write raises: _finalize_day is left, current_day is not replaced,   *)
(* and the next poll finalizes and feeds the same day once more.           *)
WriteFails ==
  /\ pc = "ending" /\ Confirmed(window) # {} /\ lost < MaxLost
  /\ LET last == window[Len(window)] IN OnDayClosed(last.day, last)
  /\ lost' = lost + 1 /\ clean' = FALSE
  /\ UNCHANGED <<days, journal, marker, pc, startedAt, starts, fedFrom>>

(* A day goes by while the runner is down.  _recover_cross_day_gap replays *)
(* its bars for the journal but does not give the day to the gate.         *)
DayMissed ==
  /\ pc = "down" /\ starts > 0 /\ Len(days) < MaxDays
  /\ \E r \in Ranges : days' = Append(days, r)
  /\ UNCHANGED <<window, gateHighs, gateLows, journal, marker, pc, startedAt, starts,
                 lost, fedFrom, clean>>

Next ==
  \/ Crash \/ Bootstrap \/ MarkBootstrapped \/ SkipBootstrap \/ SeedTrendHistory
  \/ DayCloses \/ WriteSwings \/ WriteFails \/ DayMissed

Spec == Init /\ [][Next]_vars

----------------------------------------------------------------------------
(* The verdict on a day: gate_for_day at the first bar from 10:00 on, and  *)
(* the batch loop over the whole day.  A day has some bars before 7:00,    *)
(* from 7:00 to 10:00 and from 10:00 on.                                   *)
MinSessionBars == 12
Calendar == {"ordinary", "fomc", "fomc_added"}  \* dates only the gate knows of
Counts == [before : {0, 3, 11}, session : {0, 1, 8}, after : {0, 1, 9}]

Skip(reason) == [tradeable |-> FALSE, reason |-> reason]
Trade(t, start, end) == [tradeable |-> TRUE, trend |-> t, start |-> start, end |-> end]

Judge(isFomc, t, c, bars) ==
  CASE isFomc -> Skip("fomc")
    [] ~isFomc /\ t = "none" -> Skip("no_trend")
    [] ~isFomc /\ t # "none" /\ bars < MinSessionBars -> Skip("insufficient_bars")
    [] ~isFomc /\ t # "none" /\ bars >= MinSessionBars /\ bars = c.before -> Skip("no_session_start")
    [] OTHER -> Trade(t, c.before, c.before + c.session)

GateForDayInclusive(date, t, c) ==
  IF c.after = 0 THEN Skip("undecided")
  ELSE Judge(date # "ordinary", t, [c EXCEPT !.session = @ + 1], c.before + c.session + 1)
GateForDay(date, t, c) ==
  IF c.after = 0 THEN Skip("undecided")  \* ready_to_decide() never holds
  ELSE Judge(date # "ordinary", t, c, c.before + c.session + 1)
BatchDay(date, t, c) ==
  Judge(date = "fomc", t, c, c.before + c.session + c.after)

----------------------------------------------------------------------------
(* Properties.                                                             *)

Kinds == {"high", "low"}
Swing == [kind : Kinds, day : Nat, price : Int]
DaySeen == [day : Nat, high : Int, low : Int]

TypeOK ==
  /\ days \in Seq(Ranges) /\ Len(days) <= MaxDays
  /\ window \in Seq(DaySeen) /\ Len(window) <= 2 * PivotN + 1
  /\ gateHighs \in Seq(Int) /\ gateLows \in Seq(Int)
  /\ journal \subseteq Swing /\ IsFiniteSet(journal)
  /\ marker \in BOOLEAN /\ clean \in BOOLEAN
  /\ pc \in {"down", "marking", "seeding", "up", "ending"}
  /\ starts \in 0..MaxStarts /\ lost \in 0..MaxLost /\ fedFrom \in 0..Len(days)
  /\ startedAt \in 0..Len(days)

(* The last two swings of a kind were confirmed from days that this        *)
(* process saw, each once and whole.                                       *)
Warm(swings) ==
  /\ pc = "up" /\ clean /\ Cardinality(swings) >= 2
  /\ LastTwo(swings)[1] - PivotN >= fedFrom

(* Once the window has warmed up again after a restart, the gate knows the *)
(* last two swings that daily_trend_as_of() would use: a restart, missed   *)
(* days and a seeded history heal.                                         *)
SwingsHeal ==
  /\ Warm(SwingHighs) =>
       LastOf(gateHighs, 2) = [k \in 1..2 |-> D(LastTwo(SwingHighs)[k]).high]
  /\ Warm(SwingLows) =>
       LastOf(gateLows, 2) = [k \in 1..2 |-> D(LastTwo(SwingLows)[k]).low]

(* A day that the gate lets trade is a day the batch model trades, with    *)
(* the same trend and the same session, although the gate judges it at     *)
(* 10:00 from the bars so far and knows more FOMC dates.                   *)
LiveDaysAreBatchDays ==
  Warm(SwingHighs) /\ Warm(SwingLows) =>
    LET live == TrendForToday
        batch == DailyTrendAsOf
    IN  \A date \in Calendar, c \in Counts :
          GateForDay(date, live, c).tradeable =>
            BatchDay(date, batch, c) = GateForDay(date, live, c)

(* The journal is all a restart has: after seeding, and as long as no      *)
(* write failed, memory and journal agree on the last two swings.          *)
GateRestsOnJournal ==
  pc = "up" /\ lost = 0 =>
    /\ LastOf(gateHighs, 2) = Prices("high")
    /\ LastOf(gateLows, 2) = Prices("low")

(* What the docstring of seed_trend_history says: until the detector has   *)
(* warmed up again the seeded values stay valid for the trend.             *)
SeededTrendStaysValid ==
  pc = "up" /\ clean /\ marker /\ lost = 0 => TrendForToday = DailyTrendAsOf

----------------------------------------------------------------------------
(* The inductive invariant behind the three, kind by kind.                 *)

GateOf(kind) == IF kind = "high" THEN gateHighs ELSE gateLows
SwingsOf(kind) == IF kind = "high" THEN SwingHighs ELSE SwingLows
EndOf(kind, range) == IF kind = "high" THEN range.high ELSE range.low
PriceOf(kind, i) == EndOf(kind, D(i))
Confirms(kind, w) == IF kind = "high" THEN IsTop(w) ELSE IsBottom(w)

\* What is where.
PlacesFit ==
  /\ pc = "down" => window = <<>> /\ gateHighs = <<>> /\ gateLows = <<>>
  /\ pc \in {"marking", "seeding"} => journal = SwingEvents \/ fedFrom = Len(days)
  /\ pc \in {"marking", "seeding"} => clean
  /\ pc = "ending" => window # <<>>

\* The window holds the last days, and with their ranges if all were seen whole.
WindowFits ==
  (clean \/ lost = 0) /\ pc # "down" =>
    \A k \in DOMAIN window : window[k].day = Len(days) - Len(window) + k - 1
WindowTrue ==
  clean /\ pc # "down" =>
    /\ Len(window) = IF Len(days) - fedFrom < 2 * PivotN + 1 THEN Len(days) - fedFrom
                                                             ELSE 2 * PivotN + 1
    /\ \A k \in DOMAIN window, kind \in Kinds :
         EndOf(kind, window[k]) = PriceOf(kind, window[k].day)

\* The gate ends with the last two swings of the days it was fed.
FedSwings(kind) == {i \in SwingsOf(kind) : i - PivotN >= fedFrom}
Top(i, S) == i \in S /\ \A j \in S : j <= i
Ends(gate, kind, S) ==
  \A i \in S : Top(i, S) =>
    /\ Len(gate) >= 1 /\ gate[Len(gate)] = PriceOf(kind, i)
    /\ \A j \in S : Top(j, S \ {i}) =>
         Len(gate) >= 2 /\ gate[Len(gate) - 1] = PriceOf(kind, j)
GateFits ==
  clean /\ pc \in {"up", "ending"} =>
    \A kind \in Kinds : Ends(GateOf(kind), kind, FedSwings(kind))

\* Journal and window tell one range a day, and no day that is not over.
OneRange ==
  /\ \A e \in journal : e.day < Len(days)
  /\ \A k \in DOMAIN window : window[k].day < Len(days)
  /\ \A e, o \in journal : e.kind = o.kind /\ e.day = o.day => e = o
  /\ \A k, l \in DOMAIN window : window[k].day = window[l].day => window[k] = window[l]
  /\ \A e \in journal, k \in DOMAIN window : e.day = window[k].day =>
       e.price = EndOf(e.kind, window[k])

\* The journal ends before the swings that are still to be written.
JournalFits ==
  lost = 0 =>
    \A e \in journal : e.day + PivotN + (IF pc = "ending" THEN 1 ELSE 0) < Len(days)
Unwritten == IF pc = "ending" THEN Confirmed(window) ELSE {}
GateJournaled ==
  lost = 0 /\ pc \in {"up", "ending"} =>
    \A kind \in Kinds :
      LastOf(GateOf(kind), 2) = PricesOf(OfKind(journal \cup Unwritten, kind))

IndInv ==
  /\ TypeOK /\ PlacesFit /\ WindowFits /\ WindowTrue /\ OneRange
  /\ GateFits /\ JournalFits /\ GateJournaled
=============================================================================
