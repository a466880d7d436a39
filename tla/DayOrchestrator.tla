---------------------------- MODULE DayOrchestrator ----------------------------
(***************************************************************************)
(* The streaming detection of one day (phase1/streaming): a DayOrchestrator*)
(* with its swing detector, raid detector, gap detector, one watch per     *)
(* raid and one TradeAttempt per confirmed gap, fed one bar at a time.     *)
(*                                                                         *)
(* The code branches on bull/bear and long/short in every component; Past, *)
(* Far and Near fold the two branches into one.  Prices are counted in     *)
(* units of 2.5 pips, as in GoldenMaster.                                  *)
(***************************************************************************)
EXTENDS Integers, Sequences, FiniteSets

CONSTANTS
  Market(_, _),       \* Market(t, i): the bars that may come i-th on a day of trend t
  DayBars,            \* number of bars of a day, the one at 17:00 included
  ClosingIdx,         \* index of the bar at 17:00
  SessionStartIdx,    \* index of the first bar at or after 7:00
  SessionEndIdx,      \* index of the first bar at or after 10:00
  MssWindowBars,      \* bars a watch lives after its raid, 9 in the code
  Open, NoTrade,      \* the day's result before it ends, and without a trade
  Null                \* no swing, target or outcome yet

Prices == Int
BarRecord == [high : Prices, low : Prices, close : Prices]
Outcomes == {"win", "loss", "scratch"}
TradeRecord == [direction : {"long", "short"}, entry : Prices, stop : Prices, target : Prices,
                risk_pips : Int, outcome : Outcomes, exit_price : Prices]

ASSUME DayAssumption ==
  /\ DayBars \in Nat /\ ClosingIdx \in 0..DayBars
  /\ MssWindowBars \in Nat /\ SessionStartIdx \in Nat /\ SessionEndIdx \in SessionStartIdx..DayBars
  /\ \A t \in {"up", "down"} : \A i \in 0..DayBars - 1 : Market(t, i) \subseteq BarRecord
  /\ Null \notin Prices /\ Null \notin Outcomes
  /\ Open # NoTrade /\ Open \notin TradeRecord

VARIABLES
  trend,         \* the day's trend, from the gate
  allBars,       \* every bar of the day from 5:00 to 17:00
  fed,           \* the bars given to on_new_bar
  swingWindow,   \* IntradaySwingDetector._window
  latestHigh,    \* RaidDetector._latest_confirmed_swing_high, a price or Null
  latestLow,     \* RaidDetector._latest_confirmed_swing_low
  gapWindow,     \* FVGDetector._window
  recentBars,    \* DayOrchestrator._recent_bars
  candidates,    \* DayOrchestrator._candidates: [raid_bar, level]
  attempts,      \* DayOrchestrator._attempts
  emitted,       \* the events given to event_sink
  trade          \* what finalize() returned, Open before

dayVars == <<trend, allBars, fed, swingWindow, latestHigh, latestLow, gapWindow,
          recentBars, candidates, attempts, emitted, trade>>

SwingN == 2
TargetLookbackBars == 6
MinStopPips == 5
RiskPips(d) == (5 * d) \div 2
Mid(a, b) == (a + b) \div 2

Tail6(s) == IF Len(s) <= TargetLookbackBars THEN s
            ELSE SubSeq(s, Len(s) - TargetLookbackBars + 1, Len(s))
Rolling(s, x, size) == IF Len(s) < size THEN Append(s, x) ELSE Append(Tail(s), x)

Past(a, b) == IF trend = "up" THEN a > b ELSE a < b
Far(b) == IF trend = "up" THEN b.high ELSE b.low
Near(b) == IF trend = "up" THEN b.low ELSE b.high

Event(type, at, price) == [type |-> type, at |-> at, price |-> price]

----------------------------------------------------------------------------
(* IntradaySwingDetector.on_new_bar: the middle bar of a full window is a  *)
(* swing when no bar of the window goes beyond it.                         *)

ConfirmedStrict(window) ==
  IF Len(window) < 2 * SwingN + 1 THEN {}
  ELSE LET c == window[SwingN + 1]
           others == DOMAIN window \ {SwingN + 1}
       IN  (IF \A m \in others : window[m].high < c.high
            THEN {Event("swing_high", c.at, c.high)} ELSE {})
           \cup (IF \A m \in others : window[m].low > c.low
                 THEN {Event("swing_low", c.at, c.low)} ELSE {})
Confirmed(window) ==
  IF Len(window) < 2 * SwingN + 1 THEN {}
  ELSE LET c == window[SwingN + 1]
           Top == \A m \in DOMAIN window : window[m].high <= c.high
           Bottom == \A m \in DOMAIN window : window[m].low >= c.low
       IN  (IF Top THEN {Event("swing_high", c.at, c.high)} ELSE {})
           \cup (IF Bottom THEN {Event("swing_low", c.at, c.low)} ELSE {})

(* The raid detector folds the bar's own swings in after its check.        *)
Fold(latest, swings, type) ==
  IF \E e \in swings : e.type = type
  THEN (CHOOSE e \in swings : e.type = type).price ELSE latest

----------------------------------------------------------------------------
(* RaidDetector.on_new_bar, with the kill-zone flag of the orchestrator.   *)

InKillZone(i) == SessionStartIdx <= i /\ i < SessionEndIdx
RaidLevel == IF trend = "up" THEN latestLow ELSE latestHigh
MssReference == IF trend = "up" THEN latestHigh ELSE latestLow
IsRaid(i, b) ==
  /\ InKillZone(i)
  /\ latestHigh # Null /\ latestLow # Null
  /\ Past(RaidLevel, Near(b))

----------------------------------------------------------------------------
(* MSSWatch.is_expired and on_new_bar.                                     *)

IsExpiredEarly(c, i) == i >= c.raid_bar + MssWindowBars
IsExpired(c, i) == i > c.raid_bar + MssWindowBars
ConfirmsShift(c, i, b) == ~IsExpired(c, i) /\ i > c.raid_bar /\ Past(b.close, c.level)

(* FVGDetector.check_fvg over its three bars.                              *)
GapFound(window) == Len(window) = 3 /\ Past(Near(window[3]), Far(window[1]))

----------------------------------------------------------------------------
(* TradeAttempt.                                                           *)

NewAttempt(c, i, window, seed) ==
  LET entry == Mid(Near(window[3]), Far(window[1]))
      frame == CHOOSE x \in {seed[k] : k \in DOMAIN seed} : x.at = window[1].at
      stop == Near(frame)
      risk == RiskPips(IF trend = "up" THEN entry - stop ELSE stop - entry)
  IN  [raid_bar |-> c.raid_bar, mss_bar |-> i, entry |-> entry, stop |-> stop,
       risk_pips |-> risk, recent |-> seed, target |-> Null, fill_bar |-> Null,
       status |-> IF risk < MinStopPips THEN "rejected_min_stop" ELSE "pending",
       outcome |-> Null, exit_price |-> Null]

IsActive(a) == a.status \in {"pending", "filled"}
Touched(a, b) == ~Past(Near(b), a.entry)

(* max()/min() with a key returns the first of the extreme bars.           *)
ExtremeBar(recent) ==
  recent[CHOOSE m \in DOMAIN recent :
           /\ \A o \in DOMAIN recent : ~Past(Far(recent[o]), Far(recent[m]))
           /\ \A o \in 1..(m - 1) : Past(Far(recent[m]), Far(recent[o]))]
TargetOf(a) == Mid(ExtremeBar(a.recent).high, ExtremeBar(a.recent).low)

(* _check_close: the stop before the target.                               *)
CheckClose(a, b) ==
  CASE ~Past(Near(b), a.stop) ->
         [a EXCEPT !.status = "closed", !.outcome = "loss", !.exit_price = a.stop]
    [] Past(Near(b), a.stop) /\ ~Past(a.target, Far(b)) ->
         [a EXCEPT !.status = "closed", !.outcome = "win", !.exit_price = a.target]
    [] OTHER -> a

(* The first touch fills or abandons the attempt for good, and a fill is   *)
(* checked for its exit at the same bar.                                   *)
OnTouch(a, i, b) ==
  IF Len(a.recent) < TargetLookbackBars \/ ~Past(TargetOf(a), a.entry)
  THEN [a EXCEPT !.status = "abandoned"]
  ELSE CheckClose([a EXCEPT !.status = "filled", !.target = TargetOf(a),
                            !.fill_bar = i], b)

OnBar(a, i, b) ==
  CASE a.status = "pending" /\ Touched(a, b) -> OnTouch(a, i, b)
    [] a.status = "pending" /\ ~Touched(a, b) ->
         [a EXCEPT !.recent = Rolling(@, [at |-> i, high |-> b.high, low |-> b.low],
                                      TargetLookbackBars)]
    [] a.status = "filled" -> CheckClose(a, b)
    [] OTHER -> a

AttemptEvents(before, after, i) ==
  (IF before.status = "pending" /\ after.status \in {"filled", "closed"}
   THEN {Event("filled", i, after.target)} ELSE {})
  \cup (IF before.status # "closed" /\ after.status = "closed"
        THEN {Event(after.outcome, i, after.exit_price)} ELSE {})

----------------------------------------------------------------------------
DayInit ==
  /\ trend \in {"up", "down"}
  /\ allBars = <<>> /\ fed = <<>>
  /\ swingWindow = <<>> /\ latestHigh = Null /\ latestLow = Null
  /\ gapWindow = <<>> /\ recentBars = <<>>
  /\ candidates = {} /\ attempts = {}
  /\ emitted = {} /\ trade = Open

(* What the watches make of bar i: the shifts, and an attempt for each     *)
(* shift that leaves a gap.  Candidates and attempts are lists in the code *)
(* and sets here: no two have the same key, and none looks at another.     *)
Shifting(i, b) == {c \in candidates : ConfirmsShift(c, i, b)}
Spawned(i, b, window, seed) ==
  IF GapFound(window) THEN {NewAttempt(c, i, window, seed) : c \in Shifting(i, b)} ELSE {}
IsKept(a) == a.status # "rejected_min_stop"

WatchEventsOnce(i, b, spawned) ==
  {Event("mss", i, c.level) : c \in Shifting(i, b)}
  \cup {Event("fvg", i, a.entry) : a \in spawned}
  \cup {IF IsKept(a) /\ ~\E o \in attempts : IsActive(o)
        THEN Event("ready", i, a.entry)
        ELSE Event("rejected", i, a.risk_pips) : a \in spawned}
WatchEvents(i, b, spawned) ==
  {Event("mss", i, c.level) : c \in Shifting(i, b)}
  \cup {Event("fvg", i, a.entry) : a \in spawned}
  \cup {IF IsKept(a) THEN Event("ready", i, a.entry)
        ELSE Event("rejected", i, a.risk_pips) : a \in spawned}

(* DayOrchestrator.on_new_bar: buffers and swings, then the attempts that  *)
(* are open, then the watches that run, then the raid check.               *)
OnNewBar(i, b) ==
  LET bar == [at |-> i, high |-> b.high, low |-> b.low]
      swings == Confirmed(swingWindow')
      spawned == Spawned(i, b, gapWindow', recentBars')
      raid == IsRaid(i, b)
  IN  /\ recentBars' = Tail6(Append(recentBars, bar))
      /\ swingWindow' = Rolling(swingWindow, bar, 2 * SwingN + 1)
      /\ gapWindow' = Rolling(gapWindow, bar, 3)
      /\ attempts' = {OnBar(a, i, b) : a \in attempts} \cup {a \in spawned : IsKept(a)}
      /\ candidates' = IF raid THEN candidates \cup {[raid_bar |-> i, level |-> MssReference]}
                       ELSE candidates
      /\ latestHigh' = Fold(latestHigh, swings, "swing_high")
      /\ latestLow' = Fold(latestLow, swings, "swing_low")
      /\ emitted' = emitted \cup swings \cup WatchEvents(i, b, spawned)
           \cup (UNION {AttemptEvents(a, OnBar(a, i, b), i) : a \in attempts})
           \cup (IF raid THEN {Event("raid", i, RaidLevel)} ELSE {})

(* CurrentDay.is_session_bar: bars from 5:00 up to, but without, 17:00.    *)
IsSessionBar(i) == i < ClosingIdx

Bar ==
  LET i == Len(allBars)
  IN  /\ i < DayBars /\ IsSessionBar(i) /\ trade = Open
      /\ \E b \in Market(trend, i) :
           allBars' = Append(allBars, b) /\ fed' = Append(fed, b) /\ OnNewBar(i, b)
      /\ UNCHANGED <<trend, trade>>

(* The bar at 17:00 is no session bar and only counts for the daily range. *)
ClosingBar ==
  LET i == Len(allBars)
  IN  /\ i < DayBars /\ ~IsSessionBar(i) /\ trade = Open
      /\ \E b \in Market(trend, i) : allBars' = Append(allBars, b)
      /\ UNCHANGED <<trend, fed, swingWindow, latestHigh, latestLow, gapWindow,
                     recentBars, candidates, attempts, emitted, trade>>

(* finalize(): the least (raid_bar, mss_bar) of the attempts that filled,  *)
(* a scratch at the last close if it is still open.                        *)
FilledAttempts == {a \in attempts : a.status \in {"filled", "closed"}}
KeyLess(a, b) == a.raid_bar < b.raid_bar \/ (a.raid_bar = b.raid_bar /\ a.mss_bar <= b.mss_bar)
Winner == CHOOSE a \in FilledAttempts : \A o \in FilledAttempts : KeyLess(a, o)
CloseAsScratch(a, close) ==
  IF a.status # "filled" THEN a
  ELSE [a EXCEPT !.status = "closed", !.outcome = "scratch", !.exit_price = close]

TradeOf(a) ==
  [direction |-> IF trend = "up" THEN "long" ELSE "short", entry |-> a.entry,
   stop |-> a.stop, target |-> a.target, risk_pips |-> a.risk_pips,
   outcome |-> a.outcome, exit_price |-> a.exit_price]

Finalize ==
  /\ trade = Open /\ Len(fed) > SessionEndIdx
  /\ IF FilledAttempts = {}
     THEN trade' = NoTrade /\ UNCHANGED <<attempts, emitted>>
     ELSE LET w == CloseAsScratch(Winner, fed[Len(fed)].close)
          IN  /\ trade' = TradeOf(w)
              /\ attempts' = (attempts \ {Winner}) \cup {w}
              /\ emitted' = emitted \cup AttemptEvents(Winner, w, Len(fed) - 1)
  /\ UNCHANGED <<trend, allBars, fed, swingWindow, latestHigh, latestLow, gapWindow,
                 recentBars, candidates>>

DayNext == Bar \/ ClosingBar \/ Finalize

DaySpec == DayInit /\ [][DayNext]_dayVars

----------------------------------------------------------------------------
(* Properties.                                                             *)

(* The batch model of the bars that were fed, and of the bars from 5:00 to *)
(* 17:00 that extract_golden_master.py takes from the data.                *)
FedDay == INSTANCE GoldenMaster WITH bars <- fed, result <- trade, MssWindow <- MssWindowBars
BatchDay == INSTANCE GoldenMaster WITH bars <- allBars, result <- trade, MssWindow <- MssWindowBars

(* The streaming day implements the batch day: whatever bars come and      *)
(* whenever the day ends, finalize() returns the trade that the batch loop *)
(* finds in the same bars (day_orchestrator.py: "reproducing the batch     *)
(* model's day loop exactly").                                             *)
ImplementsGoldenMaster == FedDay!Spec

(* Every event that the batch loop logs for the day was given to the sink  *)
(* when the day ends: the journal misses no swing, raid, shift, gap, fill  *)
(* or close of the golden master.                                          *)
GoldenEventsJournaled == trade # Open => FedDay!DayEvents \subseteq emitted

(* The order manager hears of a candidate at a bar before the one that     *)
(* fills it in the simulation, so that a pending order can be placed in    *)
(* time (trade_candidate_ready is emitted when the gap is found).          *)
OrderPrecedesFill ==
  \A a \in FilledAttempts :
    \E e \in emitted : e.type = "ready" /\ e.price = a.entry /\ e.at < a.fill_bar

(* A decided attempt stays decided: its entry and stop never change, its   *)
(* target is fixed by the fill, and an outcome is final.                   *)
AttemptsAreFinal ==
  [][\A a \in attempts : \E b \in attempts' :
       /\ b.raid_bar = a.raid_bar /\ b.mss_bar = a.mss_bar
       /\ b.entry = a.entry /\ b.stop = a.stop
       /\ a.target # Null => b.target = a.target
       /\ ~IsActive(a) => b = a]_attempts

(* What the docstring of analyze_same_day_multi_candidate.py says: it only *)
(* removes the early exit, so the day's trade is among its candidates.     *)
AnalysisKeepsTheTrade ==
  trade \notin {Open, NoTrade} => FedDay!TradeKey \in FedDay!SameDayCandidates

(* What day_state.py says of SESSION_WINDOW_END: "day_end, matches batch". *)
WindowMatchesBatch ==
  trade # Open /\ Len(allBars) = DayBars => trade = BatchDay!DayTrade

----------------------------------------------------------------------------
(* The inductive invariant behind the three: until the day ends, what the  *)
(* detectors hold is a function of the bars so far, said in the terms of   *)
(* the batch model.                                                        *)

DayTypeOK ==
  /\ trend \in {"up", "down"} /\ fed \in Seq(BarRecord) /\ allBars \in Seq(BarRecord)
  /\ Len(fed) = IF Len(allBars) < ClosingIdx THEN Len(allBars) ELSE ClosingIdx
  /\ Len(allBars) <= DayBars
  /\ trade \in TradeRecord \cup {Open, NoTrade}

\* The bars before bar p that a window of this size holds.
BarAt(i) == [at |-> i, high |-> fed[i + 1].high, low |-> fed[i + 1].low]
LastBars(p, size) ==
  LET first == IF p < size THEN 0 ELSE p - size
  IN  [k \in 1..p - first |-> BarAt(first + k - 1)]
WindowsFit ==
  /\ swingWindow = LastBars(Len(fed), 2 * SwingN + 1)
  /\ gapWindow = LastBars(Len(fed), 3)
  /\ recentBars = LastBars(Len(fed), TargetLookbackBars)

\* The last swing of each kind, and one watch per raid.
SwingsFit ==
  /\ latestHigh = IF FedDay!PivotHighs = {} THEN Null
                  ELSE FedDay!High(FedDay!Greatest(FedDay!PivotHighs))
  /\ latestLow = IF FedDay!PivotLows = {} THEN Null
                 ELSE FedDay!Low(FedDay!Greatest(FedDay!PivotLows))
CandidatesFit ==
  candidates = {[raid_bar |-> i, level |-> FedDay!MssLevel(i)] : i \in FedDay!Raids}

\* One attempt per gap whose stop is wide enough, as far as the bars have brought it.
Gaps == {k \in FedDay!Keys : FedDay!HasGap(k[2]) /\ FedDay!StopWideEnough(k[2])}
AttemptOf(k) ==
  LET j == k[2]
      touched == FedDay!Touches(j) # {}
      fills == FedDay!Fills(j)
      exited == fills /\ FedDay!Exits(j) # {}
  IN  [raid_bar |-> k[1], mss_bar |-> j, entry |-> FedDay!Entry(j), stop |-> FedDay!Stop(j),
       risk_pips |-> FedDay!RiskPips(j),
       recent |-> LastBars(IF touched THEN FedDay!FillBar(j) ELSE Len(fed), TargetLookbackBars),
       target |-> IF fills THEN FedDay!Target(FedDay!FillBar(j)) ELSE Null,
       fill_bar |-> IF fills THEN FedDay!FillBar(j) ELSE Null,
       status |-> CASE ~touched -> "pending" [] touched /\ ~fills -> "abandoned"
                    [] fills /\ ~exited -> "filled" [] exited -> "closed",
       outcome |-> IF exited THEN FedDay!Outcome(j) ELSE Null,
       exit_price |-> IF exited THEN FedDay!ExitPrice(j) ELSE Null]
AttemptsFit == attempts = {AttemptOf(k) : k \in Gaps}

\* What was told of the swings and raids, of the gaps, and of the attempts.
SwingsTold ==
  /\ \A k \in FedDay!PivotHighs : Event("swing_high", k, FedDay!High(k)) \in emitted
  /\ \A k \in FedDay!PivotLows : Event("swing_low", k, FedDay!Low(k)) \in emitted
  /\ \A i \in FedDay!Raids : Event("raid", i, FedDay!RaidLevel(i)) \in emitted
GapsTold ==
  \A k \in FedDay!Keys :
    LET j == k[2]
    IN  /\ Event("mss", j, FedDay!MssLevel(k[1])) \in emitted
        /\ FedDay!HasGap(j) =>
             /\ Event("fvg", j, FedDay!Entry(j)) \in emitted
             /\ IF FedDay!StopWideEnough(j) THEN Event("ready", j, FedDay!Entry(j)) \in emitted
                ELSE Event("rejected", j, FedDay!RiskPips(j)) \in emitted
AttemptsTold ==
  \A k \in Gaps :
    LET j == k[2]
    IN  FedDay!Fills(j) =>
          /\ Event("filled", FedDay!FillBar(j), FedDay!Target(FedDay!FillBar(j))) \in emitted
          /\ FedDay!Exits(j) # {} =>
               Event(FedDay!Outcome(j), FedDay!ExitBar(j), FedDay!ExitPrice(j)) \in emitted

InDay ==
  /\ WindowsFit /\ SwingsFit /\ CandidatesFit /\ AttemptsFit
  /\ SwingsTold /\ GapsTold /\ AttemptsTold
DayInv ==
  /\ DayTypeOK
  /\ trade = Open => InDay
  /\ GoldenEventsJournaled /\ OrderPrecedesFill
=============================================================================
