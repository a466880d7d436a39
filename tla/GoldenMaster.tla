----------------------------- MODULE GoldenMaster -----------------------------
(***************************************************************************)
(* The batch model of one day (phase1/extract_golden_master.py): all bars  *)
(* are in memory, every raid of the session is tried in turn, and the      *)
(* first candidate that fills is the day's trade.  It is the abstract      *)
(* specification of the streaming DayOrchestrator: bars arrive one by one  *)
(* and the day ends with the result the batch model computes for them.     *)
(*                                                                         *)
(* The code spells the up day and the down day out separately; here one    *)
(* definition serves both, with Past(a, b) for "a is beyond b in the       *)
(* direction of the trade".  Bar i of the code is bars[i + 1].             *)
(***************************************************************************)
EXTENDS Integers, Sequences, FiniteSets

CONSTANTS
  Market(_, _),       \* Market(t, i): the bars that may come i-th on a day of trend t
  DayBars,            \* number of bars of a day, at most
  SessionStartIdx,    \* index of the first bar at or after 7:00
  SessionEndIdx,      \* index of the first bar at or after 10:00
  MssWindow,          \* bars after a raid in which a shift counts, 9 in the code
  Open,               \* the result of a day that has not ended
  NoTrade             \* the result of a day without trade

VARIABLES
  trend,    \* "up" or "down", the day's trend
  bars,     \* the bars of the day so far, each [high, low, close]
  result    \* the day's trade, NoTrade, or Open until the day ends

gmVars == <<trend, bars, result>>

(* The constants of the code.  Prices are counted in units of 2.5 pips and *)
(* bars have even prices, so that midpoints stay integers.                 *)
SwingN == 2
Lookback == 6
MinStopPips == 5
Pips(d) == (5 * d) \div 2
Mid(a, b) == (a + b) \div 2

Trends == {"up", "down"}
n == Len(bars)
High(i) == bars[i + 1].high
Low(i) == bars[i + 1].low
Close(i) == bars[i + 1].close

(* a is beyond b in the direction of the trade: above on an up day.        *)
Past(a, b) == IF trend = "up" THEN a > b ELSE a < b

(* The two ends of a bar as the trade sees them: Far in its direction.     *)
Far(i) == IF trend = "up" THEN High(i) ELSE Low(i)
Near(i) == IF trend = "up" THEN Low(i) ELSE High(i)

Greatest(S) == CHOOSE x \in S : \A y \in S : y <= x
Least(S) == CHOOSE x \in S : \A y \in S : x <= y

----------------------------------------------------------------------------
(* Swings, raids, structure shifts and gaps.                               *)

Around(k) == (k - SwingN)..(k + SwingN)
PivotHighs == {k \in SwingN..(n - SwingN - 1) : \A m \in Around(k) : High(m) <= High(k)}
PivotLows == {k \in SwingN..(n - SwingN - 1) : \A m \in Around(k) : Low(m) >= Low(k)}

(* The pivots that bar i may use: bisect_left(piv, i - SWING_N).           *)
KnownAt(pivots, i) == {k \in pivots : k < i - SwingN}

LastHigh(i) == High(Greatest(KnownAt(PivotHighs, i)))
LastLow(i) == Low(Greatest(KnownAt(PivotLows, i)))
RaidLevel(i) == IF trend = "up" THEN LastLow(i) ELSE LastHigh(i)
MssLevel(i) == IF trend = "up" THEN LastHigh(i) ELSE LastLow(i)

Raids ==
  LET highs == PivotHighs
      lows == PivotLows
  IN  {i \in SessionStartIdx..(SessionEndIdx - 1) :
         /\ i < n
         /\ KnownAt(highs, i) # {} /\ KnownAt(lows, i) # {}
         /\ Past(RaidLevel(i), Near(i))}

Shifts(i) ==
  LET level == MssLevel(i)
  IN  {j \in (i + 1)..(i + MssWindow) : j < n /\ Past(Close(j), level)}

(* The gap between bar j and the bar two before it.                        *)
HasGap(j) == j >= 2 /\ Past(Near(j), Far(j - 2))
Entry(j) == Mid(Near(j), Far(j - 2))
Stop(j) == Near(j - 2)
RiskPips(j) == Pips(IF trend = "up" THEN Entry(j) - Stop(j) ELSE Stop(j) - Entry(j))
StopWideEnough(j) == RiskPips(j) >= MinStopPips

----------------------------------------------------------------------------
(* The fill search of a candidate found at bar j, and its outcome.         *)

Touches(j) == {p \in (j + 1)..(n - 1) : ~Past(Near(p), Entry(j))}

(* np.argmax / np.argmin: the first of the extreme bars of the six before. *)
ExtremeBar(p) ==
  Least({m \in (p - Lookback)..(p - 1) :
           \A o \in (p - Lookback)..(p - 1) : ~Past(Far(o), Far(m))})
Target(p) == Mid(High(ExtremeBar(p)), Low(ExtremeBar(p)))

(* Only the first touch is tried, and a target that is not beyond the      *)
(* entry ends the search.                                                  *)
FillBar(j) == Least(Touches(j))
Fills(j) ==
  /\ HasGap(j) /\ StopWideEnough(j) /\ Touches(j) # {}
  /\ FillBar(j) >= Lookback
  /\ Past(Target(FillBar(j)), Entry(j))

StopHit(j, q) == ~Past(Near(q), Stop(j))
TargetHit(j, q) == ~Past(Target(FillBar(j)), Far(q))
Exits(j) == {q \in FillBar(j)..(n - 1) : StopHit(j, q) \/ TargetHit(j, q)}

(* The stop is looked at before the target; no exit is a scratch at the    *)
(* day's last close.                                                       *)
Outcome(j) ==
  IF Exits(j) = {} THEN "scratch"
  ELSE IF StopHit(j, Least(Exits(j))) THEN "loss" ELSE "win"
ExitBar(j) == IF Exits(j) = {} THEN n - 1 ELSE Least(Exits(j))
ExitPrice(j) ==
  CASE Outcome(j) = "scratch" -> Close(n - 1)
    [] Outcome(j) = "loss" -> Stop(j)
    [] Outcome(j) = "win" -> Target(FillBar(j))

----------------------------------------------------------------------------
(* The day's loop: raids in order, the shifts of a raid in order, and the  *)
(* first candidate that fills ends both loops.                             *)

Keys == UNION {{i} \X Shifts(i) : i \in Raids}
Precedes(k1, k2) == k1[1] < k2[1] \/ (k1[1] = k2[1] /\ k1[2] <= k2[2])
FilledIn(keys) == {k \in keys : Fills(k[2])}
FirstOf(keys) == CHOOSE k \in keys : \A o \in keys : Precedes(k, o)
TradeKey == FirstOf(FilledIn(Keys))

Direction == IF trend = "up" THEN "long" ELSE "short"

DayTrade ==
  LET filled == FilledIn(Keys)
      j == FirstOf(filled)[2]
  IN  IF filled = {} THEN NoTrade
      ELSE [direction |-> Direction, entry |-> Entry(j), stop |-> Stop(j),
            target |-> Target(FillBar(j)), risk_pips |-> RiskPips(j),
            outcome |-> Outcome(j), exit_price |-> ExitPrice(j)]

(* What log_event records on the way, up to the trade.                     *)
DayEvents ==
  LET all == Keys
      filled == FilledIn(all)
      key == FirstOf(filled)
      j == key[2]
      keys == {k \in all : filled = {} \/ Precedes(k, key)}
      gaps == {k \in keys : HasGap(k[2])}
  IN  {[type |-> "swing_high", at |-> k, price |-> High(k)] : k \in PivotHighs}
      \cup {[type |-> "swing_low", at |-> k, price |-> Low(k)] : k \in PivotLows}
      \cup {[type |-> "raid", at |-> i, price |-> RaidLevel(i)] :
              i \in {r \in Raids : filled = {} \/ r <= key[1]}}
      \cup {[type |-> "mss", at |-> k[2], price |-> MssLevel(k[1])] : k \in keys}
      \cup {[type |-> "fvg", at |-> k[2], price |-> Entry(k[2])] : k \in gaps}
      \cup {[type |-> "rejected", at |-> k[2], price |-> RiskPips(k[2])] :
              k \in {g \in gaps : ~StopWideEnough(g[2])}}
      \cup IF filled = {} THEN {}
           ELSE {[type |-> "filled", at |-> FillBar(j), price |-> Target(FillBar(j))],
                 [type |-> Outcome(j), at |-> ExitBar(j), price |-> ExitPrice(j)]}

----------------------------------------------------------------------------
(* phase1/analyze_same_day_multi_candidate.py: the same loop without the   *)
(* day's early exit, recording every candidate that fills.  Its j loop     *)
(* ends at the first gap with a wide enough stop, filled or not.           *)

Judged(i) == {j \in Shifts(i) : HasGap(j) /\ StopWideEnough(j)}
SameDayCandidates ==
  {<<i, Least(Judged(i))>> : i \in {r \in Raids : Judged(r) # {} /\ Fills(Least(Judged(r)))}}

(* The candidate it takes for the day's trade.                             *)
Primary ==
  CHOOSE c \in SameDayCandidates : \A o \in SameDayCandidates :
    c[1] < o[1] \/ (c[1] = o[1] /\ FillBar(c[2]) <= FillBar(o[2]))

----------------------------------------------------------------------------
Init == trend \in Trends /\ bars = <<>> /\ result = Open

NextBar ==
  /\ n < DayBars /\ result = Open
  /\ \E b \in Market(trend, n) : bars' = Append(bars, b)
  /\ UNCHANGED <<trend, result>>

(* A day may end early (a holiday), but not before its session was judged. *)
EndDay ==
  /\ n > SessionEndIdx /\ result = Open
  /\ result' = DayTrade
  /\ UNCHANGED <<trend, bars>>

Next == NextBar \/ EndDay

Spec == Init /\ [][Next]_gmVars
=============================================================================
