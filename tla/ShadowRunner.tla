----------------------------- MODULE ShadowRunner -----------------------------
(***************************************************************************)
(* The ShadowRunner's day (shadow_runner/runner.py, day_state.py): polling *)
(* for closed bars, the verdict on the day, feeding the orchestrator, the  *)
(* journal, the orders placed for every subscriber, the day's end, and a   *)
(* restart's recovery (recover_on_startup).                                *)
(*                                                                         *)
(* One trading day is followed: bars 1..Close are its bars, of which the   *)
(* first SessionBars lie between 5am and 5pm, and bar Close + 1 is the     *)
(* first of the next day.  The process is one thread; pc names the         *)
(* database or bridge call it makes next, and a crash may come before each *)
(* of them.  What survives a crash is the journal, the `trades` rows and   *)
(* the broker's orders; the CurrentDay record, cd, does not.               *)
(*                                                                         *)
(* The orchestrator is abstracted to the bars at which it has a trade      *)
(* candidate to offer when it was fed the bars the pattern is made of; the *)
(* OrderManagers to the orders they know of and whether one has filled.    *)
(***************************************************************************)
EXTENDS Naturals, Sequences, FiniteSets

CONSTANTS Users,        \* subscribers
          Close,        \* the day's last bar
          SessionBars,  \* bars 1..SessionBars are session bars
          DecisionBar,  \* the first bar at or after 10am
          MinBars,      \* MIN_SESSION_BARS of the gate
          FetchCount,   \* candles_fetch_count
          Setups,       \* bars that complete a candidate pattern
          Span,         \* bars before it that the pattern is made of
          Fills,        \* the setups that the simulation fills
          MaxFaults,    \* bound: failed calls
          MaxCrashes    \* bound: crashes

ASSUME ShadowRunnerAssumption ==
    /\ {Close, SessionBars, DecisionBar, MinBars, FetchCount} \subseteq Nat \ {0}
    /\ DecisionBar <= SessionBars /\ SessionBars <= Close
    /\ Setups \subseteq 1..SessionBars /\ Fills \subseteq Setups
    /\ {Span, MaxFaults, MaxCrashes} \subseteq Nat

VARIABLES
    now,         \* the last bar that has closed
    trend,       \* the gate has a trend for the day
    cd,          \* current_day, NoDay when None
    last,        \* last_processed_bar_time_ny
    starting,    \* in recover_on_startup, not yet in run_forever
    pc,          \* what the thread does next
    queue,       \* new_bars still to process
    feed,        \* bars still to feed to the orchestrator
    todo,        \* subscribers the running loop still has to visit
    journal,     \* how often each narrative event is in the events table
    shadowRows,  \* ownerless rows of the day
    rows,        \* rows of each subscriber for the day
    working,     \* the broker's working orders of each subscriber and setup
    faults, crashes,
    gateFed,     \* history: on_day_closed calls for the day
    rowsLost,    \* history: subscribers whose row could not be written
    strays       \* history: subscribers with an order no OrderManager knows

dbVars     == <<journal, shadowRows, rows>>
threadVars == <<pc, queue, feed, todo>>
budgetVars == <<faults, crashes>>
history    == <<gateFed, rowsLost, strays>>
vars == <<now, trend, cd, last, starting, threadVars, dbVars, working,
          budgetVars, history>>

DayOf(bar) == IF bar <= Close THEN 1 ELSE 2
Horizon    == Close + 1
Session    == 1..SessionBars

\* Events without a user: the day's verdict, its setups (with the raid, MSS, FVG
\* and fill that belong to them), the scratch close, the swings confirmed at its
\* end, and the failure to write its shadow row.
Event(kind)  == [kind |-> kind, bar |-> 0]
Offered(bar) == [kind |-> "setup", bar |-> bar]
Verdicts  == {Event("trend"), Event("skipped")}
Offers    == {Offered(s) : s \in Setups}
Narrative == Verdicts \cup Offers
                \cup {Event("scratch"), Event("swings"), Event("shadowFailed")}
Places    == {"down", "idle", "bar", "verdict", "subscribers", "feed", "place",
              "flush", "fills", "fillsFlush", "closeFlush", "shadowRow",
              "rows", "cancel", "cancelFlush", "gate", "swings"}

(***************************************************************************)
(* CurrentDay, with the orchestrator and the OrderManagers it holds.       *)
(***************************************************************************)
NoDay == [date |-> 0]

CurrentDay(date) ==
    [date      |-> date,
     bars      |-> <<>>,                           \* session bars to the verdict
     decided   |-> FALSE,
     tradeable |-> FALSE,
     watching  |-> FALSE,                          \* orchestrator is not None
     fed       |-> [b \in Session |-> 0],          \* history: times fed
     offered   |-> {},                             \* setups it has emitted
     scratched |-> FALSE,
     managed   |-> {},                             \* keys of order_managers
     known     |-> [u \in Users |-> [s \in Setups |-> 0]],
     cancelled |-> {},                             \* managers with cancellations
     won       |-> {},                             \* managers with a fill
     events    |-> <<>>,                           \* narrative, unflushed
     orders    |-> FALSE]                          \* some manager's, unflushed

Init ==
    /\ now = 0
    /\ trend \in BOOLEAN
    /\ cd = NoDay /\ last = 0 /\ starting = FALSE
    /\ pc = "down" /\ queue = <<>> /\ feed = <<>> /\ todo = {}
    /\ journal = [e \in Narrative |-> 0]
    /\ shadowRows = 0 /\ rows = [u \in Users |-> 0]
    /\ working = [u \in Users |-> [s \in Setups |-> 0]]
    /\ faults = 0 /\ crashes = 0
    /\ gateFed = 0 /\ rowsLost = {} /\ strays = {}

DayRecord ==
    [date : {1, 2}, bars : Seq(Session), decided : BOOLEAN, tradeable : BOOLEAN,
     watching : BOOLEAN, fed : [Session -> Nat], offered : SUBSET Setups,
     scratched : BOOLEAN, managed : {{}, Users}, known : [Users -> [Setups -> Nat]],
     cancelled : SUBSET Users, won : SUBSET Users, events : Seq(Narrative),
     orders : BOOLEAN]

TypeOK ==
    /\ now \in 0..Horizon /\ last \in 0..Horizon
    /\ trend \in BOOLEAN /\ starting \in BOOLEAN
    /\ pc \in Places
    /\ queue \in Seq(1..Horizon) /\ feed \in Seq(Session)
    /\ todo \subseteq Users
    /\ journal \in [Narrative -> Nat]
    /\ shadowRows \in Nat /\ rows \in [Users -> Nat]
    /\ working \in [Users -> [Setups -> Nat]]
    /\ faults \in 0..MaxFaults /\ crashes \in 0..MaxCrashes
    /\ gateFed \in Nat /\ rowsLost \subseteq Users /\ strays \subseteq Users
    /\ cd = NoDay \/ cd \in DayRecord

(***************************************************************************)
(* Time, crashes, and the two ends of an exception: run_forever catches it *)
(* and polls again; during recover_on_startup nothing does, and the        *)
(* container is started anew.                                              *)
(***************************************************************************)
BarCloses ==
    /\ pc \in {"down", "idle"}
    /\ now < Horizon
    /\ now' = now + 1
    /\ UNCHANGED <<trend, cd, last, starting, threadVars, dbVars, working,
                   budgetVars, history>>

\* The managers that know of a working order.
Holders(day) ==
    IF day = NoDay THEN {}
    ELSE {u \in Users : \E s \in Setups : day.known[u][s] > 0}

GoDown ==
    /\ pc' = "down" /\ queue' = <<>> /\ feed' = <<>> /\ todo' = {}
    /\ cd' = NoDay /\ last' = 0 /\ starting' = FALSE
    /\ strays' = strays \cup Holders(cd)

Crash ==
    /\ pc # "down"
    /\ crashes < MaxCrashes
    /\ crashes' = crashes + 1
    /\ GoDown
    /\ UNCHANGED <<now, trend, dbVars, working, faults, gateFed, rowsLost>>

\* An exception out of _process_bar or the flushes: newDay is what cd has
\* become by then.
Raise(newDay) ==
    IF starting THEN GoDown
    ELSE /\ pc' = "idle" /\ queue' = <<>> /\ feed' = <<>> /\ todo' = {}
         /\ cd' = newDay
         /\ UNCHANGED <<last, starting, strays>>

Fault ==
    /\ faults < MaxFaults
    /\ faults' = faults + 1

(***************************************************************************)
(* Fetching bars.                                                          *)
(***************************************************************************)
\* The bars first..now that are not processed yet, in order.
NewBars(first) ==
    LET from == IF last < first THEN first ELSE last + 1
    IN  [i \in 1..(IF from > now THEN 0 ELSE now + 1 - from) |-> from + i - 1]

\* Mutant: today is replayed whatever the journal holds.
RestartAlwaysReplays ==
    /\ pc = "down"
    /\ pc' = "bar" /\ starting' = TRUE
    /\ queue' = NewBars(IF DayOf(now) = 1 THEN 1 ELSE Horizon)
    /\ UNCHANGED <<now, trend, cd, last, feed, todo, dbVars, working,
                   budgetVars, history>>

\* recover_on_startup: today is replayed only if the journal holds none of it.
Restart ==
    /\ pc = "down"
    /\ LET today    == DayOf(now)
           midnight == IF today = 1 THEN 1 ELSE Horizon
           events   == IF today = 1 THEN Verdicts \cup Offers
                                    ELSE {Event("shadowFailed")}
           journaled == \E e \in events : journal[e] > 0
       IN  \/ /\ ~journaled
              /\ pc' = "bar" /\ starting' = TRUE
              /\ queue' = NewBars(midnight)
              /\ UNCHANGED faults
           \/ /\ journaled
              /\ pc' = "idle"
              /\ UNCHANGED <<starting, queue, faults>>
           \/ /\ ~journaled             \* BridgeError: start without a replay
              /\ Fault
              /\ pc' = "idle"
              /\ UNCHANGED <<starting, queue>>
    /\ UNCHANGED <<now, trend, cd, last, feed, todo, dbVars, working, crashes,
                   history>>

\* Mutant: every bar since the last processed one is fetched.
PollFromLast ==
    /\ pc = "idle"
    /\ queue' = NewBars(1)
    /\ pc' = "bar"
    /\ UNCHANGED <<now, trend, cd, last, starting, feed, todo, dbVars, working,
                   budgetVars, history>>

\* poll_once fetches the last FetchCount candles; a failed fetch is a poll
\* that does nothing.
Poll ==
    /\ pc = "idle"
    /\ queue' = NewBars(IF now > FetchCount THEN now - FetchCount + 1 ELSE 1)
    /\ pc' = "bar"
    /\ UNCHANGED <<now, trend, cd, last, starting, feed, todo, dbVars, working,
                   budgetVars, history>>

(***************************************************************************)
(* _process_bar.                                                           *)
(***************************************************************************)
BarDone ==
    /\ last' = Head(queue)
    /\ queue' = Tail(queue)
    /\ pc' = "bar"

BarsDone ==
    /\ pc = "bar" /\ queue = <<>>
    /\ pc' = IF starting \/ cd = NoDay \/ cd.managed = {} THEN "idle" ELSE "fills"
    /\ todo' = {}
    /\ starting' = FALSE
    /\ UNCHANGED <<now, trend, cd, last, queue, feed, dbVars, working,
                   budgetVars, history>>

IgnoreStaleBar ==
    /\ pc = "bar" /\ queue # <<>>
    /\ cd = NoDay /\ DayOf(Head(queue)) < DayOf(now)
    /\ BarDone
    /\ UNCHANGED <<now, trend, cd, starting, feed, todo, dbVars, working,
                   budgetVars, history>>

\* Mutant: the trade is written before the day's events are flushed.
RollOverUnflushed ==
    /\ pc = "bar" /\ queue # <<>>
    /\ cd # NoDay /\ DayOf(Head(queue)) # cd.date
    /\ IF cd.watching /\ cd.offered \cap Fills # {}
       THEN /\ cd' = [cd EXCEPT !.scratched = TRUE,
                                !.events = Append(@, Event("scratch"))]
            /\ pc' = "shadowRow"
       ELSE UNCHANGED cd /\ pc' = "closeFlush"
    /\ UNCHANGED <<now, trend, last, starting, queue, feed, todo, dbVars,
                   working, budgetVars, history>>

RollOver ==
    /\ pc = "bar" /\ queue # <<>>
    /\ cd # NoDay /\ DayOf(Head(queue)) # cd.date
    /\ IF cd.watching /\ cd.bars # <<>>
       THEN \* orchestrator.finalize: an open winner is scratched once
            LET scratch == cd.offered \cap Fills # {} /\ ~cd.scratched
            IN  cd' = IF scratch
                      THEN [cd EXCEPT !.scratched = TRUE,
                                      !.events = Append(@, Event("scratch"))]
                      ELSE cd
       ELSE UNCHANGED cd
    /\ pc' = "closeFlush"
    /\ UNCHANGED <<now, trend, last, starting, queue, feed, todo, dbVars,
                   working, budgetVars, history>>

\* The day the bar belongs to, and its first bar if it is not the current one.
Today(bar) == IF cd = NoDay THEN CurrentDay(DayOf(bar)) ELSE cd

ProcessBar ==
    /\ pc = "bar" /\ queue # <<>>
    /\ LET bar == Head(queue)
           day == Today(bar)
           bars == Append(day.bars, bar)
       IN  /\ DayOf(bar) = day.date
           /\ cd = NoDay => DayOf(bar) >= DayOf(now)
           /\ IF bar \notin Session THEN                \* the daily range only
                 /\ cd' = day
                 /\ BarDone /\ UNCHANGED <<feed, starting, strays>>
              ELSE IF ~day.decided /\ bar < DecisionBar THEN
                 /\ cd' = [day EXCEPT !.bars = bars]
                 /\ BarDone /\ UNCHANGED <<feed, starting, strays>>
              ELSE IF ~day.decided THEN                 \* _decide_day
                 LET tradeable == trend /\ Len(bars) >= MinBars
                 IN  /\ cd' = [day EXCEPT
                                  !.bars = bars, !.decided = TRUE,
                                  !.tradeable = tradeable,
                                  !.events = IF tradeable THEN Append(@, Event("trend"))
                                                          ELSE @]
                     /\ pc' = IF tradeable THEN "subscribers" ELSE "verdict"
                     /\ UNCHANGED <<queue, last, feed, starting, strays>>
              ELSE IF ~day.tradeable THEN
                 /\ cd' = day
                 /\ BarDone /\ UNCHANGED <<feed, starting, strays>>
              ELSE IF day.watching THEN
                 /\ cd' = day
                 /\ feed' = <<bar>> /\ pc' = "feed"
                 /\ UNCHANGED <<queue, last, starting, strays>>
              ELSE Raise(day)                           \* None.on_new_bar
           /\ todo' = {}
    /\ UNCHANGED <<now, trend, dbVars, working, budgetVars, gateFed, rowsLost>>

(***************************************************************************)
(* The calls of a bar.  A commit may fail, or succeed and lose its reply.  *)
(***************************************************************************)
Count(seq, e) == Cardinality({i \in DOMAIN seq : seq[i] = e})
Journaled(events) == [e \in Narrative |-> journal[e] + Count(events, e)]
Flushed == [cd EXCEPT !.events = <<>>, !.orders = FALSE]
HasEvents(day) == day.events # <<>> \/ day.orders

\* _write_events_now for a day that is skipped: its event is not kept in
\* todays_events.
CommitVerdict ==
    /\ pc = "verdict"
    /\ \/ /\ journal' = Journaled(<<Event("skipped")>>)
          /\ BarDone
          /\ UNCHANGED <<cd, starting, feed, todo, faults, strays>>
       \/ /\ Fault
          /\ journal' \in {journal, Journaled(<<Event("skipped")>>)}
          /\ Raise(cd)
    /\ UNCHANGED <<now, trend, shadowRows, rows, working, crashes, gateFed, rowsLost>>

\* get_active_subscribers, one OrderManager each, then the orchestrator, which
\* is fed every bar so far.
ConstructDay ==
    /\ pc = "subscribers"
    /\ \/ /\ cd' = [cd EXCEPT !.managed = Users, !.watching = TRUE]
          /\ feed' = cd.bars
          /\ pc' = "feed"
          /\ UNCHANGED <<starting, last, queue, todo, faults, strays>>
       \/ /\ Fault
          /\ Raise(cd)
    /\ UNCHANGED <<now, trend, dbVars, working, crashes, gateFed, rowsLost>>

\* A setup is seen if the bars it is made of were fed; a bar fed again may or
\* may not form it again.
FeedBar ==
    /\ pc = "feed" /\ feed # <<>>
    /\ LET bar    == Head(feed)
           formed == /\ bar \in Setups
                     /\ \A b \in Session :
                            (b < bar /\ b + Span >= bar) => cd.fed[b] > 0
       IN  \E offers \in BOOLEAN :
              /\ offers => formed
              /\ (formed /\ cd.fed[bar] = 0) => offers
              /\ cd' = [cd EXCEPT
                          !.fed[bar] = @ + 1,
                          !.offered = IF offers THEN @ \cup {bar} ELSE @,
                          !.events = IF offers THEN Append(@, Offered(bar)) ELSE @]
              /\ todo' = IF offers THEN cd.managed \ cd.won ELSE {}
              /\ IF offers THEN pc' = "place" /\ UNCHANGED feed
                           ELSE feed' = Tail(feed) /\ UNCHANGED pc
    /\ UNCHANGED <<now, trend, last, starting, queue, dbVars, working,
                   budgetVars, history>>

\* combined_sink offers the candidate to each OrderManager, whose own failures
\* it contains.  A lost reply leaves an order no OrderManager knows of.
PlaceOrder(u) ==
    /\ pc = "place" /\ u \in todo
    /\ todo' = todo \ {u}
    /\ LET setup == Head(feed)
       IN  \/ /\ working' = [working EXCEPT ![u][setup] = @ + 1]
              /\ cd' = [cd EXCEPT !.known[u][setup] = @ + 1, !.orders = TRUE]
              /\ UNCHANGED <<faults, strays>>
           \/ /\ Fault
              /\ \/ UNCHANGED <<working, strays>>
                 \/ /\ working' = [working EXCEPT ![u][setup] = @ + 1]
                    /\ strays' = strays \cup {u}
              /\ cd' = [cd EXCEPT !.orders = TRUE]
    /\ UNCHANGED <<now, trend, last, starting, pc, queue, feed, dbVars, crashes,
                   gateFed, rowsLost>>

Placed ==
    /\ pc = "place" /\ todo = {}
    /\ feed' = Tail(feed)
    /\ pc' = "feed"
    /\ UNCHANGED <<now, trend, cd, last, starting, queue, todo, dbVars, working,
                   budgetVars, history>>

Fed ==
    /\ pc = "feed" /\ feed = <<>>
    /\ pc' = "flush"
    /\ UNCHANGED <<now, trend, cd, last, starting, queue, feed, todo, dbVars,
                   working, budgetVars, history>>

\* Mutant: orders are cancelled only on days with a trade.
AfterFlushOfTrades ==
    [fillsFlush  |-> "idle",
     closeFlush  |-> IF cd # NoDay /\ cd.watching /\ cd.offered \cap Fills # {}
                     THEN "shadowRow" ELSE "gate",
     cancelFlush |-> "gate"]

\* Where _flush_new_events returns to, at each of its calls.
AfterFlush == [fillsFlush  |-> "idle",
               closeFlush  |-> IF cd # NoDay /\ cd.watching /\ cd.offered \cap Fills # {}
                               THEN "shadowRow" ELSE "cancel",
               cancelFlush |-> "gate"]

FlushNewEvents ==
    /\ pc = "flush" \/ pc \in DOMAIN AfterFlush
    /\ \/ /\ journal' = Journaled(cd.events)
          /\ cd' = Flushed
          /\ IF pc = "flush"
             THEN BarDone
             ELSE pc' = AfterFlush[pc] /\ UNCHANGED <<last, queue>>
          /\ todo' = IF pc' = "cancel" THEN cd.managed ELSE {}
          /\ UNCHANGED <<starting, feed, faults, strays>>
       \/ /\ HasEvents(cd)
          /\ Fault
          /\ journal' \in {journal, Journaled(cd.events)}
          /\ Raise(cd)
    /\ UNCHANGED <<now, trend, shadowRows, rows, working, crashes, gateFed, rowsLost>>

\* check_for_fills of every OrderManager: some of those with orders have a fill,
\* and a winner's siblings are cancelled.
CheckFills ==
    /\ pc = "fills"
    /\ \E filled \in SUBSET {u \in cd.managed \ cd.won :
                               \E s \in Setups : cd.known[u][s] > 0} :
          /\ cd' = [cd EXCEPT
                      !.won = @ \cup filled,
                      !.orders = @ \/ filled # {},
                      !.known = [u \in Users |->
                          IF u \in filled THEN [s \in Setups |-> 0] ELSE @[u]]]
          /\ working' = [u \in Users |-> [s \in Setups |->
                IF u \in filled THEN working[u][s] - cd.known[u][s]
                                ELSE working[u][s]]]
    /\ pc' = "fillsFlush"
    /\ UNCHANGED <<now, trend, last, starting, queue, feed, todo, dbVars,
                   budgetVars, history>>

(***************************************************************************)
(* The day's end: _finalize_day after the first flush, and _write_trade.   *)
(***************************************************************************)
\* The shadow row and its event links in one commit; a failure is journaled,
\* unless that fails too, and raised again.
WriteShadowRow ==
    /\ pc = "shadowRow"
    /\ \/ /\ shadowRows' = shadowRows + 1
          /\ pc' = "rows" /\ todo' = cd.managed
          /\ UNCHANGED <<cd, last, starting, queue, feed, journal, faults, strays>>
       \/ /\ Fault
          /\ shadowRows' \in {shadowRows, shadowRows + 1}
          /\ journal' \in {journal, Journaled(<<Event("shadowFailed")>>)}
          /\ Raise(cd)
    /\ UNCHANGED <<now, trend, rows, working, crashes, gateFed, rowsLost>>

\* Mutant: a failed write ends the loop.
WriteSubscriberRowOrBreak(u) ==
    /\ pc = "rows" /\ u \in todo
    /\ \/ /\ u \in cd.won
          /\ rows' = [rows EXCEPT ![u] = @ + 1]
          /\ todo' = todo \ {u}
          /\ UNCHANGED <<faults, rowsLost>>
       \/ /\ u \in cd.won
          /\ Fault
          /\ rowsLost' = rowsLost \cup {u}
          /\ todo' = {}
          /\ UNCHANGED rows
       \/ /\ u \notin cd.won
          /\ todo' = todo \ {u}
          /\ UNCHANGED <<rows, faults, rowsLost>>
    /\ UNCHANGED <<now, trend, cd, last, starting, pc, queue, feed, journal,
                   shadowRows, working, crashes, gateFed, strays>>

\* The row of a subscriber whose OrderManager has a real outcome; a failure is
\* rolled back and the loop goes on.
WriteSubscriberRow(u) ==
    /\ pc = "rows" /\ u \in todo
    /\ todo' = todo \ {u}
    /\ \/ /\ u \in cd.won
          /\ rows' = [rows EXCEPT ![u] = @ + 1]
          /\ UNCHANGED <<faults, rowsLost>>
       \/ /\ u \in cd.won
          /\ Fault
          /\ rows' \in {rows, [rows EXCEPT ![u] = @ + 1]}
          /\ rowsLost' = rowsLost \cup {u}
       \/ /\ u \notin cd.won
          /\ UNCHANGED <<rows, faults, rowsLost>>
    /\ UNCHANGED <<now, trend, cd, last, starting, pc, queue, feed, journal,
                   shadowRows, working, crashes, gateFed, strays>>

RowsWritten ==
    /\ pc = "rows" /\ todo = {}
    /\ pc' = "cancel" /\ todo' = cd.managed
    /\ UNCHANGED <<now, trend, cd, last, starting, queue, feed, dbVars, working,
                   budgetVars, history>>

\* cancel_all_at_day_end of one OrderManager: each cancellation may fail alone.
\* What was cancelled stays in _pending: a second visit emits its failure.
CancelAtDayEnd(u) ==
    /\ pc = "cancel" /\ u \in todo
    /\ todo' = todo \ {u}
    /\ LET pending == {s \in Setups : cd.known[u][s] > 0}
       IN  \E failed \in {{}} \cup {{s} : s \in pending} :
              /\ IF failed = {} THEN UNCHANGED <<faults, strays>>
                 ELSE Fault /\ strays' = strays \cup {u}
              /\ working' = [working EXCEPT ![u] = [s \in Setups |->
                    IF s \in pending \ failed THEN @[s] - cd.known[u][s] ELSE @[s]]]
              /\ cd' = [cd EXCEPT
                    !.known[u] = [s \in Setups |-> IF s \in failed THEN @[s] ELSE 0],
                    !.cancelled = IF pending = {} THEN @ ELSE @ \cup {u},
                    !.orders = @ \/ pending # {} \/ u \in cd.cancelled]
    /\ UNCHANGED <<now, trend, last, starting, pc, queue, feed, dbVars, crashes,
                   gateFed, rowsLost>>

Cancelled ==
    /\ pc = "cancel" /\ todo = {}
    /\ pc' = "cancelFlush"
    /\ UNCHANGED <<now, trend, cd, last, starting, queue, feed, todo, dbVars,
                   working, budgetVars, history>>

\* gate.on_day_closed, which may confirm a swing.
CloseDayAtGate ==
    /\ pc = "gate"
    /\ gateFed' = gateFed + 1
    /\ \/ pc' = "swings" /\ UNCHANGED cd
       \/ pc' = "bar" /\ cd' = CurrentDay(DayOf(Head(queue)))
    /\ UNCHANGED <<now, trend, last, starting, queue, feed, todo, dbVars,
                   working, budgetVars, rowsLost, strays>>

WriteSwings ==
    /\ pc = "swings"
    /\ \/ /\ journal' = Journaled(<<Event("swings")>>)
          /\ cd' = CurrentDay(DayOf(Head(queue)))
          /\ pc' = "bar"
          /\ UNCHANGED <<last, starting, queue, feed, todo, faults, strays>>
       \/ /\ Fault
          /\ journal' \in {journal, Journaled(<<Event("swings")>>)}
          /\ Raise(cd)
    /\ UNCHANGED <<now, trend, shadowRows, rows, working, crashes, gateFed, rowsLost>>

(***************************************************************************)
(* Specification.  The runner keeps polling, and the container is started  *)
(* again when it stops (restart: unless-stopped).  Time goes on whatever   *)
(* the runner does; BarCloses is cut down to the states in which the time  *)
(* is read next, hence its strong fairness.                                *)
(***************************************************************************)
Runner ==
    \/ Restart \/ Poll \/ BarsDone \/ IgnoreStaleBar \/ RollOver \/ ProcessBar
    \/ CommitVerdict \/ ConstructDay \/ FeedBar \/ Placed \/ Fed
    \/ FlushNewEvents \/ CheckFills \/ WriteShadowRow \/ RowsWritten \/ Cancelled
    \/ CloseDayAtGate \/ WriteSwings
    \/ \E u \in Users : \/ PlaceOrder(u) \/ WriteSubscriberRow(u)
                        \/ CancelAtDayEnd(u)

Next == BarCloses \/ Crash \/ Runner

Spec     == Init /\ [][Next]_vars
FairSpec == Spec /\ WF_vars(Runner) /\ SF_vars(BarCloses)

(***************************************************************************)
(* Safety.                                                                 *)
(***************************************************************************)
Ending == {"cancel", "cancelFlush", "gate", "swings"}
SimulatedTrade == cd.offered \cap Fills # {}

\* The rows of a day rest on its journal: the shadow row is written only once the
\* setup that filled and the close are in the events table (the first flush of
\* _finalize_day comes before _write_trade), and a subscriber's row, which tells
\* that account's answer to the shared day, only once the shadow row exists.
RowsRestOnJournal ==
    /\ shadowRows > 0 => /\ \E s \in Fills : journal[Offered(s)] > 0
                         /\ journal[Event("scratch")] > 0
    /\ \A u \in Users : rows[u] > 0 => shadowRows > 0

\* When the subscribers' rows have been written, every subscriber with a real
\* fill has one, or its own write failed: one subscriber's failed write does not
\* cost another its row (the rollback in _write_trade's loop).
WinnersRecorded ==
    (pc \in Ending /\ cd.date = 1 /\ SimulatedTrade) =>
        \A u \in cd.won : rows[u] > 0 \/ u \in rowsLost

\* A working order at the broker is one the running OrderManager of its account
\* knows of, and none outlives the day, unless a crash, a lost reply or a failed
\* cancellation made it a stray.
WorkingOrdersHeld ==
    \A u \in Users \ strays, s \in Setups :
        working[u][s] = IF cd = NoDay THEN 0 ELSE cd.known[u][s]

\* The orchestrator is fed every bar that led to the verdict, and no bar twice
\* unless a failed call made the runner process a bar again.
FedOnce ==
    (cd # NoDay /\ cd.date = 1 /\ cd.watching /\ feed = <<>>) =>
        /\ \A i \in DOMAIN cd.bars : cd.fed[cd.bars[i]] > 0
        /\ faults = 0 => \A b \in Session : cd.fed[b] <= 1

\* The replay of recover_on_startup writes no event a second time, whatever failed
\* before it: it runs only on an empty journal, and dies with its first exception.
ReplayWritesOnce ==
    (starting /\ DayOf(now) = 1) =>
        \A e \in Verdicts \cup Offers : journal[e] <= 1

\* Without a failed call a day ends once, crash or not: one shadow row, one row
\* per subscriber, one call of on_day_closed.
EndedOnce ==
    faults = 0 => /\ shadowRows <= 1 /\ gateFed <= 1
                  /\ \A u \in Users : rows[u] <= 1

\* Crashes, restarts and retries do nothing of the day twice that a failed call
\* does not excuse: no bar is fed, no event replayed and no end redone.
NothingTwice == FedOnce /\ ReplayWritesOnce /\ EndedOnce

(***************************************************************************)
(* Liveness.                                                               *)
(***************************************************************************)
\* A day the process has begun is closed at the gate by this process, whatever
\* calls failed in it: also when the verdict's failed query for the subscribers
\* left the day without an orchestrator and every bar raises.
DayIsClosed ==
    (cd # NoDay /\ cd.date = 1) ~> (gateFed > 0 \/ pc = "down")

(***************************************************************************)
(* What the repository says and the code does not keep.                    *)
(***************************************************************************)
\* "DaySelectionGate.gate_for_day() runs ONCE for the day" (runner.py): a day is
\* not journaled as both tradeable and skipped.
OneVerdict == ~(journal[Event("trend")] > 0 /\ journal[Event("skipped")] > 0)

\* "a retry cleanly redoes both steps from a truly clean slate" (_write_trade):
\* retrying the end of a day does not duplicate its shadow row.
OneShadowRow == shadowRows <= 1

\* "One row PER SUBSCRIBER whose OrderManager actually has a real outcome today"
\* (_write_trade): a real fill has its row when the day is over.
RealOutcomeRecorded ==
    (pc \in Ending /\ cd.date = 1) =>
        \A u \in cd.won : rows[u] > 0 \/ u \in rowsLost

(***************************************************************************)
(* The inductive invariant behind RowsRestOnJournal, WinnersRecorded and   *)
(* WorkingOrdersHeld, part by part.                                        *)
(***************************************************************************)
WithDay == Places \ {"down", "idle", "bar"}
WithBar == WithDay \ {"fills", "fillsFlush"}

\* What the thread has at hand at each place.
PlacesFit ==
    /\ pc \in WithDay => cd # NoDay
    /\ pc \in WithBar => queue # <<>>
    /\ pc = "down" => cd = NoDay /\ last = 0 /\ ~starting
    /\ pc = "subscribers" => cd.tradeable
    /\ pc \in {"feed", "place"} => cd.watching
    /\ pc = "place" => feed # <<>> /\ Head(feed) \in Setups

\* An event of the day is in the table, or waits to be flushed.
Noted(day, e) == journal[e] > 0 \/ \E i \in DOMAIN day.events : day.events[i] = e

\* A day is watched once it was decided, its orders are at the broker, and
\* what it was offered is noted.
DayFits(day) ==
    /\ day.won \subseteq day.managed /\ day.cancelled \subseteq day.managed
    /\ day.watching => day.tradeable /\ day.managed = Users
    /\ day.tradeable => day.decided
    /\ day.decided => day.bars # <<>>
    /\ day.offered # {} => day.watching
    /\ \A s \in day.offered : Noted(day, Offered(s))
    /\ day.scratched => Noted(day, Event("scratch"))
    /\ \A u \in Users, s \in Setups :
          day.known[u][s] <= working[u][s] /\ (u \notin day.managed => day.known[u][s] = 0)

\* How far the day's end has come.
OnJournal == (\E s \in Fills : journal[Offered(s)] > 0) /\ journal[Event("scratch")] > 0
NoneLeft(users) == \A u \in users, s \in Setups : cd.known[u][s] = 0
EndFits ==
    /\ pc = "closeFlush" /\ cd.watching /\ SimulatedTrade => cd.scratched
    /\ pc = "shadowRow" => OnJournal
    /\ pc = "rows" => shadowRows > 0 /\ \A u \in cd.won \ todo : rows[u] > 0 \/ u \in rowsLost
    /\ pc \in Ending /\ SimulatedTrade => \A u \in cd.won : rows[u] > 0 \/ u \in rowsLost
    /\ pc = "cancel" => NoneLeft(Users \ (todo \cup strays))
    /\ pc \in Ending \ {"cancel"} => NoneLeft(Users \ strays)

IndInv ==
    /\ TypeOK /\ PlacesFit /\ (cd # NoDay => DayFits(cd)) /\ EndFits
    /\ RowsRestOnJournal /\ WorkingOrdersHeld

(***************************************************************************)
(* The inductive invariant behind NothingTwice, on top of IndInv.          *)
(***************************************************************************)
\* In _process_bar, with a bar that belongs to the session.
InBar == {"verdict", "subscribers", "feed", "place", "flush"}
Closing == {"closeFlush", "shadowRow", "rows"} \cup Ending
Seen == IF pc \in InBar THEN Head(queue) ELSE last

\* Bars are processed in order, none before the last one.
BarsInOrder ==
    /\ last <= now
    /\ \A i \in DOMAIN queue : last < queue[i] /\ queue[i] <= now
    /\ \A i, j \in DOMAIN queue : i < j => queue[i] < queue[j]
    /\ pc \in InBar => Head(queue) \in Session
    /\ pc \in {"down", "idle", "fills", "fillsFlush"} => queue = <<>>
    /\ pc \notin {"feed", "place"} => feed = <<>>
    /\ pc = "place" => cd.fed[Head(feed)] > 0

\* A watched day was fed its bars, or is being fed them.
FedLater ==
    cd # NoDay /\ cd.watching =>
        \A i \in DOMAIN cd.bars :
            cd.fed[cd.bars[i]] > 0 \/ \E j \in DOMAIN feed : feed[j] = cd.bars[i]

\* Without a failed call, and in any replay, no bar is taken or fed twice.
FedInOrder ==
    (faults = 0 \/ starting) /\ cd # NoDay =>
        /\ \A i \in DOMAIN cd.bars : cd.bars[i] <= Seen
        /\ \A i, j \in DOMAIN cd.bars : i < j => cd.bars[i] < cd.bars[j]
        /\ \A b \in Session : cd.fed[b] <= 1 /\ (cd.fed[b] > 0 => cd.watching /\ b <= Seen)
        /\ \A i \in DOMAIN feed : feed[i] <= Seen /\ (pc = "feed" \/ i # 1 => cd.fed[feed[i]] = 0)
        /\ \A i, j \in DOMAIN feed : i < j => feed[i] < feed[j]
        /\ cd.tradeable => (cd.watching <=> pc # "subscribers")

\* A replay writes what is not there yet.
Noting(e) == journal[e] + IF cd = NoDay THEN 0 ELSE Count(cd.events, e)
ReplayFits ==
    starting /\ DayOf(now) = 1 =>
        /\ pc \in InBar \cup {"bar"} /\ (cd # NoDay => cd.date = 1)
        /\ \A e \in Verdicts : Noting(e) <= 1 /\ (cd = NoDay \/ ~cd.decided => Noting(e) = 0)
        /\ pc = "verdict" => cd.decided /\ Noting(Event("skipped")) = 0
        /\ \A s \in Setups : /\ Noting(Offered(s)) <= 1
                             /\ cd = NoDay \/ cd.fed[s] = 0 => Noting(Offered(s)) = 0

\* A day ends with the first bar of the next one.
DayInOrder ==
    /\ pc \in Closing => cd.date = 1 /\ Head(queue) = Horizon
    /\ cd # NoDay /\ cd.date = 2 => /\ \A i \in DOMAIN queue : queue[i] = Horizon
                                    /\ queue # <<>> \/ last = Horizon

\* Without a failed call, what the day's end has done once is behind it.
Over == now = Horizon /\ (cd = NoDay \/ cd.date = 2)
DayEnds ==
    faults = 0 =>
        /\ EndedOnce
        /\ shadowRows > 0 => Over \/ pc \in {"rows"} \cup Ending
        /\ gateFed > 0 => Over \/ pc = "swings"
        /\ \A u \in Users : rows[u] > 0 =>
               Over \/ (pc = "rows" /\ u \notin todo) \/ pc \in Ending

PassInv ==
    /\ IndInv
    /\ BarsInOrder /\ FedLater /\ FedInOrder /\ ReplayFits /\ DayInOrder /\ DayEnds
=============================================================================
