---------------------------- MODULE PositionTracker ----------------------------
(***************************************************************************)
(* One subscriber's PositionTracker (shadow_runner/position_tracker.py)    *)
(* with the orphan check it runs (orphan_recovery.py), the `trades` rows   *)
(* both write, and the day's end that hands positions over (runner.py).    *)
(*                                                                         *)
(* A position may live for days and through restarts: the broker holds its *)
(* truth, the rows survive a crash, the tracker's dict does not.  pc names *)
(* the bridge or database call the runner's thread makes next; the broker, *)
(* the clock and a crash may come between any two.                         *)
(* Volumes are in hundredths of a lot.  The dict of tracked tickets is     *)
(* walked in some order, which is left open.                               *)
(***************************************************************************)
EXTENDS Naturals

CONSTANTS Tickets,     \* position tickets of the subscriber's account
          None,        \* no ticket
          Volumes,     \* volumes a position may be opened with
          MaxFaults,   \* bound: failed or lost bridge and database calls
          MaxCrashes   \* bound: crashes of the runner

ASSUME PositionTrackerAssumption ==
    /\ None \notin Tickets
    /\ Volumes \subseteq Nat \ {0}
    /\ MaxFaults \in Nat
    /\ MaxCrashes \in Nat

VARIABLES
    position,    \* the broker's view of each position
    volume,      \* its volume still open
    deals,       \* the latest closing deal that the deal history shows
    target,      \* whose take-profit it carries: the live path's or a heal's
    clock,       \* how far the day of its entry has gone
    row,         \* real_status of its trades row
    profit,      \* the deal that real_profit was taken from
    inserted,    \* history: rows inserted for it
    tracked,     \* keys of the tracker's dict
    halved,      \* those with partial_closed set
    winner,      \* the position the day's OrderManager won, not yet recorded
    present,     \* the runner has a tracker for this subscriber
    pc,          \* what the thread does next
    seen,        \* tickets in the last get_positions() reply
    todo,        \* tickets the running loop still has to visit
    cur,         \* the ticket a call is about
    found,       \* the deal the last get_position_history() reply showed
    faults, crashes,
    halvings,    \* history: partial closes the broker has executed
    lost         \* history: those of them whose reply was lost

brokerVars == <<position, volume, deals, target>>
rowVars    == <<row, profit, inserted>>
memoryVars == <<tracked, halved, winner, present>>
threadVars == <<pc, seen, todo, cur, found>>
budgetVars == <<faults, crashes>>
history    == <<halvings, lost>>
vars == <<brokerVars, rowVars, memoryVars, threadVars, clock, budgetVars,
          history>>

Deals == {"none", "partial", "final"}
OpenStatus == {"open", "partial_closed"}
Calls == {"down", "idle", "register", "loop", "halvedReply", "history",
          "closeCommit", "orphans", "heal", "record"}

TypeOK ==
    /\ position \in [Tickets -> {"none", "open", "closed"}]
    /\ volume \in [Tickets -> Nat]
    /\ deals \in [Tickets -> Deals]
    /\ target \in [Tickets -> {"live", "healed"}]
    /\ clock \in [Tickets -> {"session", "evening", "nextDay"}]
    /\ row \in [Tickets -> {"none", "closed"} \cup OpenStatus]
    /\ profit \in [Tickets -> Deals]
    /\ inserted \in [Tickets -> Nat]
    /\ tracked \subseteq Tickets
    /\ halved \subseteq tracked
    /\ winner \in Tickets \cup {None}
    /\ present \in BOOLEAN
    /\ pc \in Calls
    /\ seen \subseteq Tickets
    /\ todo \subseteq Tickets
    /\ cur \in Tickets \cup {None}
    /\ found \in Deals
    /\ faults \in 0..MaxFaults
    /\ crashes \in 0..MaxCrashes
    /\ halvings \in [Tickets -> Nat]
    /\ lost \in [Tickets -> Nat]

Init ==
    /\ position = [t \in Tickets |-> "none"]
    /\ volume = [t \in Tickets |-> 0]
    /\ deals = [t \in Tickets |-> "none"]
    /\ target = [t \in Tickets |-> "live"]
    /\ clock = [t \in Tickets |-> "session"]
    /\ row = [t \in Tickets |-> "none"]
    /\ profit = [t \in Tickets |-> "none"]
    /\ inserted = [t \in Tickets |-> 0]
    /\ tracked = {} /\ halved = {}
    /\ winner = None
    /\ present = TRUE
    /\ pc = "idle"
    /\ seen = {} /\ todo = {} /\ cur = None /\ found = "none"
    /\ faults = 0 /\ crashes = 0
    /\ halvings = [t \in Tickets |-> 0]
    /\ lost = [t \in Tickets |-> 0]

-----------------------------------------------------------------------------
(* Helpers *)

\* Mutant: the restart reads only the rows that were never halved.
OpenRowsUnhalved == {t \in Tickets : row[t] = "open"}

\* get_open_real_trades(): the rows with real exposure left.
OpenRows == {t \in Tickets : row[t] \in OpenStatus}

OpenPositions == {t \in Tickets : position[t] = "open"}

\* A bridge or database call fails.
Fault == faults < MaxFaults /\ faults' = faults + 1 /\ UNCHANGED crashes

\* half_volume: round(v / 2, 2) of a binary float may go either way on a tie.
Halves(v) == {v \div 2, (v + 1) \div 2}

\* Mutant: only on the entry day itself.
PastThresholdSameDay(t) == clock[t] = "evening"

\* What get_position_history() calls closed: some closing deal is listed.
IsClosed(t) == deals[t] # "none"

\* write_trade() and write_orphan_trade() insert a row with real exposure;
\* update_trade_partial_close() and update_trade_final_close() move it on.
InsertOpenRow(t) ==
    /\ row' = [row EXCEPT ![t] = "open"]
    /\ inserted' = [inserted EXCEPT ![t] = @ + 1]
InsertOrphanRow(t) == InsertOpenRow(t)
UpdatePartialClose(t) == row' = [row EXCEPT ![t] = "partial_closed"]
UpdateFinalClose(t, deal) ==
    /\ row' = [row EXCEPT ![t] = "closed"]
    /\ profit' = [profit EXCEPT ![t] = deal]

\* Past the 17:00 of its entry day.
PastThreshold(t) == clock[t] # "session"

\* check_positions() is done with t; the orphan check is done with t.
Visited(t) == todo' = todo \ {t} /\ pc' = "loop" /\ cur' = None
Examined(t) == todo' = todo \ {t} /\ pc' = "heal" /\ cur' = None

\* The direction a bridge position carries, and those a trades row accepts
\* (ck_trades_direction_valid); nothing in between converts one to the other.
BridgeDirections == {"buy", "sell"}
RowDirections == {"long", "short"}

-----------------------------------------------------------------------------
(* The broker and the clock *)

\* A limit order of the day fills.  The day's OrderManager takes the position
\* as its winner, or the runner never learns of it: a duplicate fill, an order
\* of before a restart.
BrokerOpen(t) ==
    /\ position[t] = "none"
    /\ position' = [position EXCEPT ![t] = "open"]
    /\ \E v \in Volumes : volume' = [volume EXCEPT ![t] = v]
    /\ \/ UNCHANGED winner
       \/ present /\ winner = None /\ winner' = t
    /\ UNCHANGED <<deals, target, rowVars, tracked, halved, present,
                   threadVars, clock, budgetVars, history>>

\* Stop-loss, take-profit or a close by hand; the terminal's deal history may
\* take a while to show it.
BrokerClose(t) ==
    /\ position[t] = "open"
    /\ position' = [position EXCEPT ![t] = "closed"]
    /\ volume' = [volume EXCEPT ![t] = 0]
    /\ deals' \in {deals, [deals EXCEPT ![t] = "final"]}
    /\ UNCHANGED <<target, rowVars, memoryVars, threadVars, clock,
                   budgetVars, history>>

HistoryCatchesUp(t) ==
    /\ position[t] = "closed"
    /\ deals[t] # "final"
    /\ deals' = [deals EXCEPT ![t] = "final"]
    /\ UNCHANGED <<position, volume, target, rowVars, memoryVars, threadVars,
                   clock, budgetVars, history>>

\* 17:00 New York, then midnight, of the day t was opened on.
ClockTicks(t) ==
    /\ position[t] # "none"
    /\ \/ clock[t] = "session" /\ clock' = [clock EXCEPT ![t] = "evening"]
       \/ clock[t] = "evening" /\ clock' = [clock EXCEPT ![t] = "nextDay"]
    /\ UNCHANGED <<brokerVars, rowVars, memoryVars, threadVars, budgetVars, history>>

-----------------------------------------------------------------------------
(* Crash, restart, and the trackers that are built *)

Crash ==
    /\ pc # "down"
    /\ crashes < MaxCrashes
    /\ crashes' = crashes + 1
    /\ pc' = "down"
    /\ tracked' = {} /\ halved' = {} /\ winner' = None /\ present' = FALSE
    /\ seen' = {} /\ todo' = {} /\ cur' = None /\ found' = "none"
    /\ UNCHANGED <<brokerVars, rowVars, clock, faults, history>>

\* Mutant: see OpenRowsUnhalved.
LoadFromDbUnhalved ==
    /\ present' = TRUE
    /\ tracked' = OpenRowsUnhalved
    /\ halved' = {}

\* A new tracker, filled by load_from_db().
LoadFromDb ==
    /\ present' = TRUE
    /\ tracked' = OpenRows
    /\ halved' = {t \in OpenRows : row[t] = "partial_closed"}

\* _load_initial_position_trackers(): for whoever is subscribed now, that is,
\* has the model active and a live bridge credential.
Restart ==
    /\ pc = "down"
    /\ pc' = "idle"
    /\ LoadFromDb \/ UNCHANGED <<present, tracked, halved>>
    /\ UNCHANGED <<brokerVars, rowVars, winner, seen, todo, cur, found,
                   clock, budgetVars, history>>

\* _decide_day() meets a subscriber it has no tracker for.
EnsureTracker ==
    /\ pc = "idle"
    /\ ~present
    /\ LoadFromDb
    /\ UNCHANGED <<brokerVars, rowVars, winner, threadVars, clock,
                   budgetVars, history>>

-----------------------------------------------------------------------------
(* The day's end: _write_trade() for this subscriber *)

\* The row is committed: open, or closed if check_for_close() already saw it.
HandOff ==
    /\ pc = "idle"
    /\ winner # None
    /\ clock[winner] = "nextDay"
    /\ \/ /\ InsertOpenRow(winner)
          /\ pc' = "register"
          /\ UNCHANGED <<profit, winner>>
       \/ /\ position[winner] = "closed" /\ IsClosed(winner)
          /\ UpdateFinalClose(winner, deals[winner])
          /\ inserted' = [inserted EXCEPT ![winner] = @ + 1]
          /\ winner' = None
          /\ UNCHANGED pc
    /\ UNCHANGED <<brokerVars, tracked, halved, present, seen, todo, cur,
                   found, clock, budgetVars, history>>

\* register_new_position()
Register ==
    /\ pc = "register"
    /\ tracked' = tracked \cup {winner}
    /\ halved' = halved \ {winner}
    /\ winner' = None
    /\ pc' = "idle"
    /\ UNCHANGED <<brokerVars, rowVars, present, seen, todo, cur, found,
                   clock, budgetVars, history>>

\* No row is written and the OrderManager is discarded with its day: the write
\* failed, or the simulation had no trade to write that day.
HandOffLost ==
    /\ pc = "idle"
    /\ winner # None
    /\ clock[winner] = "nextDay"
    /\ winner' = None
    /\ UNCHANGED <<brokerVars, rowVars, tracked, halved, present, threadVars,
                   clock, budgetVars, history>>

-----------------------------------------------------------------------------
(* check_positions *)

ReadPositions ==
    /\ pc = "idle"
    /\ present
    /\ pc' = "loop"
    /\ \/ seen' = OpenPositions /\ todo' = tracked /\ UNCHANGED budgetVars
       \/ Fault /\ UNCHANGED <<seen, todo>>
    /\ UNCHANGED <<brokerVars, rowVars, memoryVars, cur, found, clock,
                   history>>

\* Open, and there is nothing to do: halved before, before 17:00, or too small.
LeaveOpen(t) ==
    /\ pc = "loop"
    /\ t \in todo \cap seen
    /\ \/ t \in halved
       \/ ~PastThreshold(t)
       \/ \E h \in Halves(volume[t]) : h = 0 \/ h >= volume[t]
    /\ Visited(t)
    /\ UNCHANGED <<brokerVars, rowVars, memoryVars, seen, found, clock,
                   budgetVars, history>>

\* The broker closes half of t.
BrokerHalves(t) ==
    /\ position[t] = "open"
    /\ \E h \in Halves(volume[t]) \ {0, volume[t]} :
          volume' = [volume EXCEPT ![t] = @ - h]
    /\ deals' = [deals EXCEPT ![t] = "partial"]
    /\ halvings' = [halvings EXCEPT ![t] = @ + 1]

\* _do_partial_close(): the answer comes, the answer is lost, or the call fails
\* on a position that has closed since or for any other reason.
PartialClose(t) ==
    /\ pc = "loop"
    /\ t \in (todo \cap seen) \ halved
    /\ PastThreshold(t)
    /\ \/ /\ BrokerHalves(t)
          /\ pc' = "halvedReply" /\ cur' = t
          /\ UNCHANGED <<todo, budgetVars, lost>>
       \/ /\ BrokerHalves(t)
          /\ Fault
          /\ lost' = [lost EXCEPT ![t] = @ + 1]
          /\ Visited(t)
       \/ /\ (position[t] = "closed" /\ UNCHANGED budgetVars) \/ Fault
          /\ Visited(t)
          /\ UNCHANGED <<volume, deals, history>>
    /\ UNCHANGED <<position, target, rowVars, memoryVars, seen, found,
                   clock>>

\* Mutant: a failed write leaves the ticket to the next poll.
RecordPartialCloseRetried ==
    /\ pc = "halvedReply"
    /\ \/ UpdatePartialClose(cur)
          /\ halved' = halved \cup {cur} /\ UNCHANGED budgetVars
       \/ Fault /\ UNCHANGED <<row, halved>>
    /\ Visited(cur)
    /\ UNCHANGED <<brokerVars, profit, inserted, tracked, winner, present,
                   seen, found, clock, history>>

\* update_trade_partial_close(); the flag is set even when the write fails.
RecordPartialClose ==
    /\ pc = "halvedReply"
    /\ \/ UpdatePartialClose(cur) /\ UNCHANGED budgetVars
       \/ Fault /\ UNCHANGED row
    /\ halved' = halved \cup {cur}
    /\ Visited(cur)
    /\ UNCHANGED <<brokerVars, profit, inserted, tracked, winner, present,
                   seen, found, clock, history>>

\* Mutant: whatever shows a closing deal is taken to have closed.
ReadHistoryOfAll(t) ==
    /\ pc = "loop"
    /\ t \in todo
    /\ IsClosed(t)
    /\ pc' = "closeCommit" /\ cur' = t /\ found' = deals[t]
    /\ UNCHANGED <<todo, budgetVars>>
    /\ UNCHANGED <<brokerVars, rowVars, memoryVars, seen, clock, history>>

\* _handle_vanished(): a closing deal, the first or the last, makes is_closed.
ReadHistory(t) ==
    /\ pc = "loop"
    /\ t \in todo \ seen
    /\ \/ /\ IsClosed(t)
          /\ pc' = "closeCommit" /\ cur' = t /\ found' = deals[t]
          /\ UNCHANGED <<todo, budgetVars>>
       \/ /\ (~IsClosed(t) /\ UNCHANGED budgetVars) \/ Fault
          /\ Visited(t)
          /\ UNCHANGED found
    /\ UNCHANGED <<brokerVars, rowVars, memoryVars, seen, clock, history>>

\* Mutant: the ticket is dropped whether or not the close was recorded.
RecordFinalCloseOnce ==
    /\ pc = "closeCommit"
    /\ \/ /\ UpdateFinalClose(cur, found)
          /\ UNCHANGED budgetVars
       \/ Fault /\ UNCHANGED <<row, profit>>
    /\ tracked' = tracked \ {cur}
    /\ halved' = halved \ {cur}
    /\ Visited(cur)
    /\ found' = "none"
    /\ UNCHANGED <<brokerVars, inserted, winner, present, seen, clock,
                   history>>

\* update_trade_final_close(); a failed write is retried at the next poll.
RecordFinalClose ==
    /\ pc = "closeCommit"
    /\ \/ /\ UpdateFinalClose(cur, found)
          /\ tracked' = tracked \ {cur}
          /\ halved' = halved \ {cur}
          /\ UNCHANGED budgetVars
       \/ Fault /\ UNCHANGED <<row, profit, tracked, halved>>
    /\ Visited(cur)
    /\ found' = "none"
    /\ UNCHANGED <<brokerVars, inserted, winner, present, seen, clock,
                   history>>

-----------------------------------------------------------------------------
(* check_for_orphans, when five minutes have gone since the last *)

EndCheckPositions(next) ==
    /\ pc = "loop"
    /\ todo = {}
    /\ seen' = {}
    /\ pc' = next
    /\ UNCHANGED <<brokerVars, rowVars, memoryVars, todo, cur, found,
                   clock, budgetVars, history>>

SkipOrphanCheck == EndCheckPositions("idle")
BeginOrphanCheck == EndCheckPositions("orphans")

\* Mutant: a halved position is no longer known.
FindOrphansForgetful ==
    /\ pc = "orphans"
    /\ seen' = OpenPositions \ OpenRowsUnhalved
    /\ todo' = seen' /\ pc' = "heal" /\ UNCHANGED budgetVars
    /\ UNCHANGED <<brokerVars, rowVars, memoryVars, cur, found, clock,
                   history>>

\* The account's positions without an open row.
FindOrphans ==
    /\ pc = "orphans"
    /\ \/ /\ seen' = OpenPositions \ OpenRows
          /\ todo' = seen' /\ pc' = "heal" /\ UNCHANGED budgetVars
       \/ Fault /\ pc' = "idle" /\ UNCHANGED <<seen, todo>>
    /\ UNCHANGED <<brokerVars, rowVars, memoryVars, cur, found, clock,
                   history>>

\* _heal_orphan(): a take-profit of its own, unless the bars or the broker
\* refuse it.
HealOrphan(t) ==
    /\ pc = "heal"
    /\ t \in todo
    /\ \/ /\ position[t] = "open"
          /\ target' = [target EXCEPT ![t] = "healed"]
          /\ UNCHANGED budgetVars
       \/ position[t] = "closed" /\ UNCHANGED <<target, budgetVars>>
       \/ Fault /\ UNCHANGED target
    /\ pc' = "record" /\ cur' = t
    /\ UNCHANGED <<position, volume, deals, rowVars, memoryVars, seen, todo,
                   found, clock, history>>

\* _record_orphan_trade(): the row carries the position's own direction.
RecordOrphan ==
    /\ pc = "record"
    /\ \E d \in BridgeDirections :
         \/ /\ d \in RowDirections
            /\ InsertOrphanRow(cur)
            /\ UNCHANGED budgetVars
         \/ d \notin RowDirections /\ UNCHANGED <<row, inserted, budgetVars>>
         \/ Fault /\ UNCHANGED <<row, inserted>>
    /\ Examined(cur)
    /\ UNCHANGED <<brokerVars, profit, memoryVars, seen, found, clock,
                   history>>

\* The events are committed and every orphan that got a row is registered.
EndCheckOrphans ==
    /\ pc = "heal"
    /\ todo = {}
    /\ \/ /\ tracked' = tracked \cup {t \in seen : row[t] = "open"}
          /\ halved' = halved \ seen
          /\ UNCHANGED budgetVars
       \/ Fault /\ UNCHANGED <<tracked, halved>>
    /\ seen' = {}
    /\ pc' = "idle"
    /\ UNCHANGED <<brokerVars, rowVars, winner, present, todo, cur, found,
                   clock, history>>

-----------------------------------------------------------------------------

Environment ==
    \/ \E t \in Tickets : BrokerOpen(t) \/ BrokerClose(t) \/ ClockTicks(t)
    \/ Crash

DayEnd == HandOff \/ HandOffLost \/ EnsureTracker

\* The calls of a poll, in the order poll_once() makes them.
Poll ==
    \/ Register
    \/ ReadPositions
    \/ \E t \in Tickets :
         LeaveOpen(t) \/ PartialClose(t) \/ ReadHistory(t) \/ HealOrphan(t)
    \/ RecordPartialClose \/ RecordFinalClose
    \/ SkipOrphanCheck \/ BeginOrphanCheck
    \/ FindOrphans \/ RecordOrphan \/ EndCheckOrphans

CatchUp == \E t \in Tickets : HistoryCatchesUp(t)

Next == Environment \/ DayEnd \/ Poll \/ CatchUp \/ Restart

Spec == Init /\ [][Next]_vars

(* run_forever() polls for ever, the container restarts (`restart:         *)
(* unless-stopped`), and the terminal's history catches up with a close.   *)
(* Nothing is assumed of prices, of the clock or of the subscriptions.     *)
FairSpec ==
    /\ Spec
    /\ WF_vars(Poll)
    /\ WF_vars(Restart)
    /\ WF_vars(CatchUp)

\* Besides, the five minutes between two orphan checks always pass.
OrphanSpec == FairSpec /\ SF_vars(BeginOrphanCheck)

-----------------------------------------------------------------------------
(* Properties *)

\* Between two calls of a poll, the tracker watches exactly the trades that
\* the database holds open, whatever crashed or failed before.
RowsAreTracked ==
    (present /\ pc # "register") => tracked = OpenRows

\* A row is only closed once its position has really closed at the broker.
ClosedRowIsClosed ==
    \A t \in Tickets : row[t] = "closed" => position[t] = "closed"

\* A position is halved again only for a reply that was lost or a crash: a
\* halving the process was told of is not repeated because its row failed.
EveryHalvingExcused ==
    \A t \in Tickets : halvings[t] <= 1 + lost[t] + crashes

\* No position is ever recorded by two rows, the day's end and the orphan
\* check notwithstanding.
OneRowPerPosition == \A t \in Tickets : inserted[t] <= 1

\* A position with an open row keeps the take-profit it has.
KnownTargetKept ==
    [][\A t \in OpenRows : target'[t] = target[t]]_vars

(* The inductive invariant behind these properties, part by part *)

\* Without a tracker there is nothing in memory; a running poll has one.
MemoryOfTracker ==
    /\ pc = "down" => ~present
    /\ ~present =>
          pc \in {"down", "idle"} /\ tracked = {} /\ winner = None

\* A row exists for a position only, and was inserted exactly once.
RowsOfPositions ==
    \A t \in Tickets :
        /\ row[t] # "none" => position[t] # "none"
        /\ inserted[t] = IF row[t] = "none" THEN 0 ELSE 1

\* The day's winner has no row until the day's end writes it, and is the one
\* open row that is not tracked until it is registered.
WinnerUnrecorded ==
    /\ winner # None =>
          position[winner] # "none" /\ (pc # "register" => row[winner] = "none")
    /\ pc = "register" =>
          winner # None /\ row[winner] = "open" /\ tracked = OpenRows \ {winner}

\* A loop visits tracked tickets; those that the reply did not show as open
\* have closed.
LoopContext ==
    /\ pc \in {"loop", "halvedReply", "closeCommit"} =>
          /\ todo \subseteq tracked
          /\ \A t \in todo \ seen : position[t] = "closed"
    /\ pc = "halvedReply" => cur \in todo
    /\ pc = "closeCommit" => cur \in todo \ seen

\* Between the loops nothing is left to visit; the orphan check only sees
\* positions without an open row.
OrphanContext ==
    /\ pc \in {"down", "idle", "register", "orphans"} => seen = {} /\ todo = {}
    /\ pc \in {"heal", "record"} =>
          todo \subseteq seen /\ \A t \in seen : row[t] \notin OpenStatus
    /\ pc = "record" => cur \in todo

\* A halving beyond the excused ones is remembered until the row is closed.
HalvingRemembered ==
    \A t \in Tickets :
        halvings[t] > lost[t] + crashes =>
            \/ t \in halved
            \/ pc = "halvedReply" /\ cur = t
            \/ row[t] = "closed"

IndInv ==
    /\ TypeOK
    /\ MemoryOfTracker
    /\ RowsOfPositions
    /\ WinnerUnrecorded
    /\ LoopContext
    /\ OrphanContext
    /\ HalvingRemembered
    /\ RowsAreTracked
    /\ ClosedRowIsClosed
    /\ EveryHalvingExcused

\* The close of a recorded position reaches its row, through lagging history,
\* failed writes and crashes, as long as the runner has a tracker for it.
CloseReachesRow ==
    \A t \in Tickets :
        (row[t] \in OpenStatus /\ position[t] = "closed")
            ~> (row[t] = "closed" \/ ~present)

\* A tracked position large enough to be halved is halved, unless the tracker
\* stops watching it first: it closed, or the runner crashed.
HalvedEventually ==
    \A t \in Tickets :
        (t \in tracked /\ volume[t] > 1)
            ~> (halvings[t] > 0 \/ t \notin tracked)

\* _do_partial_close() leaves the partial close's profit empty because "the
\* FINAL close's profit (from real close history) remains accurate".
FinalProfitIsFinal ==
    \A t \in Tickets : row[t] = "closed" => profit[t] = "final"

\* The orphan net is said to "write a permanent trade record the moment it's
\* found": an open position that no day's end will record gets a row.
OrphanIsRecorded ==
    \A t \in Tickets :
        (position[t] = "open" /\ row[t] = "none")
            ~> (row[t] # "none" \/ position[t] = "closed" \/ winner = t
                \/ ~present)
=============================================================================
