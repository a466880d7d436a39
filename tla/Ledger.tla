-------------------------------- MODULE Ledger --------------------------------
(***************************************************************************)
(* The trades rows of one (user, model) over days: what the runner writes  *)
(* when a day is finalized, what its tracker closes, and what the two      *)
(* scripts run by hand add later -- the replayed narrative of days nobody  *)
(* watched and the rows of positions only the broker remembers             *)
(* (shadow_runner/historical_reconciliation.py).                           *)
(*                                                                         *)
(* A position is its number in the order of opening.  Equity is a name:    *)
(* the number of the row whose equity_after it is, or Balance, the         *)
(* broker's.  At most one position of this model a day (OrderManager).     *)
(* One step per commit of the runner, per position and commit of the       *)
(* script; the script reads what is committed when it reads.               *)
(***************************************************************************)
EXTENDS Integers, FiniteSets

CONSTANTS
  LastDay,      \* bound: calendar days
  MaxPositions, \* bound: positions of the account
  Others,       \* those of another model, or the user's own
  From, To,     \* DATE_FROM and DATE_TO of the script
  MaxRuns,      \* bound: runs of the reconciliation script
  MaxReplays,   \* bound: days replayed
  QueryReach    \* the days whose events the last 500 rows of the journal cover

ASSUME LedgerAssumption ==
  /\ {LastDay, MaxPositions, From, To, MaxRuns, MaxReplays, QueryReach} \subseteq Nat
  /\ 1 <= LastDay /\ 1 <= From /\ From <= To /\ Others \subseteq 1..MaxPositions

VARIABLES
  day,
  deals,        \* the broker's: [pos, entry, day, magic, left], left of 2 halves
  up,           \* the runner runs
  due,          \* its filled positions whose day is not finalized yet
  again,        \* those whose day ends once more, after their row was written
  rows,         \* trades: [pos, before, after, status, from]
  journal,      \* how often each day's narrative was journaled
  replays,      \* counter of MaxReplays
  fetched,      \* the script: the deals it fetched
  todo,         \* the positions it has still to examine; Idle between runs
  added,        \* the rows it adds at its commit
  flagged,      \* the positions it has an event about at its commit
  runs,         \* counter of MaxRuns
  early,        \* history: positions it added while they were still due
  forgotten     \* history: closed positions it left without a row or an event

vars == <<day, deals, up, due, again, rows, journal, replays, fetched, todo, added,
          flagged, runs, early, forgotten>>
runner == <<up, due, again>>
script == <<fetched, todo, added, flagged, runs, early, forgotten>>

Idle == {0}
Balance == 0
NoEquity == -1
Positions == {d.pos : d \in deals}
InDeal(p) == CHOOSE d \in deals : d.pos = p /\ d.entry = "in"
Mine(p) == InDeal(p).magic = "mine"
Left(p) == CHOOSE n \in 0..2 : /\ \E d \in deals : d.pos = p /\ d.left = n
                               /\ \A d \in deals : d.pos = p => n <= d.left
RowsOf(p) == {r \in rows : r.pos = p}

----------------------------------------------------------------------------
Init ==
  /\ day = 1 /\ deals = {} /\ up = TRUE /\ due = {} /\ again = {} /\ rows = {}
  /\ journal = [d \in 1..LastDay |-> 0] /\ replays = 0
  /\ fetched = {} /\ todo = Idle /\ added = {} /\ flagged = {} /\ runs = 0
  /\ early = {} /\ forgotten = {}

NextDay ==
  /\ day < LastDay
  /\ day' = day + 1
  /\ UNCHANGED <<deals, rows, journal, replays>> /\ UNCHANGED runner /\ UNCHANGED script

(* A restart loses the OrderManagers, and with them what was due.          *)
StopOrStart ==
  /\ up' = ~up /\ due' = {}
  /\ UNCHANGED <<day, deals, again, rows, journal, replays>> /\ UNCHANGED script

(* A position opens.  The runner takes note of it while it runs; the       *)
(* events of its day were flushed before, unless that failed.  A poll that *)
(* sees a new day finalizes the old one first.                             *)
Deal(p, entry, magic, left) ==
  [pos |-> p, entry |-> entry, day |-> day, magic |-> magic, left |-> left]
NewPosition == Cardinality(Positions) + 1

Open ==
  /\ NewPosition <= MaxPositions /\ NewPosition \notin Others
  /\ \A d \in deals : d.magic = "mine" /\ d.entry = "in" => d.day < day
  /\ up => due = {}
  /\ deals' = deals \cup {Deal(NewPosition, "in", "mine", 2)}
  /\ due' = IF up THEN {NewPosition} ELSE due
  /\ journal' \in {journal, [journal EXCEPT ![day] = 1]}
  /\ UNCHANGED <<day, up, again, rows, replays>> /\ UNCHANGED script

(* Another's position comes and goes.                                      *)
OtherTrades ==
  /\ NewPosition <= MaxPositions /\ NewPosition \in Others
  /\ deals' = deals \cup {Deal(NewPosition, "in", "other", 2), Deal(NewPosition, "out", "other", 0)}
  /\ UNCHANGED <<day, rows, journal, replays>> /\ UNCHANGED runner /\ UNCHANGED script

(* A closing deal often carries no magic.                                  *)
OutDeal(p, left) ==
  \E magic \in {"mine", "none"} : deals' = deals \cup {Deal(p, "out", magic, left)}

Close(p) ==
  /\ Left(p) > 0
  /\ OutDeal(p, 0)
  /\ UNCHANGED <<day, rows, journal, replays>> /\ UNCHANGED runner /\ UNCHANGED script

----------------------------------------------------------------------------
(* The runner.                                                             *)

(* get_current_equity: what the row with the latest entry ended with, else *)
(* the balance.  Two rows of one position may be in either order.          *)
CurrentEquityOfShadows == {Balance}
CurrentEquity ==
  IF rows = {} THEN {Balance}
  ELSE {IF r.after = NoEquity THEN Balance ELSE r.after :
          r \in {x \in rows : \A other \in rows : other.pos <= x.pos}}

(* _write_trade at the rollover.  It does not ask whether the ticket has a *)
(* row.  The row is lost when the write fails or the day has no simulated  *)
(* trade; the day ends again when something behind the write fails.        *)
RunnerRow(p) ==
  [pos : {p}, before : CurrentEquity, after : {p}, from : {"runner"},
   status : {"open", IF Left(p) = 0 THEN "closed" ELSE "open"}]

FinalizeDay ==
  \E p \in due :
    /\ up /\ InDeal(p).day < day
    /\ \/ due' = due \ {p} /\ rows' = rows /\ UNCHANGED again
       \/ \E row \in RunnerRow(p) :
            /\ rows' = rows \cup {row}
            /\ \/ due' = due \ {p} /\ UNCHANGED again
               \/ again = {} /\ again' = {p} /\ UNCHANGED due
    /\ UNCHANGED <<day, deals, up, journal, replays>> /\ UNCHANGED script

(* The tracker halves what is still open in the evening (the row's         *)
(* partial_closed is one of the open ones here)...                         *)
Halve ==
  \E r \in rows :
    /\ up /\ r.status = "open" /\ Left(r.pos) = 2
    /\ OutDeal(r.pos, 1)
    /\ UNCHANGED <<day, rows, journal, replays>> /\ UNCHANGED runner /\ UNCHANGED script

(* ... and records the close.                                              *)
RecordClose ==
  \E r \in rows :
    /\ up /\ r.status = "open" /\ Left(r.pos) = 0
    /\ rows' = (rows \ {r}) \cup {[r EXCEPT !.status = "closed"]}
    /\ UNCHANGED <<day, deals, journal, replays>> /\ UNCHANGED runner /\ UNCHANGED script

----------------------------------------------------------------------------
(* backfill_narrative: replays the days whose events it does not find among *)
(* the last of the journal.                                                *)
Later(d) == {w \in (d + 1..LastDay) \X (1..MaxReplays + 1) : w[2] <= journal[w[1]]}
FoundInJournal(d) == journal[d] > 0 /\ Cardinality(Later(d)) < QueryReach

ReplayDay ==
  \E d \in 1..day - 1 :
    /\ replays < MaxReplays /\ ~FoundInJournal(d)
    /\ journal' = [journal EXCEPT ![d] = @ + 1] /\ replays' = replays + 1
    /\ UNCHANGED <<day, deals, rows>> /\ UNCHANGED runner /\ UNCHANGED script

----------------------------------------------------------------------------
(* reconcile_deals, run by hand: one snapshot of the deals of its range,   *)
(* grouped by position.  Whose a position is, its opening deal tells; one  *)
(* without a closing deal is still open.  A run that finds neither changes *)
(* nothing.                                                                *)
Deals(p, entry) == {d \in fetched : d.pos = p /\ d.entry = entry}
OursByMagic(found) ==
  {p \in Positions : \A entry \in {"in", "out"} :
     \E d \in found : d.pos = p /\ d.entry = entry /\ d.magic = "mine"}
Ours(found) ==
  {p \in Positions : /\ \E d \in found : d.pos = p /\ d.entry = "in" /\ d.magic = "mine"
                     /\ \E d \in found : d.pos = p /\ d.entry = "out"}

Fetch ==
  /\ todo = Idle /\ runs < MaxRuns
  /\ fetched' = {d \in deals : d.day \in From..To}
  /\ todo' = Ours(fetched') /\ todo' # {}
  /\ runs' = runs + 1
  /\ UNCHANGED <<day, deals, rows, journal, replays, added, flagged, early, forgotten>>
  /\ UNCHANGED runner

TradeExistsForTicket(p) == RowsOf(p) # {}

(* write_reconciled_historical_trade.                                      *)
HistoricalRow(p, equity) ==
  [pos |-> p, before |-> equity, after |-> NoEquity, status |-> "closed", from |-> "history"]

(* A narrated candidate may be too far from the fill; its stop or the bars *)
(* for its target may be missing.                                          *)
Examine ==
  /\ todo # Idle /\ todo # {}
  /\ LET p == CHOOSE x \in todo : \A y \in todo : x <= y
         sequence == Cardinality(Deals(p, "out")) > 1
         recorded == ~sequence /\ TradeExistsForTicket(p)
         matchable == ~sequence /\ journal[InDeal(p).day] > 0
     IN  /\ todo' = todo \ {p}
         /\ \/ recorded /\ UNCHANGED <<added, flagged, early>>
            \/ ~recorded /\ flagged' = flagged \cup {p} /\ UNCHANGED <<added, early>>
            \/ /\ ~recorded /\ matchable
               /\ \E equity \in CurrentEquity : added' = added \cup {HistoricalRow(p, equity)}
               /\ flagged' = flagged \cup {p}
               /\ early' = early \cup ({p} \cap due)
  /\ UNCHANGED <<day, deals, rows, journal, replays, fetched, runs, forgotten>>
  /\ UNCHANGED runner

Ended == fetched' = {} /\ todo' = Idle /\ added' = {} /\ flagged' = {}

Commit ==
  /\ todo = {}
  /\ rows' = rows \cup added
  /\ forgotten' = {p \in Positions \ (flagged \cup {r.pos : r \in rows}) :
                     /\ \E d \in fetched : d.pos = p /\ d.entry = "in" /\ d.magic = "mine"
                     /\ \E d \in fetched : d.pos = p /\ d.entry = "out"}
  /\ Ended
  /\ UNCHANGED <<day, deals, journal, replays, runs, early>> /\ UNCHANGED runner

(* A dry run, or an exception: the balance cannot be read.                 *)
Rollback ==
  /\ todo # Idle
  /\ Ended
  /\ early' = early \ {r.pos : r \in added}
  /\ UNCHANGED <<day, deals, rows, journal, replays, runs, forgotten>> /\ UNCHANGED runner

----------------------------------------------------------------------------
Next ==
  \/ NextDay \/ StopOrStart \/ Open \/ OtherTrades
  \/ \E p \in Positions : Close(p)
  \/ FinalizeDay \/ Halve \/ RecordClose \/ ReplayDay
  \/ Fetch \/ Examine \/ Commit \/ Rollback

Spec == Init /\ [][Next]_vars

----------------------------------------------------------------------------
TypeOK ==
  /\ day \in 1..LastDay /\ up \in BOOLEAN
  /\ deals \subseteq [pos : 1..MaxPositions, entry : {"in", "out"}, day : 1..LastDay,
                      magic : {"mine", "other", "none"}, left : 0..2]
  /\ rows \subseteq [pos : 1..MaxPositions, before : 0..MaxPositions,
                     after : {NoEquity} \cup 1..MaxPositions,
                     status : {"open", "closed"}, from : {"runner", "history"}]
  /\ due \cup again \cup todo \cup flagged \cup early \cup forgotten \subseteq 0..MaxPositions
  /\ fetched \subseteq deals /\ journal \in [1..LastDay -> 0..MaxReplays + 1]
  /\ runs \in 0..MaxRuns /\ replays \in 0..MaxReplays

(* What the scripts leave is the account's history: a position of this     *)
(* model has one row -- two only if the script ran before its day was      *)
(* finalized or the day ended twice, as no lookup by ticket and no         *)
(* constraint then stops the runner -- others have none, a closed row's    *)
(* position is closed, and every closed position in the range of a         *)
(* committed run has a row or an event (reconcile_deals,                   *)
(* trade_exists_for_ticket).                                               *)
HistoryIsTrue ==
  /\ \A r \in rows :
       /\ Mine(r.pos)
       /\ r.status = "closed" => Left(r.pos) = 0
       /\ Cardinality(RowsOf(r.pos)) > 1 => r.pos \in early \cup again
  /\ forgotten = {}

(* get_current_equity: the runner's rows form one chain, each beginning    *)
(* with the equity the one before it ended with; it starts again from the  *)
(* broker's balance only behind a row of the script, which has no          *)
(* equity_after.  A day that ends twice is counted twice.                  *)
ChainHolds ==
  \A r \in rows : r.from = "runner" =>
    LET earlier == {o \in rows : o.from = "runner" /\ o.pos < r.pos}
        last == {o \in earlier : \A e \in earlier : e.pos <= o.pos}
        between == {h \in rows : h.from = "history" /\ h.pos <= r.pos
                                                    /\ \A o \in last : o.pos <= h.pos}
    IN  \/ \E o \in last : r.before = o.after
        \/ r.before = Balance /\ (last = {} \/ between # {})
        \/ r.before = r.after /\ r.pos \in again

(* The docstring of backfill_narrative ("re-running this ... does not      *)
(* duplicate anything"); refuted when the days behind cover more than      *)
(* QueryReach: get_last_event_timestamp_for_date reads 500 rows.           *)
NarrativeOnce == \A d \in 1..LastDay : journal[d] <= 1

(* The early catch, without its excuse: refuted.                           *)
OneRow == \A r, o \in rows : r.pos = o.pos => r = o
----------------------------------------------------------------------------
(* The inductive invariant behind HistoryIsTrue and ChainHolds.            *)

\* A position has one opening deal, and a half is only closed of a recorded one.
DealsFit ==
  /\ Positions = 1..NewPosition - 1
  /\ \A p \in Positions : \E d \in deals : d.pos = p /\ d.entry = "in"
  /\ \A d, e \in deals : d.pos = e.pos /\ d.entry = "in" /\ e.entry = "in" => d = e
  /\ \A d \in deals : d.entry = "out" => d.left = 0 \/ (d.left = 1 /\ RowsOf(d.pos) # {})

\* What the runner has to write is the newest position of this model.
DueFits ==
  /\ ~up => due = {}
  /\ \A p \in due : p \in Positions /\ Mine(p) /\ \A q \in Positions : Mine(q) => q <= p
  /\ \A p \in due, r \in rows : r.pos = p => IF r.from = "runner" THEN p \in again
                                                                  ELSE p \in early

RowsFit ==
  \A r \in rows :
    /\ r.pos \in Positions /\ Mine(r.pos)
    /\ r.status = "closed" => Left(r.pos) = 0
    /\ r.after = IF r.from = "runner" THEN r.pos ELSE NoEquity
    /\ \A o \in rows : r.pos = o.pos /\ r # o =>
         IF r.from # o.from THEN r.pos \in early ELSE r.from = "runner" /\ r.pos \in again

\* What the script holds: nothing between runs, else what it makes of its snapshot.
ScriptFits ==
  /\ todo = Idle => fetched = {} /\ added = {} /\ flagged = {}
  /\ todo # Idle => todo \subseteq Ours(fetched)
  /\ \A p \in Ours(fetched) : p \in todo \cup flagged \/ RowsOf(p) # {}
  /\ forgotten = {}
AddedFit ==
  \A a \in added :
    /\ a.pos \in Ours(fetched) \ todo /\ Left(a.pos) = 0
    /\ \E equity \in 0..MaxPositions : a = HistoricalRow(a.pos, equity)
    /\ a.pos \in due => a.pos \in early
    /\ \A b \in added : a.pos = b.pos => a = b
    /\ \A r \in rows : a.pos = r.pos => r.from = "runner" /\ a.pos \in early

NarratedFits == \A d \in 1..LastDay : journal[d] <= replays + 1

IndInv ==
  /\ TypeOK /\ DealsFit /\ DueFits /\ RowsFit /\ ScriptFits /\ AddedFit /\ NarratedFits
  /\ ChainHolds
=============================================================================
