-------------------------- MODULE ShadowRunner_proofs --------------------------
(***************************************************************************)
(* Proofs about the runner's day.  Every action is shown to keep IndInv:   *)
(* first what only moves the thread (ThreadStep) or only writes the        *)
(* journal (JournalStep), then what raises an exception or loses the       *)
(* process (RaiseKeeps, GoDownKeeps), the steps to another CurrentDay      *)
(* record (DayStep), and those of the day's end (EndStep).                 *)
(*                                                                         *)
(* The second part, from Pass on, shows the same of PassInv, on top of     *)
(* IndInv: how far the bars, the replay and the day's end have come.       *)
(***************************************************************************)
EXTENDS ShadowRunner, FiniteSetTheorems, SequenceTheorems, TLAPS

\* The constants, in numbers.
LEMMA Bars ==
  /\ Close \in Nat /\ SessionBars \in Nat /\ DecisionBar \in Nat /\ FetchCount \in Nat
  /\ 0 < SessionBars /\ DecisionBar <= SessionBars /\ SessionBars <= Close
  /\ Horizon = Close + 1 /\ Horizon \in Nat /\ Session \subseteq 1..Horizon
  /\ Horizon \notin Session /\ 0 < FetchCount /\ Setups \subseteq Session /\ Fills \subseteq Setups
BY ShadowRunnerAssumption DEF ShadowRunnerAssumption, Horizon, Session

\* Every event the runner writes is a narrative event.
LEMMA Told ==
  /\ \A s \in Setups : Offered(s) \in Narrative
  /\ \A k \in {"trend", "skipped", "scratch", "swings", "shadowFailed"} : Event(k) \in Narrative
BY DEF Narrative, Offers, Verdicts

\* A sequence of one event.
LEMMA OneInSeq ==
  ASSUME NEW S, NEW e \in S
  PROVE  <<e>> \in Seq(S)
OBVIOUS

\* One more order of one user for one setup.
LEMMA OneMore ==
  ASSUME NEW f \in [Users -> [Setups -> Nat]], NEW u \in Users, NEW setup \in Setups
  PROVE  /\ [f EXCEPT ![u][setup] = @ + 1] \in [Users -> [Setups -> Nat]]
         /\ \A v \in Users, s \in Setups :
              [f EXCEPT ![u][setup] = @ + 1][v][s]
                 = IF v = u /\ s = setup THEN f[v][s] + 1 ELSE f[v][s]
<1>1. f[u] \in [Setups -> Nat] /\ f[u][setup] \in Nat
  OBVIOUS
<1>a. PICK n \in Nat : n = f[u][setup] + 1
  BY <1>1
<1>b. [f[u] EXCEPT ![setup] = n] \in [Setups -> Nat]
  BY <1>1
<1>2. PICK g \in [Setups -> Nat] : g = [f[u] EXCEPT ![setup] = n]
  BY <1>b
<1>3. [f EXCEPT ![u][setup] = @ + 1] = [f EXCEPT ![u] = g]
  BY <1>2, <1>a, Zenon
<1>4. [f EXCEPT ![u] = g] \in [Users -> [Setups -> Nat]]
  OBVIOUS
<1>5. \A v \in Users, s \in Setups :
         [f EXCEPT ![u] = g][v][s] = IF v = u /\ s = setup THEN f[v][s] + 1 ELSE f[v][s]
  BY <1>1, <1>2, <1>a
<1>6. QED
  BY <1>3, <1>4, <1>5

\* An event that is in a sequence is counted in it.
LEMMA CountIs ==
  ASSUME NEW seq \in Seq(Narrative), NEW e
  PROVE  /\ Count(seq, e) \in Nat
         /\ (\E i \in DOMAIN seq : seq[i] = e) => Count(seq, e) > 0
<1> DEFINE S == {i \in DOMAIN seq : seq[i] = e}
<1>1. IsFiniteSet(S)
  <2>1. Len(seq) \in Nat /\ DOMAIN seq = 1..Len(seq)
    OBVIOUS
  <2>2. IsFiniteSet(1..Len(seq))
    BY <2>1, FS_Interval
  <2>3. QED
    BY <2>1, <2>2, FS_Subset
<1>2. Cardinality(S) \in Nat /\ (S # {} => Cardinality(S) # 0)
  BY <1>1, FS_CardinalityType, FS_EmptySet
<1>3. QED
  BY <1>2 DEF Count

JournalGrows == \A e \in Narrative : journal[e] <= journal'[e]

\* What was flushed is in the journal, and nothing leaves it.
LEMMA JournaledIs ==
  ASSUME journal \in [Narrative -> Nat], NEW events \in Seq(Narrative), journal' = Journaled(events)
  PROVE  /\ journal' \in [Narrative -> Nat] /\ JournalGrows
         /\ \A i \in DOMAIN events : journal'[events[i]] > 0
<1>1. \A e \in Narrative : /\ journal'[e] = journal[e] + Count(events, e)
                           /\ Count(events, e) \in Nat
                           /\ (\E i \in DOMAIN events : events[i] = e) => Count(events, e) > 0
  BY CountIs DEF Journaled
<1>2. journal' \in [Narrative -> Nat]
  BY <1>1, CountIs DEF Journaled
<1>3. JournalGrows
  BY <1>1 DEF JournalGrows
<1>4. \A i \in DOMAIN events : events[i] \in Narrative
  OBVIOUS
<1>5. QED
  BY <1>1, <1>2, <1>3, <1>4

\* The bars since the last one processed, in order.
LEMMA NewBarsAre ==
  ASSUME TypeOK, NEW first \in Nat, 0 < first
  PROVE  /\ NewBars(first) \in Seq(1..Horizon)
         /\ \E from \in Nat, n \in Nat :
              /\ NewBars(first) = [i \in 1..n |-> from + i - 1]
              /\ first <= from /\ last < from /\ (n = 0 \/ from + n <= now + 1)
<1>1. last \in Nat /\ now \in Nat /\ now <= Horizon /\ Horizon \in Nat
  BY Bars DEF TypeOK
<1>2. PICK from \in Nat : from = IF last < first THEN first ELSE last + 1
  BY <1>1
<1>3. 0 < from /\ first <= from /\ last < from
  BY <1>1, <1>2
<1>a. (IF from > now THEN 0 ELSE now + 1 - from) \in Nat
  BY <1>1
<1>4. PICK n \in Nat : n = IF from > now THEN 0 ELSE now + 1 - from
  BY <1>a
<1>5. n = 0 \/ from + n <= now + 1
  BY <1>1, <1>4
<1>6. NewBars(first) = [i \in 1..n |-> from + i - 1]
  BY <1>2, <1>4 DEF NewBars
<1>7. ASSUME NEW i \in 1..n PROVE from + i - 1 \in 1..Horizon
  BY <1>1, <1>3, <1>5
<1> DEFINE S == 1..Horizon
<1> HIDE DEF S
<1>8. [i \in 1..n |-> from + i - 1] \in Seq(S)
  BY <1>7 DEF S
<1>9. NewBars(first) \in Seq(1..Horizon)
  BY <1>6, <1>8 DEF S
<1>10. QED
  BY <1>3, <1>5, <1>6, <1>9

\* Taking the first element off a sequence.
LEMMA HeadTail ==
  ASSUME NEW S, NEW seq \in Seq(S), seq # <<>>
  PROVE  Head(seq) \in S /\ Tail(seq) \in Seq(S)
OBVIOUS

\* A CurrentDay record is not None.
LEMMA DayIsSet ==
  ASSUME NEW day \in DayRecord
  PROVE  day # NoDay
<1>1. day.date \in {1, 2}
  BY DEF DayRecord
<1>2. NoDay.date = 0
  BY DEF NoDay
<1>3. QED
  BY <1>1, <1>2

\* The record of a day that begins.
LEMMA FreshDay ==
  ASSUME NEW d \in {1, 2}
  PROVE  LET day == CurrentDay(d)
         IN  /\ day \in DayRecord /\ day # NoDay /\ day.date = d /\ day.bars = <<>>
             /\ ~day.decided /\ ~day.tradeable /\ ~day.watching /\ day.offered = {}
             /\ ~day.scratched /\ day.managed = {} /\ day.cancelled = {} /\ day.won = {}
             /\ day.events = <<>> /\ day.fed = [b \in Session |-> 0]
             /\ day.known = [u \in Users |-> [s \in Setups |-> 0]]
<1>1. CurrentDay(d) \in DayRecord
  <2>1. /\ [b \in Session |-> 0] \in [Session -> Nat] /\ {} \in {{}, Users}
        /\ [u \in Users |-> [s \in Setups |-> 0]] \in [Users -> [Setups -> Nat]]
        /\ <<>> \in Seq(Session) /\ <<>> \in Seq(Narrative)
    OBVIOUS
  <2>2. QED
    BY <2>1 DEF CurrentDay, DayRecord
<1>2. CurrentDay(d) # NoDay
  <2>1. CurrentDay(d).date = d /\ NoDay.date = 0
    BY DEF CurrentDay, NoDay
  <2>2. QED
    BY <2>1
<1>3. QED
  BY <1>1, <1>2 DEF CurrentDay
-----------------------------------------------------------------------------
\* A day stays fit while the journal grows and no order it knows of goes.
LEMMA DayStays ==
  ASSUME NEW day \in DayRecord, DayFits(day), JournalGrows, journal \in [Narrative -> Nat],
         journal' \in [Narrative -> Nat],
         \A u \in Users, s \in Setups : day.known[u][s] <= working'[u][s]
  PROVE  DayFits(day)'
<1>1. \A e \in Narrative : Noted(day, e) => Noted(day, e)'
  BY DEF Noted, JournalGrows
<1>2. day.offered \subseteq Setups
  BY DEF DayRecord
<1>3. QED
  BY <1>1, <1>2, Told DEF DayFits

\* The rows rest on a journal that grows.
LEMMA RowsRestStay ==
  ASSUME IndInv, journal' \in [Narrative -> Nat], JournalGrows, UNCHANGED <<shadowRows, rows>>
  PROVE  RowsRestOnJournal'
<1>1. RowsRestOnJournal /\ TypeOK
  BY DEF IndInv
<1>2. \A e \in Narrative : journal[e] > 0 => journal'[e] > 0
  BY <1>1 DEF JournalGrows, TypeOK
<1>3. QED
  BY <1>1, <1>2, Told, Bars DEF RowsRestOnJournal

\* A step that does not end in the closing of the day.
LEMMA MidStep ==
  ASSUME IndInv, TypeOK', PlacesFit', pc' \notin Closing,
         NEW day, cd' = day, day # NoDay => DayFits(day)',
         RowsRestOnJournal', WorkingOrdersHeld'
  PROVE  IndInv'
<1>1. EndFits'
  BY DEF EndFits, Closing, Ending
<1>2. QED
  BY <1>1 DEF IndInv

\* A journal that stays grows, too.
LEMMA JournalStays ==
  ASSUME TypeOK, UNCHANGED journal
  PROVE  JournalGrows
BY DEF TypeOK, JournalGrows

\* ... and that only moves the thread.
LEMMA ThreadStep ==
  ASSUME IndInv, TypeOK', PlacesFit', pc' \notin Closing,
         UNCHANGED <<cd, journal, shadowRows, rows, working, strays>>
  PROVE  IndInv'
<1>1. TypeOK /\ (cd # NoDay => DayFits(cd)) /\ WorkingOrdersHeld
  BY DEF IndInv
<1>2. WorkingOrdersHeld' /\ JournalGrows
  BY <1>1, JournalStays DEF WorkingOrdersHeld
<1>3. PICK day : day = cd
  OBVIOUS
<1>4. day # NoDay => DayFits(day)'
  BY <1>1, <1>3 DEF DayFits, Noted
<1>a. journal' \in [Narrative -> Nat]
  BY DEF TypeOK
<1>5. RowsRestOnJournal'
  BY <1>2, <1>a, RowsRestStay
<1>6. QED
  BY <1>2, <1>3, <1>4, <1>5, MidStep

\* Time goes on.
LEMMA BarClosesKeeps == IndInv /\ BarCloses => IndInv'
<1> SUFFICES ASSUME IndInv, BarCloses PROVE IndInv'
  OBVIOUS
<1>1. TypeOK /\ PlacesFit
  BY DEF IndInv
<1>2. /\ pc \in {"down", "idle"} /\ now < Horizon /\ now' = now + 1
      /\ UNCHANGED <<trend, cd, last, starting, pc, queue, feed, todo, journal, shadowRows, rows,
                     working, faults, crashes, gateFed, rowsLost, strays>>
  BY DEF BarCloses, threadVars, dbVars, budgetVars, history
<1>3. TypeOK'
  BY <1>1, <1>2, Bars DEF TypeOK
<1>4. PlacesFit' /\ pc' \notin Closing
  BY <1>1, <1>2 DEF PlacesFit, Closing, Ending
<1>5. QED
  BY <1>2, <1>3, <1>4, ThreadStep

\* The bound on the failed calls.
LEMMA FaultIs ==
  ASSUME TypeOK, Fault \/ UNCHANGED faults
  PROVE  faults' \in 0..MaxFaults
<1>1. MaxFaults \in Nat /\ faults \in 0..MaxFaults
  BY ShadowRunnerAssumption DEF ShadowRunnerAssumption, TypeOK
<1>2. QED
  BY <1>1 DEF Fault

\* recover_on_startup: today's bars are replayed, or not.
LEMMA RestartKeeps == IndInv /\ Restart => IndInv'
<1> SUFFICES ASSUME IndInv, Restart PROVE IndInv'
  OBVIOUS
<1>1. TypeOK /\ PlacesFit
  BY DEF IndInv
<1>2. /\ pc = "down"
      /\ UNCHANGED <<now, trend, cd, last, feed, todo, journal, shadowRows, rows,
                     working, crashes, gateFed, rowsLost, strays>>
  BY DEF Restart, threadVars, dbVars, budgetVars, history
<1>3. PICK midnight \in {1, Horizon} :
        \/ pc' = "bar" /\ starting' = TRUE /\ queue' = NewBars(midnight) /\ UNCHANGED faults
        \/ pc' = "idle" /\ UNCHANGED <<starting, queue, faults>>
        \/ pc' = "idle" /\ Fault /\ UNCHANGED <<starting, queue>>
  BY DEF Restart
<1>4. NewBars(midnight) \in Seq(1..Horizon)
  <2>1. midnight \in Nat /\ 0 < midnight
    BY Bars
  <2>2. QED
    BY <1>1, <2>1, NewBarsAre
<1>5. queue' \in Seq(1..Horizon) /\ faults' \in 0..MaxFaults /\ starting' \in BOOLEAN
      /\ pc' \in {"bar", "idle"}
  <2>1. queue' \in Seq(1..Horizon) /\ starting' \in BOOLEAN /\ pc' \in {"bar", "idle"}
    BY <1>1, <1>3, <1>4 DEF TypeOK
  <2>2. faults' \in 0..MaxFaults
    BY <1>1, <1>3, FaultIs
  <2>3. QED
    BY <2>1, <2>2
<1>6. TypeOK'
  BY <1>1, <1>2, <1>5 DEF TypeOK, Places
<1>7. PlacesFit' /\ pc' \notin Closing
  BY <1>5 DEF PlacesFit, Closing, Ending, WithBar, WithDay
<1>8. QED
  BY <1>2, <1>6, <1>7, ThreadStep

\* poll_once, as far as the fetched candles.
LEMMA PollKeeps == IndInv /\ Poll => IndInv'
<1> SUFFICES ASSUME IndInv, Poll PROVE IndInv'
  OBVIOUS
<1>1. TypeOK /\ PlacesFit
  BY DEF IndInv
<1>a. now \in Nat /\ FetchCount \in Nat
  BY <1>1, Bars DEF TypeOK
<1>b. LET f == IF now > FetchCount THEN now - FetchCount + 1 ELSE 1 IN f \in Nat /\ 0 < f
  BY <1>a
<1>2. PICK first \in Nat : first = (IF now > FetchCount THEN now - FetchCount + 1 ELSE 1) /\ 0 < first
  BY <1>b
<1>3. /\ pc = "idle" /\ pc' = "bar" /\ queue' = NewBars(first)
      /\ UNCHANGED <<now, trend, cd, last, starting, feed, todo, journal, shadowRows, rows,
                     working, faults, crashes, gateFed, rowsLost, strays>>
  BY <1>2 DEF Poll, dbVars, budgetVars, history
<1>4. queue' \in Seq(1..Horizon)
  BY <1>1, <1>2, <1>3, NewBarsAre
<1>5. TypeOK'
  BY <1>1, <1>3, <1>4 DEF TypeOK, Places
<1>6. PlacesFit' /\ pc' \notin Closing
  BY <1>3 DEF PlacesFit, Closing, Ending, WithBar, WithDay
<1>7. QED
  BY <1>3, <1>5, <1>6, ThreadStep

\* The new bars are processed: on to the fills.
LEMMA BarsDoneKeeps == IndInv /\ BarsDone => IndInv'
<1> SUFFICES ASSUME IndInv, BarsDone PROVE IndInv'
  OBVIOUS
<1>1. TypeOK /\ PlacesFit
  BY DEF IndInv
<1>2. /\ pc = "bar" /\ pc' \in {"idle", "fills"} /\ (pc' = "fills" => cd # NoDay)
      /\ todo' = {} /\ starting' = FALSE
      /\ UNCHANGED <<now, trend, cd, last, queue, feed, journal, shadowRows, rows,
                     working, faults, crashes, gateFed, rowsLost, strays>>
  BY DEF BarsDone, dbVars, budgetVars, history
<1>3. TypeOK'
  BY <1>1, <1>2 DEF TypeOK, Places
<1>4. PlacesFit' /\ pc' \notin Closing
  BY <1>2 DEF PlacesFit, Closing, Ending, WithBar, WithDay
<1>5. QED
  BY <1>2, <1>3, <1>4, ThreadStep

\* Taking a bar off the queue.
LEMMA BarDoneIs ==
  ASSUME TypeOK, queue # <<>>
  PROVE  /\ Head(queue) \in 1..Horizon /\ Tail(queue) \in Seq(1..Horizon)
         /\ (BarDone => /\ last' \in 0..Horizon /\ queue' \in Seq(1..Horizon) /\ pc' = "bar"
                        /\ last' = Head(queue) /\ queue' = Tail(queue))
<1>1. queue \in Seq(1..Horizon)
  BY DEF TypeOK
<1>2. Head(queue) \in 1..Horizon /\ Tail(queue) \in Seq(1..Horizon)
  BY <1>1, HeadTail
<1>3. Head(queue) \in 0..Horizon
  BY <1>2, Bars
<1>4. QED
  BY <1>2, <1>3 DEF BarDone

\* A bar of yesterday, without a current day.
LEMMA IgnoreStaleBarKeeps == IndInv /\ IgnoreStaleBar => IndInv'
<1> SUFFICES ASSUME IndInv, IgnoreStaleBar PROVE IndInv'
  OBVIOUS
<1>1. TypeOK /\ PlacesFit
  BY DEF IndInv
<1>2. /\ queue # <<>> /\ BarDone
      /\ UNCHANGED <<now, trend, cd, starting, feed, todo, journal, shadowRows, rows,
                     working, faults, crashes, gateFed, rowsLost, strays>>
  BY DEF IgnoreStaleBar, dbVars, budgetVars, history
<1>3. last' \in 0..Horizon /\ queue' \in Seq(1..Horizon) /\ pc' = "bar"
  BY <1>1, <1>2, BarDoneIs
<1>4. TypeOK'
  BY <1>1, <1>2, <1>3 DEF TypeOK, Places
<1>5. PlacesFit' /\ pc' \notin Closing
  BY <1>3 DEF PlacesFit, Closing, Ending, WithBar, WithDay
<1>6. QED
  BY <1>2, <1>4, <1>5, ThreadStep

\* Every OrderManager was offered the candidate.
LEMMA PlacedKeeps == IndInv /\ Placed => IndInv'
<1> SUFFICES ASSUME IndInv, Placed PROVE IndInv'
  OBVIOUS
<1>1. TypeOK /\ PlacesFit
  BY DEF IndInv
<1>2. /\ pc = "place" /\ pc' = "feed" /\ feed' = Tail(feed)
      /\ UNCHANGED <<now, trend, cd, last, starting, queue, todo, journal, shadowRows, rows,
                     working, faults, crashes, gateFed, rowsLost, strays>>
  BY DEF Placed, dbVars, budgetVars, history
<1>3. feed' \in Seq(Session)
  <2>1. feed \in Seq(Session) /\ feed # <<>>
    BY <1>1, <1>2 DEF TypeOK, PlacesFit
  <2>2. QED
    BY <1>2, <2>1
<1>4. TypeOK'
  BY <1>1, <1>2, <1>3 DEF TypeOK, Places
<1>5. PlacesFit' /\ pc' \notin Closing
  BY <1>1, <1>2 DEF PlacesFit, Closing, Ending, WithBar, WithDay, Places
<1>6. QED
  BY <1>2, <1>4, <1>5, ThreadStep

\* Every bar was fed to the orchestrator.
LEMMA FedKeeps == IndInv /\ Fed => IndInv'
<1> SUFFICES ASSUME IndInv, Fed PROVE IndInv'
  OBVIOUS
<1>1. TypeOK /\ PlacesFit
  BY DEF IndInv
<1>2. /\ pc = "feed" /\ pc' = "flush"
      /\ UNCHANGED <<now, trend, cd, last, starting, queue, feed, todo, journal, shadowRows, rows,
                     working, faults, crashes, gateFed, rowsLost, strays>>
  BY DEF Fed, dbVars, budgetVars, history
<1>3. TypeOK'
  BY <1>1, <1>2 DEF TypeOK, Places
<1>4. PlacesFit' /\ pc' \notin Closing
  BY <1>1, <1>2 DEF PlacesFit, Closing, Ending, WithBar, WithDay, Places
<1>5. QED
  BY <1>2, <1>3, <1>4, ThreadStep

-----------------------------------------------------------------------------
\* The process is gone: an order its managers knew of is a stray now.
LEMMA GoDownKeeps ==
  ASSUME IndInv, GoDown, UNCHANGED <<now, trend, rows, working, gateFed, rowsLost>>,
         faults' \in 0..MaxFaults, crashes' \in 0..MaxCrashes,
         journal' \in [Narrative -> Nat], shadowRows' \in Nat, RowsRestOnJournal'
  PROVE  IndInv'
<1>1. TypeOK /\ WorkingOrdersHeld
  BY DEF IndInv
<1>2. /\ pc' = "down" /\ queue' = <<>> /\ feed' = <<>> /\ todo' = {}
      /\ cd' = NoDay /\ last' = 0 /\ starting' = FALSE
      /\ strays' = strays \cup Holders(cd)
  BY DEF GoDown
<1>3. Holders(cd) \subseteq Users
  BY DEF Holders
<1>4. TypeOK'
  <2>1. /\ <<>> \in Seq(1..Horizon) /\ <<>> \in Seq(Session) /\ strays' \subseteq Users
        /\ 0 \in 0..Horizon /\ "down" \in Places
    BY <1>1, <1>2, <1>3, Bars DEF TypeOK, Places
  <2>2. QED
    BY <1>1, <1>2, <2>1 DEF TypeOK
<1>5. PlacesFit' /\ pc' \notin Closing
  BY <1>2 DEF PlacesFit, Closing, Ending, WithBar, WithDay
<1>6. WorkingOrdersHeld'
  <2>1. SUFFICES ASSUME NEW u \in Users \ (strays \cup Holders(cd)), NEW s \in Setups
                 PROVE  working[u][s] = 0
    BY <1>2 DEF WorkingOrdersHeld
  <2>2. CASE cd = NoDay
    BY <1>1, <2>2 DEF WorkingOrdersHeld
  <2>3. CASE cd # NoDay
    <3>1. cd.known \in [Users -> [Setups -> Nat]]
      BY <1>1, <2>3 DEF TypeOK, DayRecord
    <3>2. ~(cd.known[u][s] > 0) /\ cd.known[u][s] \in Nat
      BY <2>1, <2>3, <3>1 DEF Holders
    <3>3. working[u][s] = cd.known[u][s]
      BY <1>1, <2>1, <2>3 DEF WorkingOrdersHeld
    <3>4. QED
      BY <3>2, <3>3
  <2>4. QED
    BY <2>2, <2>3
<1>7. PICK day : day = NoDay
  OBVIOUS
<1>8. QED
  BY <1>2, <1>4, <1>5, <1>6, <1>7, MidStep

\* An exception that leaves the day as it is.
LEMMA RaiseKeeps ==
  ASSUME IndInv, Raise(cd),
         UNCHANGED <<now, trend, rows, working, crashes, gateFed, rowsLost>>,
         faults' \in 0..MaxFaults, journal' \in [Narrative -> Nat], JournalGrows,
         shadowRows' \in Nat, RowsRestOnJournal'
  PROVE  IndInv'
<1>1. TypeOK /\ WorkingOrdersHeld /\ (cd # NoDay => DayFits(cd))
  BY DEF IndInv
<1>2. CASE starting
  <2>1. GoDown /\ crashes' \in 0..MaxCrashes
    BY <1>1, <1>2 DEF Raise, TypeOK
  <2>2. QED
    BY <2>1, GoDownKeeps
<1>3. CASE ~starting
  <2>1. /\ pc' = "idle" /\ queue' = <<>> /\ feed' = <<>> /\ todo' = {} /\ cd' = cd
        /\ UNCHANGED <<last, starting, strays>>
    BY <1>3 DEF Raise
  <2>2. TypeOK'
    BY <1>1, <2>1 DEF TypeOK, Places
  <2>3. PlacesFit' /\ pc' \notin Closing
    BY <2>1 DEF PlacesFit, Closing, Ending, WithBar, WithDay
  <2>4. WorkingOrdersHeld'
    BY <1>1, <2>1 DEF WorkingOrdersHeld
  <2>5. PICK day : day = cd
    OBVIOUS
  <2>6. ASSUME day # NoDay PROVE DayFits(day)'
    <3>1. day \in DayRecord /\ DayFits(day)
      BY <1>1, <2>5, <2>6 DEF TypeOK
    <3>2. \A u \in Users, s \in Setups : day.known[u][s] <= working'[u][s]
      BY <3>1 DEF DayFits
    <3>3. journal \in [Narrative -> Nat]
      BY <1>1 DEF TypeOK
    <3>4. QED
      BY <3>1, <3>2, <3>3, DayStays
  <2>7. QED
    BY <2>1, <2>2, <2>3, <2>4, <2>5, <2>6, MidStep
<1>4. starting \in BOOLEAN
  BY <1>1 DEF TypeOK
<1>5. QED
  BY <1>2, <1>3, <1>4

\* The process is killed before its next call.
LEMMA CrashKeeps == IndInv /\ Crash => IndInv'
<1> SUFFICES ASSUME IndInv, Crash PROVE IndInv'
  OBVIOUS
<1>1. TypeOK
  BY DEF IndInv
<1>2. /\ crashes < MaxCrashes /\ crashes' = crashes + 1 /\ GoDown
      /\ UNCHANGED <<now, trend, journal, shadowRows, rows, working, faults, gateFed, rowsLost>>
  BY DEF Crash, dbVars
<1>3. crashes' \in 0..MaxCrashes /\ faults' \in 0..MaxFaults
  BY <1>1, <1>2, ShadowRunnerAssumption DEF TypeOK, ShadowRunnerAssumption
<1>4. journal' \in [Narrative -> Nat] /\ shadowRows' \in Nat
  BY <1>1, <1>2 DEF TypeOK
<1>5. RowsRestOnJournal'
  BY <1>2 DEF IndInv, RowsRestOnJournal
<1>6. QED
  BY <1>2, <1>3, <1>4, <1>5, GoDownKeeps

\* The day comes to its end: an open winner is scratched.
LEMMA RollOverKeeps == IndInv /\ RollOver => IndInv'
<1> SUFFICES ASSUME IndInv, RollOver PROVE IndInv'
  OBVIOUS
<1>1. TypeOK /\ WorkingOrdersHeld /\ PlacesFit
  BY DEF IndInv
<1>2. /\ queue # <<>> /\ cd # NoDay /\ pc = "bar" /\ pc' = "closeFlush"
      /\ UNCHANGED <<now, trend, last, starting, queue, feed, todo, journal, shadowRows, rows,
                     working, faults, crashes, gateFed, rowsLost, strays>>
  BY DEF RollOver, dbVars, budgetVars, history
<1>3. PICK day \in DayRecord : day = cd /\ DayFits(day)
  BY <1>1, <1>2 DEF IndInv, TypeOK
<1>4. PICK scratch \in BOOLEAN :
         scratch = (day.watching /\ day.bars # <<>> /\ day.offered \cap Fills # {} /\ ~day.scratched)
  OBVIOUS
<1>5. PICK next : next = IF scratch
                         THEN [day EXCEPT !.scratched = TRUE, !.events = Append(@, Event("scratch"))]
                         ELSE day
  OBVIOUS
<1>6. cd' = next
  BY <1>3, <1>4, <1>5 DEF RollOver
<1>7. /\ next \in DayRecord /\ next.won = day.won /\ next.managed = day.managed
      /\ next.cancelled = day.cancelled /\ next.watching = day.watching
      /\ next.tradeable = day.tradeable /\ next.decided = day.decided /\ next.bars = day.bars
      /\ next.offered = day.offered /\ next.known = day.known
      /\ next.scratched = (day.scratched \/ scratch)
      /\ next.events = IF scratch THEN Append(day.events, Event("scratch")) ELSE day.events
  <2>1. Append(day.events, Event("scratch")) \in Seq(Narrative)
    BY Told DEF DayRecord
  <2>2. CASE scratch
    BY <1>5, <2>1, <2>2 DEF DayRecord
  <2>3. CASE ~scratch
    BY <1>4, <1>5, <2>3 DEF DayRecord
  <2>4. QED
    BY <2>2, <2>3
<1>8. next # NoDay
  BY <1>7, DayIsSet
<1>9. TypeOK'
  BY <1>1, <1>2, <1>6, <1>7 DEF TypeOK, Places
<1>10. PlacesFit'
  BY <1>2, <1>6, <1>8 DEF PlacesFit, WithBar, WithDay
<1>11. DayFits(next)'
  <2>1. day.events \in Seq(Narrative)
    BY DEF DayRecord
  <2>2. \A e : Noted(day, e) => Noted(next, e)'
    BY <1>2, <1>7, <2>1 DEF Noted
  <2>3. next.scratched => Noted(next, Event("scratch"))'
    <3>1. CASE scratch
      <4>1. /\ Len(day.events) + 1 \in DOMAIN next.events
            /\ next.events[Len(day.events) + 1] = Event("scratch")
        BY <1>7, <2>1, <3>1
      <4>2. QED
        BY <4>1 DEF Noted
    <3>2. CASE ~scratch
      BY <1>3, <1>7, <2>2, <3>2 DEF DayFits
    <3>3. QED
      BY <3>1, <3>2
  <2>4. QED
    BY <1>2, <1>3, <1>7, <2>2, <2>3 DEF DayFits
<1>12. EndFits'
  <2>1. next.watching /\ next.offered \cap Fills # {} => next.scratched
    BY <1>3, <1>4, <1>7 DEF DayFits
  <2>2. QED
    BY <1>2, <1>6, <2>1 DEF EndFits, Ending, SimulatedTrade
<1>13. WorkingOrdersHeld'
  BY <1>1, <1>2, <1>3, <1>6, <1>7, <1>8 DEF WorkingOrdersHeld
<1>14. RowsRestOnJournal'
  BY <1>2 DEF IndInv, RowsRestOnJournal
<1>15. QED
  BY <1>6, <1>9, <1>10, <1>11, <1>12, <1>13, <1>14 DEF IndInv

\* A bar that is taken in, or the start of its verdict or of its feeding.
LEMMA ProcessBarKeeps == IndInv /\ ProcessBar => IndInv'
<1> SUFFICES ASSUME IndInv, ProcessBar PROVE IndInv'
  OBVIOUS
<1>1. TypeOK /\ WorkingOrdersHeld /\ PlacesFit
  BY DEF IndInv
<1>2. PICK bar : bar = Head(queue)
  OBVIOUS
<1>3. PICK day : day = Today(bar)
  OBVIOUS
<1>4. /\ queue # <<>> /\ pc = "bar"
      /\ UNCHANGED <<now, trend, journal, shadowRows, rows,
                     working, faults, crashes, gateFed, rowsLost>>
      /\ todo' = {}
  BY DEF ProcessBar, dbVars, budgetVars
<1>5. PICK bars : bars = Append(day.bars, bar)
  OBVIOUS
<1>6. \/ /\ bar \notin Session /\ cd' = day
         /\ BarDone /\ UNCHANGED <<feed, starting, strays>>
      \/ /\ bar \in Session /\ ~day.decided /\ cd' = [day EXCEPT !.bars = bars]
         /\ BarDone /\ UNCHANGED <<feed, starting, strays>>
      \/ /\ bar \in Session /\ ~day.decided
         /\ \E tradeable \in BOOLEAN :
              /\ cd' = [day EXCEPT !.bars = bars, !.decided = TRUE, !.tradeable = tradeable,
                                   !.events = IF tradeable THEN Append(@, Event("trend")) ELSE @]
              /\ pc' = IF tradeable THEN "subscribers" ELSE "verdict"
         /\ UNCHANGED <<queue, last, feed, starting, strays>>
      \/ /\ bar \in Session /\ day.decided /\ cd' = day
         /\ BarDone /\ UNCHANGED <<feed, starting, strays>>
      \/ /\ bar \in Session /\ day.decided /\ day.watching /\ cd' = day
         /\ feed' = <<bar>> /\ pc' = "feed"
         /\ UNCHANGED <<queue, last, starting, strays>>
      \/ day.decided /\ Raise(day)
  <2>1. trend \in BOOLEAN
    BY <1>1 DEF TypeOK
  <2>2. QED
    BY <1>2, <1>3, <1>5, <2>1, Zenon DEF ProcessBar
<1>7. Head(queue) \in 1..Horizon /\ Tail(queue) \in Seq(1..Horizon) /\ bar \in 1..Horizon
      /\ (BarDone => /\ last' \in 0..Horizon /\ queue' \in Seq(1..Horizon) /\ pc' = "bar")
  BY <1>1, <1>2, <1>4, BarDoneIs
<1>8. day \in DayRecord /\ (cd # NoDay => day = cd)
      /\ (cd = NoDay => ~day.decided /\ day.known = [u \in Users |-> [s \in Setups |-> 0]])
  <2>1. CASE cd = NoDay
    <3>1. DayOf(bar) \in {1, 2}
      BY DEF DayOf
    <3>2. QED
      BY <1>3, <2>1, <3>1, FreshDay DEF Today
  <2>2. CASE cd # NoDay
    BY <1>1, <1>3, <2>2 DEF Today, TypeOK
  <2>3. QED
    BY <2>1, <2>2
<1>9. DayFits(day)
  <2>1. CASE cd = NoDay
    <3>1. DayOf(bar) \in {1, 2}
      BY DEF DayOf
    <3>2. day = CurrentDay(DayOf(bar))
      BY <1>3, <2>1 DEF Today
    <3>3. /\ ~day.decided /\ ~day.tradeable /\ ~day.watching /\ day.offered = {}
          /\ ~day.scratched /\ day.managed = {} /\ day.cancelled = {} /\ day.won = {}
          /\ day.known = [u \in Users |-> [s \in Setups |-> 0]]
      BY <3>1, <3>2, FreshDay
    <3>4. \A u \in Users, s \in Setups : working[u][s] \in Nat
      BY <1>1 DEF TypeOK
    <3>5. QED
      BY <3>3, <3>4 DEF DayFits
  <2>2. CASE cd # NoDay
    BY <1>8, <2>2 DEF IndInv
  <2>3. QED
    BY <2>1, <2>2
<1>10. CASE day.decided /\ Raise(day)
  <2>1. day = cd
    BY <1>8, <1>10
  <2>2. Raise(cd)
    BY <1>10, <2>1
  <2>3. /\ faults' \in 0..MaxFaults /\ journal' \in [Narrative -> Nat] /\ shadowRows' \in Nat
        /\ JournalGrows
    BY <1>1, <1>4, JournalStays DEF TypeOK
  <2>4. RowsRestOnJournal'
    BY <1>4 DEF IndInv, RowsRestOnJournal
  <2>5. QED
    BY <1>4, <2>2, <2>3, <2>4, RaiseKeeps
<1>11. ASSUME NEW next \in DayRecord, cd' = next,
              next.won = day.won, next.managed = day.managed, next.cancelled = day.cancelled,
              next.watching = day.watching, next.tradeable => next.decided,
              next.watching => next.tradeable, next.decided => next.bars # <<>>,
              next.offered = day.offered, next.known = day.known,
              next.scratched = day.scratched,
              \A e : Noted(day, e) => Noted(next, e),
              last' \in 0..Horizon, queue' \in Seq(1..Horizon), feed' \in Seq(Session),
              UNCHANGED <<starting, strays>>,
              \/ pc' = "bar"
              \/ pc' \in {"verdict", "subscribers", "feed"} /\ queue' # <<>>
                 /\ (pc' = "feed" => next.watching) /\ (pc' = "subscribers" => next.tradeable)
       PROVE  IndInv'
  <2>1. TypeOK'
    BY <1>1, <1>4, <1>11 DEF TypeOK, Places
  <2>2. next # NoDay
    BY <1>11, DayIsSet
  <2>3. PlacesFit' /\ pc' \notin Closing
    BY <1>11, <2>2 DEF PlacesFit, Closing, Ending, WithBar, WithDay
  <2>4. DayFits(next)'
    BY <1>4, <1>9, <1>11 DEF DayFits, Noted
  <2>5. WorkingOrdersHeld'
    <3>1. \A u \in Users \ strays, s \in Setups : working[u][s] = day.known[u][s]
      BY <1>1, <1>8 DEF WorkingOrdersHeld
    <3>2. QED
      BY <1>4, <1>11, <2>2, <3>1 DEF WorkingOrdersHeld
  <2>6. RowsRestOnJournal'
    BY <1>4 DEF IndInv, RowsRestOnJournal
  <2>7. QED
    BY <1>11, <2>1, <2>3, <2>4, <2>5, <2>6, MidStep
<1>12. feed \in Seq(Session) /\ day.bars \in Seq(Session) /\ day.events \in Seq(Narrative)
  BY <1>1, <1>8 DEF TypeOK, DayRecord
<1>13. CASE cd' = day /\ BarDone /\ UNCHANGED <<feed, starting, strays>>
  BY <1>7, <1>8, <1>9, <1>11, <1>12, <1>13 DEF DayFits
<1>14. CASE /\ bar \in Session /\ ~day.decided /\ cd' = [day EXCEPT !.bars = bars]
            /\ BarDone /\ UNCHANGED <<feed, starting, strays>>
  <2>1. PICK next : next = [day EXCEPT !.bars = bars]
    OBVIOUS
  <2>2. bars \in Seq(Session)
    BY <1>5, <1>12, <1>14
  <2>3. /\ next \in DayRecord /\ next.won = day.won /\ next.managed = day.managed
        /\ next.cancelled = day.cancelled /\ next.watching = day.watching
        /\ next.tradeable = day.tradeable /\ next.decided = day.decided /\ next.bars = bars
        /\ next.offered = day.offered /\ next.known = day.known
        /\ next.scratched = day.scratched /\ next.events = day.events
    BY <1>8, <2>1, <2>2 DEF DayRecord
  <2>4. \A e : Noted(day, e) => Noted(next, e)
    BY <2>3 DEF Noted
  <2>5. QED
    BY <1>7, <1>9, <1>11, <1>12, <1>14, <2>1, <2>3, <2>4 DEF DayFits
<1>15. ASSUME bar \in Session, ~day.decided, NEW tradeable \in BOOLEAN,
              cd' = [day EXCEPT !.bars = bars, !.decided = TRUE, !.tradeable = tradeable,
                                !.events = IF tradeable THEN Append(@, Event("trend")) ELSE @],
              pc' = (IF tradeable THEN "subscribers" ELSE "verdict"),
              UNCHANGED <<queue, last, feed, starting, strays>>
       PROVE  IndInv'
  <2>1. PICK events : events = IF tradeable THEN Append(day.events, Event("trend")) ELSE day.events
    OBVIOUS
  <2>2. PICK next : next = [day EXCEPT !.bars = bars, !.decided = TRUE, !.tradeable = tradeable,
                                       !.events = events]
    OBVIOUS
  <2>3. cd' = next
    BY <1>15, <2>1, <2>2
  <2>4. bars \in Seq(Session) /\ bars # <<>>
    BY <1>5, <1>12, <1>15
  <2>5. events \in Seq(Narrative)
        /\ \A i \in DOMAIN day.events : i \in DOMAIN events /\ events[i] = day.events[i]
    BY <1>12, <2>1, Told
  <2>6. /\ next \in DayRecord /\ next.won = day.won /\ next.managed = day.managed
        /\ next.cancelled = day.cancelled /\ next.watching = day.watching
        /\ next.decided /\ next.bars = bars /\ next.tradeable = tradeable
        /\ next.offered = day.offered /\ next.known = day.known
        /\ next.scratched = day.scratched /\ next.events = events
    BY <1>8, <2>2, <2>4, <2>5 DEF DayRecord
  <2>7. \A e : Noted(day, e) => Noted(next, e)
    BY <2>5, <2>6 DEF Noted
  <2>8. ~next.watching
    BY <1>9, <1>15, <2>6 DEF DayFits
  <2>9. last' \in 0..Horizon /\ queue' \in Seq(1..Horizon) /\ feed' \in Seq(Session) /\ queue' # <<>>
    BY <1>1, <1>4, <1>15 DEF TypeOK
  <2>10. QED
    BY <1>11, <1>15, <2>3, <2>4, <2>6, <2>7, <2>8, <2>9
<1>16. CASE /\ bar \in Session /\ day.decided /\ day.watching /\ cd' = day
            /\ feed' = <<bar>> /\ pc' = "feed"
            /\ UNCHANGED <<queue, last, starting, strays>>
  <2>1. last' \in 0..Horizon /\ queue' \in Seq(1..Horizon) /\ feed' \in Seq(Session) /\ queue' # <<>>
    BY <1>1, <1>4, <1>16 DEF TypeOK
  <2>2. QED
    BY <1>8, <1>9, <1>11, <1>16, <2>1 DEF DayFits
<1>17. QED
  BY <1>6, <1>10, <1>13, <1>14, <1>15, <1>16

-----------------------------------------------------------------------------
\* A step that leaves the day as it is and writes to the journal.
LEMMA JournalStep ==
  ASSUME IndInv, TypeOK', PlacesFit', pc' \notin Closing, JournalGrows,
         UNCHANGED <<cd, shadowRows, rows, working, strays>>
  PROVE  IndInv'
<1>1. TypeOK /\ (cd # NoDay => DayFits(cd)) /\ WorkingOrdersHeld
  BY DEF IndInv
<1>2. WorkingOrdersHeld'
  BY <1>1 DEF WorkingOrdersHeld
<1>3. PICK day : day = cd
  OBVIOUS
<1>4. journal \in [Narrative -> Nat] /\ journal' \in [Narrative -> Nat]
  BY <1>1 DEF TypeOK
<1>5. ASSUME day # NoDay PROVE DayFits(day)'
  <2>1. day \in DayRecord /\ DayFits(day)
    BY <1>1, <1>3, <1>5 DEF TypeOK
  <2>2. \A u \in Users, s \in Setups : day.known[u][s] <= working'[u][s]
    BY <2>1 DEF DayFits
  <2>3. QED
    BY <1>4, <2>1, <2>2, DayStays
<1>6. RowsRestOnJournal'
  BY <1>4, RowsRestStay
<1>7. QED
  BY <1>2, <1>3, <1>5, <1>6, MidStep

\* A failed commit: the events are in the table or not, and the exception is raised.
LEMMA FailedCommit ==
  ASSUME IndInv, Fault, Raise(cd), NEW events \in Seq(Narrative),
         journal' \in {journal, Journaled(events)},
         UNCHANGED <<now, trend, shadowRows, rows, working, crashes, gateFed, rowsLost>>
  PROVE  IndInv'
<1>1. TypeOK
  BY DEF IndInv
<1>2. journal \in [Narrative -> Nat] /\ shadowRows' \in Nat
  BY <1>1 DEF TypeOK
<1>3. journal' \in [Narrative -> Nat] /\ JournalGrows
  <2>1. CASE journal' = journal
    BY <1>1, <1>2, <2>1, JournalStays
  <2>2. CASE journal' = Journaled(events)
    BY <1>2, <2>2, JournaledIs
  <2>3. QED
    BY <2>1, <2>2
<1>4. RowsRestOnJournal'
  BY <1>3, RowsRestStay
<1>5. faults' \in 0..MaxFaults
  BY <1>1, FaultIs
<1>6. QED
  BY <1>2, <1>3, <1>4, <1>5, RaiseKeeps

\* The verdict on a day that is skipped.
LEMMA CommitVerdictKeeps == IndInv /\ CommitVerdict => IndInv'
<1> SUFFICES ASSUME IndInv, CommitVerdict PROVE IndInv'
  OBVIOUS
<1>1. TypeOK /\ PlacesFit
  BY DEF IndInv
<1>a. <<Event("skipped")>> \in Seq(Narrative)
  BY Told, OneInSeq
<1>2. PICK events \in Seq(Narrative) : events = <<Event("skipped")>>
  BY <1>a
<1>3. /\ pc = "verdict" /\ UNCHANGED <<now, trend, shadowRows, rows, working, crashes, gateFed, rowsLost>>
      /\ \/ /\ journal' = Journaled(events) /\ BarDone
            /\ UNCHANGED <<cd, starting, feed, todo, faults, strays>>
         \/ Fault /\ journal' \in {journal, Journaled(events)} /\ Raise(cd)
  BY <1>2 DEF CommitVerdict
<1>4. CASE /\ journal' = Journaled(events) /\ BarDone
           /\ UNCHANGED <<cd, starting, feed, todo, faults, strays>>
  <2>1. queue # <<>>
    <3>1. pc \in WithBar
      BY <1>3 DEF WithBar, WithDay, Places
    <3>2. QED
      BY <1>1, <3>1 DEF PlacesFit
  <2>2. last' \in 0..Horizon /\ queue' \in Seq(1..Horizon) /\ pc' = "bar"
    BY <1>1, <1>4, <2>1, BarDoneIs
  <2>3. journal' \in [Narrative -> Nat] /\ JournalGrows
    BY <1>1, <1>4, JournaledIs DEF TypeOK
  <2>4. TypeOK'
    BY <1>1, <1>3, <1>4, <2>2, <2>3 DEF TypeOK, Places
  <2>5. PlacesFit' /\ pc' \notin Closing
    BY <2>2 DEF PlacesFit, Closing, Ending, WithBar, WithDay
  <2>6. QED
    BY <1>3, <1>4, <2>3, <2>4, <2>5, JournalStep
<1>5. CASE Fault /\ journal' \in {journal, Journaled(events)} /\ Raise(cd)
  BY <1>3, <1>5, FailedCommit
<1>6. QED
  BY <1>3, <1>4, <1>5

\* A step to another record of the same day, the tables as they are.
LEMMA DayStep ==
  ASSUME IndInv, TypeOK', PlacesFit', pc' \notin Closing, UNCHANGED <<journal, shadowRows, rows>>,
         NEW next \in DayRecord, cd' = next, DayFits(next)', WorkingOrdersHeld'
  PROVE  IndInv'
<1>1. RowsRestOnJournal'
  BY DEF IndInv, RowsRestOnJournal
<1>2. QED
  BY <1>1, MidStep

\* The OrderManagers and the orchestrator of the day.
LEMMA ConstructDayKeeps == IndInv /\ ConstructDay => IndInv'
<1> SUFFICES ASSUME IndInv, ConstructDay PROVE IndInv'
  OBVIOUS
<1>1. TypeOK /\ PlacesFit /\ WorkingOrdersHeld
  BY DEF IndInv
<1>2. /\ pc = "subscribers"
      /\ UNCHANGED <<now, trend, journal, shadowRows, rows, working, crashes, gateFed, rowsLost>>
      /\ \/ /\ cd' = [cd EXCEPT !.managed = Users, !.watching = TRUE]
            /\ feed' = cd.bars /\ pc' = "feed"
            /\ UNCHANGED <<starting, last, queue, todo, faults, strays>>
         \/ Fault /\ Raise(cd)
  BY DEF ConstructDay, dbVars
<1>3. cd # NoDay /\ queue # <<>>
  BY <1>1, <1>2 DEF PlacesFit, WithBar, WithDay, Places
<1>4. PICK day \in DayRecord : day = cd /\ DayFits(day)
  BY <1>1, <1>3 DEF IndInv, TypeOK
<1>5. CASE Fault /\ Raise(cd)
  <2>1. <<>> \in Seq(Narrative) /\ journal' = journal
    BY <1>2
  <2>2. QED
    BY <1>2, <1>5, <2>1, FailedCommit
<1>6. CASE /\ cd' = [cd EXCEPT !.managed = Users, !.watching = TRUE]
           /\ feed' = cd.bars /\ pc' = "feed"
           /\ UNCHANGED <<starting, last, queue, todo, faults, strays>>
  <2>1. PICK next : next = [day EXCEPT !.managed = Users, !.watching = TRUE]
    OBVIOUS
  <2>2. /\ next \in DayRecord /\ next.won = day.won /\ next.managed = Users
        /\ next.cancelled = day.cancelled /\ next.watching
        /\ next.tradeable = day.tradeable /\ next.decided = day.decided /\ next.bars = day.bars
        /\ next.offered = day.offered /\ next.known = day.known
        /\ next.scratched = day.scratched /\ next.events = day.events
    BY <2>1 DEF DayRecord
  <2>3. cd' = next /\ next # NoDay
    BY <1>4, <1>6, <2>1, <2>2, DayIsSet
  <2>4. TypeOK'
    BY <1>1, <1>2, <1>4, <1>6, <2>2, <2>3 DEF TypeOK, Places, DayRecord
  <2>5. PlacesFit' /\ pc' \notin Closing
    BY <1>3, <1>6, <2>2, <2>3 DEF PlacesFit, Closing, Ending, WithBar, WithDay
  <2>6. day.tradeable
    BY <1>1, <1>2, <1>4 DEF PlacesFit
  <2>7. DayFits(next)'
    <3>1. \A e : Noted(day, e) => Noted(next, e)'
      BY <1>2, <2>2 DEF Noted
    <3>2. \A u \in Users, s \in Setups : next.known[u][s] <= working'[u][s]
      BY <1>2, <1>4, <2>2 DEF DayFits
    <3>3. next.won \subseteq Users /\ next.cancelled \subseteq Users
      BY <2>2 DEF DayRecord
    <3>4. QED
      BY <1>4, <2>2, <2>6, <3>1, <3>2, <3>3 DEF DayFits
  <2>8. WorkingOrdersHeld'
    BY <1>1, <1>2, <1>3, <1>4, <1>6, <2>2, <2>3 DEF WorkingOrdersHeld
  <2>9. QED
    BY <1>2, <2>2, <2>3, <2>4, <2>5, <2>7, <2>8, DayStep
<1>7. QED
  BY <1>2, <1>5, <1>6

\* A bar of the orchestrator's: an offer is noted.
LEMMA FeedBarKeeps == IndInv /\ FeedBar => IndInv'
<1> SUFFICES ASSUME IndInv, FeedBar PROVE IndInv'
  OBVIOUS
<1>1. TypeOK /\ PlacesFit /\ WorkingOrdersHeld
  BY DEF IndInv
<1>2. PICK bar : bar = Head(feed)
  OBVIOUS
<1>3. /\ pc = "feed" /\ feed # <<>>
      /\ UNCHANGED <<now, trend, last, starting, queue, journal, shadowRows, rows, working,
                     faults, crashes, gateFed, rowsLost, strays>>
  BY DEF FeedBar, dbVars, budgetVars, history
<1>4. PICK offers \in BOOLEAN :
        /\ offers => bar \in Setups
        /\ cd' = [cd EXCEPT
                     !.fed[bar] = @ + 1,
                     !.offered = IF offers THEN @ \cup {bar} ELSE @,
                     !.events = IF offers THEN Append(@, Offered(bar)) ELSE @]
        /\ todo' = IF offers THEN cd.managed \ cd.won ELSE {}
        /\ IF offers THEN pc' = "place" /\ UNCHANGED feed
                     ELSE feed' = Tail(feed) /\ UNCHANGED pc
  BY <1>2 DEF FeedBar
<1>5. cd # NoDay /\ queue # <<>> /\ cd.watching
  <2>1. pc \in WithDay /\ pc \in WithBar
    BY <1>3 DEF WithBar, WithDay, Places
  <2>2. QED
    BY <1>1, <1>3, <2>1 DEF PlacesFit
<1>6. PICK day \in DayRecord : day = cd /\ DayFits(day)
  BY <1>1, <1>5 DEF IndInv, TypeOK
<1>7. bar \in Session /\ feed \in Seq(Session) /\ Tail(feed) \in Seq(Session)
  <2>1. feed \in Seq(Session)
    BY <1>1 DEF TypeOK
  <2>2. QED
    BY <1>2, <1>3, <2>1, HeadTail
<1>8. PICK events : events = IF offers THEN Append(day.events, Offered(bar)) ELSE day.events
  OBVIOUS
<1>9. PICK offered : offered = IF offers THEN day.offered \cup {bar} ELSE day.offered
  OBVIOUS
<1>10. PICK fed : fed = [day.fed EXCEPT ![bar] = @ + 1]
  OBVIOUS
<1>11. day.events \in Seq(Narrative) /\ day.offered \subseteq Setups /\ day.fed \in [Session -> Nat]
       /\ day.managed \subseteq Users
  BY DEF DayRecord
<1>12. /\ events \in Seq(Narrative) /\ fed \in [Session -> Nat] /\ offered \subseteq Setups
       /\ \A i \in DOMAIN day.events : i \in DOMAIN events /\ events[i] = day.events[i]
       /\ offers => \E i \in DOMAIN events : events[i] = Offered(bar)
  <2>1. CASE offers
    <3>1. Offered(bar) \in Narrative
      BY <1>4, <2>1, Told
    <3>2. events = Append(day.events, Offered(bar))
      BY <1>8, <2>1
    <3>3. /\ events \in Seq(Narrative) /\ Len(day.events) + 1 \in DOMAIN events
          /\ events[Len(day.events) + 1] = Offered(bar)
          /\ \A i \in DOMAIN day.events : i \in DOMAIN events /\ events[i] = day.events[i]
      BY <1>11, <3>1, <3>2
    <3>4. offered \subseteq Setups /\ fed \in [Session -> Nat]
      BY <1>4, <1>7, <1>9, <1>10, <1>11, <2>1
    <3>5. QED
      BY <3>3, <3>4
  <2>2. CASE ~offers
    BY <1>7, <1>8, <1>9, <1>10, <1>11, <2>2
  <2>3. QED
    BY <2>1, <2>2
<1>13. PICK next : next = [day EXCEPT !.fed = fed, !.offered = offered, !.events = events]
  OBVIOUS
<1>14. cd' = next
  <2>1. cd' = [day EXCEPT !.fed = [day.fed EXCEPT ![bar] = @ + 1],
                  !.offered = IF offers THEN day.offered \cup {bar} ELSE day.offered,
                  !.events = IF offers THEN Append(day.events, Offered(bar)) ELSE day.events]
    BY <1>4, <1>6
  <2>2. QED
    BY <1>8, <1>9, <1>10, <1>13, <2>1
<1>15. /\ next \in DayRecord /\ next.won = day.won /\ next.managed = day.managed
       /\ next.cancelled = day.cancelled /\ next.watching = day.watching
       /\ next.tradeable = day.tradeable /\ next.decided = day.decided /\ next.bars = day.bars
       /\ next.offered = offered /\ next.known = day.known
       /\ next.scratched = day.scratched /\ next.events = events
  BY <1>12, <1>13 DEF DayRecord
<1>16. next # NoDay
  BY <1>15, DayIsSet
<1>17. /\ feed' \in Seq(Session) /\ todo' \subseteq Users /\ pc' \in {"place", "feed"}
       /\ pc' = "place" => feed' # <<>> /\ Head(feed') \in Setups
  <2>1. CASE offers
    BY <1>2, <1>3, <1>4, <1>6, <1>7, <1>11, <2>1
  <2>2. CASE ~offers
    BY <1>3, <1>4, <1>7, <2>2
  <2>3. QED
    BY <2>1, <2>2
<1>18. TypeOK'
  BY <1>1, <1>3, <1>14, <1>15, <1>17 DEF TypeOK, Places
<1>19. PlacesFit' /\ pc' \notin Closing
  BY <1>3, <1>5, <1>6, <1>14, <1>15, <1>16, <1>17 DEF PlacesFit, Closing, Ending, WithBar, WithDay
<1>20. DayFits(next)'
  <2>1. \A e : Noted(day, e) => Noted(next, e)'
    BY <1>3, <1>12, <1>15 DEF Noted
  <2>2. \A s \in offered : Noted(next, Offered(s))'
    <3>1. offers => Noted(next, Offered(bar))'
      BY <1>12, <1>15 DEF Noted
    <3>2. \A s \in day.offered : Noted(next, Offered(s))'
      BY <1>6, <2>1 DEF DayFits
    <3>3. QED
      BY <1>9, <3>1, <3>2
  <2>3. QED
    BY <1>3, <1>5, <1>6, <1>15, <2>1, <2>2 DEF DayFits
<1>21. WorkingOrdersHeld'
  BY <1>1, <1>3, <1>5, <1>6, <1>14, <1>15, <1>16 DEF WorkingOrdersHeld
<1>22. QED
  BY <1>3, <1>14, <1>15, <1>18, <1>19, <1>20, <1>21, DayStep

\* An order for one subscriber: placed, refused, or placed with its reply lost.
LEMMA PlaceOrderKeeps ==
  ASSUME IndInv, NEW u \in Users, PlaceOrder(u)
  PROVE  IndInv'
<1>1. TypeOK /\ PlacesFit /\ WorkingOrdersHeld
  BY DEF IndInv
<1>2. PICK setup : setup = Head(feed)
  OBVIOUS
<1>3. /\ pc = "place" /\ pc' = "place" /\ todo' = todo \ {u}
      /\ UNCHANGED <<now, trend, last, starting, queue, feed, journal, shadowRows, rows,
                     crashes, gateFed, rowsLost>>
  BY DEF PlaceOrder, dbVars
<1>4. cd # NoDay /\ queue # <<>> /\ cd.watching /\ feed # <<>> /\ setup \in Setups
  <2>1. pc \in WithDay /\ pc \in WithBar
    BY <1>3 DEF WithBar, WithDay, Places
  <2>2. QED
    BY <1>1, <1>2, <1>3, <2>1 DEF PlacesFit
<1>5. PICK day \in DayRecord : day = cd /\ DayFits(day)
  BY <1>1, <1>4 DEF IndInv, TypeOK
<1>6. PICK known : known \in {day.known, [day.known EXCEPT ![u][setup] = @ + 1]}
        /\ cd' = [day EXCEPT !.known = known, !.orders = TRUE]
        /\ \/ /\ known = [day.known EXCEPT ![u][setup] = @ + 1]
              /\ working' = [working EXCEPT ![u][setup] = @ + 1]
              /\ UNCHANGED <<faults, strays>>
           \/ known = day.known /\ Fault /\ UNCHANGED <<working, strays>>
           \/ /\ known = day.known /\ Fault
              /\ working' = [working EXCEPT ![u][setup] = @ + 1]
              /\ strays' = strays \cup {u}
  <2>1. \/ /\ working' = [working EXCEPT ![u][setup] = @ + 1]
           /\ cd' = [cd EXCEPT !.known[u][setup] = @ + 1, !.orders = TRUE]
           /\ UNCHANGED <<faults, strays>>
        \/ /\ Fault
           /\ \/ UNCHANGED <<working, strays>>
              \/ /\ working' = [working EXCEPT ![u][setup] = @ + 1]
                 /\ strays' = strays \cup {u}
           /\ cd' = [cd EXCEPT !.orders = TRUE]
    BY <1>2 DEF PlaceOrder
  <2>2. [day EXCEPT !.known = day.known, !.orders = TRUE] = [day EXCEPT !.orders = TRUE]
    BY DEF DayRecord
  <2>3. [day EXCEPT !.known[u][setup] = @ + 1, !.orders = TRUE]
           = [day EXCEPT !.known = [day.known EXCEPT ![u][setup] = @ + 1], !.orders = TRUE]
    OBVIOUS
  <2>4. QED
    BY <1>5, <2>1, <2>2, <2>3
<1>7. /\ day.known \in [Users -> [Setups -> Nat]] /\ known \in [Users -> [Setups -> Nat]]
      /\ working \in [Users -> [Setups -> Nat]] /\ working' \in [Users -> [Setups -> Nat]]
    <2>1. day.known \in [Users -> [Setups -> Nat]] /\ working \in [Users -> [Setups -> Nat]]
    BY <1>1 DEF TypeOK, DayRecord
  <2>2. ASSUME NEW f \in [Users -> [Setups -> Nat]]
        PROVE  [f EXCEPT ![u][setup] = @ + 1] \in [Users -> [Setups -> Nat]]
    BY <1>4, OneMore
  <2>3. known \in [Users -> [Setups -> Nat]]
    <3>1. [day.known EXCEPT ![u][setup] = @ + 1] \in [Users -> [Setups -> Nat]]
      BY <2>1, <2>2
    <3>2. QED
      BY <1>6, <2>1, <3>1, Zenon
  <2>4. working' \in [Users -> [Setups -> Nat]]
    BY <1>6, <2>1, <2>2
  <2>5. QED
    BY <2>1, <2>3, <2>4
<1>8. /\ faults' \in 0..MaxFaults /\ strays' \subseteq Users /\ strays \subseteq strays'
      /\ strays \subseteq Users
  <2>1. Fault \/ UNCHANGED faults
    BY <1>6
  <2>2. QED
    BY <1>1, <1>6, <2>1, FaultIs DEF TypeOK
<1>9. PICK next : next = [day EXCEPT !.known = known, !.orders = TRUE]
  OBVIOUS
<1>10. /\ next \in DayRecord /\ next.won = day.won /\ next.managed = day.managed
       /\ next.cancelled = day.cancelled /\ next.watching = day.watching
       /\ next.tradeable = day.tradeable /\ next.decided = day.decided /\ next.bars = day.bars
       /\ next.offered = day.offered /\ next.known = known
       /\ next.scratched = day.scratched /\ next.events = day.events
  BY <1>7, <1>9 DEF DayRecord
<1>11. cd' = next /\ next # NoDay
  BY <1>6, <1>9, <1>10, DayIsSet
<1>12. TypeOK'
  BY <1>1, <1>3, <1>7, <1>8, <1>10, <1>11 DEF TypeOK
<1>13. PlacesFit' /\ pc' \notin Closing
  BY <1>2, <1>3, <1>4, <1>5, <1>10, <1>11 DEF PlacesFit, Closing, Ending, WithBar, WithDay
<1>14. ASSUME NEW v \in Users, NEW s \in Setups
       PROVE  /\ known[v][s] <= working'[v][s]
              /\ v \notin strays' => working'[v][s] = known[v][s]
  <2>1. /\ day.known[v][s] <= working[v][s] /\ day.known[v][s] \in Nat /\ working[v][s] \in Nat
        /\ v \notin strays => working[v][s] = day.known[v][s]
    BY <1>1, <1>4, <1>5, <1>7 DEF DayFits, WorkingOrdersHeld
  <2>a. ASSUME NEW f \in [Users -> [Setups -> Nat]]
        PROVE  [f EXCEPT ![u][setup] = @ + 1][v][s]
                  = IF v = u /\ s = setup THEN f[v][s] + 1 ELSE f[v][s]
    BY <1>4, OneMore
  <2>2. CASE /\ known = [day.known EXCEPT ![u][setup] = @ + 1]
             /\ working' = [working EXCEPT ![u][setup] = @ + 1]
             /\ UNCHANGED <<faults, strays>>
    <3>1. /\ known[v][s] = IF v = u /\ s = setup THEN day.known[v][s] + 1 ELSE day.known[v][s]
          /\ working'[v][s] = IF v = u /\ s = setup THEN working[v][s] + 1 ELSE working[v][s]
      BY <1>7, <2>2, <2>a
    <3>2. QED
      BY <2>1, <2>2, <3>1
  <2>3. CASE known = day.known /\ Fault /\ UNCHANGED <<working, strays>>
    BY <2>1, <2>3
  <2>4. CASE /\ known = day.known /\ Fault
             /\ working' = [working EXCEPT ![u][setup] = @ + 1]
             /\ strays' = strays \cup {u}
    <3>1. working'[v][s] = IF v = u /\ s = setup THEN working[v][s] + 1 ELSE working[v][s]
      BY <1>7, <2>4, <2>a
    <3>2. QED
      BY <2>1, <2>4, <3>1
  <2>5. QED
    BY <1>6, <2>2, <2>3, <2>4
<1>15. WorkingOrdersHeld'
  BY <1>8, <1>10, <1>11, <1>14 DEF WorkingOrdersHeld
<1>16. DayFits(next)'
  <2>1. \A e : Noted(day, e) => Noted(next, e)'
    BY <1>3, <1>10 DEF Noted
  <2>2. day.managed = Users
    BY <1>4, <1>5 DEF DayFits
  <2>3. QED
    BY <1>3, <1>5, <1>10, <1>14, <2>1, <2>2 DEF DayFits
<1>17. QED
  BY <1>3, <1>10, <1>11, <1>12, <1>13, <1>15, <1>16, DayStep

\* Fills: the winner's siblings are cancelled with it.
LEMMA CheckFillsKeeps == IndInv /\ CheckFills => IndInv'
<1> SUFFICES ASSUME IndInv, CheckFills PROVE IndInv'
  OBVIOUS
<1>1. TypeOK /\ PlacesFit /\ WorkingOrdersHeld
  BY DEF IndInv
<1>2. /\ pc = "fills" /\ pc' = "fillsFlush"
      /\ UNCHANGED <<now, trend, last, starting, queue, feed, todo, journal, shadowRows, rows,
                     faults, crashes, gateFed, rowsLost, strays>>
  BY DEF CheckFills, dbVars, budgetVars, history
<1>3. cd # NoDay
  BY <1>1, <1>2 DEF PlacesFit, WithDay, Places
<1>4. PICK day \in DayRecord : day = cd /\ DayFits(day)
  BY <1>1, <1>3 DEF IndInv, TypeOK
<1>a. PICK filled \in SUBSET {u \in cd.managed \ cd.won : \E s \in Setups : cd.known[u][s] > 0} :
        /\ cd' = [cd EXCEPT
                    !.won = @ \cup filled,
                    !.orders = @ \/ filled # {},
                    !.known = [u \in Users |->
                        IF u \in filled THEN [s \in Setups |-> 0] ELSE @[u]]]
        /\ working' = [u \in Users |-> [s \in Setups |->
              IF u \in filled THEN working[u][s] - cd.known[u][s] ELSE working[u][s]]]
  BY Zenon DEF CheckFills
<1>5. /\ filled \subseteq day.managed \ day.won
      /\ cd' = [day EXCEPT
                  !.won = day.won \cup filled,
                  !.orders = day.orders \/ filled # {},
                  !.known = [u \in Users |->
                      IF u \in filled THEN [s \in Setups |-> 0] ELSE day.known[u]]]
      /\ working' = [u \in Users |-> [s \in Setups |->
            IF u \in filled THEN working[u][s] - day.known[u][s] ELSE working[u][s]]]
  <2>1. filled \subseteq day.managed \ day.won
    BY <1>4
  <2>2. QED
    BY <1>4, <1>a, <2>1, Zenon
<1>6. /\ day.known \in [Users -> [Setups -> Nat]] /\ working \in [Users -> [Setups -> Nat]]
      /\ filled \subseteq Users /\ day.won \subseteq Users /\ day.orders \in BOOLEAN
      /\ \A u \in Users, s \in Setups : /\ day.known[u][s] \in Nat /\ working[u][s] \in Nat
                                       /\ day.known[u][s] <= working[u][s]
  BY <1>1, <1>4 DEF TypeOK, DayRecord, DayFits
<1>7. PICK known : known = [u \in Users |-> IF u \in filled THEN [s \in Setups |-> 0] ELSE day.known[u]]
  OBVIOUS
<1>8. known \in [Users -> [Setups -> Nat]] /\ working' \in [Users -> [Setups -> Nat]]
  <2>1. known \in [Users -> [Setups -> Nat]]
    BY <1>6, <1>7
  <2>2. \A u \in Users, s \in Setups :
           (IF u \in filled THEN working[u][s] - day.known[u][s] ELSE working[u][s]) \in Nat
    BY <1>6
  <2>3. QED
    BY <1>5, <2>1, <2>2
<1>9. PICK won : won = day.won \cup filled
  OBVIOUS
<1>10. PICK orders \in BOOLEAN : orders = (day.orders \/ filled # {})
  OBVIOUS
<1>11. PICK next : next = [day EXCEPT !.won = won, !.orders = orders, !.known = known]
  OBVIOUS
<1>12. cd' = next
  BY <1>5, <1>7, <1>9, <1>10, <1>11
<1>13. /\ next \in DayRecord /\ next.won = won /\ next.managed = day.managed
       /\ next.cancelled = day.cancelled /\ next.watching = day.watching
       /\ next.tradeable = day.tradeable /\ next.decided = day.decided /\ next.bars = day.bars
       /\ next.offered = day.offered /\ next.known = known
       /\ next.scratched = day.scratched /\ next.events = day.events
  <2>1. won \subseteq Users
    BY <1>6, <1>9
  <2>2. QED
    BY <1>8, <1>11, <2>1 DEF DayRecord
<1>14. next # NoDay
  BY <1>13, DayIsSet
<1>15. TypeOK'
  BY <1>1, <1>2, <1>8, <1>12, <1>13 DEF TypeOK, Places
<1>16. PlacesFit' /\ pc' \notin Closing
  BY <1>2, <1>12, <1>14 DEF PlacesFit, Closing, Ending, WithBar, WithDay
<1>17. ASSUME NEW u \in Users, NEW s \in Setups
       PROVE  /\ known[u][s] <= working'[u][s]
              /\ u \notin strays => working'[u][s] = known[u][s]
              /\ u \notin day.managed => known[u][s] = 0
  <2>1. u \notin strays => working[u][s] = day.known[u][s]
    BY <1>1, <1>3, <1>4 DEF WorkingOrdersHeld
  <2>2. u \notin day.managed => day.known[u][s] = 0
    BY <1>4 DEF DayFits
  <2>3. /\ known[u][s] = IF u \in filled THEN 0 ELSE day.known[u][s]
        /\ working'[u][s] = IF u \in filled THEN working[u][s] - day.known[u][s] ELSE working[u][s]
    BY <1>5, <1>7
  <2>4. QED
    BY <1>6, <2>1, <2>2, <2>3
<1>18. WorkingOrdersHeld'
  BY <1>2, <1>12, <1>13, <1>14, <1>17 DEF WorkingOrdersHeld
<1>19. DayFits(next)'
  <2>1. \A e : Noted(day, e) => Noted(next, e)'
    BY <1>2, <1>13 DEF Noted
  <2>2. won \subseteq day.managed
    BY <1>4, <1>9 DEF DayFits
  <2>3. QED
    BY <1>2, <1>4, <1>13, <1>17, <2>1, <2>2 DEF DayFits
<1>20. QED
  BY <1>2, <1>12, <1>13, <1>15, <1>16, <1>18, <1>19, DayStep

\* What the flush leaves of the day: its events are in the journal.
LEMMA FlushedIs ==
  ASSUME IndInv, cd # NoDay, journal' = Journaled(cd.events), UNCHANGED working
  PROVE  \E next \in DayRecord :
            /\ Flushed = next /\ next # NoDay /\ DayFits(next)'
            /\ next.won = cd.won /\ next.managed = cd.managed /\ next.watching = cd.watching
            /\ next.offered = cd.offered /\ next.known = cd.known /\ next.tradeable = cd.tradeable
            /\ next.scratched = cd.scratched
            /\ \A s \in next.offered : journal'[Offered(s)] > 0
            /\ next.scratched => journal'[Event("scratch")] > 0
<1>1. PICK day \in DayRecord : day = cd /\ DayFits(day)
  BY DEF IndInv, TypeOK
<1>2. PICK next : next = [day EXCEPT !.events = <<>>, !.orders = FALSE]
  OBVIOUS
<1>3. Flushed = next
  BY <1>1, <1>2 DEF Flushed
<1>4. /\ next \in DayRecord /\ next.won = day.won /\ next.managed = day.managed
      /\ next.cancelled = day.cancelled /\ next.watching = day.watching
      /\ next.tradeable = day.tradeable /\ next.decided = day.decided /\ next.bars = day.bars
      /\ next.offered = day.offered /\ next.known = day.known
      /\ next.scratched = day.scratched
  <2>1. <<>> \in Seq(Narrative)
    OBVIOUS
  <2>2. QED
    BY <1>2, <2>1 DEF DayRecord
<1>5. journal \in [Narrative -> Nat]
  BY DEF IndInv, TypeOK
<1>6. day.events \in Seq(Narrative) /\ day.offered \subseteq Setups
  BY DEF DayRecord
<1>7. /\ journal' \in [Narrative -> Nat] /\ JournalGrows
      /\ \A i \in DOMAIN day.events : journal'[day.events[i]] > 0
  BY <1>1, <1>5, <1>6, JournaledIs
<1>8. \A e \in Narrative : Noted(day, e) => journal'[e] > 0
  BY <1>5, <1>7 DEF Noted, JournalGrows
<1>9. /\ \A s \in day.offered : journal'[Offered(s)] > 0
      /\ day.scratched => journal'[Event("scratch")] > 0
  BY <1>1, <1>6, <1>8, Told DEF DayFits
<1>10. DayFits(next)'
  BY <1>1, <1>4, <1>9 DEF DayFits, Noted
<1>11. next # NoDay
  BY <1>4, DayIsSet
<1>12. QED
  BY <1>1, <1>3, <1>4, <1>9, <1>10, <1>11

\* Where a flush returns to.
LEMMA AfterFlushIs ==
  /\ DOMAIN AfterFlush = {"fillsFlush", "closeFlush", "cancelFlush"}
  /\ AfterFlush["fillsFlush"] = "idle" /\ AfterFlush["cancelFlush"] = "gate"
  /\ AfterFlush["closeFlush"] = IF cd # NoDay /\ cd.watching /\ cd.offered \cap Fills # {}
                                THEN "shadowRow" ELSE "cancel"
BY DEF AfterFlush

\* The flush of a bar, of a poll's fills, and the two of the day's end.
LEMMA FlushNewEventsKeeps == IndInv /\ FlushNewEvents => IndInv'
<1> SUFFICES ASSUME IndInv, FlushNewEvents PROVE IndInv'
  OBVIOUS
<1>1. TypeOK /\ PlacesFit /\ WorkingOrdersHeld /\ EndFits
  BY DEF IndInv
<1>2. /\ pc \in {"flush", "fillsFlush", "closeFlush", "cancelFlush"}
      /\ UNCHANGED <<now, trend, shadowRows, rows, working, crashes, gateFed, rowsLost>>
      /\ \/ /\ journal' = Journaled(cd.events) /\ cd' = Flushed
            /\ IF pc = "flush" THEN BarDone
               ELSE pc' = AfterFlush[pc] /\ UNCHANGED <<last, queue>>
            /\ todo' = IF pc' = "cancel" THEN cd.managed ELSE {}
            /\ UNCHANGED <<starting, feed, faults, strays>>
         \/ Fault /\ journal' \in {journal, Journaled(cd.events)} /\ Raise(cd)
  BY AfterFlushIs DEF FlushNewEvents
<1>3. cd # NoDay /\ (pc # "fillsFlush" => queue # <<>>)
  <2>1. pc \in WithDay /\ (pc # "fillsFlush" => pc \in WithBar)
    BY <1>2 DEF WithBar, WithDay, Places
  <2>2. QED
    BY <1>1, <2>1 DEF PlacesFit
<1>4. PICK day \in DayRecord : day = cd /\ DayFits(day)
  BY <1>1, <1>3 DEF IndInv, TypeOK
<1>5. CASE Fault /\ journal' \in {journal, Journaled(cd.events)} /\ Raise(cd)
  <2>1. cd.events \in Seq(Narrative)
    BY <1>4 DEF DayRecord
  <2>2. QED
    BY <1>2, <1>5, <2>1, FailedCommit
<1>6. ASSUME journal' = Journaled(cd.events), cd' = Flushed,
             IF pc = "flush" THEN BarDone
             ELSE pc' = AfterFlush[pc] /\ UNCHANGED <<last, queue>>,
             todo' = IF pc' = "cancel" THEN cd.managed ELSE {},
             UNCHANGED <<starting, feed, faults, strays>>
      PROVE  IndInv'
  <2>1. PICK next \in DayRecord :
            /\ Flushed = next /\ next # NoDay /\ DayFits(next)'
            /\ next.won = cd.won /\ next.managed = cd.managed /\ next.watching = cd.watching
            /\ next.offered = cd.offered /\ next.known = cd.known /\ next.tradeable = cd.tradeable
            /\ next.scratched = cd.scratched
            /\ \A s \in next.offered : journal'[Offered(s)] > 0
            /\ next.scratched => journal'[Event("scratch")] > 0
    BY <1>2, <1>3, <1>6, FlushedIs
  <2>2. /\ last' \in 0..Horizon /\ queue' \in Seq(1..Horizon)
        /\ \/ pc = "flush" /\ pc' = "bar"
           \/ pc = "fillsFlush" /\ pc' = "idle"
           \/ /\ pc = "closeFlush" /\ UNCHANGED queue
              /\ pc' = IF cd.watching /\ cd.offered \cap Fills # {} THEN "shadowRow" ELSE "cancel"
           \/ pc = "cancelFlush" /\ pc' = "gate" /\ UNCHANGED queue
    <3>1. CASE pc = "flush"
      BY <1>1, <1>3, <1>6, <3>1, BarDoneIs
    <3>2. CASE pc # "flush"
      BY <1>1, <1>2, <1>3, <1>6, <3>2, AfterFlushIs DEF TypeOK
    <3>3. QED
      BY <3>1, <3>2
  <2>3. journal' \in [Narrative -> Nat] /\ JournalGrows
    <3>1. day.events \in Seq(Narrative) /\ journal \in [Narrative -> Nat]
      BY <1>1 DEF TypeOK, DayRecord
    <3>2. QED
      BY <1>4, <1>6, <3>1, JournaledIs
  <2>4. todo' \subseteq Users /\ cd.managed \subseteq Users
    BY <1>4, <1>6 DEF DayRecord
  <2>5. TypeOK'
    BY <1>1, <1>2, <1>6, <2>1, <2>2, <2>3, <2>4 DEF TypeOK, Places
  <2>6. PlacesFit'
    BY <1>2, <1>3, <1>6, <2>1, <2>2 DEF PlacesFit, WithBar, WithDay
  <2>7. RowsRestOnJournal'
    BY <1>2, <2>3, RowsRestStay
  <2>8. WorkingOrdersHeld'
    BY <1>1, <1>2, <1>3, <1>6, <2>1 DEF WorkingOrdersHeld
  <2>9. CASE pc' \in {"bar", "idle"}
    <3>1. pc' \notin Closing
      BY <2>9 DEF Closing, Ending
    <3>2. QED
      BY <1>6, <2>1, <2>5, <2>6, <2>7, <2>8, <3>1, MidStep
  <2>10. CASE pc = "closeFlush" /\ pc' = "shadowRow"
    <3>1. OnJournal'
      <4>1. PICK s \in Fills : s \in next.offered
        BY <2>1, <2>2, <2>10
      <4>2. next.scratched
        BY <1>1, <2>1, <2>2, <2>10 DEF EndFits, SimulatedTrade
      <4>3. QED
        BY <2>1, <4>1, <4>2 DEF OnJournal
    <3>2. EndFits'
      BY <2>10, <3>1 DEF EndFits, Ending
    <3>3. QED
      BY <1>6, <2>1, <2>5, <2>6, <2>7, <2>8, <3>2 DEF IndInv
  <2>11. CASE pc = "closeFlush" /\ pc' = "cancel"
    <3>1. next.offered \cap Fills = {}
      BY <1>4, <2>1, <2>2, <2>11 DEF DayFits
    <3>2. NoneLeft(Users \ (todo \cup strays))'
      <4>1. \A u \in Users \ cd.managed, s \in Setups : next.known[u][s] = 0
        BY <1>4, <2>1 DEF DayFits
      <4>2. todo' = cd.managed
        BY <1>6, <2>11
      <4>3. QED
        BY <1>6, <2>1, <4>1, <4>2 DEF NoneLeft
    <3>3. EndFits'
      BY <1>6, <2>1, <2>11, <3>1, <3>2 DEF EndFits, Ending, SimulatedTrade
    <3>4. QED
      BY <1>6, <2>1, <2>5, <2>6, <2>7, <2>8, <3>3 DEF IndInv
  <2>12. CASE pc = "cancelFlush" /\ pc' = "gate"
    <3>1. /\ cd.offered \cap Fills # {} => \A u \in cd.won : rows[u] > 0 \/ u \in rowsLost
          /\ NoneLeft(Users \ strays)
      BY <1>1, <2>12 DEF EndFits, Ending, SimulatedTrade
    <3>2. EndFits'
      BY <1>2, <1>6, <2>1, <2>12, <3>1 DEF EndFits, Ending, SimulatedTrade, NoneLeft
    <3>3. QED
      BY <1>6, <2>1, <2>5, <2>6, <2>7, <2>8, <3>2 DEF IndInv
  <2>13. QED
    BY <2>2, <2>9, <2>10, <2>11, <2>12
<1>7. QED
  BY <1>2, <1>5, <1>6

-----------------------------------------------------------------------------
\* A step of the day's end that leaves the day and the journal as they are.
LEMMA EndStep ==
  ASSUME IndInv, TypeOK', PlacesFit', EndFits', RowsRestOnJournal',
         UNCHANGED <<cd, journal, working, strays>>
  PROVE  IndInv'
<1>1. (cd # NoDay => DayFits(cd)) /\ WorkingOrdersHeld
  BY DEF IndInv
<1>2. WorkingOrdersHeld'
  BY <1>1 DEF WorkingOrdersHeld
<1>3. PICK day : day = cd
  OBVIOUS
<1>4. day # NoDay => DayFits(day)'
  BY <1>1, <1>3 DEF DayFits, Noted
<1>5. QED
  BY <1>2, <1>3, <1>4 DEF IndInv

\* The shadow row, on a journal that holds the trade.
LEMMA WriteShadowRowKeeps == IndInv /\ WriteShadowRow => IndInv'
<1> SUFFICES ASSUME IndInv, WriteShadowRow PROVE IndInv'
  OBVIOUS
<1>1. TypeOK /\ PlacesFit /\ EndFits /\ RowsRestOnJournal
  BY DEF IndInv
<1>2. PICK events \in Seq(Narrative) : events = <<Event("shadowFailed")>>
  <2>1. <<Event("shadowFailed")>> \in Seq(Narrative)
    BY Told, OneInSeq
  <2>2. QED
    BY <2>1
<1>3. /\ pc = "shadowRow"
      /\ UNCHANGED <<now, trend, rows, working, crashes, gateFed, rowsLost>>
      /\ \/ /\ shadowRows' = shadowRows + 1
            /\ pc' = "rows" /\ todo' = cd.managed
            /\ UNCHANGED <<cd, last, starting, queue, feed, journal, faults, strays>>
         \/ /\ Fault
            /\ shadowRows' \in {shadowRows, shadowRows + 1}
            /\ journal' \in {journal, Journaled(events)}
            /\ Raise(cd)
  BY <1>2 DEF WriteShadowRow
<1>4. cd # NoDay /\ queue # <<>>
  <2>1. pc \in WithDay /\ pc \in WithBar
    BY <1>3 DEF WithBar, WithDay, Places
  <2>2. QED
    BY <1>1, <2>1 DEF PlacesFit
<1>5. PICK day \in DayRecord : day = cd /\ DayFits(day)
  BY <1>1, <1>4 DEF IndInv, TypeOK
<1>6. shadowRows \in Nat /\ shadowRows' \in Nat /\ shadowRows <= shadowRows'
  BY <1>1, <1>3 DEF TypeOK
<1>7. OnJournal
  BY <1>1, <1>3 DEF EndFits
<1>8. journal' \in [Narrative -> Nat] /\ JournalGrows
  <2>1. CASE journal' = journal
    BY <1>1, <2>1, JournalStays DEF TypeOK
  <2>2. CASE journal' = Journaled(events)
    BY <1>1, <2>2, JournaledIs DEF TypeOK
  <2>3. QED
    BY <1>3, <2>1, <2>2
<1>9. RowsRestOnJournal'
  <2>1. OnJournal'
    <3>1. \A e \in Narrative : journal[e] > 0 => journal'[e] > 0
      BY <1>1, <1>8 DEF TypeOK, JournalGrows
    <3>2. QED
      BY <1>7, <3>1, Told, Bars DEF OnJournal
  <2>2. \A u \in Users : rows'[u] > 0 => shadowRows' > 0
    BY <1>1, <1>3, <1>6 DEF RowsRestOnJournal
  <2>3. QED
    BY <2>1, <2>2 DEF OnJournal, RowsRestOnJournal
<1>10. CASE /\ shadowRows' = shadowRows + 1
            /\ pc' = "rows" /\ todo' = cd.managed
            /\ UNCHANGED <<cd, last, starting, queue, feed, journal, faults, strays>>
  <2>1. TypeOK'
    BY <1>1, <1>3, <1>5, <1>6, <1>10 DEF TypeOK, Places, DayRecord
  <2>2. PlacesFit'
    BY <1>4, <1>10 DEF PlacesFit, WithBar, WithDay
  <2>3. EndFits'
    BY <1>5, <1>6, <1>10 DEF EndFits, Ending, DayFits
  <2>4. QED
    BY <1>3, <1>9, <1>10, <2>1, <2>2, <2>3, EndStep
<1>11. CASE Fault /\ Raise(cd)
  <2>1. faults' \in 0..MaxFaults
    BY <1>1, <1>11, FaultIs
  <2>2. QED
    BY <1>3, <1>6, <1>8, <1>9, <1>11, <2>1, RaiseKeeps
<1>12. QED
  BY <1>3, <1>10, <1>11

\* A subscriber's row, or the note that its write failed.
LEMMA WriteSubscriberRowKeeps ==
  ASSUME IndInv, NEW u \in Users, WriteSubscriberRow(u)
  PROVE  IndInv'
<1>1. TypeOK /\ PlacesFit /\ EndFits /\ RowsRestOnJournal
  BY DEF IndInv
<1>2. /\ pc = "rows" /\ u \in todo /\ todo' = todo \ {u}
      /\ UNCHANGED <<now, trend, cd, last, starting, pc, queue, feed, journal,
                     shadowRows, working, crashes, gateFed, strays>>
      /\ \/ /\ u \in cd.won /\ rows' = [rows EXCEPT ![u] = @ + 1]
            /\ UNCHANGED <<faults, rowsLost>>
         \/ /\ u \in cd.won /\ Fault
            /\ rows' \in {rows, [rows EXCEPT ![u] = @ + 1]}
            /\ rowsLost' = rowsLost \cup {u}
         \/ u \notin cd.won /\ UNCHANGED <<rows, faults, rowsLost>>
  BY DEF WriteSubscriberRow
<1>3. rows \in [Users -> Nat] /\ rowsLost \subseteq Users
  BY <1>1 DEF TypeOK
<1>4. rows' \in {rows, [rows EXCEPT ![u] = @ + 1]}
  BY <1>2
<1>5. rows' \in [Users -> Nat] /\ \A v \in Users : rows'[v] \in Nat /\ rows[v] <= rows'[v]
  BY <1>3, <1>4
<1>6. rowsLost' \subseteq Users /\ rowsLost \subseteq rowsLost'
  BY <1>2, <1>3
<1>7. faults' \in 0..MaxFaults
  <2>1. Fault \/ UNCHANGED faults
    BY <1>2
  <2>2. QED
    BY <1>1, <2>1, FaultIs
<1>8. TypeOK'
  BY <1>1, <1>2, <1>5, <1>6, <1>7 DEF TypeOK
<1>9. PlacesFit'
  BY <1>1, <1>2 DEF PlacesFit
<1>10. cd \in DayRecord
  <2>1. pc \in WithDay
    BY <1>2 DEF WithDay, Places
  <2>2. QED
    BY <1>1, <2>1 DEF PlacesFit, TypeOK
<1>11. shadowRows > 0 /\ \A v \in cd.won \ todo : rows[v] > 0 \/ v \in rowsLost
  BY <1>1, <1>2 DEF EndFits
<1>12. \A v \in cd.won \ todo' : rows'[v] > 0 \/ v \in rowsLost'
  <2>1. SUFFICES ASSUME NEW v \in cd.won, v \notin todo' PROVE rows'[v] > 0 \/ v \in rowsLost'
    OBVIOUS
  <2>2. CASE v = u
    BY <1>2, <1>3, <2>1, <2>2
  <2>3. CASE v # u
    <3>1. v \in Users /\ (rows[v] > 0 \/ v \in rowsLost)
      BY <1>2, <1>10, <1>11, <2>1, <2>3 DEF DayRecord
    <3>2. QED
      BY <1>3, <1>5, <1>6, <3>1
  <2>4. QED
    BY <2>2, <2>3
<1>13. EndFits'
  BY <1>2, <1>11, <1>12 DEF EndFits, Ending
<1>14. RowsRestOnJournal'
  BY <1>1, <1>2, <1>11 DEF RowsRestOnJournal
<1>15. QED
  BY <1>2, <1>8, <1>9, <1>13, <1>14, EndStep

\* Every subscriber's row was tried: the rows of the winners are there, or told lost.
LEMMA RowsWrittenKeeps == IndInv /\ RowsWritten => IndInv'
<1> SUFFICES ASSUME IndInv, RowsWritten PROVE IndInv'
  OBVIOUS
<1>1. TypeOK /\ PlacesFit /\ EndFits /\ RowsRestOnJournal
  BY DEF IndInv
<1>2. /\ pc = "rows" /\ todo = {} /\ pc' = "cancel" /\ todo' = cd.managed
      /\ UNCHANGED <<now, trend, cd, last, starting, queue, feed, journal, shadowRows, rows,
                     working, faults, crashes, gateFed, rowsLost, strays>>
  BY DEF RowsWritten, dbVars, budgetVars, history
<1>3. cd # NoDay /\ queue # <<>>
  <2>1. pc \in WithDay /\ pc \in WithBar
    BY <1>2 DEF WithBar, WithDay, Places
  <2>2. QED
    BY <1>1, <2>1 DEF PlacesFit
<1>4. cd \in DayRecord /\ DayFits(cd)
  BY <1>1, <1>3 DEF IndInv, TypeOK
<1>5. TypeOK'
  BY <1>1, <1>2, <1>4 DEF TypeOK, Places, DayRecord
<1>6. PlacesFit'
  BY <1>2, <1>3 DEF PlacesFit, WithBar, WithDay
<1>7. EndFits'
  <2>1. \A u \in cd.won : rows[u] > 0 \/ u \in rowsLost
    BY <1>1, <1>2 DEF EndFits
  <2>2. NoneLeft(Users \ (cd.managed \cup strays))
    BY <1>4 DEF DayFits, NoneLeft
  <2>3. QED
    BY <1>2, <2>1, <2>2 DEF EndFits, Ending, NoneLeft
<1>8. RowsRestOnJournal'
  BY <1>1, <1>2 DEF RowsRestOnJournal
<1>9. QED
  BY <1>2, <1>5, <1>6, <1>7, <1>8, EndStep

\* An OrderManager cancels its orders: what it could not cancel makes it a stray.
LEMMA CancelAtDayEndKeeps ==
  ASSUME IndInv, NEW u \in Users, CancelAtDayEnd(u)
  PROVE  IndInv'
<1>1. TypeOK /\ PlacesFit /\ EndFits /\ RowsRestOnJournal /\ WorkingOrdersHeld
  BY DEF IndInv
<1>2. /\ pc = "cancel" /\ pc' = "cancel" /\ u \in todo /\ todo' = todo \ {u}
      /\ UNCHANGED <<now, trend, last, starting, queue, feed, journal, shadowRows, rows,
                     crashes, gateFed, rowsLost>>
  BY DEF CancelAtDayEnd, dbVars
<1>3. cd # NoDay /\ queue # <<>>
  <2>1. pc \in WithDay /\ pc \in WithBar
    BY <1>2 DEF WithBar, WithDay, Places
  <2>2. QED
    BY <1>1, <2>1 DEF PlacesFit
<1>4. PICK day \in DayRecord : day = cd /\ DayFits(day)
  BY <1>1, <1>3 DEF IndInv, TypeOK
<1>5. PICK pending : pending = {s \in Setups : cd.known[u][s] > 0}
  OBVIOUS
<1>b. PICK failed \in {{}} \cup {{s} : s \in {t \in Setups : cd.known[u][t] > 0}} :
         /\ IF failed = {} THEN UNCHANGED <<faults, strays>>
            ELSE Fault /\ strays' = strays \cup {u}
         /\ working' = [working EXCEPT ![u] = [s \in Setups |->
               IF s \in {t \in Setups : cd.known[u][t] > 0} \ failed
               THEN @[s] - cd.known[u][s] ELSE @[s]]]
         /\ cd' = [cd EXCEPT
               !.known[u] = [s \in Setups |-> IF s \in failed THEN @[s] ELSE 0],
               !.cancelled = IF {s \in Setups : cd.known[u][s] > 0} = {} THEN @ ELSE @ \cup {u},
               !.orders = @ \/ {s \in Setups : cd.known[u][s] > 0} # {} \/ u \in cd.cancelled]
  BY Zenon DEF CancelAtDayEnd
<1>a. /\ failed \in {{}} \cup {{s} : s \in pending}
      /\ IF failed = {} THEN UNCHANGED <<faults, strays>>
            ELSE Fault /\ strays' = strays \cup {u}
      /\ working' = [working EXCEPT ![u] = [s \in Setups |->
               IF s \in pending \ failed THEN @[s] - cd.known[u][s] ELSE @[s]]]
      /\ cd' = [cd EXCEPT
               !.known[u] = [s \in Setups |-> IF s \in failed THEN @[s] ELSE 0],
               !.cancelled = IF pending = {} THEN @ ELSE @ \cup {u},
               !.orders = @ \/ pending # {} \/ u \in cd.cancelled]
  BY <1>5, <1>b, Zenon
<1>6. /\ IF failed = {} THEN UNCHANGED <<faults, strays>>
         ELSE Fault /\ strays' = strays \cup {u}
      /\ working' = [working EXCEPT ![u] = [s \in Setups |->
            IF s \in pending \ failed THEN working[u][s] - day.known[u][s] ELSE working[u][s]]]
      /\ cd' = [day EXCEPT
            !.known = [day.known EXCEPT ![u] = [s \in Setups |-> IF s \in failed THEN day.known[u][s] ELSE 0]],
            !.cancelled = IF pending = {} THEN day.cancelled ELSE day.cancelled \cup {u},
            !.orders = day.orders \/ pending # {} \/ u \in day.cancelled]
  BY <1>4, <1>a, Zenon
<1>7. /\ day.known \in [Users -> [Setups -> Nat]] /\ working \in [Users -> [Setups -> Nat]]
      /\ day.orders \in BOOLEAN /\ day.cancelled \subseteq Users
      /\ \A v \in Users, s \in Setups : /\ day.known[v][s] \in Nat /\ working[v][s] \in Nat
                                       /\ day.known[v][s] <= working[v][s]
  BY <1>1, <1>4 DEF TypeOK, DayRecord, DayFits
<1>8. failed \subseteq pending /\ pending \subseteq Setups
  BY <1>5, <1>a
<1>9. PICK left : left = [s \in Setups |-> IF s \in failed THEN day.known[u][s] ELSE 0]
  OBVIOUS
<1>10. PICK known : known = [day.known EXCEPT ![u] = left]
  OBVIOUS
<1>11. PICK cancelled : cancelled = IF pending = {} THEN day.cancelled ELSE day.cancelled \cup {u}
  OBVIOUS
<1>12. PICK orders \in BOOLEAN : orders = (day.orders \/ pending # {} \/ u \in day.cancelled)
  OBVIOUS
<1>13. PICK next : next = [day EXCEPT !.known = known, !.cancelled = cancelled, !.orders = orders]
  OBVIOUS
<1>14. cd' = next
  BY <1>6, <1>9, <1>10, <1>11, <1>12, <1>13
<1>15. /\ known \in [Users -> [Setups -> Nat]]
       /\ \A v \in Users, s \in Setups :
             known[v][s] = IF v # u \/ s \in failed THEN day.known[v][s] ELSE 0
  <2>1. left \in [Setups -> Nat] /\ \A s \in Setups : left[s] = IF s \in failed THEN day.known[u][s] ELSE 0
    BY <1>7, <1>9
  <2>2. QED
    BY <1>7, <1>10, <2>1
<1>16. /\ working' \in [Users -> [Setups -> Nat]]
       /\ \A v \in Users, s \in Setups :
             working'[v][s] = IF v = u /\ s \in pending \ failed THEN working[v][s] - day.known[v][s]
                                                               ELSE working[v][s]
  <2>1. PICK g : g = [s \in Setups |->
                        IF s \in pending \ failed THEN working[u][s] - day.known[u][s] ELSE working[u][s]]
    OBVIOUS
  <2>2. g \in [Setups -> Nat]
        /\ \A s \in Setups : g[s] = IF s \in pending \ failed THEN working[u][s] - day.known[u][s]
                                                            ELSE working[u][s]
    BY <1>7, <2>1
  <2>3. working' = [working EXCEPT ![u] = g]
    BY <1>6, <2>1
  <2>4. QED
    BY <1>7, <2>2, <2>3
<1>17. /\ next \in DayRecord /\ next.won = day.won /\ next.managed = day.managed
       /\ next.cancelled = cancelled /\ next.watching = day.watching
       /\ next.tradeable = day.tradeable /\ next.decided = day.decided /\ next.bars = day.bars
       /\ next.offered = day.offered /\ next.known = known
       /\ next.scratched = day.scratched /\ next.events = day.events
  <2>1. cancelled \subseteq Users
    BY <1>7, <1>11
  <2>2. QED
    BY <1>13, <1>15, <2>1 DEF DayRecord
<1>18. next # NoDay
  BY <1>17, DayIsSet
<1>19. /\ faults' \in 0..MaxFaults /\ strays' \subseteq Users /\ strays \subseteq strays'
       /\ failed # {} => u \in strays'
  <2>1. Fault \/ UNCHANGED faults
    BY <1>6
  <2>2. QED
    BY <1>1, <1>6, <2>1, FaultIs DEF TypeOK
<1>20. TypeOK'
  BY <1>1, <1>2, <1>14, <1>16, <1>17, <1>19 DEF TypeOK
<1>21. PlacesFit'
  BY <1>2, <1>3, <1>14, <1>18 DEF PlacesFit
<1>22. \A v \in Users, s \in Setups :
         /\ known[v][s] <= working'[v][s]
         /\ v \notin strays' => working'[v][s] = known[v][s]
         /\ v \notin day.managed => known[v][s] = 0
  <2>1. SUFFICES ASSUME NEW v \in Users, NEW s \in Setups
                 PROVE  /\ known[v][s] <= working'[v][s]
                        /\ v \notin strays' => working'[v][s] = known[v][s]
                        /\ v \notin day.managed => known[v][s] = 0
    OBVIOUS
  <2>2. /\ v \notin strays => working[v][s] = day.known[v][s]
        /\ s \in failed => s \in pending
        /\ v \notin day.managed => day.known[v][s] = 0
        /\ s \in pending <=> day.known[u][s] > 0
    BY <1>1, <1>3, <1>4, <1>5, <1>8 DEF WorkingOrdersHeld, DayFits
  <2>3. QED
    BY <1>7, <1>15, <1>16, <1>19, <2>2
<1>23. WorkingOrdersHeld'
  <2>1. SUFFICES ASSUME NEW v \in Users, v \notin strays', NEW s \in Setups
                 PROVE  working'[v][s] = known[v][s]
    BY <1>14, <1>17, <1>18 DEF WorkingOrdersHeld
  <2>2. QED
    BY <1>22, <2>1
<1>24. DayFits(next)'
  <2>1. \A e : Noted(day, e) => Noted(next, e)'
    BY <1>2, <1>17 DEF Noted
  <2>2. cancelled \subseteq day.managed
    <3>1. CASE pending = {}
      BY <1>4, <1>11, <3>1 DEF DayFits
    <3>2. CASE pending # {}
      <4>1. u \in day.managed
        BY <1>4, <1>5, <3>2 DEF DayFits
      <4>2. QED
        BY <1>4, <1>11, <4>1 DEF DayFits
    <3>3. QED
      BY <3>1, <3>2
  <2>3. \A v \in Users, s \in Setups :
           next.known[v][s] <= working'[v][s] /\ (v \notin next.managed => next.known[v][s] = 0)
    BY <1>17, <1>22
  <2>4. QED
    BY <1>4, <1>17, <2>1, <2>2, <2>3 DEF DayFits
<1>25. EndFits'
  <2>1. NoneLeft(Users \ (todo \cup strays))'
    <3>1. SUFFICES ASSUME NEW v \in Users \ (todo' \cup strays'), NEW s \in Setups
                   PROVE  known[v][s] = 0
      BY <1>14, <1>17 DEF NoneLeft
    <3>2. CASE v = u
      BY <1>15, <1>19, <3>1, <3>2
    <3>3. CASE v # u
      <4>1. v \notin todo /\ v \notin strays
        BY <1>2, <1>19, <3>1, <3>3
      <4>2. QED
        BY <1>1, <1>2, <1>4, <1>15, <3>3, <4>1 DEF EndFits, NoneLeft
    <3>4. QED
      BY <3>2, <3>3
  <2>2. next.offered \cap Fills # {} => \A v \in next.won : rows[v] > 0 \/ v \in rowsLost
    BY <1>1, <1>2, <1>4, <1>17 DEF EndFits, Ending, SimulatedTrade
  <2>3. QED
    BY <1>2, <1>14, <2>1, <2>2 DEF EndFits, Ending, SimulatedTrade
<1>26. RowsRestOnJournal'
  BY <1>1, <1>2 DEF RowsRestOnJournal
<1>27. QED
  BY <1>14, <1>20, <1>21, <1>23, <1>24, <1>25, <1>26 DEF IndInv

\* Every OrderManager cancelled what it knew of.
LEMMA CancelledKeeps == IndInv /\ Cancelled => IndInv'
<1> SUFFICES ASSUME IndInv, Cancelled PROVE IndInv'
  OBVIOUS
<1>1. TypeOK /\ PlacesFit /\ EndFits /\ RowsRestOnJournal
  BY DEF IndInv
<1>2. /\ pc = "cancel" /\ todo = {} /\ pc' = "cancelFlush"
      /\ UNCHANGED <<now, trend, cd, last, starting, queue, feed, todo, journal, shadowRows, rows,
                     working, faults, crashes, gateFed, rowsLost, strays>>
  BY DEF Cancelled, dbVars, budgetVars, history
<1>3. cd # NoDay /\ queue # <<>>
  <2>1. pc \in WithDay /\ pc \in WithBar
    BY <1>2 DEF WithBar, WithDay, Places
  <2>2. QED
    BY <1>1, <2>1 DEF PlacesFit
<1>4. TypeOK'
  BY <1>1, <1>2 DEF TypeOK, Places
<1>5. PlacesFit'
  BY <1>2, <1>3 DEF PlacesFit, WithBar, WithDay
<1>6. EndFits'
  <2>1. /\ SimulatedTrade => \A u \in cd.won : rows[u] > 0 \/ u \in rowsLost
        /\ NoneLeft(Users \ strays)
    BY <1>1, <1>2 DEF EndFits, Ending, NoneLeft
  <2>2. QED
    BY <1>2, <2>1 DEF EndFits, Ending, SimulatedTrade, NoneLeft
<1>7. RowsRestOnJournal'
  BY <1>1, <1>2 DEF RowsRestOnJournal
<1>8. QED
  BY <1>2, <1>4, <1>5, <1>6, <1>7, EndStep

\* The day is over: the record of the next one.
LEMMA NewDayKeeps ==
  ASSUME IndInv, pc \in {"gate", "swings"}, pc' = "bar", cd' = CurrentDay(DayOf(Head(queue))),
         TypeOK', JournalGrows, UNCHANGED <<last, starting, queue, shadowRows, rows, working, strays>>
  PROVE  IndInv'
<1>1. TypeOK /\ PlacesFit /\ EndFits /\ WorkingOrdersHeld
  BY DEF IndInv
<1>2. cd # NoDay
  <2>1. pc \in WithDay
    BY DEF WithDay, Places
  <2>2. QED
    BY <1>1, <2>1 DEF PlacesFit
<1>3. PICK d \in {1, 2} : d = DayOf(Head(queue))
  BY DEF DayOf
<1>4. PICK day : day = CurrentDay(d)
  OBVIOUS
<1>5. /\ day \in DayRecord /\ day # NoDay
      /\ ~day.decided /\ ~day.tradeable /\ ~day.watching /\ day.offered = {}
      /\ ~day.scratched /\ day.managed = {} /\ day.cancelled = {} /\ day.won = {}
      /\ day.known = [u \in Users |-> [s \in Setups |-> 0]]
  BY <1>3, <1>4, FreshDay
<1>6. cd' = day
  BY <1>3, <1>4
<1>7. \A u \in Users, s \in Setups : working[u][s] \in Nat /\ day.known[u][s] = 0
  BY <1>1, <1>5 DEF TypeOK
<1>8. WorkingOrdersHeld'
  <2>1. SUFFICES ASSUME NEW u \in Users \ strays, NEW s \in Setups PROVE working[u][s] = 0
    BY <1>5, <1>6, <1>7 DEF WorkingOrdersHeld
  <2>2. cd.known[u][s] = 0
    BY <1>1 DEF EndFits, Ending, NoneLeft
  <2>3. QED
    BY <1>1, <1>2, <2>2 DEF WorkingOrdersHeld
<1>9. DayFits(day)'
  BY <1>5, <1>7 DEF DayFits
<1>10. PlacesFit' /\ pc' \notin Closing
  BY DEF PlacesFit, Closing, Ending, WithBar, WithDay
<1>11. RowsRestOnJournal'
  <2>1. journal' \in [Narrative -> Nat]
    BY DEF TypeOK
  <2>2. QED
    BY <2>1, RowsRestStay
<1>12. QED
  BY <1>6, <1>8, <1>9, <1>10, <1>11, MidStep

\* The gate is told of the day, and the next one begins, or its swings are written first.
LEMMA CloseDayAtGateKeeps == IndInv /\ CloseDayAtGate => IndInv'
<1> SUFFICES ASSUME IndInv, CloseDayAtGate PROVE IndInv'
  OBVIOUS
<1>1. TypeOK /\ PlacesFit /\ EndFits /\ RowsRestOnJournal
  BY DEF IndInv
<1>2. /\ pc = "gate" /\ gateFed' = gateFed + 1
      /\ UNCHANGED <<now, trend, last, starting, queue, feed, todo, journal, shadowRows, rows,
                     working, faults, crashes, rowsLost, strays>>
      /\ \/ pc' = "swings" /\ UNCHANGED cd
         \/ pc' = "bar" /\ cd' = CurrentDay(DayOf(Head(queue)))
  BY DEF CloseDayAtGate, dbVars, budgetVars
<1>3. cd # NoDay /\ queue # <<>>
  <2>1. pc \in WithDay /\ pc \in WithBar
    BY <1>2 DEF WithBar, WithDay, Places
  <2>2. QED
    BY <1>1, <2>1 DEF PlacesFit
<1>4. gateFed' \in Nat
  BY <1>1, <1>2 DEF TypeOK
<1>5. CASE pc' = "swings" /\ UNCHANGED cd
  <2>1. TypeOK'
    BY <1>1, <1>2, <1>4, <1>5 DEF TypeOK, Places
  <2>2. PlacesFit'
    BY <1>2, <1>3, <1>5 DEF PlacesFit, WithBar, WithDay
  <2>3. EndFits'
    <3>1. /\ SimulatedTrade => \A u \in cd.won : rows[u] > 0 \/ u \in rowsLost
          /\ NoneLeft(Users \ strays)
      BY <1>1, <1>2 DEF EndFits, Ending
    <3>2. QED
      BY <1>2, <1>5, <3>1 DEF EndFits, Ending, SimulatedTrade, NoneLeft
  <2>4. RowsRestOnJournal'
    BY <1>1, <1>2 DEF RowsRestOnJournal
  <2>5. QED
    BY <1>2, <1>5, <2>1, <2>2, <2>3, <2>4, EndStep
<1>6. CASE pc' = "bar" /\ cd' = CurrentDay(DayOf(Head(queue)))
  <2>1. cd' \in DayRecord
    BY <1>6, FreshDay DEF DayOf
  <2>2. TypeOK'
    BY <1>1, <1>2, <1>4, <1>6, <2>1 DEF TypeOK, Places
  <2>3. JournalGrows
    BY <1>1, <1>2, JournalStays
  <2>4. QED
    BY <1>2, <1>6, <2>2, <2>3, NewDayKeeps
<1>7. QED
  BY <1>2, <1>5, <1>6

\* The confirmed swings are journaled, and the next day begins.
LEMMA WriteSwingsKeeps == IndInv /\ WriteSwings => IndInv'
<1> SUFFICES ASSUME IndInv, WriteSwings PROVE IndInv'
  OBVIOUS
<1>1. TypeOK
  BY DEF IndInv
<1>2. PICK events \in Seq(Narrative) : events = <<Event("swings")>>
  <2>1. <<Event("swings")>> \in Seq(Narrative)
    BY Told, OneInSeq
  <2>2. QED
    BY <2>1
<1>3. /\ pc = "swings"
      /\ UNCHANGED <<now, trend, shadowRows, rows, working, crashes, gateFed, rowsLost>>
      /\ \/ /\ journal' = Journaled(events)
            /\ cd' = CurrentDay(DayOf(Head(queue))) /\ pc' = "bar"
            /\ UNCHANGED <<last, starting, queue, feed, todo, faults, strays>>
         \/ Fault /\ journal' \in {journal, Journaled(events)} /\ Raise(cd)
  BY <1>2 DEF WriteSwings
<1>4. CASE /\ journal' = Journaled(events)
           /\ cd' = CurrentDay(DayOf(Head(queue))) /\ pc' = "bar"
           /\ UNCHANGED <<last, starting, queue, feed, todo, faults, strays>>
  <2>1. cd' \in DayRecord
    BY <1>4, FreshDay DEF DayOf
  <2>2. journal' \in [Narrative -> Nat] /\ JournalGrows
    BY <1>1, <1>4, JournaledIs DEF TypeOK
  <2>3. TypeOK'
    BY <1>1, <1>3, <1>4, <2>1, <2>2 DEF TypeOK, Places
  <2>4. QED
    BY <1>3, <1>4, <2>2, <2>3, NewDayKeeps
<1>5. CASE Fault /\ journal' \in {journal, Journaled(events)} /\ Raise(cd)
  BY <1>3, <1>5, FailedCommit
<1>6. QED
  BY <1>3, <1>4, <1>5

\* The invariant holds before the first start.
LEMMA InitIndInv == Init => IndInv
<1> SUFFICES ASSUME Init PROVE IndInv
  OBVIOUS
<1>1. /\ now = 0 /\ trend \in BOOLEAN /\ cd = NoDay /\ last = 0 /\ starting = FALSE
      /\ pc = "down" /\ queue = <<>> /\ feed = <<>> /\ todo = {}
      /\ journal = [e \in Narrative |-> 0]
      /\ shadowRows = 0 /\ rows = [u \in Users |-> 0]
      /\ working = [u \in Users |-> [s \in Setups |-> 0]]
      /\ faults = 0 /\ crashes = 0 /\ gateFed = 0 /\ rowsLost = {} /\ strays = {}
  BY DEF Init
<1>2. 0 \in 0..Horizon /\ 0 \in 0..MaxFaults /\ 0 \in 0..MaxCrashes
  BY Bars, ShadowRunnerAssumption DEF ShadowRunnerAssumption
<1>3. /\ [e \in Narrative |-> 0] \in [Narrative -> Nat] /\ [u \in Users |-> 0] \in [Users -> Nat]
      /\ [u \in Users |-> [s \in Setups |-> 0]] \in [Users -> [Setups -> Nat]]
      /\ <<>> \in Seq(1..Horizon) /\ <<>> \in Seq(Session)
  OBVIOUS
<1>4. TypeOK
  BY <1>1, <1>2, <1>3 DEF TypeOK, Places
<1>5. PlacesFit /\ EndFits
  BY <1>1 DEF PlacesFit, EndFits, WithBar, WithDay, Ending
<1>6. RowsRestOnJournal /\ WorkingOrdersHeld
  BY <1>1 DEF RowsRestOnJournal, WorkingOrdersHeld
<1>7. QED
  BY <1>1, <1>4, <1>5, <1>6 DEF IndInv

\* Nothing happens.
LEMMA StutterKeeps == IndInv /\ UNCHANGED vars => IndInv'
<1> SUFFICES ASSUME IndInv, UNCHANGED vars PROVE IndInv'
  OBVIOUS
<1>1. UNCHANGED <<now, trend, cd, last, starting, pc, queue, feed, todo, journal, shadowRows, rows,
                  working, faults, crashes, gateFed, rowsLost, strays>>
  BY DEF vars, threadVars, dbVars, budgetVars, history
<1>2. TypeOK /\ PlacesFit /\ EndFits /\ RowsRestOnJournal
  BY DEF IndInv
<1>3. TypeOK' /\ PlacesFit' /\ RowsRestOnJournal'
  BY <1>1, <1>2 DEF TypeOK, PlacesFit, RowsRestOnJournal
<1>4. EndFits'
  BY <1>1, <1>2 DEF EndFits, SimulatedTrade, OnJournal, NoneLeft
<1>5. QED
  BY <1>1, <1>3, <1>4, EndStep

\* The invariant is kept by every step.
LEMMA NextKeeps == IndInv /\ [Next]_vars => IndInv'
<1> SUFFICES ASSUME IndInv, [Next]_vars PROVE IndInv'
  OBVIOUS
<1>1. CASE BarCloses
  BY <1>1, BarClosesKeeps
<1>2. CASE Crash
  BY <1>2, CrashKeeps
<1>3. CASE Restart
  BY <1>3, RestartKeeps
<1>4. CASE Poll
  BY <1>4, PollKeeps
<1>5. CASE BarsDone
  BY <1>5, BarsDoneKeeps
<1>6. CASE IgnoreStaleBar
  BY <1>6, IgnoreStaleBarKeeps
<1>7. CASE RollOver
  BY <1>7, RollOverKeeps
<1>8. CASE ProcessBar
  BY <1>8, ProcessBarKeeps
<1>9. CASE CommitVerdict
  BY <1>9, CommitVerdictKeeps
<1>10. CASE ConstructDay
  BY <1>10, ConstructDayKeeps
<1>11. CASE FeedBar
  BY <1>11, FeedBarKeeps
<1>12. CASE Placed
  BY <1>12, PlacedKeeps
<1>13. CASE Fed
  BY <1>13, FedKeeps
<1>14. CASE FlushNewEvents
  BY <1>14, FlushNewEventsKeeps
<1>15. CASE CheckFills
  BY <1>15, CheckFillsKeeps
<1>16. CASE WriteShadowRow
  BY <1>16, WriteShadowRowKeeps
<1>17. CASE RowsWritten
  BY <1>17, RowsWrittenKeeps
<1>18. CASE Cancelled
  BY <1>18, CancelledKeeps
<1>19. CASE CloseDayAtGate
  BY <1>19, CloseDayAtGateKeeps
<1>20. CASE WriteSwings
  BY <1>20, WriteSwingsKeeps
<1>21. ASSUME NEW u \in Users, PlaceOrder(u) PROVE IndInv'
  BY <1>21, PlaceOrderKeeps
<1>22. ASSUME NEW u \in Users, WriteSubscriberRow(u) PROVE IndInv'
  BY <1>22, WriteSubscriberRowKeeps
<1>23. ASSUME NEW u \in Users, CancelAtDayEnd(u) PROVE IndInv'
  BY <1>23, CancelAtDayEndKeeps
<1>24. CASE UNCHANGED vars
  BY <1>24, StutterKeeps
<1>25. QED
  BY <1>1, <1>2, <1>3, <1>4, <1>5, <1>6, <1>7, <1>8, <1>9, <1>10, <1>11, <1>12, <1>13, <1>14,
     <1>15, <1>16, <1>17, <1>18, <1>19, <1>20, <1>21, <1>22, <1>23, <1>24 DEF Next, Runner

-----------------------------------------------------------------------------
\* What the runner has in memory, in the tables and at the broker fits together at
\* every call it makes, whatever failed and wherever it was killed.
THEOREM IndInvHolds == Spec => []IndInv
<1>1. Init => IndInv
  BY InitIndInv
<1>2. IndInv /\ [Next]_vars => IndInv'
  BY NextKeeps
<1>3. QED
  BY <1>1, <1>2, PTL DEF Spec

\* Every variable keeps its type, the CurrentDay record with it.
THEOREM TypeCorrect == Spec => []TypeOK
<1>1. IndInv => TypeOK
  BY DEF IndInv
<1>2. QED
  BY <1>1, IndInvHolds, PTL

\* A shadow row is written only once the setup that filled and the close are in the
\* events table (_finalize_day flushes before _write_trade), a subscriber's row only
\* once the shadow row exists.
THEOREM RowsRestOnJournalHolds == Spec => []RowsRestOnJournal
<1>1. IndInv => RowsRestOnJournal
  BY DEF IndInv
<1>2. QED
  BY <1>1, IndInvHolds, PTL

\* One subscriber's failed write does not cost another its row (the rollback in
\* _write_trade's loop).
THEOREM WinnersRecordedHolds == Spec => []WinnersRecorded
<1>1. IndInv => WinnersRecorded
  BY DEF IndInv, EndFits, WinnersRecorded
<1>2. QED
  BY <1>1, IndInvHolds, PTL

\* No working order is forgotten and none outlives the day (cancel_all_at_day_end),
\* unless a crash, a lost reply or a failed cancellation made it a stray.
THEOREM WorkingOrdersHeldHolds == Spec => []WorkingOrdersHeld
<1>1. IndInv => WorkingOrdersHeld
  BY DEF IndInv
<1>2. QED
  BY <1>1, IndInvHolds, PTL

-----------------------------------------------------------------------------
(***************************************************************************)
(* NothingTwice: PassInv on top of IndInv.  What NextKeeps says of the     *)
(* next state is at hand in every lemma below, as IndInv'.                 *)
(***************************************************************************)
Pass == BarsInOrder /\ FedLater /\ FedInOrder /\ ReplayFits /\ DayInOrder /\ DayEnds
Excused == ~(faults = 0 \/ starting)

\* Two records of a day that has come equally far.
Course(day, next) ==
    /\ day = NoDay <=> next = NoDay
    /\ next.date = day.date /\ next.bars = day.bars /\ next.fed = day.fed
    /\ next.watching = day.watching /\ next.decided = day.decided
    /\ next.tradeable = day.tradeable

\* What the types say of time and the queue.
LEMMA TimeIs ==
  ASSUME TypeOK
  PROVE  /\ last \in Nat /\ now \in Nat /\ now <= Horizon /\ faults \in Nat /\ starting \in BOOLEAN
         /\ queue \in Seq(1..Horizon) /\ feed \in Seq(Session) /\ DOMAIN queue = 1..Len(queue)
         /\ DOMAIN feed = 1..Len(feed) /\ Len(queue) \in Nat /\ Len(feed) \in Nat
         /\ queue # <<>> => 1 \in DOMAIN queue /\ Head(queue) = queue[1] /\ Head(queue) \in 1..Horizon
         /\ feed # <<>> => 1 \in DOMAIN feed /\ Head(feed) = feed[1] /\ Head(feed) \in Session
         /\ \A i \in DOMAIN queue : queue[i] \in 1..Horizon
         /\ \A i \in DOMAIN feed : feed[i] \in Session
         /\ cd # NoDay => cd \in DayRecord
<1>1. /\ last \in 0..Horizon /\ now \in 0..Horizon /\ faults \in 0..MaxFaults
      /\ starting \in BOOLEAN /\ queue \in Seq(1..Horizon) /\ feed \in Seq(Session)
      /\ cd = NoDay \/ cd \in DayRecord
  BY DEF TypeOK
<1>2. last \in Nat /\ now \in Nat /\ now <= Horizon /\ faults \in Nat
  BY <1>1, Bars
<1> DEFINE S == 1..Horizon
<1>3. ASSUME NEW A, NEW seq \in Seq(A)
      PROVE  /\ DOMAIN seq = 1..Len(seq) /\ Len(seq) \in Nat
             /\ seq # <<>> => 1 \in DOMAIN seq /\ Head(seq) = seq[1] /\ Head(seq) \in A
             /\ \A i \in DOMAIN seq : seq[i] \in A
  BY <1>3
<1>4. QED
  BY <1>1, <1>2, <1>3

\* The bars of a record, and how often each was fed.
LEMMA RecordIs ==
  ASSUME NEW day \in DayRecord
  PROVE  /\ day.bars \in Seq(Session) /\ day.fed \in [Session -> Nat] /\ day.date \in {1, 2}
         /\ day.events \in Seq(Narrative) /\ day.watching \in BOOLEAN /\ day.decided \in BOOLEAN
         /\ day.tradeable \in BOOLEAN /\ day # NoDay
         /\ \A i \in DOMAIN day.bars : day.bars[i] \in Session
<1>1. day.bars \in Seq(Session) /\ day # NoDay
  BY DayIsSet DEF DayRecord
<1>2. \A i \in DOMAIN day.bars : day.bars[i] \in Session
  BY <1>1
<1>3. QED
  BY <1>1, <1>2 DEF DayRecord

\* A bar of the session is one of day 1.
LEMMA SessionDay ==
  /\ \A b \in Session : DayOf(b) = 1 /\ b \in Nat /\ b < Horizon /\ 0 < b
  /\ DayOf(Horizon) = 2
  /\ \A b \in Nat : DayOf(b) \in {1, 2} /\ (b <= Horizon /\ DayOf(b) = 2 => b = Horizon)
  /\ \A b, c \in Nat : b <= c => DayOf(b) <= DayOf(c)
BY Bars DEF DayOf, Session

\* The thread goes on and the day stays where it is.
LEMMA StayKeeps ==
  ASSUME PassInv, IndInv', UNCHANGED <<now, last, queue, feed>>, NEW day, NEW next, day = cd, cd' = next,
         Course(day, next), Excused => Excused', pc \in InBar <=> pc' \in InBar,
         pc' \notin {"feed", "place"} => feed = <<>>, pc' = "place" => pc = "place",
         pc' = "feed" => pc = "feed",
         pc' \in {"down", "idle", "fills", "fillsFlush"} => queue = <<>>,
         "subscribers" \notin {pc, pc'},
         pc' \in Closing => day.date = 1 /\ Head(queue) = Horizon
  PROVE  BarsInOrder' /\ FedLater' /\ FedInOrder' /\ DayInOrder'
<1>1. BarsInOrder /\ FedLater /\ FedInOrder /\ DayInOrder
  BY DEF PassInv
<1>2. /\ day = NoDay <=> next = NoDay
      /\ next.date = day.date /\ next.bars = day.bars /\ next.fed = day.fed
      /\ next.watching = day.watching /\ next.tradeable = day.tradeable
  BY DEF Course
<1>3. BarsInOrder'
  BY <1>1, <1>2 DEF BarsInOrder
<1>4. FedLater'
  BY <1>1, <1>2 DEF FedLater
<1>5. DayInOrder'
  BY <1>1, <1>2 DEF DayInOrder
<1>6. Seen' = Seen
  BY DEF Seen
<1>7. FedInOrder'
  <2>1. SUFFICES ASSUME faults' = 0 \/ starting', next # NoDay PROVE FedInOrder'
    BY DEF FedInOrder
  <2>2. (faults = 0 \/ starting) /\ day # NoDay
    BY <1>2, <2>1 DEF Excused
  <2>3. /\ \A i \in DOMAIN day.bars : day.bars[i] <= Seen
        /\ \A i, j \in DOMAIN day.bars : i < j => day.bars[i] < day.bars[j]
        /\ \A b \in Session : day.fed[b] <= 1 /\ (day.fed[b] > 0 => day.watching /\ b <= Seen)
        /\ \A i \in DOMAIN feed : feed[i] <= Seen /\ (pc = "feed" \/ i # 1 => day.fed[feed[i]] = 0)
        /\ \A i, j \in DOMAIN feed : i < j => feed[i] < feed[j]
        /\ day.tradeable => (day.watching <=> pc # "subscribers")
    BY <1>1, <2>2 DEF FedInOrder
  <2>4. QED
    BY <1>2, <1>6, <2>3 DEF FedInOrder
<1>8. QED
  BY <1>3, <1>4, <1>5, <1>7

\* A bar is done with, and the next ones come after it.
LEMMA NextBars ==
  ASSUME PassInv, queue # <<>>, BarDone, UNCHANGED <<now, feed>>, pc \notin {"feed", "place"}
  PROVE  /\ BarsInOrder' /\ feed = <<>> /\ pc' = "bar" /\ last' = Head(queue) /\ Seen' = Head(queue)
         /\ Head(queue) \in 1..Horizon /\ Head(queue) <= now /\ Seen <= Head(queue)
         /\ pc \notin InBar => Seen < Head(queue)
         /\ \A i \in DOMAIN queue' : queue'[i] \in 1..Horizon /\ Head(queue) < queue'[i] /\ queue'[i] <= now
         /\ ~(\E i \in DOMAIN queue : queue[i] # Horizon) => \A i \in DOMAIN queue' : queue'[i] = Horizon
<1>1. BarsInOrder /\ TypeOK
  BY DEF PassInv, IndInv
<1>2. pc' = "bar" /\ last' = Head(queue) /\ queue' = Tail(queue)
  BY DEF BarDone
<1>3. /\ last \in Nat /\ now \in Nat /\ Horizon \in Nat /\ queue \in Seq(1..Horizon)
      /\ DOMAIN queue = 1..Len(queue) /\ Len(queue) \in Nat
      /\ 1 \in DOMAIN queue /\ Head(queue) = queue[1] /\ Head(queue) \in 1..Horizon
      /\ \A i \in DOMAIN queue : queue[i] \in 1..Horizon
  <2>1. Horizon \in Nat
    BY Bars
  <2>2. QED
    BY <1>1, <2>1, TimeIs, Zenon
<1>4. /\ \A i \in DOMAIN queue : last < queue[i] /\ queue[i] <= now
      /\ \A i, j \in DOMAIN queue : i < j => queue[i] < queue[j]
      /\ pc \notin {"feed", "place"} => feed = <<>>
  BY <1>1 DEF BarsInOrder
<1>5. /\ DOMAIN queue' = 1..(Len(queue) - 1)
      /\ \A i \in 1..(Len(queue) - 1) : queue'[i] = queue[i + 1]
  <2> DEFINE S == 1..Horizon
  <2>1. queue \in Seq(S) /\ queue # <<>> /\ queue' = Tail(queue)
    BY <1>2, <1>3
  <2> HIDE DEF S
  <2>2. QED
    BY <2>1
<1>6. \A i \in 1..(Len(queue) - 1) : i + 1 \in DOMAIN queue /\ 1 < i + 1
  BY <1>3
<1>7. \A i \in DOMAIN queue' : queue'[i] \in 1..Horizon /\ Head(queue) < queue'[i] /\ queue'[i] <= now
  BY <1>3, <1>4, <1>5, <1>6
<1>8. \A i, j \in DOMAIN queue' : i < j => queue'[i] < queue'[j]
  <2>1. SUFFICES ASSUME NEW i \in 1..(Len(queue) - 1), NEW j \in 1..(Len(queue) - 1), i < j
                 PROVE  queue[i + 1] < queue[j + 1]
    BY <1>5
  <2>2. i + 1 \in DOMAIN queue /\ j + 1 \in DOMAIN queue /\ i + 1 < j + 1
    BY <1>6, <2>1
  <2>3. QED
    BY <1>4, <2>2
<1>9. Head(queue) <= now /\ last < Head(queue)
  BY <1>3, <1>4
<1>10. feed' = <<>> /\ feed = <<>>
  BY <1>4
<1>11. BarsInOrder'
  BY <1>2, <1>7, <1>8, <1>9, <1>10 DEF BarsInOrder, InBar
<1>12. Seen' = Head(queue) /\ Seen <= Head(queue) /\ (pc \notin InBar => Seen < Head(queue))
  BY <1>2, <1>3, <1>9 DEF Seen, InBar
<1>13. ~(\E i \in DOMAIN queue : queue[i] # Horizon) => \A i \in DOMAIN queue' : queue'[i] = Horizon
  BY <1>5, <1>6
<1>14. QED
  BY <1>2, <1>3, <1>7, <1>9, <1>10, <1>11, <1>12, <1>13

\* A bar is done with and the day stays where it is.
LEMMA TakenKeeps ==
  ASSUME PassInv, IndInv', queue # <<>>, BarDone, UNCHANGED <<now, feed>>,
         pc \notin {"feed", "place", "subscribers"}, NEW day, NEW next, day = cd, cd' = next,
         Course(day, next), Excused => Excused'
  PROVE  BarsInOrder' /\ FedLater' /\ FedInOrder' /\ DayInOrder'
<1>1. FedLater /\ FedInOrder /\ DayInOrder /\ TypeOK
  BY DEF PassInv, IndInv
<1>2. /\ day = NoDay <=> next = NoDay
      /\ next.date = day.date /\ next.bars = day.bars /\ next.fed = day.fed
      /\ next.watching = day.watching /\ next.tradeable = day.tradeable
  BY DEF Course
<1>3. /\ BarsInOrder' /\ feed = <<>> /\ feed' = <<>> /\ pc' = "bar" /\ last' = Head(queue)
      /\ Seen' = Head(queue) /\ Head(queue) \in 1..Horizon /\ Seen <= Head(queue)
      /\ ~(\E i \in DOMAIN queue : queue[i] # Horizon) => \A i \in DOMAIN queue' : queue'[i] = Horizon
  BY NextBars
<1>4. FedLater'
  BY <1>1, <1>2, <1>3 DEF FedLater
<1>5. DayInOrder'
  <2>1. pc' \notin Closing
    BY <1>3 DEF Closing, Ending
  <2>2. ASSUME day # NoDay, day.date = 2 PROVE \A i \in DOMAIN queue : queue[i] = Horizon
    BY <1>1, <2>2 DEF DayInOrder
  <2>3. ASSUME next # NoDay, next.date = 2
        PROVE  (\A i \in DOMAIN queue' : queue'[i] = Horizon) /\ last' = Horizon
    <3>1. \A i \in DOMAIN queue : queue[i] = Horizon
      BY <1>2, <2>2, <2>3
    <3>2. Head(queue) = queue[1] /\ 1 \in DOMAIN queue
      BY <1>1, TimeIs
    <3>3. QED
      BY <1>3, <3>1, <3>2
  <2>4. QED
    BY <2>1, <2>3 DEF DayInOrder
<1>6. FedInOrder'
  <2>1. SUFFICES ASSUME faults' = 0 \/ starting', next # NoDay PROVE FedInOrder'
    BY DEF FedInOrder
  <2>2. (faults = 0 \/ starting) /\ day # NoDay
    BY <1>2, <2>1 DEF Excused
  <2>3. /\ \A i \in DOMAIN day.bars : day.bars[i] <= Seen
        /\ \A i, j \in DOMAIN day.bars : i < j => day.bars[i] < day.bars[j]
        /\ \A b \in Session : day.fed[b] <= 1 /\ (day.fed[b] > 0 => day.watching /\ b <= Seen)
        /\ day.tradeable => (day.watching <=> pc # "subscribers")
    BY <1>1, <2>2 DEF FedInOrder
  <2>4. /\ \A i \in DOMAIN day.bars : day.bars[i] \in Nat
        /\ \A b \in Session : b \in Nat
        /\ Seen \in Nat /\ Seen' \in Nat
    <3>1. day \in DayRecord
      BY <1>1, <2>2, TimeIs
    <3>2. Seen \in Nat /\ Seen' \in Nat
      <4>1. last \in Nat
        BY <1>1, TimeIs
      <4>2. QED
        BY <1>3, <4>1, Bars DEF Seen
    <3>3. QED
      BY <3>1, <3>2, RecordIs, SessionDay
  <2>5. /\ \A i \in DOMAIN day.bars : day.bars[i] <= Seen'
        /\ \A b \in Session : day.fed[b] > 0 => b <= Seen'
    BY <1>3, <2>3, <2>4
  <2>6. QED
    BY <1>2, <1>3, <2>3, <2>5 DEF FedInOrder
<1>7. QED
  BY <1>3, <1>4, <1>5, <1>6

\* The counters of the day's end stay, and so does how far it has come.
LEMMA EndsStay ==
  ASSUME PassInv, UNCHANGED <<now, shadowRows, rows, gateFed>>, faults' = 0 => faults = 0,
         (cd = NoDay /\ now = Horizon) => cd' = NoDay \/ cd'.date = 2,
         cd # NoDay => cd' = NoDay \/ cd'.date = cd.date,
         \/ pc \notin {"rows"} \cup Ending
         \/ cd' = NoDay
         \/ pc = "rows" /\ pc' = "rows" /\ todo' \subseteq todo
         \/ pc = "rows" /\ pc' = "cancel" /\ todo = {}
         \/ pc \in {"cancel", "cancelFlush"} /\ pc' \in {"cancel", "cancelFlush", "gate"}
  PROVE  DayEnds'
<1>1. DayEnds /\ DayInOrder /\ TypeOK /\ BarsInOrder /\ PlacesFit
  BY DEF PassInv, IndInv
<1>2. SUFFICES ASSUME faults' = 0 PROVE DayEnds'
  BY DEF DayEnds
<1>3. EndedOnce'
  BY <1>1, <1>2 DEF DayEnds, EndedOnce
<1>4. ASSUME pc \in {"rows"} \cup Ending PROVE now = Horizon
  <2>1. queue # <<>> /\ Head(queue) = Horizon
    BY <1>1, <1>4 DEF DayInOrder, PlacesFit, Closing, WithBar, WithDay, Places, Ending
  <2>2. queue[1] = Head(queue) /\ 1 \in DOMAIN queue /\ now \in Nat /\ now <= Horizon
    BY <1>1, <2>1, TimeIs
  <2>3. queue[1] <= now
    BY <1>1, <2>2 DEF BarsInOrder
  <2>4. QED
    BY <2>1, <2>2, <2>3, Bars
<1>5. Over => Over'
  BY DEF Over
<1>6. cd' = NoDay /\ pc \in {"rows"} \cup Ending => Over'
  BY <1>4 DEF Over
<1>7. QED
  BY <1>1, <1>2, <1>3, <1>5, <1>6 DEF DayEnds, Ending

\* A replay goes on with nothing new noted.
LEMMA ReplayStays ==
  ASSUME PassInv, UNCHANGED now, NEW day, NEW next, day = cd, cd' = next, Course(day, next),
         starting' /\ DayOf(now) = 1 =>
            /\ starting /\ pc' \in InBar \cup {"bar"} /\ (pc' = "verdict" => pc = "verdict")
            /\ \A e \in Narrative : Noting(e)' = Noting(e)
  PROVE  ReplayFits'
<1>1. SUFFICES ASSUME starting', DayOf(now) = 1 PROVE ReplayFits'
  BY DEF ReplayFits
<1>2. /\ starting /\ pc' \in InBar \cup {"bar"} /\ (pc' = "verdict" => pc = "verdict")
      /\ \A e \in Narrative : Noting(e)' = Noting(e)
  BY <1>1
<1>3. /\ day = NoDay <=> next = NoDay
      /\ next.date = day.date /\ next.fed = day.fed /\ next.decided = day.decided
  BY DEF Course
<1>4. /\ day # NoDay => day.date = 1
      /\ \A e \in Verdicts : Noting(e) <= 1 /\ (day = NoDay \/ ~day.decided => Noting(e) = 0)
      /\ pc = "verdict" => day.decided /\ Noting(Event("skipped")) = 0
      /\ \A s \in Setups : /\ Noting(Offered(s)) <= 1
                           /\ day = NoDay \/ day.fed[s] = 0 => Noting(Offered(s)) = 0
  BY <1>1, <1>2 DEF PassInv, ReplayFits
<1>5. Verdicts \subseteq Narrative /\ Event("skipped") \in Narrative
  BY Told DEF Narrative
<1>6. /\ \A e \in Verdicts : Noting(e)' = Noting(e)
      /\ Noting(Event("skipped"))' = Noting(Event("skipped"))
      /\ \A s \in Setups : Noting(Offered(s))' = Noting(Offered(s))
  BY <1>2, <1>5, Told
<1>7. SUFFICES /\ cd' # NoDay => cd'.date = 1
               /\ \A e \in Verdicts : /\ Noting(e)' <= 1
                                      /\ cd' = NoDay \/ ~cd'.decided => Noting(e)' = 0
               /\ pc' = "verdict" => cd'.decided /\ Noting(Event("skipped"))' = 0
               /\ \A s \in Setups : /\ Noting(Offered(s))' <= 1
                                    /\ cd' = NoDay \/ cd'.fed[s] = 0 => Noting(Offered(s))' = 0
  BY <1>2 DEF ReplayFits
<1>8. QED
  BY <1>2, <1>3, <1>4, <1>6

\* Past the bars of the session nothing is replayed.
LEMMA ReplayOver ==
  ASSUME PassInv, UNCHANGED now, starting' => starting /\ pc \notin InBar \cup {"bar"}
  PROVE  ReplayFits'
BY DEF PassInv, ReplayFits

\* The process is gone.
LEMMA GoDownPass ==
  ASSUME PassInv, IndInv', GoDown, UNCHANGED <<now, gateFed>>,
         faults' > 0 \/ UNCHANGED <<faults, shadowRows, rows>>
  PROVE  Pass'
<1>1. TypeOK /\ TypeOK'
  BY DEF PassInv, IndInv
<1>2. /\ pc' = "down" /\ queue' = <<>> /\ feed' = <<>> /\ cd' = NoDay /\ last' = 0 /\ starting' = FALSE
  BY DEF GoDown
<1>3. last' <= now' /\ DOMAIN queue' = {}
  BY <1>1, <1>2, TimeIs
<1>4. BarsInOrder'
  BY <1>2, <1>3 DEF BarsInOrder, InBar
<1>5. FedLater' /\ FedInOrder' /\ ReplayFits' /\ DayInOrder'
  BY <1>2 DEF FedLater, FedInOrder, ReplayFits, DayInOrder, Closing, Ending
<1>6. DayEnds'
  <2>1. CASE faults' > 0
    BY <1>1, <2>1, TimeIs DEF DayEnds
  <2>2. CASE UNCHANGED <<faults, shadowRows, rows>>
    BY <1>2, <2>2, EndsStay
  <2>3. QED
    BY <2>1, <2>2
<1>7. QED
  BY <1>4, <1>5, <1>6 DEF Pass

\* An exception with the day as it is.
LEMMA RaisePass ==
  ASSUME PassInv, IndInv', Raise(cd), faults' > 0, UNCHANGED <<now, gateFed>>,
         \/ pc = "bar" /\ Head(queue) \in Session /\ queue # <<>>
         \/ pc \in {"verdict", "subscribers", "flush", "fillsFlush"} \cup Closing
  PROVE  Pass'
<1>1. TypeOK /\ TypeOK' /\ BarsInOrder /\ DayInOrder /\ FedLater /\ PlacesFit
  BY DEF PassInv, IndInv
<1>2. CASE starting
  <2>1. GoDown
    BY <1>2 DEF Raise
  <2>2. QED
    BY <2>1, GoDownPass
<1>3. CASE ~starting
  <2>1. /\ pc' = "idle" /\ queue' = <<>> /\ feed' = <<>> /\ cd' = cd /\ starting' = FALSE
        /\ UNCHANGED last
    BY <1>1, <1>3, TimeIs DEF Raise
  <2>2. feed = <<>>
    BY <1>1 DEF BarsInOrder, Closing, Ending
  <2>3. BarsInOrder'
    BY <1>1, <2>1 DEF BarsInOrder, InBar
  <2>4. FedLater'
    BY <1>1, <2>1, <2>2 DEF FedLater
  <2>5. FedInOrder' /\ ReplayFits' /\ DayEnds'
    BY <1>1, <2>1 DEF FedInOrder, ReplayFits, DayEnds
  <2>6. cd # NoDay /\ cd.date = 2 => last = Horizon
    <3>1. SUFFICES ASSUME cd # NoDay, cd.date = 2 PROVE last = Horizon
      OBVIOUS
    <3>2. CASE queue = <<>>
      BY <1>1, <3>1, <3>2 DEF DayInOrder
    <3>3. CASE queue # <<>>
      <4>1. Head(queue) = Horizon
        <5>1. Head(queue) = queue[1] /\ 1 \in DOMAIN queue
          BY <1>1, <3>3, TimeIs
        <5>2. QED
          BY <1>1, <3>1, <5>1 DEF DayInOrder
      <4>2. Head(queue) \notin Session
        BY <4>1, Bars
      <4>3. pc = "fillsFlush"
        BY <1>1, <3>1, <4>2 DEF BarsInOrder, InBar, DayInOrder, Closing, Ending
      <4>4. QED
        BY <1>1, <3>3, <4>3 DEF BarsInOrder
    <3>4. QED
      BY <3>2, <3>3
  <2>7. DayInOrder'
    BY <1>1, <2>1, <2>6 DEF DayInOrder, Closing, Ending
  <2>8. QED
    BY <2>3, <2>4, <2>5, <2>7 DEF Pass
<1>4. QED
  BY <1>1, <1>2, <1>3, TimeIs

\* A failed call is counted.
LEMMA FaultCounts ==
  ASSUME TypeOK, Fault
  PROVE  faults' > 0
BY TimeIs DEF Fault

\* The process is killed before its next call.
LEMMA CrashPass == PassInv /\ IndInv' /\ Crash => Pass'
<1> SUFFICES ASSUME PassInv, IndInv', Crash PROVE Pass'
  OBVIOUS
<1>1. GoDown /\ UNCHANGED <<now, gateFed, faults, shadowRows, rows>>
  BY DEF Crash, dbVars
<1>2. QED
  BY <1>1, GoDownPass

\* Time goes on while nothing of day 1 is at hand.
LEMMA BarClosesPass == PassInv /\ IndInv' /\ BarCloses => Pass'
<1> SUFFICES ASSUME PassInv, IndInv', BarCloses PROVE Pass'
  OBVIOUS
<1>1. TypeOK /\ BarsInOrder /\ FedLater /\ FedInOrder /\ ReplayFits /\ DayInOrder /\ DayEnds
  BY DEF PassInv, IndInv
<1>2. /\ pc \in {"down", "idle"} /\ now < Horizon /\ now' = now + 1
      /\ UNCHANGED <<cd, last, starting, pc, queue, feed, todo, journal, shadowRows, rows, faults, gateFed>>
  BY DEF BarCloses, threadVars, dbVars, budgetVars, history
<1>3. /\ last \in Nat /\ now \in Nat /\ Horizon \in Nat
      /\ \A i \in DOMAIN queue : queue[i] \in Nat
  <2>1. Horizon \in Nat /\ \A i \in DOMAIN queue : queue[i] \in 1..Horizon
    BY <1>1, TimeIs, Bars
  <2>2. QED
    BY <1>1, <2>1, TimeIs
<1>4. BarsInOrder'
  BY <1>1, <1>2, <1>3 DEF BarsInOrder
<1>5. FedLater'
  BY <1>1, <1>2 DEF FedLater
<1>6. Seen' = Seen
  BY <1>2 DEF Seen
<1>7. FedInOrder'
  BY <1>1, <1>2, <1>6 DEF FedInOrder
<1>8. DayInOrder'
  BY <1>1, <1>2 DEF DayInOrder
<1>9. ~starting
  <2>1. DayOf(now) = 1
    BY <1>2, <1>3, SessionDay
  <2>2. QED
    BY <1>1, <1>2, <2>1 DEF ReplayFits, InBar
<1>10. ReplayFits'
  BY <1>2, <1>9 DEF ReplayFits
<1>11. ~Over
  BY <1>2, <1>3 DEF Over
<1>12. DayEnds'
  BY <1>1, <1>2, <1>11 DEF DayEnds, EndedOnce, Ending
<1>13. QED
  BY <1>4, <1>5, <1>7, <1>8, <1>10, <1>12 DEF Pass

\* New bars are fetched: they come after the last one.
LEMMA FetchedInOrder ==
  ASSUME PassInv, NEW first \in Nat, 0 < first, queue' = NewBars(first), UNCHANGED <<now, last, feed>>,
         pc' = "bar", pc \notin {"feed", "place"}
  PROVE  BarsInOrder' /\ (last = Horizon => queue' = <<>>)
<1>1. TypeOK /\ BarsInOrder
  BY DEF PassInv, IndInv
<1>2. PICK from \in Nat, n \in Nat :
         /\ NewBars(first) = [i \in 1..n |-> from + i - 1]
         /\ first <= from /\ last < from /\ (n = 0 \/ from + n <= now + 1)
  BY <1>1, NewBarsAre
<1>3. last \in Nat /\ now \in Nat /\ now <= Horizon /\ Horizon \in Nat
  BY <1>1, TimeIs, Bars
<1>4. DOMAIN queue' = 1..n /\ \A i \in 1..n : queue'[i] = from + i - 1
  BY <1>2
<1>5. \A i \in DOMAIN queue' : last < queue'[i] /\ queue'[i] <= now
  BY <1>2, <1>3, <1>4
<1>6. \A i, j \in DOMAIN queue' : i < j => queue'[i] < queue'[j]
  BY <1>2, <1>4
<1>7. last <= now /\ feed' = <<>>
  BY <1>1 DEF BarsInOrder
<1>8. BarsInOrder'
  BY <1>5, <1>6, <1>7 DEF BarsInOrder, InBar
<1>9. last = Horizon => n = 0
  BY <1>2, <1>3
<1>10. n = 0 => queue' = <<>>
  BY <1>2
<1>11. QED
  BY <1>8, <1>9, <1>10

\* recover_on_startup replays on an empty journal only.
LEMMA RestartPass == PassInv /\ IndInv' /\ Restart => Pass'
<1> SUFFICES ASSUME PassInv, IndInv', Restart PROVE Pass'
  OBVIOUS
<1>1. TypeOK /\ BarsInOrder /\ PlacesFit
  BY DEF PassInv, IndInv
<1>2. /\ pc = "down"
      /\ UNCHANGED <<now, cd, last, feed, journal, shadowRows, rows, gateFed>>
  BY DEF Restart, threadVars, dbVars, budgetVars, history
<1>3. PICK midnight \in {1, Horizon} :
        \/ /\ pc' = "bar" /\ starting' = TRUE /\ queue' = NewBars(midnight) /\ UNCHANGED faults
           /\ DayOf(now) = 1 => \A e \in Verdicts \cup Offers : ~(journal[e] > 0)
        \/ pc' = "idle" /\ UNCHANGED <<starting, queue>> /\ (Fault \/ UNCHANGED faults)
  BY DEF Restart
<1>4. cd = NoDay /\ cd' = NoDay /\ ~starting /\ feed = <<>> /\ queue = <<>>
  BY <1>1, <1>2 DEF PlacesFit, BarsInOrder
<1>5. BarsInOrder'
  <2>1. CASE pc' = "bar"
    <3>1. queue' = NewBars(midnight) /\ midnight \in Nat /\ 0 < midnight
      BY <1>3, <2>1, Bars
    <3>2. QED
      BY <1>2, <2>1, <3>1, FetchedInOrder
  <2>2. CASE pc' = "idle"
    BY <1>1, <1>2, <1>3, <1>4, <2>2 DEF BarsInOrder, InBar
  <2>3. QED
    BY <1>3, <2>1, <2>2
<1>6. FedLater' /\ FedInOrder' /\ DayInOrder'
  BY <1>3, <1>4 DEF FedLater, FedInOrder, DayInOrder, Closing, Ending
<1>7. ReplayFits'
  <2>1. SUFFICES ASSUME starting', DayOf(now) = 1 PROVE ReplayFits'
    BY <1>2 DEF ReplayFits
  <2>2. pc' = "bar" /\ \A e \in Verdicts \cup Offers : ~(journal[e] > 0)
    BY <1>3, <1>4, <2>1
  <2>3. \A e \in Verdicts \cup Offers : Noting(e)' = 0
    <3>1. SUFFICES ASSUME NEW e \in Verdicts \cup Offers PROVE Noting(e)' = 0
      OBVIOUS
    <3>2. journal[e] \in Nat
      BY <1>1 DEF TypeOK, Narrative
    <3>3. journal[e] = 0
      BY <2>2, <3>2
    <3>4. Noting(e)' = journal[e] + 0
      BY <1>2, <1>4 DEF Noting
    <3>5. QED
      BY <3>3, <3>4
  <2>4. \A s \in Setups : Noting(Offered(s))' = 0
    BY <2>3 DEF Offers
  <2>5. QED
    BY <1>4, <2>2, <2>3, <2>4 DEF ReplayFits
<1>8. DayEnds'
  <2>1. faults' = 0 => faults = 0
    BY <1>1, <1>3, FaultCounts, TimeIs
  <2>2. QED
    BY <1>2, <1>4, <2>1, EndsStay DEF Ending
<1>9. QED
  BY <1>5, <1>6, <1>7, <1>8 DEF Pass

\* A poll fetches nothing once the first bar of the next day was processed.
LEMMA PollPass == PassInv /\ IndInv' /\ Poll => Pass'
<1> SUFFICES ASSUME PassInv, IndInv', Poll PROVE Pass'
  OBVIOUS
<1>1. TypeOK /\ BarsInOrder /\ FedLater /\ FedInOrder /\ DayInOrder
  BY DEF PassInv, IndInv
<1>a. now \in Nat /\ FetchCount \in Nat
  BY <1>1, Bars DEF TypeOK
<1>b. LET f == IF now > FetchCount THEN now - FetchCount + 1 ELSE 1 IN f \in Nat /\ 0 < f
  BY <1>a
<1>2. PICK first \in Nat : first = (IF now > FetchCount THEN now - FetchCount + 1 ELSE 1) /\ 0 < first
  BY <1>b
<1>3. /\ pc = "idle" /\ pc' = "bar" /\ queue' = NewBars(first)
      /\ UNCHANGED <<now, cd, last, starting, feed, todo, journal, shadowRows, rows, faults, gateFed>>
  BY <1>2 DEF Poll, dbVars, budgetVars, history
<1>4. BarsInOrder' /\ (last = Horizon => queue' = <<>>)
  BY <1>2, <1>3, FetchedInOrder
<1>5. FedLater'
  BY <1>1, <1>3 DEF FedLater
<1>6. Seen' = Seen
  BY <1>3 DEF Seen, InBar
<1>7. FedInOrder'
  BY <1>1, <1>3, <1>6 DEF FedInOrder
<1>8. DayInOrder'
  <2>1. cd # NoDay /\ cd.date = 2 => last = Horizon
    BY <1>1, <1>3 DEF DayInOrder, BarsInOrder
  <2>2. QED
    BY <1>3, <1>4, <2>1 DEF DayInOrder, Closing, Ending
<1>9. ReplayFits'
  BY <1>3, ReplayOver DEF InBar
<1>10. DayEnds'
  BY <1>3, EndsStay DEF Ending
<1>11. QED
  BY <1>4, <1>5, <1>7, <1>8, <1>9, <1>10 DEF Pass

\* What is noted stays as it is when nothing is written or told.
LEMMA NotingStays ==
  ASSUME NEW day, NEW next, day = cd, cd' = next, day = NoDay <=> next = NoDay,
         next.events = day.events, UNCHANGED journal
  PROVE  \A e \in Narrative : Noting(e)' = Noting(e)
BY DEF Noting

\* A record is as far as itself.
LEMMA CourseStays == \A day : Course(day, day)
BY DEF Course

\* A record that differs in what the day has done so far only.
LEMMA CourseIs ==
  ASSUME NEW day \in DayRecord, NEW next,
         next.date = day.date, next.bars = day.bars, next.fed = day.fed, next.watching = day.watching,
         next.decided = day.decided, next.tradeable = day.tradeable
  PROVE  day # NoDay /\ next # NoDay /\ Course(day, next)
<1>1. next.date \in {1, 2} /\ NoDay.date = 0
  BY RecordIs DEF NoDay
<1>2. next # NoDay /\ day # NoDay
  BY <1>1, DayIsSet
<1>3. QED
  BY <1>2 DEF Course

\* The new bars are processed.
LEMMA BarsDonePass == PassInv /\ IndInv' /\ BarsDone => Pass'
<1> SUFFICES ASSUME PassInv, IndInv', BarsDone PROVE Pass'
  OBVIOUS
<1>1. TypeOK /\ BarsInOrder
  BY DEF PassInv, IndInv
<1>2. /\ pc = "bar" /\ queue = <<>> /\ pc' \in {"idle", "fills"} /\ starting' = FALSE
      /\ UNCHANGED <<now, cd, last, queue, feed, journal, shadowRows, rows, faults, gateFed>>
  BY DEF BarsDone, dbVars, budgetVars, history
<1>3. feed = <<>>
  BY <1>1, <1>2 DEF BarsInOrder
<1>4. PICK day : day = cd
  OBVIOUS
<1>5. BarsInOrder' /\ FedLater' /\ FedInOrder' /\ DayInOrder'
  <2>1. Course(day, day) /\ (Excused => Excused')
    BY <1>2, CourseStays DEF Excused
  <2>2. /\ pc \in InBar <=> pc' \in InBar
        /\ pc' \notin Closing /\ "subscribers" \notin {pc, pc'} /\ pc' \notin {"feed", "place"}
    BY <1>2 DEF InBar, Closing, Ending
  <2>3. QED
    BY <1>2, <1>3, <1>4, <2>1, <2>2, StayKeeps
<1>6. ReplayFits'
  BY <1>2 DEF ReplayFits
<1>7. DayEnds'
  BY <1>2, EndsStay DEF Ending
<1>8. QED
  BY <1>5, <1>6, <1>7 DEF Pass

\* A bar of yesterday, without a current day.
LEMMA IgnoreStaleBarPass == PassInv /\ IndInv' /\ IgnoreStaleBar => Pass'
<1> SUFFICES ASSUME PassInv, IndInv', IgnoreStaleBar PROVE Pass'
  OBVIOUS
<1>1. TypeOK
  BY DEF PassInv, IndInv
<1>2. /\ pc = "bar" /\ queue # <<>> /\ BarDone /\ cd = NoDay /\ DayOf(Head(queue)) < DayOf(now)
      /\ UNCHANGED <<now, cd, starting, feed, todo, journal, shadowRows, rows, faults, gateFed>>
  BY DEF IgnoreStaleBar, dbVars, budgetVars, history
<1>3. PICK day : day = cd
  OBVIOUS
<1>4. Course(day, day) /\ (Excused => Excused')
  BY <1>2, CourseStays DEF Excused
<1>5. BarsInOrder' /\ FedLater' /\ FedInOrder' /\ DayInOrder'
  BY <1>2, <1>3, <1>4, TakenKeeps
<1>6. ReplayFits'
  <2>1. now \in Nat /\ Head(queue) \in Nat
    <3>1. Head(queue) \in 1..Horizon /\ now \in Nat
      BY <1>1, <1>2, TimeIs
    <3>2. QED
      BY <3>1, Bars
  <2>2. DayOf(now) # 1
    BY <1>2, <2>1, SessionDay
  <2>3. QED
    BY <1>2, <2>2 DEF ReplayFits
<1>7. DayEnds'
  BY <1>2, EndsStay DEF Ending
<1>8. QED
  BY <1>5, <1>6, <1>7 DEF Pass

\* Every bar was fed: on to the flush.
LEMMA FedPass == PassInv /\ IndInv' /\ Fed => Pass'
<1> SUFFICES ASSUME PassInv, IndInv', Fed PROVE Pass'
  OBVIOUS
<1>1. /\ pc = "feed" /\ feed = <<>> /\ pc' = "flush"
      /\ UNCHANGED <<now, cd, last, starting, queue, feed, todo, journal, shadowRows, rows, faults, gateFed>>
  BY DEF Fed, dbVars, budgetVars, history
<1>2. PICK day : day = cd
  OBVIOUS
<1>3. Course(day, day) /\ (Excused => Excused')
  BY <1>1, CourseStays DEF Excused
<1>4. BarsInOrder' /\ FedLater' /\ FedInOrder' /\ DayInOrder'
  <2>1. /\ pc \in InBar <=> pc' \in InBar
        /\ pc' \notin Closing /\ "subscribers" \notin {pc, pc'} /\ pc' \notin {"feed", "place"}
        /\ pc' \notin {"down", "idle", "fills", "fillsFlush"}
    BY <1>1 DEF InBar, Closing, Ending
  <2>2. QED
    BY <1>1, <1>2, <1>3, <2>1, StayKeeps
<1>5. ReplayFits'
  <2>1. \A e \in Narrative : Noting(e)' = Noting(e)
    BY <1>1, <1>2, NotingStays
  <2>2. pc' \in InBar \cup {"bar"} /\ pc' # "verdict"
    BY <1>1 DEF InBar
  <2>3. QED
    BY <1>1, <1>2, <1>3, <2>1, <2>2, ReplayStays
<1>6. DayEnds'
  BY <1>1, EndsStay DEF Ending
<1>7. QED
  BY <1>4, <1>5, <1>6 DEF Pass

\* Every OrderManager was offered the candidate: the next bar is fed.
LEMMA PlacedPass == PassInv /\ IndInv' /\ Placed => Pass'
<1> SUFFICES ASSUME PassInv, IndInv', Placed PROVE Pass'
  OBVIOUS
<1>1. TypeOK /\ BarsInOrder /\ FedLater /\ FedInOrder /\ DayInOrder /\ PlacesFit
  BY DEF PassInv, IndInv
<1>2. /\ pc = "place" /\ pc' = "feed" /\ feed' = Tail(feed)
      /\ UNCHANGED <<now, cd, last, starting, queue, todo, journal, shadowRows, rows, faults, gateFed>>
  BY DEF Placed, dbVars, budgetVars, history
<1>3. feed \in Seq(Session) /\ feed # <<>>
  BY <1>1, <1>2 DEF TypeOK, PlacesFit
<1>4. /\ DOMAIN feed = 1..Len(feed) /\ Len(feed) \in Nat /\ Head(feed) = feed[1]
      /\ DOMAIN feed' = 1..(Len(feed) - 1)
      /\ \A i \in 1..(Len(feed) - 1) : feed'[i] = feed[i + 1]
  BY <1>2, <1>3
<1>5. \A i \in 1..(Len(feed) - 1) : i + 1 \in DOMAIN feed /\ i + 1 # 1
  BY <1>4
<1>6. BarsInOrder'
  BY <1>1, <1>2 DEF BarsInOrder, InBar
<1>7. FedLater'
  <2>1. SUFFICES ASSUME cd # NoDay, cd.watching, NEW i \in DOMAIN cd.bars, ~(cd.fed[cd.bars[i]] > 0)
                 PROVE  \E j \in DOMAIN feed' : feed'[j] = cd.bars[i]
    BY <1>2 DEF FedLater
  <2>2. PICK k \in DOMAIN feed : feed[k] = cd.bars[i]
    BY <1>1, <2>1 DEF FedLater
  <2>3. k # 1
    BY <1>1, <1>2, <1>4, <2>1, <2>2 DEF BarsInOrder
  <2>4. k - 1 \in DOMAIN feed' /\ feed'[k - 1] = feed[k]
    <3>1. k \in Nat /\ k - 1 \in 1..(Len(feed) - 1) /\ (k - 1) + 1 = k
      BY <1>4, <2>2, <2>3
    <3>2. QED
      BY <1>4, <3>1
  <2>5. QED
    BY <2>2, <2>4
<1>8. Seen' = Seen
  BY <1>2 DEF Seen, InBar
<1>9. FedInOrder'
  <2>1. SUFFICES ASSUME faults = 0 \/ starting, cd # NoDay PROVE FedInOrder'
    BY <1>2 DEF FedInOrder
  <2>2. /\ \A i \in DOMAIN feed : feed[i] <= Seen /\ (pc = "feed" \/ i # 1 => cd.fed[feed[i]] = 0)
        /\ \A i, j \in DOMAIN feed : i < j => feed[i] < feed[j]
    BY <1>1, <2>1 DEF FedInOrder
  <2>3. \A i \in DOMAIN feed' : feed'[i] <= Seen /\ cd.fed[feed'[i]] = 0
    BY <1>4, <1>5, <2>2
  <2>4. \A i, j \in DOMAIN feed' : i < j => feed'[i] < feed'[j]
    <3>1. SUFFICES ASSUME NEW i \in 1..(Len(feed) - 1), NEW j \in 1..(Len(feed) - 1), i < j
                   PROVE  feed[i + 1] < feed[j + 1]
      BY <1>4
    <3>2. i + 1 \in DOMAIN feed /\ j + 1 \in DOMAIN feed /\ i + 1 < j + 1
      BY <1>4, <3>1
    <3>3. QED
      BY <2>2, <3>2
  <2>5. /\ \A i \in DOMAIN cd.bars : cd.bars[i] <= Seen
        /\ \A i, j \in DOMAIN cd.bars : i < j => cd.bars[i] < cd.bars[j]
        /\ \A b \in Session : cd.fed[b] <= 1 /\ (cd.fed[b] > 0 => cd.watching /\ b <= Seen)
        /\ cd.tradeable => cd.watching
    BY <1>1, <1>2, <2>1 DEF FedInOrder
  <2>6. cd' = cd /\ pc' # "subscribers"
    BY <1>2
  <2>7. cd.watching
    BY <1>1, <1>2 DEF PlacesFit
  <2>8. QED
    BY <1>2, <1>8, <2>3, <2>4, <2>5, <2>6, <2>7 DEF FedInOrder
<1>10. DayInOrder'
  BY <1>1, <1>2 DEF DayInOrder, Closing, Ending
<1>11. ReplayFits'
  <2>1. PICK day : day = cd
    OBVIOUS
  <2>2. \A e \in Narrative : Noting(e)' = Noting(e)
    BY <1>2, <2>1, NotingStays
  <2>3. pc' \in InBar \cup {"bar"} /\ pc' # "verdict" /\ Course(day, day)
    BY <1>2, CourseStays DEF InBar
  <2>4. QED
    BY <1>2, <2>1, <2>2, <2>3, ReplayStays
<1>12. DayEnds'
  BY <1>2, EndsStay DEF Ending
<1>13. QED
  BY <1>6, <1>7, <1>9, <1>10, <1>11, <1>12 DEF Pass

\* The day's own first bar is no bar of the next day.
LEMMA RollOverPass == PassInv /\ IndInv' /\ RollOver => Pass'
<1> SUFFICES ASSUME PassInv, IndInv', RollOver PROVE Pass'
  OBVIOUS
<1>1. TypeOK /\ BarsInOrder /\ DayInOrder
  BY DEF PassInv, IndInv
<1>2. /\ queue # <<>> /\ cd # NoDay /\ DayOf(Head(queue)) # cd.date /\ pc = "bar" /\ pc' = "closeFlush"
      /\ UNCHANGED <<now, last, starting, queue, feed, todo, journal, shadowRows, rows, faults, gateFed>>
  BY DEF RollOver, dbVars, budgetVars, history
<1>3. PICK day \in DayRecord : day = cd
  BY <1>1, <1>2 DEF TypeOK
<1>4. PICK scratch \in BOOLEAN :
         scratch = (day.watching /\ day.bars # <<>> /\ day.offered \cap Fills # {} /\ ~day.scratched)
  OBVIOUS
<1>5. PICK next : next = IF scratch
                         THEN [day EXCEPT !.scratched = TRUE, !.events = Append(@, Event("scratch"))]
                         ELSE day
  OBVIOUS
<1>6. cd' = next
  BY <1>3, <1>4, <1>5 DEF RollOver
<1>7. /\ next.date = day.date /\ next.bars = day.bars /\ next.fed = day.fed
      /\ next.watching = day.watching /\ next.decided = day.decided
      /\ next.tradeable = day.tradeable
  BY <1>5 DEF DayRecord
<1>8. next # NoDay /\ day # NoDay /\ Course(day, next)
  BY <1>7, CourseIs
<1>9. Excused => Excused'
  BY <1>2 DEF Excused
<1>10. /\ Head(queue) = queue[1] /\ 1 \in DOMAIN queue /\ Head(queue) \in 1..Horizon /\ now \in Nat
       /\ now <= Horizon /\ Head(queue) <= now
  <2>1. /\ Head(queue) = queue[1] /\ 1 \in DOMAIN queue /\ Head(queue) \in 1..Horizon /\ now \in Nat
        /\ now <= Horizon
    BY <1>1, <1>2, TimeIs
  <2>2. QED
    BY <1>1, <2>1 DEF BarsInOrder
<1>11. day.date = 1 /\ Head(queue) = Horizon
  <2>1. day.date # 2
    BY <1>1, <1>2, <1>3, <1>8, <1>10, SessionDay DEF DayInOrder
  <2>2. day.date = 1 /\ DayOf(Head(queue)) # 1
    BY <1>2, <1>3, <2>1, RecordIs
  <2>3. QED
    BY <1>10, <2>2, SessionDay, Bars
<1>12. DayOf(now) = 2
  <2>1. now = Horizon
    BY <1>10, <1>11
  <2>2. QED
    BY <2>1, SessionDay
<1>13. BarsInOrder' /\ FedLater' /\ FedInOrder' /\ DayInOrder'
  <2>1. /\ pc \in InBar <=> pc' \in InBar
        /\ "subscribers" \notin {pc, pc'} /\ pc' \notin {"feed", "place"}
        /\ pc' \notin {"down", "idle", "fills", "fillsFlush"}
    BY <1>2 DEF InBar
  <2>2. feed = <<>>
    BY <1>1, <1>2 DEF BarsInOrder
  <2>3. QED
    BY <1>2, <1>3, <1>6, <1>8, <1>9, <1>11, <2>1, <2>2, StayKeeps
<1>14. ReplayFits'
  BY <1>2, <1>12 DEF ReplayFits
<1>15. DayEnds'
  BY <1>2, <1>3, <1>6, <1>7, EndsStay DEF Ending
<1>16. QED
  BY <1>13, <1>14, <1>15 DEF Pass

\* A step of the fills or of the day's end: bars, feed and journal stay.
LEMMA AsidePass ==
  ASSUME PassInv, IndInv', UNCHANGED <<now, last, starting, queue, feed>>, NEW day, NEW next,
         day = cd, cd' = next, Course(day, next), Excused => Excused',
         \/ pc = "fills" /\ pc' = "fillsFlush"
         \/ pc = "fillsFlush" /\ pc' = "idle"
         \/ pc \in Closing /\ pc' \in Closing,
         DayEnds'
  PROVE  Pass'
<1>1. BarsInOrder /\ DayInOrder
  BY DEF PassInv
<1>2. /\ pc \in InBar <=> pc' \in InBar
      /\ "subscribers" \notin {pc, pc'} /\ pc' \notin {"feed", "place"}
      /\ pc \notin {"feed", "place"} /\ pc \notin InBar \cup {"bar"}
  BY DEF InBar, Closing, Ending
<1>3. feed = <<>>
  BY <1>1, <1>2 DEF BarsInOrder
<1>4. pc' \in {"down", "idle", "fills", "fillsFlush"} => queue = <<>>
  BY <1>1 DEF BarsInOrder, Closing, Ending
<1>5. pc' \in Closing => day.date = 1 /\ Head(queue) = Horizon
  BY <1>1 DEF DayInOrder, Closing, Ending
<1>6. BarsInOrder' /\ FedLater' /\ FedInOrder' /\ DayInOrder'
  BY <1>2, <1>3, <1>4, <1>5, StayKeeps
<1>7. ReplayFits'
  BY <1>2, ReplayOver
<1>8. QED
  BY <1>6, <1>7 DEF Pass

\* The fills of the poll.
LEMMA CheckFillsPass == PassInv /\ IndInv' /\ CheckFills => Pass'
<1> SUFFICES ASSUME PassInv, IndInv', CheckFills PROVE Pass'
  OBVIOUS
<1>1. TypeOK /\ PlacesFit
  BY DEF PassInv, IndInv
<1>2. /\ pc = "fills" /\ pc' = "fillsFlush"
      /\ UNCHANGED <<now, last, starting, queue, feed, shadowRows, rows, faults, gateFed>>
  BY DEF CheckFills, dbVars, budgetVars, history
<1>3. PICK day \in DayRecord : day = cd
  <2>1. pc \in WithDay
    BY <1>2 DEF WithDay, Places
  <2>2. QED
    BY <1>1, <2>1 DEF PlacesFit, TypeOK
<1>4. PICK filled \in SUBSET {u \in cd.managed \ cd.won : \E s \in Setups : cd.known[u][s] > 0} :
        cd' = [cd EXCEPT
                    !.won = @ \cup filled,
                    !.orders = @ \/ filled # {},
                    !.known = [u \in Users |->
                        IF u \in filled THEN [s \in Setups |-> 0] ELSE @[u]]]
  BY Zenon DEF CheckFills
<1>5. PICK won, orders, known :
         /\ won = day.won \cup filled /\ orders = (day.orders \/ filled # {})
         /\ known = [u \in Users |-> IF u \in filled THEN [s \in Setups |-> 0] ELSE day.known[u]]
  OBVIOUS
<1>6. PICK next : next = [day EXCEPT !.won = won, !.orders = orders, !.known = known]
  OBVIOUS
<1>7. cd' = next
  BY <1>3, <1>4, <1>5, <1>6, Zenon
<1>8. next # NoDay /\ day # NoDay /\ Course(day, next) /\ next.date = day.date
  <2>1. /\ next.date = day.date /\ next.bars = day.bars /\ next.fed = day.fed
        /\ next.watching = day.watching /\ next.decided = day.decided
        /\ next.tradeable = day.tradeable
    BY <1>6 DEF DayRecord
  <2>2. QED
    BY <2>1, CourseIs
<1>9. Excused => Excused'
  BY <1>2 DEF Excused
<1>10. DayEnds'
  BY <1>2, <1>3, <1>7, <1>8, EndsStay DEF Ending
<1>11. QED
  BY <1>2, <1>3, <1>7, <1>8, <1>9, <1>10, AsidePass

\* An order is placed, or its call fails.
LEMMA PlaceOrderPass ==
  ASSUME PassInv, IndInv', NEW u \in Users, PlaceOrder(u)
  PROVE  Pass'
<1>1. TypeOK /\ PlacesFit
  BY DEF PassInv, IndInv
<1>2. /\ pc = "place" /\ pc' = "place"
      /\ UNCHANGED <<now, last, starting, queue, feed, journal, shadowRows, rows, gateFed>>
      /\ Fault \/ UNCHANGED faults
  BY DEF PlaceOrder, dbVars
<1>3. PICK day \in DayRecord : day = cd
  <2>1. pc \in WithDay
    BY <1>2 DEF WithDay, Places
  <2>2. QED
    BY <1>1, <2>1 DEF PlacesFit, TypeOK
<1>4. \/ cd' = [cd EXCEPT !.known[u][Head(feed)] = @ + 1, !.orders = TRUE]
      \/ cd' = [cd EXCEPT !.orders = TRUE]
  BY DEF PlaceOrder
<1>5. PICK next : cd' = next
  OBVIOUS
<1>6. /\ next.date = day.date /\ next.bars = day.bars /\ next.fed = day.fed
      /\ next.watching = day.watching /\ next.decided = day.decided
      /\ next.tradeable = day.tradeable /\ next.events = day.events
  <2>1. CASE next = [day EXCEPT !.known[u][Head(feed)] = @ + 1, !.orders = TRUE]
    BY <2>1 DEF DayRecord
  <2>2. CASE next = [day EXCEPT !.orders = TRUE]
    BY <2>2 DEF DayRecord
  <2>3. QED
    BY <1>3, <1>4, <1>5, <2>1, <2>2
<1>7. day # NoDay /\ next # NoDay /\ Course(day, next)
  BY <1>6, CourseIs
<1>8. (Excused => Excused') /\ (faults' = 0 => faults = 0)
  BY <1>1, <1>2, FaultCounts, TimeIs DEF Excused
<1>9. BarsInOrder' /\ FedLater' /\ FedInOrder' /\ DayInOrder'
  <2>1. /\ pc \in InBar <=> pc' \in InBar
        /\ pc' \notin Closing /\ "subscribers" \notin {pc, pc'} /\ pc' \in {"feed", "place"}
        /\ pc' \notin {"down", "idle", "fills", "fillsFlush"} /\ pc' # "feed"
    BY <1>2 DEF InBar, Closing, Ending
  <2>2. QED
    BY <1>2, <1>3, <1>5, <1>7, <1>8, <2>1, StayKeeps
<1>10. ReplayFits'
  <2>1. \A e \in Narrative : Noting(e)' = Noting(e)
    BY <1>2, <1>3, <1>5, <1>6, <1>7, NotingStays
  <2>2. pc' \in InBar \cup {"bar"} /\ pc' # "verdict"
    BY <1>2 DEF InBar
  <2>3. QED
    BY <1>2, <1>3, <1>5, <1>7, <2>1, <2>2, ReplayStays
<1>11. DayEnds'
  BY <1>2, <1>3, <1>5, <1>6, <1>7, <1>8, EndsStay DEF Ending
<1>12. QED
  BY <1>9, <1>10, <1>11 DEF Pass

\* The rows are written, and every OrderManager cancelled: on with the day's end.
LEMMA RowsWrittenPass == PassInv /\ IndInv' /\ (RowsWritten \/ Cancelled) => Pass'
<1> SUFFICES ASSUME PassInv, IndInv', RowsWritten \/ Cancelled PROVE Pass'
  OBVIOUS
<1>1. /\ UNCHANGED <<now, cd, last, starting, queue, feed, shadowRows, rows, faults, gateFed>>
      /\ \/ pc = "rows" /\ pc' = "cancel" /\ todo = {}
         \/ pc = "cancel" /\ pc' = "cancelFlush"
  BY DEF RowsWritten, Cancelled, dbVars, budgetVars, history
<1>2. PICK day : day = cd
  OBVIOUS
<1>3. Course(day, day) /\ (Excused => Excused')
  BY <1>1, CourseStays DEF Excused
<1>4. DayEnds'
  BY <1>1, EndsStay
<1>5. pc \in Closing /\ pc' \in Closing
  BY <1>1 DEF Closing, Ending
<1>6. QED
  BY <1>1, <1>2, <1>3, <1>4, <1>5, AsidePass

\* The orders of one subscriber are cancelled, but for one whose call failed.
LEMMA CancelAtDayEndPass ==
  ASSUME PassInv, IndInv', NEW u \in Users, CancelAtDayEnd(u)
  PROVE  Pass'
<1>1. TypeOK /\ PlacesFit
  BY DEF PassInv, IndInv
<1>2. /\ pc = "cancel" /\ pc' = "cancel"
      /\ UNCHANGED <<now, last, starting, queue, feed, shadowRows, rows, gateFed>>
      /\ Fault \/ UNCHANGED faults
  BY DEF CancelAtDayEnd, dbVars
<1>3. PICK day \in DayRecord : day = cd
  <2>1. pc \in WithDay
    BY <1>2 DEF WithDay, Places
  <2>2. QED
    BY <1>1, <2>1 DEF PlacesFit, TypeOK
<1>4. PICK failed \in {{}} \cup {{s} : s \in {t \in Setups : cd.known[u][t] > 0}} :
         cd' = [cd EXCEPT
               !.known[u] = [s \in Setups |-> IF s \in failed THEN @[s] ELSE 0],
               !.cancelled = IF {s \in Setups : cd.known[u][s] > 0} = {} THEN @ ELSE @ \cup {u},
               !.orders = @ \/ {s \in Setups : cd.known[u][s] > 0} # {} \/ u \in cd.cancelled]
  BY Zenon DEF CancelAtDayEnd
<1>5. PICK known, cancelled, orders :
         /\ known = [day.known EXCEPT ![u] = [s \in Setups |-> IF s \in failed THEN day.known[u][s] ELSE 0]]
         /\ cancelled = IF {s \in Setups : day.known[u][s] > 0} = {} THEN day.cancelled
                        ELSE day.cancelled \cup {u}
         /\ orders = (day.orders \/ {s \in Setups : day.known[u][s] > 0} # {} \/ u \in day.cancelled)
  OBVIOUS
<1>6. PICK next : next = [day EXCEPT !.known = known, !.cancelled = cancelled, !.orders = orders]
  OBVIOUS
<1>7. cd' = next
  BY <1>3, <1>4, <1>5, <1>6, Zenon
<1>8. next # NoDay /\ day # NoDay /\ Course(day, next) /\ next.date = day.date
  <2>1. /\ next.date = day.date /\ next.bars = day.bars /\ next.fed = day.fed
        /\ next.watching = day.watching /\ next.decided = day.decided
        /\ next.tradeable = day.tradeable
    BY <1>6 DEF DayRecord
  <2>2. QED
    BY <2>1, CourseIs
<1>9. (Excused => Excused') /\ (faults' = 0 => faults = 0)
  BY <1>1, <1>2, FaultCounts, TimeIs DEF Excused
<1>10. DayEnds'
  BY <1>2, <1>3, <1>7, <1>8, <1>9, EndsStay
<1>11. pc \in Closing /\ pc' \in Closing
  BY <1>2 DEF Closing, Ending
<1>12. QED
  BY <1>2, <1>3, <1>7, <1>8, <1>9, <1>10, <1>11, AsidePass

\* While the day is being closed it is not over, and its clock has struck.
LEMMA NotOver ==
  ASSUME PassInv, pc \in Closing
  PROVE  /\ ~Over /\ now = Horizon /\ cd \in DayRecord /\ cd # NoDay /\ cd.date = 1 /\ queue # <<>>
         /\ Head(queue) = Horizon
<1>1. TypeOK /\ BarsInOrder /\ DayInOrder /\ PlacesFit
  BY DEF PassInv, IndInv
<1>2. cd # NoDay /\ queue # <<>>
  <2>1. pc \in WithDay /\ pc \in WithBar
    BY DEF WithBar, WithDay, Places, Closing, Ending
  <2>2. QED
    BY <1>1, <2>1 DEF PlacesFit
<1>3. cd.date = 1 /\ Head(queue) = Horizon
  BY <1>1 DEF DayInOrder
<1>4. Head(queue) = queue[1] /\ 1 \in DOMAIN queue /\ now \in Nat /\ now <= Horizon
  BY <1>1, <1>2, TimeIs
<1>5. queue[1] <= now
  BY <1>1, <1>4 DEF BarsInOrder
<1>6. now = Horizon
  BY <1>3, <1>4, <1>5, Bars
<1>7. ~Over
  BY <1>2, <1>3 DEF Over
<1>8. QED
  BY <1>1, <1>2, <1>3, <1>6, <1>7 DEF TypeOK

\* The row of one subscriber: it has none yet.
LEMMA WriteSubscriberRowPass ==
  ASSUME PassInv, IndInv', NEW u \in Users, WriteSubscriberRow(u)
  PROVE  Pass'
<1>1. TypeOK /\ DayEnds
  BY DEF PassInv, IndInv
<1>2. /\ pc = "rows" /\ pc' = "rows" /\ u \in todo /\ todo' = todo \ {u}
      /\ UNCHANGED <<now, cd, last, starting, queue, feed, shadowRows, gateFed>>
      /\ Fault \/ UNCHANGED faults
      /\ rows' \in {rows, [rows EXCEPT ![u] = @ + 1]}
  BY DEF WriteSubscriberRow
<1>3. (Excused => Excused') /\ (faults' = 0 => faults = 0)
  BY <1>1, <1>2, FaultCounts, TimeIs DEF Excused
<1>4. pc \in Closing /\ pc' \in Closing
  BY <1>2 DEF Closing
<1>5. ~Over /\ rows \in [Users -> Nat]
  BY <1>1, <1>4, NotOver DEF TypeOK
<1>6. DayEnds'
  <2>1. SUFFICES ASSUME faults' = 0 PROVE DayEnds'
    BY DEF DayEnds
  <2>2. /\ shadowRows <= 1 /\ gateFed <= 1 /\ \A v \in Users : rows[v] <= 1
        /\ ~(gateFed > 0)
        /\ \A v \in Users : rows[v] > 0 => v \notin todo
    BY <1>1, <1>2, <1>3, <1>5, <2>1 DEF DayEnds, EndedOnce, Ending
  <2>3. rows[u] = 0
    BY <1>2, <1>5, <2>2
  <2>4. \A v \in Users : rows'[v] <= 1 /\ (rows'[v] > 0 => v \notin todo')
    BY <1>2, <1>5, <2>2, <2>3
  <2>5. QED
    BY <1>2, <2>2, <2>4 DEF DayEnds, EndedOnce
<1>7. PICK day : day = cd
  OBVIOUS
<1>8. Course(day, day)
  BY CourseStays
<1>9. QED
  BY <1>2, <1>3, <1>4, <1>6, <1>7, <1>8, AsidePass

\* The shadow row: there is none yet.
LEMMA WriteShadowRowPass == PassInv /\ IndInv' /\ WriteShadowRow => Pass'
<1> SUFFICES ASSUME PassInv, IndInv', WriteShadowRow PROVE Pass'
  OBVIOUS
<1>1. TypeOK /\ DayEnds
  BY DEF PassInv, IndInv
<1>2. /\ pc = "shadowRow" /\ UNCHANGED <<now, rows, gateFed>>
      /\ \/ /\ shadowRows' = shadowRows + 1 /\ pc' = "rows"
            /\ UNCHANGED <<cd, last, starting, queue, feed, faults>>
         \/ Fault /\ Raise(cd)
  BY DEF WriteShadowRow
<1>3. pc \in Closing
  BY <1>2 DEF Closing
<1>4. CASE Fault /\ Raise(cd)
  BY <1>1, <1>2, <1>3, <1>4, FaultCounts, RaisePass
<1>5. CASE /\ shadowRows' = shadowRows + 1 /\ pc' = "rows"
           /\ UNCHANGED <<cd, last, starting, queue, feed, faults>>
  <2>1. PICK day : day = cd
    OBVIOUS
  <2>2. Course(day, day) /\ (Excused => Excused')
    BY <1>5, CourseStays DEF Excused
  <2>3. ~Over /\ shadowRows \in Nat
    BY <1>1, <1>3, NotOver DEF TypeOK
  <2>4. DayEnds'
    <3>1. SUFFICES ASSUME faults' = 0 PROVE DayEnds'
      BY DEF DayEnds
    <3>2. shadowRows = 0 /\ gateFed <= 1 /\ ~(gateFed > 0) /\ \A v \in Users : rows[v] <= 1 /\ ~(rows[v] > 0)
      BY <1>1, <1>2, <1>5, <2>3, <3>1 DEF DayEnds, EndedOnce, Ending
    <3>3. QED
      BY <1>2, <1>5, <3>2 DEF DayEnds, EndedOnce
  <2>5. pc' \in Closing
    BY <1>5 DEF Closing
  <2>6. QED
    BY <1>2, <1>3, <1>5, <2>1, <2>2, <2>4, <2>5, AsidePass
<1>6. QED
  BY <1>2, <1>4, <1>5

\* The record of the next day, at its first bar.
LEMMA NewDayPass ==
  ASSUME PassInv, IndInv', pc \in {"gate", "swings"}, pc' = "bar", cd' = CurrentDay(DayOf(Head(queue))),
         UNCHANGED <<now, last, starting, queue, feed>>, DayEnds'
  PROVE  Pass'
<1>1. TypeOK /\ BarsInOrder
  BY DEF PassInv, IndInv
<1>2. pc \in Closing /\ pc \notin InBar \cup {"bar", "feed", "place"}
  BY DEF Closing, Ending, InBar
<1>3. queue # <<>> /\ Head(queue) = Horizon /\ now = Horizon
  BY <1>2, NotOver
<1>4. cd' = CurrentDay(2)
  BY <1>3, SessionDay
<1>5. PICK next : next = cd'
  OBVIOUS
<1>6. /\ next \in DayRecord /\ next # NoDay /\ next.date = 2 /\ next.bars = <<>>
      /\ ~next.watching /\ ~next.tradeable /\ next.fed = [b \in Session |-> 0]
  BY <1>4, <1>5, FreshDay
<1>7. feed = <<>> /\ feed' = <<>>
  BY <1>1, <1>2 DEF BarsInOrder
<1>8. BarsInOrder'
  BY <1>1, <1>7 DEF BarsInOrder, InBar
<1>9. FedLater' /\ FedInOrder'
  BY <1>5, <1>6, <1>7 DEF FedLater, FedInOrder
<1>10. \A i \in DOMAIN queue : queue[i] = Horizon
  <2>1. SUFFICES ASSUME NEW i \in DOMAIN queue PROVE queue[i] = Horizon
    OBVIOUS
  <2>2. queue[1] = Horizon /\ 1 \in DOMAIN queue /\ queue[i] \in 1..Horizon /\ i \in Nat /\ 0 < i
    BY <1>1, <1>3, TimeIs
  <2>3. 1 < i => queue[1] < queue[i]
    BY <1>1, <2>2 DEF BarsInOrder
  <2>4. QED
    BY <2>2, <2>3, Bars
<1>11. DayInOrder'
  BY <1>3, <1>10 DEF DayInOrder, Closing, Ending
<1>12. ReplayFits'
  BY <1>2, ReplayOver
<1>13. QED
  BY <1>8, <1>9, <1>11, <1>12 DEF Pass

\* The gate is told of the day: it was not before.
LEMMA CloseDayAtGatePass == PassInv /\ IndInv' /\ CloseDayAtGate => Pass'
<1> SUFFICES ASSUME PassInv, IndInv', CloseDayAtGate PROVE Pass'
  OBVIOUS
<1>1. TypeOK /\ DayEnds
  BY DEF PassInv, IndInv
<1>2. /\ pc = "gate" /\ gateFed' = gateFed + 1
      /\ UNCHANGED <<now, last, starting, queue, feed, shadowRows, rows, faults>>
      /\ \/ pc' = "swings" /\ UNCHANGED cd
         \/ pc' = "bar" /\ cd' = CurrentDay(DayOf(Head(queue)))
  BY DEF CloseDayAtGate, dbVars, budgetVars
<1>3. pc \in Closing
  BY <1>2 DEF Closing, Ending
<1>4. ~Over /\ now = Horizon /\ Head(queue) = Horizon /\ gateFed \in Nat
  BY <1>1, <1>3, NotOver DEF TypeOK
<1>5. \/ pc' = "swings"
      \/ Over'
  <2>1. CurrentDay(2).date = 2
    BY FreshDay
  <2>2. QED
    BY <1>2, <1>4, <2>1, SessionDay DEF Over
<1>6. DayEnds'
  <2>1. SUFFICES ASSUME faults' = 0 PROVE DayEnds'
    BY DEF DayEnds
  <2>2. /\ shadowRows <= 1 /\ gateFed = 0 /\ \A v \in Users : rows[v] <= 1
    BY <1>1, <1>2, <1>4, <2>1 DEF DayEnds, EndedOnce
  <2>3. gateFed' <= 1
    BY <1>2, <2>2
  <2>4. QED
    BY <1>2, <1>5, <2>2, <2>3 DEF DayEnds, EndedOnce, Ending
<1>7. CASE pc' = "swings" /\ UNCHANGED cd
  <2>1. PICK day : day = cd
    OBVIOUS
  <2>2. Course(day, day) /\ (Excused => Excused') /\ pc' \in Closing
    BY <1>2, <1>7, CourseStays DEF Excused, Closing, Ending
  <2>3. QED
    BY <1>2, <1>3, <1>6, <1>7, <2>1, <2>2, AsidePass
<1>8. CASE pc' = "bar" /\ cd' = CurrentDay(DayOf(Head(queue)))
  BY <1>2, <1>6, <1>8, NewDayPass
<1>9. QED
  BY <1>2, <1>7, <1>8

\* The swings are journaled, and the next day begins.
LEMMA WriteSwingsPass == PassInv /\ IndInv' /\ WriteSwings => Pass'
<1> SUFFICES ASSUME PassInv, IndInv', WriteSwings PROVE Pass'
  OBVIOUS
<1>1. TypeOK /\ DayEnds
  BY DEF PassInv, IndInv
<1>2. /\ pc = "swings" /\ UNCHANGED <<now, shadowRows, rows, gateFed>>
      /\ \/ /\ cd' = CurrentDay(DayOf(Head(queue))) /\ pc' = "bar"
            /\ UNCHANGED <<last, starting, queue, feed, faults>>
         \/ Fault /\ Raise(cd)
  BY DEF WriteSwings
<1>3. pc \in Closing
  BY <1>2 DEF Closing, Ending
<1>4. CASE Fault /\ Raise(cd)
  BY <1>1, <1>2, <1>3, <1>4, FaultCounts, RaisePass
<1>5. CASE /\ cd' = CurrentDay(DayOf(Head(queue))) /\ pc' = "bar"
           /\ UNCHANGED <<last, starting, queue, feed, faults>>
  <2>1. now = Horizon /\ Head(queue) = Horizon
    BY <1>3, NotOver
  <2>2. Over'
    <3>1. CurrentDay(2).date = 2
      BY FreshDay
    <3>2. QED
      BY <1>2, <1>5, <2>1, <3>1, SessionDay DEF Over
  <2>3. DayEnds'
    BY <1>1, <1>2, <1>5, <2>2 DEF DayEnds, EndedOnce
  <2>4. QED
    BY <1>2, <1>5, <2>3, NewDayPass
<1>6. QED
  BY <1>2, <1>4, <1>5

-----------------------------------------------------------------------------
\* One more event is counted once.
LEMMA CountAppend ==
  ASSUME NEW seq \in Seq(Narrative), NEW x \in Narrative, NEW e
  PROVE  Count(Append(seq, x), e) = Count(seq, e) + IF e = x THEN 1 ELSE 0
<1>1. PICK n \in Nat : n = Len(seq) /\ DOMAIN seq = 1..n
  OBVIOUS
<1>2. PICK longer : longer = Append(seq, x)
  OBVIOUS
<1>3. /\ DOMAIN longer = 1..(n + 1) /\ longer[n + 1] = x
      /\ \A i \in 1..n : longer[i] = seq[i]
  BY <1>1, <1>2
<1>4. PICK S : S = {i \in DOMAIN seq : seq[i] = e}
  OBVIOUS
<1>5. PICK T : T = {i \in DOMAIN longer : longer[i] = e}
  OBVIOUS
<1>6. IsFiniteSet(S) /\ n + 1 \notin S
  <2>1. IsFiniteSet(1..n) /\ S \subseteq 1..n
    BY <1>1, <1>4, FS_Interval
  <2>2. IsFiniteSet(S)
    BY <2>1, FS_Subset
  <2>3. n + 1 \notin 1..n
    OBVIOUS
  <2>4. QED
    BY <2>1, <2>2, <2>3
<1>7. Cardinality(S) \in Nat
  BY <1>6, FS_CardinalityType
<1>8. CASE e = x
  <2>1. T = S \cup {n + 1}
    BY <1>1, <1>3, <1>4, <1>5, <1>8
  <2>2. Cardinality(T) = Cardinality(S) + 1
    BY <1>6, <2>1, FS_AddElement
  <2>3. QED
    BY <1>2, <1>4, <1>5, <1>8, <2>2 DEF Count
<1>9. CASE e # x
  <2>1. T = S
    BY <1>1, <1>3, <1>4, <1>5, <1>9
  <2>2. Cardinality(T) = Cardinality(S) + 0
    BY <1>7, <2>1
  <2>3. QED
    BY <1>2, <1>4, <1>5, <1>9, <2>2 DEF Count
<1>10. QED
  BY <1>8, <1>9

\* Nothing is counted in no events, and one event once.
LEMMA CountFew ==
  /\ \A e : Count(<<>>, e) = 0
  /\ \A x \in Narrative : \A e : Count(<<x>>, e) = IF e = x THEN 1 ELSE 0
<1>1. ASSUME NEW e PROVE Count(<<>>, e) = 0
  <2>1. PICK seq \in Seq(Narrative) : seq = <<>> /\ DOMAIN seq = {}
    <3>1. <<>> \in Seq(Narrative) /\ DOMAIN <<>> = {}
      OBVIOUS
    <3>2. QED
      BY <3>1
  <2>2. {i \in DOMAIN seq : seq[i] = e} = {}
    BY <2>1
  <2>3. Count(seq, e) = 0
    BY <2>2, FS_EmptySet DEF Count
  <2>4. QED
    BY <2>1, <2>3
<1>2. ASSUME NEW x \in Narrative, NEW e PROVE Count(<<x>>, e) = IF e = x THEN 1 ELSE 0
  <2>1. PICK seq \in Seq(Narrative) : seq = <<>>
    <3>1. <<>> \in Seq(Narrative)
      OBVIOUS
    <3>2. QED
      BY <3>1
  <2>2. Count(Append(seq, x), e) = Count(seq, e) + IF e = x THEN 1 ELSE 0
    BY CountAppend
  <2>3. Append(seq, x) = <<x>>
    BY <2>1
  <2>4. Count(seq, e) = 0
    BY <1>1, <2>1
  <2>5. Count(<<x>>, e) = 0 + IF e = x THEN 1 ELSE 0
    BY <2>2, <2>3, <2>4, Zenon
  <2>6. QED
    BY <2>5
<1>3. QED
  BY <1>1, <1>2

\* What is noted of an event, by where it is.
LEMMA NotingIs ==
  ASSUME TypeOK, NEW e \in Narrative
  PROVE  /\ Noting(e) \in Nat /\ journal[e] \in Nat /\ journal[e] <= Noting(e)
         /\ cd = NoDay => Noting(e) = journal[e]
         /\ \A day \in DayRecord : cd = day => Noting(e) = journal[e] + Count(day.events, e)
<1>1. journal[e] \in Nat
  BY DEF TypeOK
<1>2. CASE cd = NoDay
  <2>1. Noting(e) = journal[e] + 0
    BY <1>2 DEF Noting
  <2>2. Noting(e) = journal[e]
    BY <1>1, <2>1
  <2>3. \A day \in DayRecord : cd # day
    BY <1>2, DayIsSet
  <2>4. Noting(e) \in Nat /\ journal[e] <= Noting(e)
    BY <1>1, <2>2
  <2>5. QED
    BY <1>1, <2>2, <2>3, <2>4, Zenon
<1>3. CASE cd # NoDay
  <2>1. cd.events \in Seq(Narrative)
    BY <1>3 DEF TypeOK, DayRecord
  <2>2. Count(cd.events, e) \in Nat
    BY <2>1, CountIs
  <2>3. Noting(e) = journal[e] + Count(cd.events, e)
    BY <1>3 DEF Noting
  <2>4. QED
    BY <1>1, <1>3, <2>2, <2>3
<1>4. QED
  BY <1>2, <1>3

\* The events of a day are told apart.
LEMMA EventsDiffer ==
  /\ Event("trend") # Event("skipped")
  /\ \A s, t : /\ Offered(s) # Event("trend") /\ Offered(s) # Event("skipped")
               /\ Offered(s) = Offered(t) => s = t
  /\ Verdicts = {Event("trend"), Event("skipped")} /\ Verdicts \subseteq Narrative
  /\ \A s \in Setups : Offered(s) \in Narrative
<1>1. \A k, b : [kind |-> k, bar |-> b].kind = k /\ [kind |-> k, bar |-> b].bar = b
  OBVIOUS
<1>2. \A s, t : /\ Offered(s).kind = "setup" /\ Offered(s).bar = s
                /\ Event("trend").kind = "trend" /\ Event("skipped").kind = "skipped"
  BY <1>1 DEF Event, Offered
<1>3. \A s, t : Offered(s) = Offered(t) => s = t
  BY <1>2
<1>4. \A s : Offered(s) # Event("trend") /\ Offered(s) # Event("skipped")
  BY <1>2
<1>5. Event("trend") # Event("skipped")
  BY <1>2
<1>6. QED
  BY <1>3, <1>4, <1>5, Told DEF Verdicts, Narrative

\* The verdict on a day that is skipped: it is journaled once.
LEMMA CommitVerdictPass == PassInv /\ IndInv' /\ CommitVerdict => Pass'
<1> SUFFICES ASSUME PassInv, IndInv', CommitVerdict PROVE Pass'
  OBVIOUS
<1>1. TypeOK /\ PlacesFit /\ ReplayFits
  BY DEF PassInv, IndInv
<1>2. PICK skipped \in Narrative : skipped = Event("skipped")
  BY Told
<1>3. /\ pc = "verdict" /\ UNCHANGED <<now, shadowRows, rows, gateFed>>
      /\ \/ /\ journal' = Journaled(<<skipped>>) /\ BarDone
            /\ UNCHANGED <<cd, starting, feed, todo, faults>>
         \/ Fault /\ Raise(cd)
  BY <1>2 DEF CommitVerdict
<1>4. CASE Fault /\ Raise(cd)
  BY <1>1, <1>3, <1>4, FaultCounts, RaisePass
<1>5. CASE /\ journal' = Journaled(<<skipped>>) /\ BarDone
           /\ UNCHANGED <<cd, starting, feed, todo, faults>>
  <2>1. cd # NoDay /\ queue # <<>>
    <3>1. pc \in WithDay /\ pc \in WithBar
      BY <1>3 DEF WithBar, WithDay, Places
    <3>2. QED
      BY <1>1, <3>1 DEF PlacesFit
  <2>2. PICK day \in DayRecord : day = cd
    BY <1>1, <2>1 DEF TypeOK
  <2>3. Course(day, day) /\ (Excused => Excused') /\ pc' = "bar"
    BY <1>5, CourseStays DEF Excused, BarDone
  <2>4. BarsInOrder' /\ FedLater' /\ FedInOrder' /\ DayInOrder'
    BY <1>3, <1>5, <2>1, <2>2, <2>3, TakenKeeps
  <2>5. \A e \in Narrative : Noting(e)' = Noting(e) + IF e = skipped THEN 1 ELSE 0
    <3>1. SUFFICES ASSUME NEW e \in Narrative PROVE Noting(e)' = Noting(e) + IF e = skipped THEN 1 ELSE 0
      OBVIOUS
    <3>2. PICK c \in Nat : c = Count(day.events, e)
      BY RecordIs, CountIs
    <3>3. Noting(e) = journal[e] + c /\ journal[e] \in Nat
      BY <1>1, <2>2, <3>2, NotingIs
    <3>4. Noting(e)' = journal'[e] + c
      BY <1>5, <2>1, <2>2, <3>2 DEF Noting
    <3>5. journal'[e] = journal[e] + IF e = skipped THEN 1 ELSE 0
      BY <1>5, CountFew DEF Journaled
    <3>6. QED
      BY <3>3, <3>4, <3>5
  <2>6. ReplayFits'
    <3>1. SUFFICES ASSUME starting, DayOf(now) = 1 PROVE ReplayFits'
      BY <1>3, <1>5 DEF ReplayFits
    <3>2. /\ day.date = 1 /\ day.decided /\ Noting(skipped) = 0
          /\ \A e \in Verdicts : Noting(e) <= 1
          /\ \A s \in Setups : /\ Noting(Offered(s)) <= 1
                               /\ day.fed[s] = 0 => Noting(Offered(s)) = 0
      BY <1>1, <1>2, <1>3, <2>1, <2>2, <3>1 DEF ReplayFits
    <3>3. \A s \in Setups : Noting(Offered(s))' = Noting(Offered(s))
      <4>1. \A s \in Setups : Offered(s) # skipped /\ Offered(s) \in Narrative
        BY <1>2, EventsDiffer
      <4>2. \A s \in Setups : Noting(Offered(s)) \in Nat
        BY <1>1, <4>1, NotingIs
      <4>3. QED
        BY <2>5, <4>1, <4>2
    <3>4. \A e \in Verdicts : Noting(e)' <= 1
      <4>1. SUFFICES ASSUME NEW e \in Verdicts PROVE Noting(e)' <= 1
        OBVIOUS
      <4>2. e \in Narrative
        BY EventsDiffer
      <4>3. Noting(e) \in Nat /\ Noting(e)' = Noting(e) + IF e = skipped THEN 1 ELSE 0
        BY <1>1, <2>5, <4>2, NotingIs
      <4>4. QED
        BY <3>2, <4>3
    <3>5. QED
      BY <1>5, <2>1, <2>2, <2>3, <3>2, <3>3, <3>4 DEF ReplayFits
  <2>7. DayEnds'
    BY <1>3, <1>5, EndsStay DEF Ending
  <2>8. QED
    BY <2>4, <2>6, <2>7 DEF Pass
<1>6. QED
  BY <1>3, <1>4, <1>5

\* A flush moves the day's events to the journal: nothing is noted anew.
LEMMA FlushNewEventsPass == PassInv /\ IndInv' /\ FlushNewEvents => Pass'
<1> SUFFICES ASSUME PassInv, IndInv', FlushNewEvents PROVE Pass'
  OBVIOUS
<1>1. TypeOK /\ PlacesFit
  BY DEF PassInv, IndInv
<1>2. /\ pc \in {"flush", "fillsFlush", "closeFlush", "cancelFlush"}
      /\ UNCHANGED <<now, shadowRows, rows, gateFed>>
      /\ \/ /\ journal' = Journaled(cd.events) /\ cd' = Flushed
            /\ IF pc = "flush" THEN BarDone
               ELSE pc' = AfterFlush[pc] /\ UNCHANGED <<last, queue>>
            /\ UNCHANGED <<starting, feed, faults>>
         \/ Fault /\ Raise(cd)
  BY AfterFlushIs DEF FlushNewEvents
<1>3. cd # NoDay /\ (pc # "fillsFlush" => queue # <<>>)
  <2>1. pc \in WithDay /\ (pc # "fillsFlush" => pc \in WithBar)
    BY <1>2 DEF WithBar, WithDay, Places
  <2>2. QED
    BY <1>1, <2>1 DEF PlacesFit
<1>4. CASE Fault /\ Raise(cd)
  <2>1. pc \in {"verdict", "subscribers", "flush", "fillsFlush"} \cup Closing
    BY <1>2 DEF Closing, Ending
  <2>2. QED
    BY <1>1, <1>2, <1>4, <2>1, FaultCounts, RaisePass
<1>5. ASSUME journal' = Journaled(cd.events), cd' = Flushed,
             IF pc = "flush" THEN BarDone
             ELSE pc' = AfterFlush[pc] /\ UNCHANGED <<last, queue>>,
             UNCHANGED <<starting, feed, faults>>
      PROVE  Pass'
  <2>1. PICK day \in DayRecord : day = cd
    BY <1>1, <1>3 DEF TypeOK
  <2>2. PICK next : next = [day EXCEPT !.events = <<>>, !.orders = FALSE]
    OBVIOUS
  <2>3. cd' = next
    BY <1>5, <2>1, <2>2 DEF Flushed
  <2>4. /\ next.date = day.date /\ next.bars = day.bars /\ next.fed = day.fed
        /\ next.watching = day.watching /\ next.decided = day.decided
        /\ next.tradeable = day.tradeable /\ next.events = <<>>
    BY <2>2 DEF DayRecord
  <2>5. day # NoDay /\ next # NoDay /\ Course(day, next) /\ (Excused => Excused')
    BY <1>5, <2>4, CourseIs DEF Excused
  <2>6. CASE pc = "flush"
    <3>1. BarDone /\ pc' = "bar"
      BY <1>5, <2>6 DEF BarDone
    <3>2. BarsInOrder' /\ FedLater' /\ FedInOrder' /\ DayInOrder'
      BY <1>2, <1>3, <1>5, <2>1, <2>3, <2>5, <2>6, <3>1, TakenKeeps
    <3>3. \A e \in Narrative : Noting(e)' = Noting(e)
      <4>1. SUFFICES ASSUME NEW e \in Narrative PROVE Noting(e)' = Noting(e)
        OBVIOUS
      <4>2. PICK c \in Nat : c = Count(day.events, e)
        BY RecordIs, CountIs
      <4>3. Noting(e) = journal[e] + c /\ journal[e] \in Nat
        BY <1>1, <2>1, <4>2, NotingIs
      <4>4. journal'[e] = journal[e] + c
        BY <1>5, <2>1, <4>2 DEF Journaled
      <4>5. Noting(e)' = journal'[e] + 0
        BY <2>3, <2>4, <2>5, CountFew DEF Noting
      <4>6. QED
        BY <4>3, <4>4, <4>5
    <3>4. ReplayFits'
      BY <1>2, <1>5, <2>1, <2>3, <2>5, <3>1, <3>3, ReplayStays
    <3>5. DayEnds'
      BY <1>2, <1>5, <2>1, <2>3, <2>4, <2>5, <2>6, EndsStay DEF Ending
    <3>6. QED
      BY <3>2, <3>4, <3>5 DEF Pass
  <2>7. CASE pc # "flush"
    <3>1. \/ pc = "fillsFlush" /\ pc' = "idle"
          \/ pc = "closeFlush" /\ pc' \in {"shadowRow", "cancel"}
          \/ pc = "cancelFlush" /\ pc' = "gate"
      BY <1>2, <1>5, <2>7, AfterFlushIs
    <3>2. DayEnds'
      BY <1>2, <1>5, <2>1, <2>3, <2>4, <2>5, <3>1, EndsStay DEF Ending
    <3>3. \/ pc = "fillsFlush" /\ pc' = "idle"
          \/ pc \in Closing /\ pc' \in Closing
      BY <3>1 DEF Closing, Ending
    <3>4. QED
      BY <1>2, <1>5, <2>1, <2>3, <2>5, <2>7, <3>2, <3>3, AsidePass
  <2>8. QED
    BY <2>6, <2>7
<1>6. QED
  BY <1>2, <1>4, <1>5

\* The orchestrator is built and fed what led to the verdict, for the first time.
LEMMA ConstructDayPass == PassInv /\ IndInv' /\ ConstructDay => Pass'
<1> SUFFICES ASSUME PassInv, IndInv', ConstructDay PROVE Pass'
  OBVIOUS
<1>1. TypeOK /\ PlacesFit /\ BarsInOrder /\ FedInOrder /\ DayInOrder /\ ReplayFits
  BY DEF PassInv, IndInv
<1>2. /\ pc = "subscribers" /\ UNCHANGED <<now, journal, shadowRows, rows, gateFed>>
      /\ \/ /\ cd' = [cd EXCEPT !.managed = Users, !.watching = TRUE]
            /\ feed' = cd.bars /\ pc' = "feed"
            /\ UNCHANGED <<starting, last, queue, todo, faults>>
         \/ Fault /\ Raise(cd)
  BY DEF ConstructDay, dbVars
<1>3. CASE Fault /\ Raise(cd)
  BY <1>1, <1>2, <1>3, FaultCounts, RaisePass
<1>4. CASE /\ cd' = [cd EXCEPT !.managed = Users, !.watching = TRUE]
           /\ feed' = cd.bars /\ pc' = "feed"
           /\ UNCHANGED <<starting, last, queue, todo, faults>>
  <2>1. cd # NoDay /\ cd.tradeable
    <3>1. pc \in WithDay
      BY <1>2 DEF WithDay, Places
    <3>2. QED
      BY <1>1, <1>2, <3>1 DEF PlacesFit
  <2>2. PICK day \in DayRecord : day = cd
    BY <1>1, <2>1 DEF TypeOK
  <2>3. PICK next : next = [day EXCEPT !.managed = Users, !.watching = TRUE]
    OBVIOUS
  <2>4. /\ cd' = next /\ next.date = day.date /\ next.bars = day.bars /\ next.fed = day.fed
        /\ next.watching /\ next.decided = day.decided
        /\ next.tradeable = day.tradeable /\ next.events = day.events
    BY <1>4, <2>2, <2>3 DEF DayRecord
  <2>5. next # NoDay /\ day # NoDay
    <3>1. next.date \in {1, 2} /\ NoDay.date = 0
      BY <2>4, RecordIs DEF NoDay
    <3>2. QED
      BY <3>1, DayIsSet
  <2>6. BarsInOrder'
    BY <1>1, <1>2, <1>4 DEF BarsInOrder, InBar
  <2>7. FedLater'
    BY <1>4, <2>2, <2>4 DEF FedLater
  <2>8. Seen' = Seen
    BY <1>2, <1>4 DEF Seen, InBar
  <2>9. FedInOrder'
    <3>1. SUFFICES ASSUME faults = 0 \/ starting PROVE FedInOrder'
      BY <1>4 DEF FedInOrder
    <3>2. /\ \A i \in DOMAIN day.bars : day.bars[i] <= Seen
          /\ \A i, j \in DOMAIN day.bars : i < j => day.bars[i] < day.bars[j]
          /\ \A b \in Session : ~(day.fed[b] > 0)
      BY <1>1, <1>2, <2>1, <2>2, <3>1 DEF FedInOrder
    <3>3. \A b \in Session : day.fed[b] = 0
      BY <3>2, RecordIs
    <3>4. \A i \in DOMAIN day.bars : day.fed[day.bars[i]] = 0
      BY <3>3, RecordIs
    <3>5. QED
      BY <1>4, <2>2, <2>4, <2>8, <3>2, <3>3, <3>4 DEF FedInOrder
  <2>10. DayInOrder'
    BY <1>1, <1>4, <2>2, <2>4, <2>5 DEF DayInOrder, Closing, Ending
  <2>11. ReplayFits'
    <3>1. \A e \in Narrative : Noting(e)' = Noting(e)
      BY <1>2, <2>2, <2>4, <2>5, NotingStays
    <3>2. \A e \in Verdicts : Noting(e)' = Noting(e)
      BY <3>1, EventsDiffer
    <3>3. \A s \in Setups : Noting(Offered(s))' = Noting(Offered(s))
      BY <3>1, EventsDiffer
    <3>4. SUFFICES ASSUME starting, DayOf(now) = 1 PROVE ReplayFits'
      BY <1>2, <1>4 DEF ReplayFits
    <3>5. /\ day.date = 1
          /\ \A e \in Verdicts : Noting(e) <= 1 /\ (~day.decided => Noting(e) = 0)
          /\ \A s \in Setups : /\ Noting(Offered(s)) <= 1
                               /\ day.fed[s] = 0 => Noting(Offered(s)) = 0
      BY <1>1, <2>2, <2>5, <3>4 DEF ReplayFits
    <3>6. pc' \in InBar \cup {"bar"} /\ pc' # "verdict"
      BY <1>4 DEF InBar
    <3>7. QED
      BY <2>4, <2>5, <3>2, <3>3, <3>5, <3>6 DEF ReplayFits
  <2>12. DayEnds'
    BY <1>2, <1>4, <2>2, <2>4, <2>5, EndsStay DEF Ending
  <2>13. QED
    BY <2>6, <2>7, <2>9, <2>10, <2>11, <2>12 DEF Pass
<1>5. QED
  BY <1>2, <1>3, <1>4

\* A bar is fed, and what it forms is noted: no bar of this replay twice.
LEMMA FeedBarPass == PassInv /\ IndInv' /\ FeedBar => Pass'
<1> SUFFICES ASSUME PassInv, IndInv', FeedBar PROVE Pass'
  OBVIOUS
<1>1. TypeOK /\ PlacesFit /\ BarsInOrder /\ FedLater /\ FedInOrder /\ DayInOrder /\ ReplayFits
  BY DEF PassInv, IndInv
<1>2. PICK bar : bar = Head(feed)
  OBVIOUS
<1>3. /\ pc = "feed" /\ feed # <<>>
      /\ UNCHANGED <<now, last, starting, queue, journal, shadowRows, rows, faults, gateFed>>
  BY DEF FeedBar, dbVars, budgetVars, history
<1>4. PICK offers \in BOOLEAN :
        /\ offers => bar \in Setups
        /\ cd' = [cd EXCEPT
                     !.fed[bar] = @ + 1,
                     !.offered = IF offers THEN @ \cup {bar} ELSE @,
                     !.events = IF offers THEN Append(@, Offered(bar)) ELSE @]
        /\ IF offers THEN pc' = "place" /\ UNCHANGED feed
                     ELSE feed' = Tail(feed) /\ UNCHANGED pc
  BY <1>2 DEF FeedBar
<1>5. cd # NoDay /\ cd.watching
  BY <1>1, <1>3 DEF PlacesFit, WithDay, Places
<1>6. PICK day \in DayRecord : day = cd
  BY <1>1, <1>5 DEF TypeOK
<1>7. /\ bar \in Session /\ feed \in Seq(Session) /\ DOMAIN feed = 1..Len(feed) /\ Len(feed) \in Nat
      /\ feed[1] = bar /\ 1 \in DOMAIN feed /\ \A i \in DOMAIN feed : feed[i] \in Session
  BY <1>1, <1>2, <1>3, TimeIs
<1>8. PICK k \in {0, 1} :
         /\ DOMAIN feed' = 1..(Len(feed) - k)
         /\ \A i \in 1..(Len(feed) - k) : feed'[i] = feed[i + k]
         /\ offers => k = 0 /\ pc' = "place" /\ Head(feed') = bar
         /\ ~offers => k = 1 /\ pc' = "feed"
  <2>1. CASE offers
    BY <1>2, <1>3, <1>4, <1>7, <2>1
  <2>2. CASE ~offers
    <3>1. feed' = Tail(feed) /\ pc' = "feed"
      BY <1>3, <1>4, <2>2
    <3>2. DOMAIN feed' = 1..(Len(feed) - 1) /\ \A i \in 1..(Len(feed) - 1) : feed'[i] = feed[i + 1]
      BY <1>3, <1>7, <3>1
    <3>3. QED
      BY <2>2, <3>1, <3>2
  <2>3. QED
    BY <2>1, <2>2
<1>9. PICK events : events = IF offers THEN Append(day.events, Offered(bar)) ELSE day.events
  OBVIOUS
<1>10. PICK offered : offered = IF offers THEN day.offered \cup {bar} ELSE day.offered
  OBVIOUS
<1>11. PICK fed : fed = [day.fed EXCEPT ![bar] = @ + 1]
  OBVIOUS
<1>12. /\ day.fed \in [Session -> Nat] /\ fed \in [Session -> Nat] /\ fed[bar] = day.fed[bar] + 1
       /\ \A b \in Session : b # bar => fed[b] = day.fed[b]
       /\ fed[bar] > 0
  <2>1. day.fed \in [Session -> Nat] /\ day.fed[bar] \in Nat
    BY <1>7, RecordIs
  <2>2. QED
    BY <1>7, <1>11, <2>1
<1>13. PICK next : next = [day EXCEPT !.fed = fed, !.offered = offered, !.events = events]
  OBVIOUS
<1>14. /\ next.date = day.date /\ next.bars = day.bars /\ next.fed = fed
       /\ next.watching = day.watching /\ next.decided = day.decided
       /\ next.tradeable = day.tradeable /\ next.events = events
  BY <1>13 DEF DayRecord
<1>15. cd' = next
  BY <1>4, <1>6, <1>9, <1>10, <1>11, <1>13
<1>16. next # NoDay /\ day # NoDay
  <2>1. next.date \in {1, 2} /\ NoDay.date = 0
    BY <1>14, RecordIs DEF NoDay
  <2>2. QED
    BY <2>1, DayIsSet
<1>17. BarsInOrder'
  <2>1. pc' = "place" => fed[Head(feed')] > 0
    BY <1>8, <1>12
  <2>2. pc' \in {"feed", "place"} /\ pc \in InBar
    BY <1>3, <1>8 DEF InBar
  <2>3. QED
    BY <1>1, <1>3, <1>14, <1>15, <2>1, <2>2 DEF BarsInOrder
<1>18. FedLater'
  <2>1. SUFFICES ASSUME NEW i \in DOMAIN day.bars, ~(fed[day.bars[i]] > 0)
                 PROVE  \E j \in DOMAIN feed' : feed'[j] = day.bars[i]
    BY <1>14, <1>15 DEF FedLater
  <2>2. day.bars[i] \in Session /\ day.bars[i] # bar
    BY <1>12, <2>1, RecordIs
  <2>3. ~(day.fed[day.bars[i]] > 0)
    BY <1>12, <2>1, <2>2
  <2>4. PICK n \in DOMAIN feed : feed[n] = day.bars[i]
    BY <1>1, <1>5, <1>6, <2>3 DEF FedLater
  <2>5. n # 1 /\ n \in 1..Len(feed)
    BY <1>7, <2>2, <2>4
  <2>6. n - k \in 1..(Len(feed) - k) /\ (n - k) + k = n
    BY <1>7, <2>5
  <2>7. feed'[n - k] = feed[n] /\ n - k \in DOMAIN feed'
    BY <1>8, <2>6
  <2>8. QED
    BY <2>4, <2>7
<1>19. Seen' = Seen
  BY <1>3, <1>8 DEF Seen, InBar
<1>20. (faults = 0 \/ starting) => day.fed[bar] = 0
  BY <1>1, <1>3, <1>5, <1>6, <1>7 DEF FedInOrder
<1>21. FedInOrder'
  <2>1. SUFFICES ASSUME faults = 0 \/ starting PROVE FedInOrder'
    BY <1>3 DEF FedInOrder
  <2>2. /\ \A i \in DOMAIN day.bars : day.bars[i] <= Seen
        /\ \A i, j \in DOMAIN day.bars : i < j => day.bars[i] < day.bars[j]
        /\ \A b \in Session : day.fed[b] <= 1 /\ (day.fed[b] > 0 => day.watching /\ b <= Seen)
        /\ \A i \in DOMAIN feed : feed[i] <= Seen /\ day.fed[feed[i]] = 0
        /\ \A i, j \in DOMAIN feed : i < j => feed[i] < feed[j]
        /\ day.watching
    BY <1>1, <1>3, <1>5, <1>6, <2>1 DEF FedInOrder
  <2>3. \A b \in Session : fed[b] <= 1 /\ (fed[b] > 0 => next.watching /\ b <= Seen)
    <3>1. SUFFICES ASSUME NEW b \in Session PROVE (fed[b] <= 1 /\ b <= Seen) \/ fed[b] = day.fed[b]
      BY <1>14, <2>2
    <3>2. CASE b = bar
      BY <1>7, <1>12, <1>20, <2>1, <2>2, <3>2
    <3>3. CASE b # bar
      BY <1>12, <3>3
    <3>4. QED
      BY <3>2, <3>3
  <2>4. ASSUME NEW i \in DOMAIN feed'
        PROVE  /\ i \in Nat /\ i + k \in DOMAIN feed /\ feed'[i] = feed[i + k]
               /\ feed'[i] <= Seen /\ (pc' = "feed" \/ i # 1 => fed[feed'[i]] = 0)
    <3>1. i \in Nat /\ i + k \in DOMAIN feed /\ feed'[i] = feed[i + k]
      BY <1>7, <1>8, <2>4
    <3>2. feed'[i] <= Seen /\ feed'[i] \in Session /\ day.fed[feed'[i]] = 0
      BY <1>7, <2>2, <3>1
    <3>3. ASSUME pc' = "feed" \/ i # 1 PROVE fed[feed'[i]] = 0
      <4>1. i + k # 1 /\ 1 < i + k
        BY <1>7, <1>8, <2>4, <3>1, <3>3
      <4>2. feed[1] < feed[i + k]
        BY <1>7, <2>2, <3>1, <4>1
      <4>3. feed'[i] # bar
        BY <1>7, <3>1, <3>2, <4>2, SessionDay
      <4>4. QED
        BY <1>12, <3>2, <4>3
    <3>4. QED
      BY <3>1, <3>2, <3>3
  <2>5. \A i, j \in DOMAIN feed' : i < j => feed'[i] < feed'[j]
    <3>1. SUFFICES ASSUME NEW i \in DOMAIN feed', NEW j \in DOMAIN feed', i < j
                   PROVE  feed'[i] < feed'[j]
      OBVIOUS
    <3>2. i + k < j + k /\ i + k \in DOMAIN feed /\ j + k \in DOMAIN feed
      BY <2>4, <3>1
    <3>3. feed[i + k] < feed[j + k]
      BY <2>2, <3>2
    <3>4. QED
      BY <2>4, <3>3
  <2>6. pc' # "subscribers"
    BY <1>8
  <2>7. QED
    BY <1>14, <1>15, <1>19, <2>2, <2>3, <2>4, <2>5, <2>6 DEF FedInOrder
<1>22. DayInOrder'
  <2>1. pc' \notin Closing
    BY <1>8 DEF Closing, Ending
  <2>2. QED
    BY <1>1, <1>3, <1>6, <1>14, <1>15, <1>16, <2>1 DEF DayInOrder
<1>23. ReplayFits'
  <2>1. SUFFICES ASSUME starting, DayOf(now) = 1 PROVE ReplayFits'
    BY <1>3 DEF ReplayFits
  <2>2. /\ day.date = 1
        /\ \A e \in Verdicts : Noting(e) <= 1 /\ (~day.decided => Noting(e) = 0)
        /\ \A s \in Setups : /\ Noting(Offered(s)) <= 1
                             /\ day.fed[s] = 0 => Noting(Offered(s)) = 0
    BY <1>1, <1>6, <1>16, <2>1 DEF ReplayFits
  <2>3. \A e \in Narrative : /\ Noting(e) \in Nat
                             /\ Noting(e)' = Noting(e) + IF offers /\ e = Offered(bar) THEN 1 ELSE 0
    <3>1. SUFFICES ASSUME NEW e \in Narrative
                   PROVE  /\ Noting(e) \in Nat
                          /\ Noting(e)' = Noting(e) + IF offers /\ e = Offered(bar) THEN 1 ELSE 0
      OBVIOUS
    <3>2. PICK c \in Nat : c = Count(day.events, e)
      BY RecordIs, CountIs
    <3>3. Noting(e) = journal[e] + c /\ journal[e] \in Nat
      BY <1>1, <1>6, <3>2, NotingIs
    <3>4. Noting(e)' = journal[e] + Count(events, e)
      BY <1>3, <1>14, <1>15, <1>16 DEF Noting
    <3>5. Count(events, e) = c + IF offers /\ e = Offered(bar) THEN 1 ELSE 0
      <4>1. CASE offers
        <5>1. Offered(bar) \in Narrative /\ day.events \in Seq(Narrative)
          BY <1>4, <4>1, EventsDiffer, RecordIs
        <5>2. QED
          BY <1>9, <3>2, <4>1, <5>1, CountAppend
      <4>2. CASE ~offers
        BY <1>9, <3>2, <4>2
      <4>3. QED
        BY <4>1, <4>2
    <3>6. QED
      BY <3>3, <3>4, <3>5
  <2>4. \A e \in Verdicts : Noting(e)' = Noting(e)
    <3>1. \A e \in Verdicts : e \in Narrative /\ e # Offered(bar)
      BY EventsDiffer
    <3>2. QED
      BY <2>3, <3>1
  <2>5. ASSUME NEW s \in Setups
        PROVE  Noting(Offered(s))' <= 1 /\ (fed[s] = 0 => Noting(Offered(s))' = 0)
    <3>1. Offered(s) \in Narrative /\ s \in Session /\ (Offered(s) = Offered(bar) => s = bar)
      BY EventsDiffer, Bars
    <3>2. CASE s = bar
      <4>1. Noting(Offered(s)) = 0
        BY <1>20, <2>1, <2>2, <3>2
      <4>2. QED
        BY <1>12, <2>3, <3>1, <3>2, <4>1
    <3>3. CASE s # bar
      BY <1>12, <2>2, <2>3, <3>1, <3>3
    <3>4. QED
      BY <3>2, <3>3
  <2>6. pc' \in InBar \cup {"bar"} /\ pc' # "verdict"
    BY <1>8 DEF InBar
  <2>7. QED
    BY <1>14, <1>15, <1>16, <2>2, <2>4, <2>5, <2>6 DEF ReplayFits
<1>24. DayEnds'
  BY <1>3, <1>6, <1>14, <1>15, <1>16, EndsStay DEF Ending
<1>25. QED
  BY <1>17, <1>18, <1>21, <1>22, <1>23, <1>24 DEF Pass

\* The day of a bar in _process_bar, be it the current one or a fresh one.
TodayFits(bar, day) ==
    /\ day \in DayRecord /\ day.date = DayOf(bar) /\ (cd # NoDay => day = cd)
    /\ day.decided => cd # NoDay
    /\ day.watching => day.tradeable
    /\ day.tradeable => day.decided
    /\ feed = <<>> /\ bar \in 1..Horizon /\ last < bar /\ bar <= now
    /\ day.date = 2 => bar = Horizon
    /\ cd = NoDay /\ now = Horizon => day.date = 2
    /\ day.watching => \A i \in DOMAIN day.bars : day.fed[day.bars[i]] > 0
    /\ faults = 0 \/ starting =>
         /\ \A i \in DOMAIN day.bars : day.bars[i] <= last
         /\ \A i, j \in DOMAIN day.bars : i < j => day.bars[i] < day.bars[j]
         /\ \A b \in Session : day.fed[b] <= 1 /\ (day.fed[b] > 0 => day.watching /\ b <= last)
         /\ day.tradeable => day.watching
    /\ \A e \in Narrative : Noting(e) = journal[e] + Count(day.events, e)
    /\ starting /\ DayOf(now) = 1 =>
         /\ day.date = 1
         /\ \A e \in Verdicts : Noting(e) <= 1 /\ (~day.decided => Noting(e) = 0)
         /\ \A s \in Setups : /\ Noting(Offered(s)) <= 1
                              /\ day.fed[s] = 0 => Noting(Offered(s)) = 0

\* The record that the bar at hand is given to: the day in progress or a new one.
LEMMA TodayIs ==
  ASSUME PassInv, pc = "bar", queue # <<>>, NEW bar, bar = Head(queue), NEW day, day = Today(bar),
         DayOf(bar) = day.date, cd = NoDay => DayOf(bar) >= DayOf(now)
  PROVE  TodayFits(bar, day)
<1>1. TypeOK /\ BarsInOrder /\ FedLater /\ FedInOrder /\ DayInOrder /\ ReplayFits /\ (cd # NoDay => DayFits(cd))
  BY DEF PassInv, IndInv
<1>2. /\ feed = <<>> /\ bar \in 1..Horizon /\ bar \in Nat /\ last < bar /\ bar <= now /\ now \in Nat
      /\ now <= Horizon /\ last \in Nat /\ bar <= Horizon
  <2>1. bar = queue[1] /\ 1 \in DOMAIN queue /\ bar \in 1..Horizon /\ now \in Nat /\ now <= Horizon /\ last \in Nat
    BY <1>1, TimeIs
  <2>2. feed = <<>> /\ last < bar /\ bar <= now
    BY <1>1, <2>1 DEF BarsInOrder
  <2>3. bar \in Nat /\ bar <= Horizon
    BY <2>1, Bars
  <2>4. QED
    BY <2>1, <2>2, <2>3
<1>3. day.date = 2 => bar = Horizon
  BY <1>2, SessionDay
<1>4. DayOf(bar) \in {1, 2} /\ DayOf(now) \in {1, 2} /\ (DayOf(now) = 1 => DayOf(bar) = 1)
  <2>1. DayOf(bar) \in {1, 2} /\ DayOf(now) \in {1, 2} /\ DayOf(bar) <= DayOf(now)
    BY <1>2, SessionDay
  <2>2. QED
    BY <2>1
<1>5. CASE cd = NoDay
  <2>1. day = CurrentDay(DayOf(bar))
    BY <1>5 DEF Today
  <2>2. /\ day \in DayRecord /\ day # NoDay /\ day.bars = <<>>
        /\ ~day.decided /\ ~day.tradeable /\ ~day.watching /\ day.events = <<>>
        /\ day.fed = [b \in Session |-> 0]
    BY <1>4, <2>1, FreshDay
  <2>3. cd = NoDay /\ now = Horizon => day.date = 2
    <3>1. DayOf(Horizon) = 2
      BY SessionDay
    <3>2. QED
      BY <1>4, <1>5, <3>1
  <2>4. \A e \in Narrative : Noting(e) = journal[e] + Count(day.events, e)
    <3>1. SUFFICES ASSUME NEW e \in Narrative PROVE Noting(e) = journal[e] + Count(day.events, e)
      OBVIOUS
    <3>2. Noting(e) = journal[e] /\ journal[e] \in Nat
      BY <1>1, <1>5, NotingIs
    <3>3. Count(day.events, e) = 0
      BY <2>2, CountFew
    <3>4. QED
      BY <3>2, <3>3
  <2>5. starting /\ DayOf(now) = 1 =>
           /\ day.date = 1
           /\ \A e \in Verdicts : Noting(e) <= 1 /\ (~day.decided => Noting(e) = 0)
           /\ \A s \in Setups : /\ Noting(Offered(s)) <= 1
                                /\ day.fed[s] = 0 => Noting(Offered(s)) = 0
    BY <1>1, <1>4, <1>5 DEF ReplayFits
  <2>6. faults = 0 \/ starting =>
         /\ \A i \in DOMAIN day.bars : day.bars[i] <= last
         /\ \A i, j \in DOMAIN day.bars : i < j => day.bars[i] < day.bars[j]
         /\ \A b \in Session : day.fed[b] <= 1 /\ (day.fed[b] > 0 => day.watching /\ b <= last)
         /\ day.tradeable => day.watching
    BY <2>2
  <2>7. QED
    BY <1>2, <1>3, <1>5, <2>2, <2>3, <2>4, <2>5, <2>6 DEF TodayFits
<1>6. CASE cd # NoDay
  <2>1. day = cd /\ day \in DayRecord
    BY <1>1, <1>6 DEF Today, TypeOK
  <2>2. day.watching => \A i \in DOMAIN day.bars : day.fed[day.bars[i]] > 0
    BY <1>1, <1>2, <1>6, <2>1 DEF FedLater
  <2>3. Seen = last
    BY DEF Seen, InBar
  <2>4. faults = 0 \/ starting =>
         /\ \A i \in DOMAIN day.bars : day.bars[i] <= last
         /\ \A i, j \in DOMAIN day.bars : i < j => day.bars[i] < day.bars[j]
         /\ \A b \in Session : day.fed[b] <= 1 /\ (day.fed[b] > 0 => day.watching /\ b <= last)
         /\ day.tradeable => day.watching
    BY <1>1, <1>6, <2>1, <2>3 DEF FedInOrder
  <2>5. \A e \in Narrative : Noting(e) = journal[e] + Count(day.events, e)
    BY <1>1, <2>1, NotingIs
  <2>6. starting /\ DayOf(now) = 1 =>
           /\ day.date = 1
           /\ \A e \in Verdicts : Noting(e) <= 1 /\ (~day.decided => Noting(e) = 0)
           /\ \A s \in Setups : /\ Noting(Offered(s)) <= 1
                                /\ day.fed[s] = 0 => Noting(Offered(s)) = 0
    BY <1>1, <1>6, <2>1 DEF ReplayFits
  <2>7. (day.watching => day.tradeable) /\ (day.tradeable => day.decided)
    BY <1>1, <1>6, <2>1 DEF DayFits
  <2>8. QED
    BY <1>2, <1>3, <1>6, <2>1, <2>2, <2>4, <2>5, <2>6, <2>7 DEF TodayFits
<1>7. QED
  BY <1>5, <1>6

\* A later bar at the end keeps the bars in order.
LEMMA BarsGrow ==
  ASSUME NEW bars \in Seq(Session), NEW bar \in Session, NEW seen \in Nat, seen < bar,
         \A i \in DOMAIN bars : bars[i] <= seen,
         \A i, j \in DOMAIN bars : i < j => bars[i] < bars[j]
  PROVE  LET longer == Append(bars, bar)
         IN  /\ \A i \in DOMAIN longer : longer[i] <= bar
             /\ \A i, j \in DOMAIN longer : i < j => longer[i] < longer[j]
<1>1. PICK n \in Nat : n = Len(bars) /\ DOMAIN bars = 1..n
  OBVIOUS
<1>2. PICK longer : longer = Append(bars, bar)
  OBVIOUS
<1>3. /\ DOMAIN longer = 1..(n + 1) /\ longer[n + 1] = bar
      /\ \A i \in 1..n : longer[i] = bars[i]
  BY <1>1, <1>2
<1>4. bar \in Nat /\ \A i \in 1..n : bars[i] \in Nat /\ bars[i] < bar
  <2>1. \A i \in 1..n : bars[i] \in Session /\ bars[i] <= seen
    BY <1>1
  <2>2. bar \in Nat /\ \A i \in 1..n : bars[i] \in Nat
    BY <2>1, SessionDay
  <2>3. QED
    BY <2>1, <2>2
<1>5. \A i \in 1..(n + 1) : longer[i] <= bar
  BY <1>3, <1>4
<1>6. ASSUME NEW i \in 1..(n + 1), NEW j \in 1..(n + 1), i < j PROVE longer[i] < longer[j]
  <2>1. i \in 1..n
    BY <1>6
  <2>2. CASE j = n + 1
    BY <1>3, <1>4, <2>1, <2>2
  <2>3. CASE j # n + 1
    <3>1. j \in 1..n
      BY <1>6, <2>3
    <3>2. QED
      BY <1>1, <1>3, <1>6, <2>1, <3>1
  <2>4. QED
    BY <2>2, <2>3
<1>7. QED
  BY <1>2, <1>3, <1>5, <1>6

\* The part of the day's record a bar changes before the verdict.
LEMMA BarTaken ==
  ASSUME PassInv, IndInv', pc = "bar", queue # <<>>, NEW bar, bar = Head(queue), NEW day, TodayFits(bar, day),
         NEW next, cd' = next, next # NoDay, next.date = day.date, next.fed = day.fed,
         next.watching = day.watching,
         \/ next.bars = day.bars
         \/ bar \in Session /\ ~day.watching /\ next.bars = Append(day.bars, bar),
         feed' = <<>>, Seen' = bar, UNCHANGED <<starting, faults>>,
         next.tradeable => (next.watching <=> pc' # "subscribers")
  PROVE  FedLater' /\ FedInOrder'
<1>1. /\ day \in DayRecord /\ bar \in 1..Horizon /\ last < bar
      /\ day.watching => \A i \in DOMAIN day.bars : day.fed[day.bars[i]] > 0
      /\ faults = 0 \/ starting =>
         /\ \A i \in DOMAIN day.bars : day.bars[i] <= last
         /\ \A i, j \in DOMAIN day.bars : i < j => day.bars[i] < day.bars[j]
         /\ \A b \in Session : day.fed[b] <= 1 /\ (day.fed[b] > 0 => day.watching /\ b <= last)
  BY DEF TodayFits
<1>2. last \in Nat /\ bar \in Nat
  <2>1. TypeOK
    BY DEF PassInv, IndInv
  <2>2. QED
    BY <1>1, <2>1, TimeIs, Bars
<1>3. FedLater'
  BY <1>1 DEF FedLater
<1>4. FedInOrder'
  <2>1. SUFFICES ASSUME faults = 0 \/ starting PROVE FedInOrder'
    BY DEF FedInOrder
  <2>2. /\ \A i \in DOMAIN day.bars : day.bars[i] <= last
        /\ \A i, j \in DOMAIN day.bars : i < j => day.bars[i] < day.bars[j]
        /\ \A b \in Session : day.fed[b] <= 1 /\ (day.fed[b] > 0 => day.watching /\ b <= last)
    BY <1>1, <2>1
  <2>3. \A b \in Session : next.fed[b] <= 1 /\ (next.fed[b] > 0 => next.watching /\ b <= bar)
    <3>1. \A b \in Session : b \in Nat
      BY SessionDay
    <3>2. \A b \in Session : b <= last => b <= bar
      BY <1>1, <1>2, <3>1
    <3>3. QED
      BY <2>2, <3>2
  <2>4. /\ \A i \in DOMAIN next.bars : next.bars[i] <= bar
        /\ \A i, j \in DOMAIN next.bars : i < j => next.bars[i] < next.bars[j]
    <3>1. day.bars \in Seq(Session) /\ \A i \in DOMAIN day.bars : day.bars[i] \in Nat
      BY <1>1, RecordIs, SessionDay
    <3>2. CASE next.bars = day.bars
      <4>1. \A i \in DOMAIN day.bars : day.bars[i] <= bar
        BY <1>1, <1>2, <2>2, <3>1
      <4>2. QED
        BY <2>2, <3>2, <4>1
    <3>3. CASE bar \in Session /\ next.bars = Append(day.bars, bar)
      BY <1>1, <1>2, <2>2, <3>1, <3>3, BarsGrow
    <3>4. QED
      BY <3>2, <3>3
  <2>5. QED
    BY <2>3, <2>4 DEF FedInOrder
<1>5. QED
  BY <1>3, <1>4

\* A bar that is taken in, or the start of its verdict or of its feeding.
LEMMA ProcessBarPass == PassInv /\ IndInv' /\ ProcessBar => Pass'
<1> SUFFICES ASSUME PassInv, IndInv', ProcessBar PROVE Pass'
  OBVIOUS
<1>1. TypeOK /\ BarsInOrder /\ DayInOrder
  BY DEF PassInv, IndInv
<1>2. PICK bar : bar = Head(queue)
  OBVIOUS
<1>3. PICK day : day = Today(bar)
  OBVIOUS
<1>4. /\ queue # <<>> /\ pc = "bar"
      /\ UNCHANGED <<now, journal, shadowRows, rows, faults, gateFed>>
      /\ DayOf(bar) = day.date /\ (cd = NoDay => DayOf(bar) >= DayOf(now))
  BY <1>2, <1>3 DEF ProcessBar, dbVars, budgetVars
<1>5. PICK bars : bars = Append(day.bars, bar)
  OBVIOUS
<1>6. \/ cd' = day /\ BarDone /\ UNCHANGED <<feed, starting>>
      \/ /\ bar \in Session /\ ~day.decided /\ cd' = [day EXCEPT !.bars = bars]
         /\ BarDone /\ UNCHANGED <<feed, starting>>
      \/ /\ bar \in Session /\ ~day.decided
         /\ \E tradeable \in BOOLEAN :
              /\ cd' = [day EXCEPT !.bars = bars, !.decided = TRUE, !.tradeable = tradeable,
                                   !.events = IF tradeable THEN Append(@, Event("trend")) ELSE @]
              /\ pc' = IF tradeable THEN "subscribers" ELSE "verdict"
         /\ UNCHANGED <<queue, last, feed, starting>>
      \/ /\ bar \in Session /\ day.decided /\ day.watching /\ cd' = day
         /\ feed' = <<bar>> /\ pc' = "feed"
         /\ UNCHANGED <<queue, last, starting>>
      \/ bar \in Session /\ day.decided /\ day.tradeable /\ ~day.watching /\ Raise(day)
  <2>1. trend \in BOOLEAN
    BY <1>1 DEF TypeOK
  <2>2. QED
    BY <1>2, <1>3, <1>5, <2>1, Zenon DEF ProcessBar
<1>7. TodayFits(bar, day)
  BY <1>2, <1>3, <1>4, TodayIs
<1>8. /\ day \in DayRecord /\ day # NoDay /\ (cd # NoDay => day = cd) /\ (day.decided => cd # NoDay)
      /\ (day.watching => day.tradeable) /\ (day.tradeable => day.decided)
      /\ feed = <<>> /\ bar \in 1..Horizon /\ last < bar /\ bar <= now
      /\ day.date = 2 => bar = Horizon
      /\ cd = NoDay /\ now = Horizon => day.date = 2
      /\ (faults = 0 \/ starting) /\ day.tradeable => day.watching
      /\ \A e \in Narrative : Noting(e) = journal[e] + Count(day.events, e)
      /\ starting /\ DayOf(now) = 1 =>
         /\ day.date = 1
         /\ \A e \in Verdicts : Noting(e) <= 1 /\ (~day.decided => Noting(e) = 0)
         /\ \A s \in Setups : /\ Noting(Offered(s)) <= 1
                              /\ day.fed[s] = 0 => Noting(Offered(s)) = 0
  BY <1>7, DayIsSet DEF TodayFits
<1>9. CASE bar \in Session /\ day.decided /\ day.tradeable /\ ~day.watching /\ Raise(day)
  <2>1. day = cd /\ faults # 0
    BY <1>8, <1>9
  <2>2. faults' > 0
    BY <1>1, <1>4, <2>1, TimeIs
  <2>3. QED
    BY <1>2, <1>4, <1>9, <2>1, <2>2, RaisePass
<1>10. CASE /\ bar \in Session /\ day.decided /\ day.watching /\ cd' = day
            /\ feed' = <<bar>> /\ pc' = "feed"
            /\ UNCHANGED <<queue, last, starting>>
  <2>1. day = cd
    BY <1>8, <1>10
  <2>2. BarsInOrder'
    BY <1>1, <1>2, <1>4, <1>10 DEF BarsInOrder, InBar
  <2>3. FedLater'
    BY <1>7, <1>10 DEF FedLater, TodayFits
  <2>4. Seen' = bar
    BY <1>2, <1>10 DEF Seen, InBar
  <2>5. FedInOrder'
    <3>1. SUFFICES ASSUME faults = 0 \/ starting PROVE FedInOrder'
      BY <1>4, <1>10 DEF FedInOrder
    <3>2. /\ \A i \in DOMAIN day.bars : day.bars[i] <= last
          /\ \A i, j \in DOMAIN day.bars : i < j => day.bars[i] < day.bars[j]
          /\ \A b \in Session : day.fed[b] <= 1 /\ (day.fed[b] > 0 => day.watching /\ b <= last)
      BY <1>7, <3>1 DEF TodayFits
    <3>3. /\ last \in Nat /\ bar \in Nat /\ last < bar /\ \A b \in Session : b \in Nat
          /\ \A i \in DOMAIN day.bars : day.bars[i] \in Nat
      BY <1>1, <1>8, <1>10, TimeIs, RecordIs, SessionDay
    <3>4. /\ \A i \in DOMAIN day.bars : day.bars[i] <= bar
          /\ \A b \in Session : day.fed[b] > 0 => b <= bar
      BY <3>2, <3>3
    <3>5. day.fed[bar] = 0
      <4>1. day.fed[bar] \in Nat
        BY <1>8, <1>10, RecordIs
      <4>2. ~(day.fed[bar] > 0)
        BY <1>10, <3>2, <3>3
      <4>3. QED
        BY <4>1, <4>2
    <3>6. DOMAIN feed' = {1} /\ feed'[1] = bar
      BY <1>10
    <3>7. /\ \A i \in DOMAIN feed' : feed'[i] <= bar /\ day.fed[feed'[i]] = 0
          /\ \A i, j \in DOMAIN feed' : i < j => feed'[i] < feed'[j]
      BY <3>3, <3>5, <3>6
    <3>8. QED
      BY <1>10, <2>4, <3>2, <3>4, <3>7 DEF FedInOrder
  <2>6. DayInOrder'
    BY <1>1, <1>10, <2>1 DEF DayInOrder, Closing, Ending
  <2>7. ReplayFits'
    <3>1. \A e \in Narrative : Noting(e)' = Noting(e)
      BY <1>4, <1>10, <2>1, NotingStays
    <3>2. pc' \in InBar \cup {"bar"} /\ pc' # "verdict" /\ Course(day, day)
      BY <1>10, CourseStays DEF InBar
    <3>3. QED
      BY <1>4, <1>10, <2>1, <3>1, <3>2, ReplayStays
  <2>8. DayEnds'
    BY <1>4, <1>10, <2>1, EndsStay DEF Ending
  <2>9. QED
    BY <2>2, <2>3, <2>5, <2>6, <2>7, <2>8 DEF Pass
<1>11. ASSUME NEW next, cd' = next, next.date = day.date, next.fed = day.fed,
              next.watching = day.watching, next.decided = day.decided,
              next.tradeable = day.tradeable, next.events = day.events,
              \/ next.bars = day.bars
              \/ bar \in Session /\ ~day.watching /\ next.bars = Append(day.bars, bar),
              BarDone, UNCHANGED <<feed, starting>>
       PROVE  Pass'
  <2>1. next # NoDay
    <3>1. next.date \in {1, 2} /\ NoDay.date = 0
      BY <1>8, <1>11, RecordIs DEF NoDay
    <3>2. QED
      BY <3>1
  <2>2. /\ BarsInOrder' /\ feed' = <<>> /\ pc' = "bar" /\ last' = bar /\ Seen' = bar
        /\ \A i \in DOMAIN queue' : queue'[i] \in 1..Horizon /\ bar < queue'[i]
    BY <1>2, <1>4, <1>11, NextBars
  <2>3. FedLater' /\ FedInOrder'
    <3>1. next.tradeable => (next.watching <=> pc' # "subscribers") \/ ~(faults = 0 \/ starting)
      BY <1>8, <1>11, <2>2
    <3>2. CASE faults = 0 \/ starting
      BY <1>2, <1>4, <1>7, <1>11, <2>1, <2>2, <3>1, <3>2, BarTaken
    <3>3. CASE ~(faults = 0 \/ starting)
      <4>1. FedInOrder'
        BY <1>4, <1>11, <3>3 DEF FedInOrder
      <4>2. FedLater'
        BY <1>7, <1>11 DEF FedLater, TodayFits
      <4>3. QED
        BY <4>1, <4>2
    <3>4. QED
      BY <3>2, <3>3
  <2>4. DayInOrder'
    <3>1. pc' \notin Closing
      BY <2>2 DEF Closing, Ending
    <3>2. ASSUME day.date = 2 PROVE last' = Horizon /\ \A i \in DOMAIN queue' : queue'[i] = Horizon
      BY <1>8, <2>2, <3>2, Bars
    <3>3. QED
      BY <1>11, <3>1, <3>2 DEF DayInOrder
  <2>5. ReplayFits'
    <3>1. \A e \in Narrative : Noting(e)' = Noting(e)
      BY <1>4, <1>8, <1>11, <2>1 DEF Noting
    <3>2. \A e \in Verdicts : Noting(e)' = Noting(e)
      BY <3>1, EventsDiffer
    <3>3. \A s \in Setups : Noting(Offered(s))' = Noting(Offered(s))
      BY <3>1, EventsDiffer
    <3>4. QED
      BY <1>4, <1>8, <1>11, <2>1, <2>2, <3>2, <3>3 DEF ReplayFits
  <2>6. DayEnds'
    BY <1>4, <1>8, <1>11, EndsStay DEF Ending
  <2>7. QED
    BY <2>2, <2>3, <2>4, <2>5, <2>6 DEF Pass
<1>12. CASE cd' = day /\ BarDone /\ UNCHANGED <<feed, starting>>
  BY <1>11, <1>12
<1>13. CASE /\ bar \in Session /\ ~day.decided /\ cd' = [day EXCEPT !.bars = bars]
            /\ BarDone /\ UNCHANGED <<feed, starting>>
  <2>1. PICK next : next = [day EXCEPT !.bars = bars]
    OBVIOUS
  <2>2. /\ next.date = day.date /\ next.bars = bars /\ next.fed = day.fed
        /\ next.watching = day.watching /\ next.decided = day.decided
        /\ next.tradeable = day.tradeable /\ next.events = day.events
    BY <1>8, <2>1 DEF DayRecord
  <2>3. QED
    BY <1>5, <1>8, <1>11, <1>13, <2>1, <2>2
<1>14. ASSUME bar \in Session, ~day.decided, NEW tradeable \in BOOLEAN,
              cd' = [day EXCEPT !.bars = bars, !.decided = TRUE, !.tradeable = tradeable,
                                !.events = IF tradeable THEN Append(@, Event("trend")) ELSE @],
              pc' = (IF tradeable THEN "subscribers" ELSE "verdict"),
              UNCHANGED <<queue, last, feed, starting>>
       PROVE  Pass'
  <2>1. PICK events : events = IF tradeable THEN Append(day.events, Event("trend")) ELSE day.events
    OBVIOUS
  <2>2. PICK next : next = [day EXCEPT !.bars = bars, !.decided = TRUE, !.tradeable = tradeable,
                                       !.events = events]
    OBVIOUS
  <2>3. cd' = next
    BY <1>14, <2>1, <2>2
  <2>4. /\ next.date = day.date /\ next.bars = bars /\ next.fed = day.fed
        /\ next.watching = day.watching /\ next.decided /\ ~day.watching
        /\ next.tradeable = tradeable /\ next.events = events
    BY <1>8, <1>14, <2>2 DEF DayRecord
  <2>5. next # NoDay
    <3>1. next.date \in {1, 2} /\ NoDay.date = 0
      BY <1>8, <2>4, RecordIs DEF NoDay
    <3>2. QED
      BY <3>1
  <2>6. BarsInOrder'
    BY <1>1, <1>2, <1>4, <1>14 DEF BarsInOrder, InBar
  <2>7. Seen' = bar /\ feed' = <<>>
    BY <1>2, <1>8, <1>14 DEF Seen, InBar
  <2>8. FedLater' /\ FedInOrder'
    <3>1. next.tradeable => (next.watching <=> pc' # "subscribers")
      BY <1>14, <2>4
    <3>2. QED
      BY <1>2, <1>4, <1>5, <1>7, <1>14, <2>3, <2>4, <2>5, <2>7, <3>1, BarTaken
  <2>9. DayInOrder'
    <3>1. pc' \notin Closing
      BY <1>14 DEF Closing, Ending
    <3>2. next.date # 2
      BY <1>8, <1>14, <2>4, Bars
    <3>3. QED
      BY <2>3, <3>1, <3>2 DEF DayInOrder
  <2>10. ReplayFits'
    <3>1. SUFFICES ASSUME starting, DayOf(now) = 1 PROVE ReplayFits'
      BY <1>4, <1>14 DEF ReplayFits
    <3>2. /\ day.date = 1
          /\ \A e \in Verdicts : Noting(e) = 0
          /\ \A s \in Setups : /\ Noting(Offered(s)) <= 1
                               /\ day.fed[s] = 0 => Noting(Offered(s)) = 0
      BY <1>8, <1>14, <3>1
    <3>3. \A e \in Narrative : Noting(e)' = Noting(e) + IF tradeable /\ e = Event("trend") THEN 1 ELSE 0
      <4>1. SUFFICES ASSUME NEW e \in Narrative
                     PROVE  Noting(e)' = Noting(e) + IF tradeable /\ e = Event("trend") THEN 1 ELSE 0
        OBVIOUS
      <4>2. PICK c \in Nat : c = Count(day.events, e)
        BY <1>8, RecordIs, CountIs
      <4>3. Noting(e) = journal[e] + c /\ journal[e] \in Nat
        BY <1>1, <1>8, <4>2, NotingIs
      <4>4. Noting(e)' = journal[e] + Count(events, e)
        BY <1>4, <2>3, <2>4, <2>5 DEF Noting
      <4>5. Count(events, e) = c + IF tradeable /\ e = Event("trend") THEN 1 ELSE 0
        <5>1. CASE tradeable
          <6>1. Event("trend") \in Narrative /\ day.events \in Seq(Narrative)
            BY <1>8, EventsDiffer, RecordIs
          <6>2. QED
            BY <2>1, <4>2, <5>1, <6>1, CountAppend
        <5>2. CASE ~tradeable
          BY <2>1, <4>2, <5>2
        <5>3. QED
          BY <5>1, <5>2
      <4>6. QED
        BY <4>3, <4>4, <4>5
    <3>4. \A e \in Verdicts : Noting(e)' <= 1
      BY <3>2, <3>3, EventsDiffer
    <3>5. ~tradeable => Noting(Event("skipped"))' = 0
      BY <3>2, <3>3, EventsDiffer
    <3>6. \A s \in Setups : Noting(Offered(s))' = Noting(Offered(s))
      <4>1. \A s \in Setups : Noting(Offered(s)) \in Nat /\ Offered(s) \in Narrative /\ Offered(s) # Event("trend")
        BY <1>1, NotingIs, EventsDiffer
      <4>2. QED
        BY <3>3, <4>1
    <3>7. pc' \in InBar \cup {"bar"} /\ (pc' = "verdict" => ~tradeable)
      BY <1>14 DEF InBar
    <3>8. QED
      BY <2>3, <2>4, <2>5, <3>2, <3>4, <3>5, <3>6, <3>7 DEF ReplayFits
  <2>11. DayEnds'
    BY <1>4, <1>8, <2>3, <2>4, EndsStay DEF Ending
  <2>12. QED
    BY <2>6, <2>8, <2>9, <2>10, <2>11 DEF Pass
<1>15. QED
  BY <1>6, <1>9, <1>10, <1>12, <1>13, <1>14

\* Before the first start nothing was done.
LEMMA InitPass == Init => PassInv
<1> SUFFICES ASSUME Init PROVE PassInv
  OBVIOUS
<1>1. /\ now = 0 /\ cd = NoDay /\ last = 0 /\ starting = FALSE
      /\ pc = "down" /\ queue = <<>> /\ feed = <<>>
      /\ shadowRows = 0 /\ rows = [u \in Users |-> 0] /\ gateFed = 0
  BY DEF Init
<1>2. IndInv
  BY InitIndInv
<1>3. BarsInOrder
  BY <1>1 DEF BarsInOrder, InBar
<1>4. FedLater /\ FedInOrder /\ ReplayFits /\ DayInOrder
  BY <1>1 DEF FedLater, FedInOrder, ReplayFits, DayInOrder, Closing, Ending
<1>5. DayEnds
  BY <1>1 DEF DayEnds, EndedOnce
<1>6. QED
  BY <1>2, <1>3, <1>4, <1>5 DEF PassInv

\* Nothing happens.
LEMMA StutterPass == PassInv /\ UNCHANGED vars => Pass'
<1> SUFFICES ASSUME PassInv, UNCHANGED vars PROVE Pass'
  OBVIOUS
<1>1. UNCHANGED <<now, cd, last, starting, pc, queue, feed, todo, journal, shadowRows, rows, faults, gateFed>>
  BY DEF vars, threadVars, dbVars, budgetVars, history
<1>2. BarsInOrder' /\ FedLater' /\ DayInOrder'
  BY <1>1 DEF PassInv, BarsInOrder, FedLater, DayInOrder
<1>3. FedInOrder'
  BY <1>1 DEF PassInv, FedInOrder, Seen
<1>4. ReplayFits'
  BY <1>1 DEF PassInv, ReplayFits, Noting
<1>5. DayEnds'
  BY <1>1 DEF PassInv, DayEnds, EndedOnce, Over
<1>6. QED
  BY <1>2, <1>3, <1>4, <1>5 DEF Pass

\* The second layer is kept by every step, too.
LEMMA PassKeeps == PassInv /\ [Next]_vars => PassInv'
<1> SUFFICES ASSUME PassInv, [Next]_vars PROVE PassInv'
  OBVIOUS
<1>0. IndInv'
  BY NextKeeps DEF PassInv
<1> SUFFICES Pass'
  BY <1>0 DEF Pass, PassInv
<1>1. CASE BarCloses
  BY <1>0, <1>1, BarClosesPass
<1>2. CASE Crash
  BY <1>0, <1>2, CrashPass
<1>3. CASE Restart
  BY <1>0, <1>3, RestartPass
<1>4. CASE Poll
  BY <1>0, <1>4, PollPass
<1>5. CASE BarsDone
  BY <1>0, <1>5, BarsDonePass
<1>6. CASE IgnoreStaleBar
  BY <1>0, <1>6, IgnoreStaleBarPass
<1>7. CASE RollOver
  BY <1>0, <1>7, RollOverPass
<1>8. CASE ProcessBar
  BY <1>0, <1>8, ProcessBarPass
<1>9. CASE CommitVerdict
  BY <1>0, <1>9, CommitVerdictPass
<1>10. CASE ConstructDay
  BY <1>0, <1>10, ConstructDayPass
<1>11. CASE FeedBar
  BY <1>0, <1>11, FeedBarPass
<1>12. CASE Placed
  BY <1>0, <1>12, PlacedPass
<1>13. CASE Fed
  BY <1>0, <1>13, FedPass
<1>14. CASE FlushNewEvents
  BY <1>0, <1>14, FlushNewEventsPass
<1>15. CASE CheckFills
  BY <1>0, <1>15, CheckFillsPass
<1>16. CASE WriteShadowRow
  BY <1>0, <1>16, WriteShadowRowPass
<1>17. CASE RowsWritten \/ Cancelled
  BY <1>0, <1>17, RowsWrittenPass
<1>18. CASE CloseDayAtGate
  BY <1>0, <1>18, CloseDayAtGatePass
<1>19. CASE WriteSwings
  BY <1>0, <1>19, WriteSwingsPass
<1>20. ASSUME NEW u \in Users, PlaceOrder(u) PROVE Pass'
  BY <1>0, <1>20, PlaceOrderPass
<1>21. ASSUME NEW u \in Users, WriteSubscriberRow(u) PROVE Pass'
  BY <1>0, <1>21, WriteSubscriberRowPass
<1>22. ASSUME NEW u \in Users, CancelAtDayEnd(u) PROVE Pass'
  BY <1>0, <1>22, CancelAtDayEndPass
<1>23. CASE UNCHANGED vars
  BY <1>23, StutterPass
<1>24. QED
  BY <1>1, <1>2, <1>3, <1>4, <1>5, <1>6, <1>7, <1>8, <1>9, <1>10, <1>11, <1>12, <1>13, <1>14,
     <1>15, <1>16, <1>17, <1>18, <1>19, <1>20, <1>21, <1>22, <1>23 DEF Next, Runner

\* What PassInv says of the bars, the journal and the day's end is NothingTwice.
LEMMA PassIsNothingTwice == PassInv => NothingTwice
<1> SUFFICES ASSUME PassInv PROVE NothingTwice
  OBVIOUS
<1>1. TypeOK /\ FedLater /\ FedInOrder /\ ReplayFits /\ DayEnds
  BY DEF PassInv, IndInv
<1>2. FedOnce
  <2>1. SUFFICES ASSUME cd # NoDay, cd.watching, feed = <<>>
                 PROVE  /\ \A i \in DOMAIN cd.bars : cd.fed[cd.bars[i]] > 0
                        /\ faults = 0 => \A b \in Session : cd.fed[b] <= 1
    BY DEF FedOnce
  <2>2. DOMAIN feed = {}
    BY <2>1
  <2>3. \A i \in DOMAIN cd.bars : cd.fed[cd.bars[i]] > 0
    BY <1>1, <2>1, <2>2 DEF FedLater
  <2>4. faults = 0 => \A b \in Session : cd.fed[b] <= 1
    BY <1>1, <2>1 DEF FedInOrder
  <2>5. QED
    BY <2>3, <2>4
<1>3. ReplayWritesOnce
  <2>1. SUFFICES ASSUME starting, DayOf(now) = 1, NEW e \in Verdicts \cup Offers PROVE journal[e] <= 1
    BY DEF ReplayWritesOnce
  <2>2. e \in Narrative
    BY DEF Narrative
  <2>3. Noting(e) <= 1
    BY <1>1, <2>1 DEF ReplayFits, Offers
  <2>4. journal[e] \in Nat /\ Noting(e) \in Nat /\ journal[e] <= Noting(e)
    BY <1>1, <2>2, NotingIs
  <2>5. QED
    BY <2>3, <2>4
<1>4. EndedOnce
  BY <1>1 DEF DayEnds, EndedOnce
<1>5. QED
  BY <1>2, <1>3, <1>4 DEF NothingTwice
-----------------------------------------------------------------------------
\* Bars are taken in order and once, the journal is written once by a replay, and the
\* day's end is not gone back to: the second layer, on top of IndInv.
THEOREM PassInvHolds == Spec => []PassInv
<1>1. Init => PassInv
  BY InitPass
<1>2. PassInv /\ [Next]_vars => PassInv'
  BY PassKeeps
<1>3. QED
  BY <1>1, <1>2, PTL DEF Spec

\* Crashes, restarts and retries do nothing of the day twice that a failed call does
\* not excuse: no bar is fed (_process_bar), no event replayed (recover_on_startup),
\* no end redone (_finalize_day).
THEOREM NothingTwiceHolds == Spec => []NothingTwice
<1>1. PassInv => NothingTwice
  BY PassIsNothingTwice
<1>2. QED
  BY <1>1, PassInvHolds, PTL
==============================================================================
