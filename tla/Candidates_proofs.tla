--------------------------- MODULE Candidates_proofs ---------------------------
(***************************************************************************)
(* Proofs about the two modules a trade candidate passes through.          *)
(*                                                                         *)
(* OrderManager, for any set of candidates and any number of faults:       *)
(* IndInv is inductive; the safety properties the runs check and the       *)
(* refinement of RealOutcome follow from it.                               *)
(*                                                                         *)
(* DayOrchestrator, for any day length and any market: DayInv says that    *)
(* until the day ends every detector holds what the batch model makes of   *)
(* the bars so far.  One layer of lemmas per detector shows that a bar     *)
(* keeps it so; the refinement of GoldenMaster, OrderPrecedesFill and      *)
(* GoldenEventsJournaled follow from it.                                   *)
(***************************************************************************)
EXTENDS OrderManager, DayOrchestrator, FiniteSetTheorems, SequenceTheorems,
        WellFoundedInduction, TLAPS

(***************************************************************************)
(* OrderManager.                                                           *)
(***************************************************************************)
\* The day starts without orders and without a winner.
LEMMA InitIndInv == Init => IndInv
<1> SUFFICES ASSUME Init PROVE IndInv
  OBVIOUS
<1>1. TypeOK
  <2>1. order \in [Candidates -> OrderStates] /\ pc \in Calls
    BY DEF Init, OrderStates, Calls
  <2>2. slot \in [Candidates -> Nat] /\ inserted \in Nat
    BY DEF Init
  <2>3. faults \in 0..MaxFaults
    BY OrderManagerAssumption DEF Init, OrderManagerAssumption
  <2>4. /\ winner \in Candidates \cup {None}
        /\ closedInfo \in BOOLEAN /\ target \in BOOLEAN
        /\ fresh \subseteq Candidates /\ seen \subseteq Candidates
        /\ todo \subseteq Candidates /\ missed \subseteq Candidates
    BY DEF Init
  <2>5. QED
    BY <2>1, <2>2, <2>3, <2>4 DEF TypeOK
<1>2. OutcomeIsReal /\ OnlyWinnerTracked
  BY DEF Init, OutcomeIsReal, OnlyWinnerTracked
<1>3. PendingIsPlaced /\ CallContext
  BY DEF Init, PendingIsPlaced, CallContext, Tracked, InFill
<1>4. HandledSiblings /\ NoForgottenOrder /\ ExposureAccounted
  BY DEF Init, HandledSiblings, NoForgottenOrder, ExposureAccounted,
         OpenPositions, InFill
<1>5. QED
  BY <1>1, <1>2, <1>3, <1>4 DEF IndInv

\* Every step keeps the inductive invariant: one step of the proof per action.
LEMMA NextIndInv == IndInv /\ [Next]_vars => IndInv'
<1> SUFFICES ASSUME IndInv, [Next]_vars PROVE IndInv'
  OBVIOUS
<1> USE OrderManagerAssumption
    DEF OrderManagerAssumption, IndInv, TypeOK, OutcomeIsReal,
        PendingIsPlaced, CallContext, HandledSiblings, NoForgottenOrder,
        ExposureAccounted, OnlyWinnerTracked, OrderStates, Calls, InFill,
        Tracked, OpenPositions, IsFirst
<1>1. ASSUME NEW c \in Candidates, BrokerFill(c)
      PROVE  IndInv'
  BY <1>1 DEF BrokerFill, Moves, managerVars, threadVars
<1>2. ASSUME NEW c \in Candidates, BrokerClose(c)
      PROVE  IndInv'
  BY <1>2 DEF BrokerClose, Moves, managerVars, threadVars
<1>3. ASSUME NEW c \in Candidates, BrokerCancel(c)
      PROVE  IndInv'
  BY <1>3 DEF BrokerCancel, Moves, managerVars, threadVars
<1>4. ASSUME NEW c \in Candidates, BrokerPlaceLate(c)
      PROVE  IndInv'
  BY <1>4 DEF BrokerPlaceLate, Moves, managerVars, threadVars
<1>5. ASSUME NEW c \in Candidates, SkipCandidate(c)
      PROVE  IndInv'
  BY <1>5 DEF SkipCandidate, brokerVars, managerVars, threadVars
<1>6. ASSUME NEW c \in Candidates, PlaceCandidate(c)
      PROVE  IndInv'
  BY <1>6 DEF PlaceCandidate, Moves, threadVars
<1>7. ASSUME NEW c \in Candidates, PlaceFails(c)
      PROVE  IndInv'
  BY <1>7 DEF PlaceFails, Fault, managerVars, threadVars
<1>8. ASSUME ReadPositions
      PROVE  IndInv'
  BY <1>8 DEF ReadPositions, OpenPositions, brokerVars, managerVars
<1>9. ASSUME ReadFails
      PROVE  IndInv'
  BY <1>9 DEF ReadFails, Fault, brokerVars, managerVars
<1>10. ASSUME DropVanished
      PROVE  IndInv'
  BY <1>10 DEF DropVanished, NotPending, Fills, Without, brokerVars
<1>11. ASSUME DetectFill
      PROVE  IndInv'
  BY <1>11 DEF DetectFill, NotPending, Fills, Siblings, Without, IsFirst, brokerVars
<1>12. ASSUME CancelSibling
      PROVE  IndInv'
  BY <1>12 DEF CancelSibling, IsFirst, Moves, managerVars
<1>13. ASSUME CancelSiblingFails
      PROVE  IndInv'
  BY <1>13 DEF CancelSiblingFails, IsFirst, Fault, managerVars
<1>14. ASSUME CheckDuplicate
      PROVE  IndInv'
  BY <1>14 DEF CheckDuplicate, IsFirst, Fault, brokerVars, managerVars
<1>15. ASSUME CloseDuplicate
      PROVE  IndInv'
  BY <1>15 DEF CloseDuplicate, IsFirst, Moves, Fault, managerVars
<1>16. ASSUME FinishFill
      PROVE  IndInv'
  BY <1>16 DEF FinishFill, Without, brokerVars
<1>17. ASSUME AttachTarget
      PROVE  IndInv'
  BY <1>17 DEF AttachTarget, brokerVars
<1>18. ASSUME AttachFails
      PROVE  IndInv'
  BY <1>18 DEF AttachFails, Fault, brokerVars, managerVars
<1>19. ASSUME NoticeClose
      PROVE  IndInv'
  BY <1>19 DEF NoticeClose, brokerVars, managerVars
<1>20. ASSUME RecordClose
      PROVE  IndInv'
  BY <1>20 DEF RecordClose, brokerVars
<1>21. ASSUME HistoryLags
      PROVE  IndInv'
  BY <1>21 DEF HistoryLags, Fault, brokerVars, managerVars
<1>22. ASSUME DayEndCancel
      PROVE  IndInv'
  BY <1>22 DEF DayEndCancel, IsFirst, Moves, Fault, managerVars
<1>23. ASSUME EndDay
      PROVE  IndInv'
  BY <1>23 DEF EndDay, Without, brokerVars
<1>24. ASSUME BeginDayEnd
      PROVE  IndInv'
  BY <1>24 DEF BeginDayEnd, brokerVars, managerVars
<1>25. CASE UNCHANGED vars
  BY <1>25 DEF vars
<1>26. QED
  BY <1>1, <1>2, <1>3, <1>4, <1>5, <1>6, <1>7, <1>8, <1>9, <1>10, <1>11,
  <1>12, <1>13, <1>14, <1>15, <1>16, <1>17, <1>18, <1>19, <1>20, <1>21,
  <1>22, <1>23, <1>24, <1>25
     DEF Next, Broker, OnTradeCandidateReady, Poll

\* The inductive invariant of the race holds in every state.
THEOREM IndInvHolds == Spec => []IndInv
<1>1. IndInv /\ [Next]_vars => IndInv'
  BY NextIndInv
<1>2. QED
  BY <1>1, InitIndInv, PTL DEF Spec

\* The variables keep their types, for any candidates and any fault bound.
THEOREM TypeCorrect == Spec => []TypeOK
<1>1. IndInv => TypeOK
  BY DEF IndInv
<1>2. QED
  BY <1>1, IndInvHolds, PTL

\* What the day reports is true at the broker (get_real_outcome).
THEOREM OutcomeIsRealHolds == Spec => []OutcomeIsReal
<1>1. IndInv => OutcomeIsReal
  BY DEF IndInv
<1>2. QED
  BY <1>1, IndInvHolds, PTL

\* Without a failed call no order that can still fill is forgotten
\* (check_for_fills, _cancel_losers, day end).
THEOREM NoForgottenOrderHolds == Spec => []NoForgottenOrder
<1>1. IndInv => NoForgottenOrder
  BY DEF IndInv
<1>2. QED
  BY <1>1, IndInvHolds, PTL

\* Without a failed call every open position is the winner, still tracked, or
\* missed through one of the two recorded windows (check_for_fills,
\* cancel_all_at_day_end).
THEOREM ExposureAccountedHolds == Spec => []ExposureAccounted
<1>1. IndInv => ExposureAccounted
  BY DEF IndInv
<1>2. QED
  BY <1>1, IndInvHolds, PTL

\* attach_target() always reads the winner's own entry of _pending.
THEOREM OnlyWinnerTrackedHolds == Spec => []OnlyWinnerTracked
<1>1. IndInv => OnlyWinnerTracked
  BY DEF IndInv
<1>2. QED
  BY <1>1, IndInvHolds, PTL

-----------------------------------------------------------------------------
(* No call of the manager touches the winner's own position *)

\* One poll of the manager leaves the order that won alone.
LEMMA PollLeavesWinner ==
  ASSUME IndInv, Poll, winner' # None
  PROVE  order'[winner'] = order[winner']
<1>1. CASE CancelSibling
  BY <1>1 DEF IndInv, CallContext, CancelSibling, IsFirst, Moves, managerVars, TypeOK
<1>2. CASE CancelSiblingFails
  BY <1>2 DEF IndInv, CallContext, CancelSiblingFails, IsFirst, managerVars, TypeOK
<1>3. CASE CloseDuplicate
  BY <1>3 DEF IndInv, CallContext, CloseDuplicate, IsFirst, Moves, managerVars, TypeOK
<1>4. CASE DayEndCancel
  BY <1>4 DEF IndInv, CallContext, DayEndCancel, IsFirst, Moves, managerVars, TypeOK
<1>5. CASE UNCHANGED order
  BY <1>5
<1>6. QED
  BY <1>1, <1>2, <1>3, <1>4, <1>5
     DEF Poll, ReadPositions, ReadFails, DropVanished, DetectFill,
         CheckDuplicate, FinishFill, AttachTarget, AttachFails, NoticeClose,
         RecordClose, HistoryLags, EndDay, brokerVars

\* The winner's order is never cancelled or closed by the manager.
THEOREM WinnerLeftAloneHolds == Spec => WinnerLeftAlone
<1>1. IndInv /\ [Next]_vars
        => [(Poll /\ winner' # None) => order'[winner'] = order[winner']]_vars
  BY PollLeavesWinner
<1>2. QED
  BY <1>1, IndInvHolds, PTL DEF Spec, WinnerLeftAlone

-----------------------------------------------------------------------------
(* The race implements RealOutcome *)

\* A step of the race is a step of the abstract outcome, or none.
LEMMA StepRefines == IndInv /\ [Next]_vars => [Outcome!Next]_(Outcome!vars)
<1> SUFFICES ASSUME IndInv, [Next]_vars
             PROVE  [Outcome!Next]_(Outcome!vars)
  OBVIOUS
<1> USE DEF Outcome!Next, Outcome!OrderMoves, Outcome!Successors, Outcome!vars
\* Steps that move one order along its life at the broker.
<1>1. ASSUME NEW c \in Candidates,
             BrokerFill(c) \/ BrokerClose(c) \/ BrokerCancel(c)
               \/ BrokerPlaceLate(c)
      PROVE  Outcome!OrderMoves(c)
  BY <1>1 DEF BrokerFill, BrokerClose, BrokerCancel, BrokerPlaceLate, Moves,
              managerVars
<1>2. ASSUME NEW c \in Candidates, PlaceCandidate(c) \/ PlaceFails(c)
      PROVE  Outcome!OrderMoves(c) \/ UNCHANGED Outcome!vars
  BY <1>2 DEF PlaceCandidate, PlaceFails, Moves, managerVars, IndInv,
              PendingIsPlaced
<1>3. ASSUME CancelSibling \/ CancelSiblingFails
      PROVE  (\E c \in Candidates : Outcome!OrderMoves(c))
                \/ UNCHANGED Outcome!vars
  BY <1>3 DEF CancelSibling, CancelSiblingFails, Moves, managerVars
<1>4. ASSUME CloseDuplicate \/ DayEndCancel
      PROVE  (\E c \in Candidates : Outcome!OrderMoves(c))
                \/ UNCHANGED Outcome!vars
  BY <1>4 DEF CloseDuplicate, DayEndCancel, Moves, managerVars
\* The two steps that tell the program something about the day's trade.
<1>5. ASSUME DetectFill
      PROVE  \E c \in Candidates : Outcome!NameWinner(c)
  BY <1>5 DEF DetectFill, Fills, IsFirst, Outcome!NameWinner, IndInv, CallContext,
              brokerVars
<1>6. ASSUME RecordClose
      PROVE  \E c \in Candidates : Outcome!ReportClose(c)
  BY <1>6 DEF RecordClose, Outcome!ReportClose, IndInv, CallContext, TypeOK,
              brokerVars
\* The rest is invisible.
<1>7. ASSUME \/ \E c \in Candidates : SkipCandidate(c)
             \/ ReadPositions \/ ReadFails \/ DropVanished \/ CheckDuplicate
             \/ FinishFill \/ AttachTarget \/ AttachFails \/ NoticeClose
             \/ HistoryLags \/ BeginDayEnd \/ EndDay \/ UNCHANGED vars
      PROVE  UNCHANGED Outcome!vars
  BY <1>7 DEF SkipCandidate, ReadPositions, ReadFails, DropVanished,
     CheckDuplicate, FinishFill, AttachTarget, AttachFails, NoticeClose,
     HistoryLags, BeginDayEnd, EndDay, vars, brokerVars, managerVars
<1>8. QED
  BY <1>1, <1>2, <1>3, <1>4, <1>5, <1>6, <1>7
     DEF Next, Broker, OnTradeCandidateReady, Poll

\* The detailed race implements what it promises to the rest of the program.
THEOREM RaceImplementsRealOutcome == Spec => ImplementsRealOutcome
<1>1. Init => Outcome!Init
  BY DEF Init, Outcome!Init
<1>2. QED
  BY <1>1, StepRefines, IndInvHolds, PTL
     DEF Spec, ImplementsRealOutcome, Outcome!Spec

-----------------------------------------------------------------------------
(***************************************************************************)
(* DayOrchestrator: the bars, and the least and greatest of a set.         *)
(***************************************************************************)
\* A bar comes: it is appended to those the detectors have seen.
Fed(b) ==
  /\ trend \in {"up", "down"} /\ trend' = trend
  /\ fed \in Seq(BarRecord) /\ b \in BarRecord /\ fed' = Append(fed, b)

\* The least and the greatest number of a set.
LEMMA LeastIs ==
  ASSUME NEW S \in SUBSET Nat, S # {}
  PROVE  FedDay!Least(S) \in S /\ \A y \in S : FedDay!Least(S) <= y
<1>1. PICK x \in S : \A y \in S : ~ (<<y, x>> \in OpToRel(<, Nat))
  BY WFMin, NatLessThanWellFounded
<1>2. \A y \in S : ~ (y < x)
  BY <1>1 DEF OpToRel
<1>3. \E z \in S : \A y \in S : z <= y
  BY <1>2
<1>4. QED
  BY <1>3 DEF FedDay!Least

\* A member that no other undercuts is the least.
LEMMA LeastOf ==
  ASSUME NEW S \in SUBSET Int, NEW x \in S, \A y \in S : x <= y
  PROVE  FedDay!Least(S) = x
<1>1. \E z \in S : \A y \in S : z <= y
  OBVIOUS
<1>2. FedDay!Least(S) \in S /\ \A y \in S : FedDay!Least(S) <= y
  BY <1>1 DEF FedDay!Least
<1>3. FedDay!Least(S) <= x /\ x <= FedDay!Least(S) /\ FedDay!Least(S) \in Int /\ x \in Int
  BY <1>2
<1>4. QED
  BY <1>3

\* The greatest of a bounded set is a member, and no member exceeds it.
LEMMA GreatestIs ==
  ASSUME NEW m \in Nat, NEW S \in SUBSET (0..m), S # {}
  PROVE  FedDay!Greatest(S) \in S /\ \A y \in S : y <= FedDay!Greatest(S)
<1> DEFINE T == {m - x : x \in S}
<1>1. T \in SUBSET Nat /\ T # {}
  <2>1. \A x \in S : m - x \in Nat
    OBVIOUS
  <2>2. QED
    BY <2>1
<1>2. PICK t \in T : \A y \in T : t <= y
  BY <1>1, LeastIs
<1>3. PICK x \in S : t = m - x
  BY <1>2
<1>4. \A y \in S : y <= x
  BY <1>2, <1>3
<1>5. QED
  BY <1>4 DEF FedDay!Greatest

\* A member that no other exceeds is the greatest.
LEMMA GreatestOf ==
  ASSUME NEW S \in SUBSET Int, NEW x \in S, \A y \in S : y <= x
  PROVE  FedDay!Greatest(S) = x
<1>1. FedDay!Greatest(S) \in S /\ \A y \in S : y <= FedDay!Greatest(S)
  BY DEF FedDay!Greatest
<1>2. FedDay!Greatest(S) <= x /\ x <= FedDay!Greatest(S) /\ FedDay!Greatest(S) \in Int /\ x \in Int
  BY <1>1
<1>3. QED
  BY <1>2

\* What the bars so far are.
LEMMA BarsAre ==
  ASSUME fed \in Seq(BarRecord), trend \in {"up", "down"}
  PROVE  /\ FedDay!n = Len(fed) /\ Len(fed) \in Nat
         /\ \A i \in 0..Len(fed) - 1 :
              /\ fed[i + 1] \in BarRecord
              /\ FedDay!High(i) = fed[i + 1].high /\ FedDay!High(i) \in Int
              /\ FedDay!Low(i) = fed[i + 1].low /\ FedDay!Low(i) \in Int
              /\ FedDay!Close(i) = fed[i + 1].close /\ FedDay!Close(i) \in Int
              /\ FedDay!Far(i) = Far(fed[i + 1]) /\ FedDay!Far(i) \in Int
              /\ FedDay!Near(i) = Near(fed[i + 1]) /\ FedDay!Near(i) \in Int
<1>1. Len(fed) \in Nat /\ FedDay!n = Len(fed)
  BY DEF FedDay!n
<1>2. ASSUME NEW i \in 0..Len(fed) - 1
      PROVE  fed[i + 1] \in BarRecord
  BY <1>1
<1>3. QED
  BY <1>1, <1>2 DEF FedDay!High, FedDay!Low, FedDay!Close, FedDay!Far, FedDay!Near, Far, Near, BarRecord, Prices

\* A new bar lengthens the day by one and leaves the old bars in their places.
LEMMA BarsStay ==
  ASSUME NEW b, Fed(b)
  PROVE  /\ fed' \in Seq(BarRecord) /\ trend' \in {"up", "down"}
         /\ Len(fed') = Len(fed) + 1 /\ Len(fed) \in Nat /\ FedDay!n' = Len(fed) + 1
         /\ \A i \in 0..Len(fed) - 1 : fed'[i + 1] = fed[i + 1]
         /\ fed'[Len(fed) + 1] = b
BY DEF Fed, FedDay!n

\* The old bars are what they were, and the new bar is the last.
LEMMA OldBar ==
  ASSUME NEW b, Fed(b), NEW i \in 0..Len(fed) - 1
  PROVE  /\ FedDay!High(i)' = FedDay!High(i) /\ FedDay!Low(i)' = FedDay!Low(i)
         /\ FedDay!Close(i)' = FedDay!Close(i)
         /\ FedDay!Far(i)' = FedDay!Far(i) /\ FedDay!Near(i)' = FedDay!Near(i)
         /\ BarAt(i)' = BarAt(i)
<1>1. fed'[i + 1] = fed[i + 1] /\ trend' = trend
  BY BarsStay DEF Fed
<1>2. QED
  BY <1>1 DEF FedDay!High, FedDay!Low, FedDay!Close, FedDay!Far, FedDay!Near, BarAt

\* What the batch model reads of the new bar.
LEMMA NewBar ==
  ASSUME NEW b, Fed(b), NEW i, i = Len(fed)
  PROVE  /\ FedDay!High(i)' = b.high /\ FedDay!Low(i)' = b.low
         /\ FedDay!Close(i)' = b.close
         /\ FedDay!Far(i)' = Far(b) /\ FedDay!Near(i)' = Near(b)
         /\ BarAt(i)' = [at |-> i, high |-> b.high, low |-> b.low]
         /\ b.high \in Int /\ b.low \in Int /\ b.close \in Int
         /\ Far(b) \in Int /\ Near(b) \in Int
<1>1. fed'[i + 1] = b /\ trend' = trend /\ b \in BarRecord
  BY BarsStay DEF Fed
<1>2. QED
  BY <1>1 DEF FedDay!High, FedDay!Low, FedDay!Close, FedDay!Far, FedDay!Near, BarAt, Far, Near, BarRecord, Prices

-----------------------------------------------------------------------------
(***************************************************************************)
(* The windows.                                                            *)
(***************************************************************************)
\* The n-th bar of a window.
First(p, size) == IF p < size THEN 0 ELSE p - size

\* How long the windows of five and of three bars are.
LEMMA FirstIs ==
  ASSUME NEW m \in Nat
  PROVE  /\ m < 4 => First(m + 1, 5) = 0 /\ (m + 1) - First(m + 1, 5) \in 1..4
         /\ m >= 4 => First(m + 1, 5) = m - 4 /\ (m + 1) - First(m + 1, 5) = 5
         /\ m < 2 => (m + 1) - First(m + 1, 3) \in 1..2
         /\ m >= 2 => First(m + 1, 3) = m - 2 /\ (m + 1) - First(m + 1, 3) = 3
         /\ m < 6 => First(m, 6) = 0
         /\ m >= 6 => First(m, 6) = m - 6
BY DEF First

\* The length of a window, and what it says of a window that is short or full.
LEMMA LengthIs ==
  ASSUME NEW len \in Nat, NEW f
  PROVE  /\ Len([k \in 1..len |-> f[k]]) = len
         /\ len \in 1..4 => len < 5 /\ len # 5
         /\ len = 5 => ~(len < 5)
         /\ len \in 1..2 => len < 3 /\ len # 3
OBVIOUS

\* A window's length, and its bars one by one.
LEMMA LastBarsAre ==
  ASSUME NEW p \in Nat, NEW size \in Nat
  PROVE  /\ First(p, size) \in Nat /\ First(p, size) <= p
         /\ DOMAIN LastBars(p, size) = 1..p - First(p, size)
         /\ Len(LastBars(p, size)) = p - First(p, size)
         /\ \A k \in 1..p - First(p, size) : LastBars(p, size)[k] = BarAt(First(p, size) + k - 1)
<1>1. First(p, size) \in Nat /\ First(p, size) <= p
  BY DEF First
<1>2. LastBars(p, size) = [k \in 1..p - First(p, size) |-> BarAt(First(p, size) + k - 1)]
  BY DEF LastBars, First
<1>3. QED
  BY <1>1, <1>2

\* A new bar changes no window that ends before it.
LEMMA LastBarsStay ==
  ASSUME NEW b, Fed(b), NEW p \in 0..Len(fed), NEW size \in Nat
  PROVE  LastBars(p, size)' = LastBars(p, size)
<1>1. First(p, size) \in Nat /\ p \in Nat /\ Len(fed) \in Nat
  BY BarsStay DEF First
<1>2. \A k \in 1..p - First(p, size) : First(p, size) + k - 1 \in 0..Len(fed) - 1
  BY <1>1
<1>3. \A k \in 1..p - First(p, size) : BarAt(First(p, size) + k - 1)' = BarAt(First(p, size) + k - 1)
  BY <1>2, OldBar
<1>4. LastBars(p, size) = [k \in 1..p - First(p, size) |-> BarAt(First(p, size) + k - 1)]
  BY DEF LastBars, First
<1>5. LastBars(p, size)' = [k \in 1..p - First(p, size) |-> BarAt(First(p, size) + k - 1)']
  BY DEF LastBars, First
<1>6. QED
  BY <1>3, <1>4, <1>5

\* A window rolls over a sequence of bars, all[i] being bar i.
Win(all, p, size) == [k \in 1..p - First(p, size) |-> all[First(p, size) + k - 1]]

\* Appending to a window of a sequence, and dropping its head when it is full, gives the
\* window one place further.
LEMMA WinRolls ==
  ASSUME NEW S, NEW m \in Nat, NEW all \in [0..m -> S], NEW size \in Nat, 0 < size
  PROVE  /\ Rolling(Win(all, m, size), all[m], size) = Win(all, m + 1, size)
         /\ size = 6 => Tail6(Append(Win(all, m, size), all[m])) = Win(all, m + 1, size)
<1> DEFINE w == Win(all, m, size)
           f == First(m, size)
           g == First(m + 1, size)
<1>1. /\ f \in Nat /\ f <= m /\ g \in Nat /\ g <= m + 1 /\ m - f \in Nat
      /\ m < size => f = 0 /\ g = 0
      /\ ~(m < size) => f = m - size /\ g = f + 1 /\ (m + 1) - g = size /\ m - f = size
  BY DEF First
<1>2. w = [k \in 1..m - f |-> all[f + k - 1]]
  BY DEF Win
<1>3. Win(all, m + 1, size) = [k \in 1..(m + 1) - g |-> all[g + k - 1]]
  BY DEF Win
<1> HIDE DEF w, f, g
<1>4. w \in Seq(S) /\ Len(w) = m - f /\ all[m] \in S
  <2>1. \A k \in 1..m - f : f + k - 1 \in 0..m
    BY <1>1
  <2>2. w \in [1..m - f -> S]
    BY <1>2, <2>1
  <2>3. QED
    BY <1>1, <2>2
<1>5. /\ Append(w, all[m]) \in Seq(S) /\ Len(Append(w, all[m])) = m - f + 1
      /\ \A k \in 1..m - f : Append(w, all[m])[k] = w[k]
      /\ Append(w, all[m])[m - f + 1] = all[m]
  BY <1>1, <1>4, AppendProperties
<1>6. Append(w, all[m]) = [k \in 1..m - f + 1 |-> all[f + k - 1]]
  <2>1. ASSUME NEW k \in 1..m - f + 1
        PROVE  Append(w, all[m])[k] = all[f + k - 1]
    <3>1. CASE k = m - f + 1
      <4>1. f + k - 1 = m
        BY <3>1, <1>1
      <4>2. QED
        BY <4>1, <3>1, <1>5
    <3>2. CASE k # m - f + 1
      <4>1. k \in 1..m - f
        BY <3>2, <1>1
      <4>2. QED
        BY <4>1, <1>5, <1>2
    <3>3. QED
      BY <3>1, <3>2
  <2>2. Append(w, all[m]) = [k \in 1..m - f + 1 |-> Append(w, all[m])[k]]
    BY <1>5, <1>1
  <2>3. QED
    BY <2>1, <2>2
<1>7. CASE m < size
  <2>1. Append(w, all[m]) = Win(all, m + 1, size)
    BY <1>1, <1>3, <1>6, <1>7
  <2>2. Len(w) < size /\ Len(Append(w, all[m])) <= size
    BY <1>1, <1>4, <1>5, <1>7
  <2>3. QED
    BY <2>1, <2>2, <1>5 DEF Rolling, Tail6, TargetLookbackBars, w
<1>8. CASE ~(m < size)
  <2>1. f = m - size /\ g = f + 1 /\ (m + 1) - g = size /\ m - f = size
    BY <1>1, <1>8
  <2>2. Len(w) = size /\ w # <<>> /\ size \in Nat
    BY <2>1, <1>4
  <2>3. /\ Tail(w) \in Seq(S) /\ Len(Tail(w)) = size - 1
        /\ \A k \in 1..size - 1 : Tail(w)[k] = w[k + 1]
    BY <1>4, <2>2, HeadTailProperties
  <2>4. /\ Append(Tail(w), all[m]) \in Seq(S) /\ Len(Append(Tail(w), all[m])) = size
        /\ \A k \in 1..size - 1 : Append(Tail(w), all[m])[k] = Tail(w)[k]
        /\ Append(Tail(w), all[m])[size] = all[m]
    BY <2>2, <2>3, <1>4, AppendProperties
  <2>5. ASSUME NEW k \in 1..size
        PROVE  /\ Append(Tail(w), all[m])[k] = all[g + k - 1]
               /\ Append(w, all[m])[k + 1] = all[g + k - 1]
    <3>1. k + 1 \in 1..m - f + 1 /\ f + (k + 1) - 1 = g + k - 1
      BY <2>1, <1>1
    <3>2. Append(w, all[m])[k + 1] = all[g + k - 1]
      BY <3>1, <1>6
    <3>3. CASE k = size
      <4>1. k + 1 = m - f + 1
        BY <3>3, <2>1
      <4>2. QED
        BY <4>1, <3>2, <3>3, <2>4, <1>5
    <3>4. CASE k # size
      <4>1. k \in 1..size - 1 /\ k + 1 \in 1..m - f
        BY <3>4, <2>1, <1>1
      <4>2. QED
        BY <4>1, <3>2, <2>3, <2>4, <1>5
    <3>5. QED
      BY <3>3, <3>4
  <2>6. Append(Tail(w), all[m]) = Win(all, m + 1, size)
    <3>1. Append(Tail(w), all[m]) = [k \in 1..size |-> Append(Tail(w), all[m])[k]]
      BY <2>4
    <3>2. QED
      BY <3>1, <2>5, <2>1, <1>3
  <2>7. Rolling(w, all[m], size) = Win(all, m + 1, size)
    <3>1. ~(Len(w) < size)
      BY <2>2
    <3>2. QED
      BY <3>1, <2>6, Zenon DEF Rolling
  <2>8. ASSUME size = 6
        PROVE  Tail6(Append(w, all[m])) = Win(all, m + 1, size)
    <3>1. Len(Append(w, all[m])) = 7
      BY <1>5, <2>1, <2>8
    <3>2. Tail6(Append(w, all[m])) = SubSeq(Append(w, all[m]), 2, 7)
      BY <3>1 DEF Tail6, TargetLookbackBars
    <3>3. SubSeq(Append(w, all[m]), 2, 7) = [k \in 1..6 |-> Append(w, all[m])[k + 1]]
      BY <3>1, <1>5
    <3>4. Win(all, m + 1, size) = [k \in 1..6 |-> all[g + k - 1]]
      BY <1>3, <2>1, <2>8
    <3>5. \A k \in 1..6 : Append(w, all[m])[k + 1] = all[g + k - 1]
      BY <2>5, <2>8
    <3>6. QED
      BY <3>2, <3>3, <3>4, <3>5
  <2>9. QED
    BY <2>7, <2>8 DEF w
<1>9. QED
  BY <1>7, <1>8

\* So the windows the detectors keep are the last bars after the new one as well.
LEMMA WindowGrows ==
  ASSUME NEW b, Fed(b), NEW m, m = Len(fed), NEW size \in Nat, 0 < size,
         NEW bar, bar = [at |-> m, high |-> b.high, low |-> b.low]
  PROVE  /\ Rolling(LastBars(m, size), bar, size) = LastBars(m + 1, size)'
         /\ size = 6 => Tail6(Append(LastBars(m, size), bar)) = LastBars(m + 1, size)'
<1>1. m \in Nat /\ Len(fed) = m
  BY BarsStay
<1>2. PICK all : all = [i \in 0..m |-> BarAt(i)']
  OBVIOUS
<1>3. all[m] = bar /\ all \in [0..m -> {all[i] : i \in 0..m}]
  BY <1>1, <1>2, NewBar
<1>4. LastBars(m, size) = Win(all, m, size)
  <2>1. First(m, size) \in Nat /\ First(m, size) <= m
    BY <1>1 DEF First
  <2>2. ASSUME NEW k \in 1..m - First(m, size)
        PROVE  all[First(m, size) + k - 1] = BarAt(First(m, size) + k - 1)
    <3>1. First(m, size) + k - 1 \in 0..Len(fed) - 1 /\ First(m, size) + k - 1 \in 0..m
      BY <1>1, <2>1
    <3>2. QED
      BY <3>1, OldBar, <1>2
  <2>3. LastBars(m, size) = [k \in 1..m - First(m, size) |-> BarAt(First(m, size) + k - 1)]
    BY DEF LastBars, First
  <2>4. QED
    BY <2>2, <2>3 DEF Win
<1>5. LastBars(m + 1, size)' = Win(all, m + 1, size)
  <2>1. First(m + 1, size) \in Nat /\ First(m + 1, size) <= m + 1
    BY <1>1 DEF First
  <2>2. ASSUME NEW k \in 1..(m + 1) - First(m + 1, size)
        PROVE  all[First(m + 1, size) + k - 1] = BarAt(First(m + 1, size) + k - 1)'
    <3>1. First(m + 1, size) + k - 1 \in 0..m
      BY <1>1, <2>1
    <3>2. QED
      BY <3>1, <1>2
  <2>3. LastBars(m + 1, size)' = [k \in 1..(m + 1) - First(m + 1, size) |-> BarAt(First(m + 1, size) + k - 1)']
    BY DEF LastBars, First
  <2>4. QED
    BY <2>2, <2>3 DEF Win
<1>6. /\ Rolling(Win(all, m, size), all[m], size) = Win(all, m + 1, size)
      /\ size = 6 => Tail6(Append(Win(all, m, size), all[m])) = Win(all, m + 1, size)
  BY <1>1, <1>3, WinRolls
<1>7. QED
  BY <1>3, <1>4, <1>5, <1>6, Zenon

-----------------------------------------------------------------------------
(***************************************************************************)
(* Swings.                                                                 *)
(***************************************************************************)
\* The pivots lie two bars off both ends, and are those of the bars before and
\* perhaps the bar two back.
LEMMA PivotsAre ==
  ASSUME fed \in Seq(BarRecord), trend \in {"up", "down"}
  PROVE  /\ FedDay!PivotHighs \subseteq 2..Len(fed) - 3
         /\ FedDay!PivotLows \subseteq 2..Len(fed) - 3
BY BarsAre DEF FedDay!PivotHighs, FedDay!PivotLows, FedDay!SwingN

IsNewHigh(w) == Len(w) = 5 /\ \A k \in DOMAIN w : w[k].high <= w[3].high
IsNewLow(w) == Len(w) = 5 /\ \A k \in DOMAIN w : w[k].low >= w[3].low

\* A new bar makes at most one new pivot of each kind, two bars before it.
LEMMA PivotsGrow ==
  ASSUME NEW b, Fed(b), NEW m, m = Len(fed), NEW w, w = LastBars(m + 1, 5)'
  PROVE  /\ FedDay!PivotHighs' = FedDay!PivotHighs \cup {k \in {m - 2} : IsNewHigh(w)}
         /\ FedDay!PivotLows' = FedDay!PivotLows \cup {k \in {m - 2} : IsNewLow(w)}
         /\ IsNewHigh(w) \/ IsNewLow(w) =>
              m >= 4 /\ w[3] = [at |-> m - 2, high |-> FedDay!High(m - 2), low |-> FedDay!Low(m - 2)]
<1>1. m \in Nat /\ FedDay!n = m /\ FedDay!n' = m + 1
  BY BarsStay DEF FedDay!n
<1>2. /\ FedDay!PivotHighs = {k \in 2..m - 3 : \A o \in k - 2..k + 2 : FedDay!High(o) <= FedDay!High(k)}
      /\ FedDay!PivotLows = {k \in 2..m - 3 : \A o \in k - 2..k + 2 : FedDay!Low(o) >= FedDay!Low(k)}
  BY <1>1 DEF FedDay!PivotHighs, FedDay!PivotLows, FedDay!SwingN, FedDay!Around
<1>3. /\ FedDay!PivotHighs' = {k \in 2..m - 2 : \A o \in k - 2..k + 2 : FedDay!High(o)' <= FedDay!High(k)'}
      /\ FedDay!PivotLows' = {k \in 2..m - 2 : \A o \in k - 2..k + 2 : FedDay!Low(o)' >= FedDay!Low(k)'}
  BY <1>1 DEF FedDay!PivotHighs, FedDay!PivotLows, FedDay!SwingN, FedDay!Around
<1>4. \A k \in 2..m - 3 : \A o \in k - 2..k + 2 :
        /\ FedDay!High(o)' = FedDay!High(o) /\ FedDay!High(k)' = FedDay!High(k)
        /\ FedDay!Low(o)' = FedDay!Low(o) /\ FedDay!Low(k)' = FedDay!Low(k)
  BY <1>1, OldBar
<1>5. /\ DOMAIN w = 1..(m + 1) - First(m + 1, 5) /\ Len(w) = (m + 1) - First(m + 1, 5)
      /\ \A k \in 1..(m + 1) - First(m + 1, 5) : w[k] = BarAt(First(m + 1, 5) + k - 1)'
  <2>1. LastBars(m + 1, 5)' = [k \in 1..(m + 1) - First(m + 1, 5) |-> BarAt(First(m + 1, 5) + k - 1)']
    BY DEF LastBars, First
  <2>2. (m + 1) - First(m + 1, 5) \in Nat
    BY <1>1 DEF First
  <2>3. QED
    BY <2>1, <2>2
<1>6. /\ m < 4 => First(m + 1, 5) = 0
      /\ m >= 4 => First(m + 1, 5) = m - 4
      /\ Len(w) = 5 <=> m >= 4
  <2>1. /\ m < 4 => First(m + 1, 5) = 0
        /\ m >= 4 => First(m + 1, 5) = m - 4
    BY <1>1 DEF First
  <2>2. CASE m < 4
    <3>1. PICK len : len = Len(w)
      OBVIOUS
    <3>2. len = (m + 1) - 0
      BY <1>5, <2>1, <2>2, <3>1
    <3>3. ~(len = 5) /\ ~(m >= 4)
      BY <1>1, <2>2, <3>2
    <3>4. QED
      BY <2>1, <3>1, <3>3
  <2>3. CASE m >= 4
    <3>1. (m + 1) - (m - 4) = 5
      BY <1>1
    <3>2. QED
      BY <1>5, <2>1, <2>3, <3>1
  <2>4. QED
    BY <1>1, <2>1, <2>2, <2>3
<1>7. CASE m < 4
  <2>1. 2..m - 2 = 2..m - 3 \/ m = 3
    BY <1>1, <1>7
  <2>2. 2..m - 2 = {} /\ 2..m - 3 = {}
    BY <1>1, <1>7
  <2>3. QED
    BY <1>2, <1>3, <1>6, <1>7, <2>2, <1>1 DEF IsNewHigh, IsNewLow
<1>8. CASE m >= 4
  <2>1. /\ First(m + 1, 5) = m - 4 /\ DOMAIN w = 1..5 /\ Len(w) = 5
        /\ \A k \in 1..5 : w[k] = BarAt(m - 4 + k - 1)'
    BY <1>1, <1>5, <1>6, <1>8
  <2>2. \A k \in 1..5 : w[k].high = FedDay!High(m - 5 + k)' /\ w[k].low = FedDay!Low(m - 5 + k)'
    <3>1. \A k \in 1..5 : m - 4 + k - 1 = m - 5 + k
      BY <1>1
    <3>2. \A i : BarAt(i)' = [at |-> i, high |-> FedDay!High(i)', low |-> FedDay!Low(i)']
      BY DEF BarAt, FedDay!High, FedDay!Low
    <3>3. QED
      BY <2>1, <3>1, <3>2
  <2>3. IsNewHigh(w) <=> \A o \in m - 4..m : FedDay!High(o)' <= FedDay!High(m - 2)'
    <3>1. ASSUME IsNewHigh(w), NEW o \in m - 4..m
          PROVE  FedDay!High(o)' <= FedDay!High(m - 2)'
      <4>1. PICK k \in 1..5 : k = o - m + 5
        BY <1>1
      <4>2. m - 5 + k = o /\ m - 5 + 3 = m - 2 /\ 3 \in 1..5
        BY <1>1, <4>1
      <4>3. w[k].high <= w[3].high /\ w[k].high = FedDay!High(o)' /\ w[3].high = FedDay!High(m - 2)'
        BY <2>1, <2>2, <3>1, <4>2 DEF IsNewHigh
      <4>4. QED
        BY <4>3
    <3>2. ASSUME \A o \in m - 4..m : FedDay!High(o)' <= FedDay!High(m - 2)', NEW k \in 1..5
          PROVE  w[k].high <= w[3].high
      <4>1. m - 5 + k \in m - 4..m /\ m - 5 + 3 = m - 2 /\ 3 \in 1..5
        BY <1>1
      <4>2. w[k].high = FedDay!High(m - 5 + k)' /\ w[3].high = FedDay!High(m - 2)'
        BY <2>2, <4>1
      <4>3. QED
        BY <3>2, <4>1, <4>2
    <3>3. QED
      BY <3>1, <3>2, <2>1 DEF IsNewHigh
  <2>4. IsNewLow(w) <=> \A o \in m - 4..m : FedDay!Low(o)' >= FedDay!Low(m - 2)'
    <3>1. ASSUME IsNewLow(w), NEW o \in m - 4..m
          PROVE  FedDay!Low(o)' >= FedDay!Low(m - 2)'
      <4>1. PICK k \in 1..5 : k = o - m + 5
        BY <1>1
      <4>2. m - 5 + k = o /\ m - 5 + 3 = m - 2 /\ 3 \in 1..5
        BY <1>1, <4>1
      <4>3. w[k].low >= w[3].low /\ w[k].low = FedDay!Low(o)' /\ w[3].low = FedDay!Low(m - 2)'
        BY <2>1, <2>2, <3>1, <4>2 DEF IsNewLow
      <4>4. QED
        BY <4>3
    <3>2. ASSUME \A o \in m - 4..m : FedDay!Low(o)' >= FedDay!Low(m - 2)', NEW k \in 1..5
          PROVE  w[k].low >= w[3].low
      <4>1. m - 5 + k \in m - 4..m /\ m - 5 + 3 = m - 2 /\ 3 \in 1..5
        BY <1>1
      <4>2. w[k].low = FedDay!Low(m - 5 + k)' /\ w[3].low = FedDay!Low(m - 2)'
        BY <2>2, <4>1
      <4>3. QED
        BY <3>2, <4>1, <4>2
    <3>3. QED
      BY <3>1, <3>2, <2>1 DEF IsNewLow
  <2>5. /\ 2..m - 2 = (2..m - 3) \cup {m - 2} /\ m - 2 \notin 2..m - 3
        /\ (m - 2) - 2 = m - 4 /\ (m - 2) + 2 = m
    BY <1>1, <1>8
  <2>6. FedDay!PivotHighs' = FedDay!PivotHighs \cup {k \in {m - 2} : IsNewHigh(w)}
    <3>1. \A k \in 2..m - 3 : k \in FedDay!PivotHighs' <=> k \in FedDay!PivotHighs
      BY <1>2, <1>3, <1>4, <2>5
    <3>2. m - 2 \in FedDay!PivotHighs' <=> IsNewHigh(w)
      BY <1>3, <2>3, <2>5
    <3>3. FedDay!PivotHighs' \subseteq 2..m - 2 /\ FedDay!PivotHighs \subseteq 2..m - 3
      BY <1>2, <1>3
    <3>4. QED
      BY <3>1, <3>2, <3>3, <2>5
  <2>7. FedDay!PivotLows' = FedDay!PivotLows \cup {k \in {m - 2} : IsNewLow(w)}
    <3>1. \A k \in 2..m - 3 : k \in FedDay!PivotLows' <=> k \in FedDay!PivotLows
      BY <1>2, <1>3, <1>4, <2>5
    <3>2. m - 2 \in FedDay!PivotLows' <=> IsNewLow(w)
      BY <1>3, <2>4, <2>5
    <3>3. FedDay!PivotLows' \subseteq 2..m - 2 /\ FedDay!PivotLows \subseteq 2..m - 3
      BY <1>2, <1>3
    <3>4. QED
      BY <3>1, <3>2, <3>3, <2>5
  <2>8. w[3] = [at |-> m - 2, high |-> FedDay!High(m - 2), low |-> FedDay!Low(m - 2)]
    <3>1. w[3] = BarAt(m - 2)' /\ m - 2 \in 0..Len(fed) - 1
      <4>1. m - 4 + 3 - 1 = m - 2 /\ 3 \in 1..5
        BY <1>1
      <4>2. QED
        BY <4>1, <2>1, <1>1, <1>8
    <3>2. BarAt(m - 2)' = BarAt(m - 2)
      BY <3>1, OldBar
    <3>3. QED
      BY <3>1, <3>2 DEF BarAt, FedDay!High, FedDay!Low
  <2>9. QED
    BY <2>6, <2>7, <2>8, <1>8
<1>9. QED
  BY <1>7, <1>8, <1>1

\* The swing detector tells exactly these new pivots.
LEMMA ConfirmedIs ==
  ASSUME NEW b, Fed(b), NEW m, m = Len(fed), NEW w, w = LastBars(m + 1, 5)'
  PROVE  Confirmed(w) =
           {Event("swing_high", k, FedDay!High(k)) : k \in {x \in {m - 2} : IsNewHigh(w)}}
           \cup {Event("swing_low", k, FedDay!Low(k)) : k \in {x \in {m - 2} : IsNewLow(w)}}
<1>1. IsNewHigh(w) \/ IsNewLow(w) =>
        /\ Len(w) = 5
        /\ w[3].at = m - 2 /\ w[3].high = FedDay!High(m - 2) /\ w[3].low = FedDay!Low(m - 2)
  <2>1. IsNewHigh(w) \/ IsNewLow(w) => Len(w) = 5
    BY DEF IsNewHigh, IsNewLow
  <2>2. IsNewHigh(w) \/ IsNewLow(w) =>
          w[3] = [at |-> m - 2, high |-> FedDay!High(m - 2), low |-> FedDay!Low(m - 2)]
    BY PivotsGrow, Zenon
  <2>3. QED
    BY <2>1, <2>2
<1>2. m \in Nat
  BY BarsStay
<1>3. (Len(w) < 5 /\ Len(w) # 5) \/ Len(w) = 5
  <2>1. PICK f : f = [k \in 1..(m + 1) - First(m + 1, 5) |-> BarAt(First(m + 1, 5) + k - 1)']
    OBVIOUS
  <2>2. PICK len \in Nat : len = (m + 1) - First(m + 1, 5) /\ (len \in 1..4 \/ len = 5)
    BY <1>2, FirstIs
  <2>3. w = [k \in 1..len |-> f[k]]
    <3>1. w = [k \in 1..(m + 1) - First(m + 1, 5) |-> BarAt(First(m + 1, 5) + k - 1)']
      BY DEF LastBars, First
    <3>2. QED
      BY <2>1, <2>2, <3>1
  <2>4. Len(w) = len
    BY <2>3, LengthIs, Zenon
  <2>5. QED
    BY <2>2, <2>4, LengthIs, Zenon
<1>4. CASE Len(w) < 5 /\ Len(w) # 5
  <2>1. ~IsNewHigh(w) /\ ~IsNewLow(w)
    BY <1>4, Zenon DEF IsNewHigh, IsNewLow
  <2>2. Confirmed(w) = {}
    BY <1>4 DEF Confirmed, SwingN
  <2>3. QED
    BY <2>1, <2>2
<1>5. CASE Len(w) = 5
  <2>1. Confirmed(w) =
          (IF IsNewHigh(w) THEN {Event("swing_high", w[3].at, w[3].high)} ELSE {})
          \cup (IF IsNewLow(w) THEN {Event("swing_low", w[3].at, w[3].low)} ELSE {})
    <3>1. 2 * SwingN + 1 = 5 /\ SwingN + 1 = 3 /\ ~(5 < 5)
      BY DEF SwingN
    <3>2. /\ IsNewHigh(w) <=> \A k \in DOMAIN w : w[k].high <= w[3].high
          /\ IsNewLow(w) <=> \A k \in DOMAIN w : w[k].low >= w[3].low
      BY <1>5 DEF IsNewHigh, IsNewLow
    <3>3. Confirmed(w) =
            (IF \A k \in DOMAIN w : w[k].high <= w[3].high
             THEN {Event("swing_high", w[3].at, w[3].high)} ELSE {})
            \cup (IF \A k \in DOMAIN w : w[k].low >= w[3].low
                  THEN {Event("swing_low", w[3].at, w[3].low)} ELSE {})
      BY <1>5, <3>1, Zenon DEF Confirmed
    <3>4. QED
      BY <3>2, <3>3, Zenon
  <2>2. QED
    BY <2>1, <1>1
<1>6. QED
  BY <1>3, <1>4, <1>5, Zenon

\* The last confirmed swings after the bar.
LEMMA SwingsStep ==
  ASSUME NEW b, Fed(b), NEW m, m = Len(fed), NEW w, w = LastBars(m + 1, 5)', SwingsFit
  PROVE  /\ Fold(latestHigh, Confirmed(w), "swing_high") =
              (IF FedDay!PivotHighs = {} THEN Null ELSE FedDay!High(FedDay!Greatest(FedDay!PivotHighs)))'
         /\ Fold(latestLow, Confirmed(w), "swing_low") =
              (IF FedDay!PivotLows = {} THEN Null ELSE FedDay!Low(FedDay!Greatest(FedDay!PivotLows)))'
         /\ \A k \in FedDay!PivotHighs' :
              k \in FedDay!PivotHighs \/ Event("swing_high", k, FedDay!High(k)') \in Confirmed(w)
         /\ \A k \in FedDay!PivotLows' :
              k \in FedDay!PivotLows \/ Event("swing_low", k, FedDay!Low(k)') \in Confirmed(w)
<1>1. m \in Nat /\ fed \in Seq(BarRecord) /\ trend \in {"up", "down"}
  BY BarsStay DEF Fed
<1>2. /\ FedDay!PivotHighs \subseteq 2..m - 3 /\ FedDay!PivotLows \subseteq 2..m - 3
  BY <1>1, PivotsAre
<1>3. /\ FedDay!PivotHighs' = FedDay!PivotHighs \cup {k \in {m - 2} : IsNewHigh(w)}
      /\ FedDay!PivotLows' = FedDay!PivotLows \cup {k \in {m - 2} : IsNewLow(w)}
      /\ IsNewHigh(w) \/ IsNewLow(w) => m >= 4
  BY PivotsGrow
<1>4. \A k \in 0..m - 1 : FedDay!High(k)' = FedDay!High(k) /\ FedDay!Low(k)' = FedDay!Low(k)
  BY OldBar
<1>5. /\ \A e \in Confirmed(w) : e.type = "swing_high" => e.price = FedDay!High(m - 2)
      /\ \A e \in Confirmed(w) : e.type = "swing_low" => e.price = FedDay!Low(m - 2)
      /\ (\E e \in Confirmed(w) : e.type = "swing_high") <=> IsNewHigh(w)
      /\ (\E e \in Confirmed(w) : e.type = "swing_low") <=> IsNewLow(w)
      /\ IsNewHigh(w) => Event("swing_high", m - 2, FedDay!High(m - 2)) \in Confirmed(w)
      /\ IsNewLow(w) => Event("swing_low", m - 2, FedDay!Low(m - 2)) \in Confirmed(w)
  BY ConfirmedIs DEF Event
<1>6. Fold(latestHigh, Confirmed(w), "swing_high") =
        (IF FedDay!PivotHighs = {} THEN Null ELSE FedDay!High(FedDay!Greatest(FedDay!PivotHighs)))'
  <2>1. CASE IsNewHigh(w)
    <3>1. Fold(latestHigh, Confirmed(w), "swing_high") = FedDay!High(m - 2)
      BY <1>5, <2>1 DEF Fold
    <3>2. FedDay!Greatest(FedDay!PivotHighs)' = m - 2
      <4>3. PICK S : S = FedDay!PivotHighs'
        OBVIOUS
      <4>0. \A y \in S : y \in FedDay!PivotHighs \/ y = m - 2
        BY <1>3, <4>3
      <4>1. S \in SUBSET Int /\ \A y \in S : y <= m - 2
        <5>1. \A y \in FedDay!PivotHighs : y \in Int /\ y <= m - 2
          BY <1>1, <1>2
        <5>2. QED
          BY <1>1, <4>0, <5>1
      <4>2. m - 2 \in S
        BY <1>3, <2>1, <4>3
      <4>4. FedDay!Greatest(S) = m - 2
        BY <4>1, <4>2, <4>3, GreatestOf
      <4>5. QED
        BY <4>3, <4>4, Zenon DEF FedDay!Greatest
    <3>3. FedDay!High(m - 2)' = FedDay!High(m - 2)
      BY <1>1, <1>3, <1>4, <2>1
    <3>4. FedDay!High(FedDay!Greatest(FedDay!PivotHighs))' = FedDay!High(m - 2)'
      BY <3>2 DEF FedDay!High
    <3>5. FedDay!PivotHighs' # {}
      BY <1>3, <2>1
    <3>6. QED
      BY <3>1, <3>3, <3>4, <3>5
  <2>2. CASE ~IsNewHigh(w)
    <3>1. Fold(latestHigh, Confirmed(w), "swing_high") = latestHigh
      BY <1>5, <2>2 DEF Fold
    <3>2. FedDay!PivotHighs' = FedDay!PivotHighs
      BY <1>3, <2>2
    <3>3. CASE FedDay!PivotHighs = {}
      BY <3>1, <3>2, <3>3 DEF SwingsFit
    <3>4. CASE FedDay!PivotHighs # {}
      <4>1. FedDay!Greatest(FedDay!PivotHighs) \in 0..m - 1
        <5>1. FedDay!PivotHighs \in SUBSET (0..m)
          BY <1>1, <1>2
        <5>2. FedDay!Greatest(FedDay!PivotHighs) \in FedDay!PivotHighs
          BY <1>1, <5>1, <3>4, GreatestIs
        <5>3. PICK g \in FedDay!PivotHighs : g = FedDay!Greatest(FedDay!PivotHighs)
          BY <5>2
        <5>4. g \in 0..m - 1
          BY <1>1, <1>2
        <5>5. QED
          BY <5>3, <5>4
      <4>2. PICK g \in 0..m - 1 : g = FedDay!Greatest(FedDay!PivotHighs)
        BY <4>1
      <4>3. FedDay!Greatest(FedDay!PivotHighs)' = g
        BY <4>2, <3>2 DEF FedDay!Greatest
      <4>4. FedDay!High(FedDay!Greatest(FedDay!PivotHighs))' = FedDay!High(g)'
        BY <4>3 DEF FedDay!High
      <4>5. FedDay!High(g)' = FedDay!High(g)
        BY <1>4
      <4>6. latestHigh = FedDay!High(g)
        BY <3>4, <4>2 DEF SwingsFit
      <4>7. QED
        BY <3>1, <3>2, <3>4, <4>4, <4>5, <4>6
    <3>5. QED
      BY <3>3, <3>4
  <2>3. QED
    BY <2>1, <2>2
<1>7. Fold(latestLow, Confirmed(w), "swing_low") =
        (IF FedDay!PivotLows = {} THEN Null ELSE FedDay!Low(FedDay!Greatest(FedDay!PivotLows)))'
  <2>1. CASE IsNewLow(w)
    <3>1. Fold(latestLow, Confirmed(w), "swing_low") = FedDay!Low(m - 2)
      BY <1>5, <2>1 DEF Fold
    <3>2. FedDay!Greatest(FedDay!PivotLows)' = m - 2
      <4>3. PICK S : S = FedDay!PivotLows'
        OBVIOUS
      <4>0. \A y \in S : y \in FedDay!PivotLows \/ y = m - 2
        BY <1>3, <4>3
      <4>1. S \in SUBSET Int /\ \A y \in S : y <= m - 2
        <5>1. \A y \in FedDay!PivotLows : y \in Int /\ y <= m - 2
          BY <1>1, <1>2
        <5>2. QED
          BY <1>1, <4>0, <5>1
      <4>2. m - 2 \in S
        BY <1>3, <2>1, <4>3
      <4>4. FedDay!Greatest(S) = m - 2
        BY <4>1, <4>2, <4>3, GreatestOf
      <4>5. QED
        BY <4>3, <4>4, Zenon DEF FedDay!Greatest
    <3>3. FedDay!Low(m - 2)' = FedDay!Low(m - 2)
      BY <1>1, <1>3, <1>4, <2>1
    <3>4. FedDay!Low(FedDay!Greatest(FedDay!PivotLows))' = FedDay!Low(m - 2)'
      BY <3>2 DEF FedDay!Low
    <3>5. FedDay!PivotLows' # {}
      BY <1>3, <2>1
    <3>6. QED
      BY <3>1, <3>3, <3>4, <3>5
  <2>2. CASE ~IsNewLow(w)
    <3>1. Fold(latestLow, Confirmed(w), "swing_low") = latestLow
      BY <1>5, <2>2 DEF Fold
    <3>2. FedDay!PivotLows' = FedDay!PivotLows
      BY <1>3, <2>2
    <3>3. CASE FedDay!PivotLows = {}
      BY <3>1, <3>2, <3>3 DEF SwingsFit
    <3>4. CASE FedDay!PivotLows # {}
      <4>1. FedDay!Greatest(FedDay!PivotLows) \in 0..m - 1
        <5>1. FedDay!PivotLows \in SUBSET (0..m)
          BY <1>1, <1>2
        <5>2. FedDay!Greatest(FedDay!PivotLows) \in FedDay!PivotLows
          BY <1>1, <5>1, <3>4, GreatestIs
        <5>3. PICK g \in FedDay!PivotLows : g = FedDay!Greatest(FedDay!PivotLows)
          BY <5>2
        <5>4. g \in 0..m - 1
          BY <1>1, <1>2
        <5>5. QED
          BY <5>3, <5>4
      <4>2. PICK g \in 0..m - 1 : g = FedDay!Greatest(FedDay!PivotLows)
        BY <4>1
      <4>3. FedDay!Greatest(FedDay!PivotLows)' = g
        BY <4>2, <3>2 DEF FedDay!Greatest
      <4>4. FedDay!Low(FedDay!Greatest(FedDay!PivotLows))' = FedDay!Low(g)'
        BY <4>3 DEF FedDay!Low
      <4>5. FedDay!Low(g)' = FedDay!Low(g)
        BY <1>4
      <4>6. latestLow = FedDay!Low(g)
        BY <3>4, <4>2 DEF SwingsFit
      <4>7. QED
        BY <3>1, <3>2, <3>4, <4>4, <4>5, <4>6
    <3>5. QED
      BY <3>3, <3>4
  <2>3. QED
    BY <2>1, <2>2
<1>8. ASSUME NEW k \in FedDay!PivotHighs', k \notin FedDay!PivotHighs
      PROVE  Event("swing_high", k, FedDay!High(k)') \in Confirmed(w)
  <2>1. k = m - 2 /\ IsNewHigh(w) /\ k \in 0..m - 1
    BY <1>1, <1>3, <1>8
  <2>2. QED
    BY <2>1, <1>4, <1>5
<1>9. ASSUME NEW k \in FedDay!PivotLows', k \notin FedDay!PivotLows
      PROVE  Event("swing_low", k, FedDay!Low(k)') \in Confirmed(w)
  <2>1. k = m - 2 /\ IsNewLow(w) /\ k \in 0..m - 1
    BY <1>1, <1>3, <1>9
  <2>2. QED
    BY <2>1, <1>4, <1>5
<1>10. QED
  BY <1>6, <1>7, <1>8, <1>9

-----------------------------------------------------------------------------
(***************************************************************************)
(* Raids.                                                                  *)
(***************************************************************************)
\* What a bar may know of the swings does not change with the bars behind it.
LEMMA KnownStay ==
  ASSUME NEW b, Fed(b), NEW m, m = Len(fed), NEW i \in 0..m
  PROVE  /\ FedDay!KnownAt(FedDay!PivotHighs, i)' = FedDay!KnownAt(FedDay!PivotHighs, i)
         /\ FedDay!KnownAt(FedDay!PivotLows, i)' = FedDay!KnownAt(FedDay!PivotLows, i)
         /\ i = m => /\ FedDay!KnownAt(FedDay!PivotHighs, i) = FedDay!PivotHighs
                     /\ FedDay!KnownAt(FedDay!PivotLows, i) = FedDay!PivotLows
<1>1. m \in Nat /\ fed \in Seq(BarRecord) /\ trend \in {"up", "down"}
  BY BarsStay DEF Fed
<1>2. /\ FedDay!PivotHighs \subseteq 2..m - 3 /\ FedDay!PivotLows \subseteq 2..m - 3
  BY <1>1, PivotsAre
<1>3. /\ FedDay!PivotHighs \subseteq FedDay!PivotHighs' /\ FedDay!PivotHighs' \subseteq FedDay!PivotHighs \cup {m - 2}
      /\ FedDay!PivotLows \subseteq FedDay!PivotLows' /\ FedDay!PivotLows' \subseteq FedDay!PivotLows \cup {m - 2}
  <2>1. PICK w : w = LastBars(m + 1, 5)'
    OBVIOUS
  <2>2. /\ FedDay!PivotHighs' = FedDay!PivotHighs \cup {k \in {m - 2} : IsNewHigh(w)}
        /\ FedDay!PivotLows' = FedDay!PivotLows \cup {k \in {m - 2} : IsNewLow(w)}
    BY <2>1, PivotsGrow, Zenon
  <2>3. QED
    BY <2>2
<1>4. ~(m - 2 < i - 2) /\ \A k \in 2..m - 3 : k < m - 2
  BY <1>1
<1>5. /\ FedDay!KnownAt(FedDay!PivotHighs, i) = {k \in FedDay!PivotHighs : k < i - 2}
      /\ FedDay!KnownAt(FedDay!PivotLows, i) = {k \in FedDay!PivotLows : k < i - 2}
      /\ FedDay!KnownAt(FedDay!PivotHighs, i)' = {k \in FedDay!PivotHighs' : k < i - 2}
      /\ FedDay!KnownAt(FedDay!PivotLows, i)' = {k \in FedDay!PivotLows' : k < i - 2}
  BY DEF FedDay!KnownAt, FedDay!SwingN
<1>6. QED
  BY <1>2, <1>3, <1>4, <1>5

\* The swing levels known at an old bar stay what they were.
LEMMA LevelsStay ==
  ASSUME NEW b, Fed(b), NEW m, m = Len(fed), NEW i \in 0..m,
         FedDay!KnownAt(FedDay!PivotHighs, i) # {}, FedDay!KnownAt(FedDay!PivotLows, i) # {}
  PROVE  /\ FedDay!LastHigh(i)' = FedDay!LastHigh(i) /\ FedDay!LastLow(i)' = FedDay!LastLow(i)
         /\ FedDay!LastHigh(i) \in Int /\ FedDay!LastLow(i) \in Int
         /\ FedDay!RaidLevel(i)' = FedDay!RaidLevel(i) /\ FedDay!RaidLevel(i) \in Int
         /\ FedDay!MssLevel(i)' = FedDay!MssLevel(i) /\ FedDay!MssLevel(i) \in Int
<1>1. m \in Nat /\ fed \in Seq(BarRecord) /\ trend \in {"up", "down"} /\ trend' = trend
  BY BarsStay DEF Fed
<1>2. /\ FedDay!PivotHighs \subseteq 2..m - 3 /\ FedDay!PivotLows \subseteq 2..m - 3
  BY <1>1, PivotsAre
<1>3. PICK K : K = FedDay!KnownAt(FedDay!PivotHighs, i)
  OBVIOUS
<1>4. PICK L : L = FedDay!KnownAt(FedDay!PivotLows, i)
  OBVIOUS
<1>5. FedDay!KnownAt(FedDay!PivotHighs, i)' = K /\ FedDay!KnownAt(FedDay!PivotLows, i)' = L
  BY <1>3, <1>4, KnownStay
<1>6. K \in SUBSET (0..m) /\ K \subseteq 2..m - 3 /\ L \in SUBSET (0..m) /\ L \subseteq 2..m - 3
  <2>1. K \subseteq FedDay!PivotHighs /\ L \subseteq FedDay!PivotLows
    BY <1>3, <1>4 DEF FedDay!KnownAt
  <2>2. 2..m - 3 \subseteq 0..m
    BY <1>1
  <2>3. QED
    BY <1>2, <2>1, <2>2
<1>7. PICK g \in 0..m - 1 : g = FedDay!Greatest(K)
  <2>1. PICK g \in K : g = FedDay!Greatest(K)
    BY <1>1, <1>3, <1>6, GreatestIs
  <2>2. g \in 0..m - 1
    BY <1>1, <1>6
  <2>3. QED
    BY <2>1, <2>2
<1>8. PICK h \in 0..m - 1 : h = FedDay!Greatest(L)
  <2>1. PICK h \in L : h = FedDay!Greatest(L)
    BY <1>1, <1>4, <1>6, GreatestIs
  <2>2. h \in 0..m - 1
    BY <1>1, <1>6
  <2>3. QED
    BY <2>1, <2>2
<1>9. /\ FedDay!LastHigh(i) = FedDay!High(g) /\ FedDay!LastLow(i) = FedDay!Low(h)
      /\ FedDay!LastHigh(i)' = FedDay!High(g)' /\ FedDay!LastLow(i)' = FedDay!Low(h)'
  <2>1. FedDay!LastHigh(i) = FedDay!High(g) /\ FedDay!LastLow(i) = FedDay!Low(h)
    BY <1>3, <1>4, <1>7, <1>8, Zenon DEF FedDay!LastHigh, FedDay!LastLow
  <2>2. FedDay!Greatest(FedDay!KnownAt(FedDay!PivotHighs, i))' = g
    BY <1>5, <1>7, Zenon DEF FedDay!Greatest
  <2>3. FedDay!Greatest(FedDay!KnownAt(FedDay!PivotLows, i))' = h
    BY <1>5, <1>8, Zenon DEF FedDay!Greatest
  <2>4. FedDay!LastHigh(i)' = FedDay!High(g)' /\ FedDay!LastLow(i)' = FedDay!Low(h)'
    BY <2>2, <2>3, Zenon DEF FedDay!LastHigh, FedDay!LastLow, FedDay!High, FedDay!Low
  <2>5. QED
    BY <2>1, <2>4
<1>10. /\ FedDay!High(g)' = FedDay!High(g) /\ FedDay!Low(h)' = FedDay!Low(h)
       /\ FedDay!High(g) \in Int /\ FedDay!Low(h) \in Int
  BY <1>1, <1>7, <1>8, OldBar, BarsAre
<1>11. QED
  BY <1>1, <1>9, <1>10 DEF FedDay!RaidLevel, FedDay!MssLevel

\* The raids so far are raids still, with their levels, and the new bar is one
\* when the detector says so.
LEMMA RaidsStay ==
  ASSUME NEW b, Fed(b), NEW m, m = Len(fed), NEW i \in FedDay!Raids
  PROVE  /\ i \in FedDay!Raids' /\ i \in 0..m - 1
         /\ FedDay!RaidLevel(i)' = FedDay!RaidLevel(i)
         /\ FedDay!MssLevel(i)' = FedDay!MssLevel(i) /\ FedDay!MssLevel(i) \in Int
<1>1. m \in Nat /\ FedDay!n = m /\ FedDay!n' = m + 1 /\ trend' = trend
  BY BarsStay DEF FedDay!n, Fed
<1>2. /\ i \in SessionStartIdx..(SessionEndIdx - 1) /\ i < m
      /\ FedDay!KnownAt(FedDay!PivotHighs, i) # {} /\ FedDay!KnownAt(FedDay!PivotLows, i) # {}
      /\ FedDay!Past(FedDay!RaidLevel(i), FedDay!Near(i))
  BY <1>1 DEF FedDay!Raids
<1>3. i \in 0..m - 1 /\ i \in 0..m
  BY <1>1, <1>2, DayAssumption DEF DayAssumption
<1>4. /\ FedDay!KnownAt(FedDay!PivotHighs, i)' # {} /\ FedDay!KnownAt(FedDay!PivotLows, i)' # {}
  BY <1>2, <1>3, KnownStay
<1>5. /\ FedDay!RaidLevel(i)' = FedDay!RaidLevel(i)
      /\ FedDay!MssLevel(i)' = FedDay!MssLevel(i) /\ FedDay!MssLevel(i) \in Int
  BY <1>2, <1>3, LevelsStay
<1>6. FedDay!Near(i)' = FedDay!Near(i)
  BY <1>3, OldBar
<1>7. FedDay!Past(FedDay!RaidLevel(i), FedDay!Near(i))'
  BY <1>1, <1>2, <1>5, <1>6 DEF FedDay!Past
<1>8. i < FedDay!n'
  BY <1>1, <1>3
<1>9. i \in FedDay!Raids'
  BY <1>2, <1>4, <1>7, <1>8 DEF FedDay!Raids
<1>10. QED
  BY <1>3, <1>5, <1>9

\* The new bar is a raid of the batch model just when the raid detector says so.
LEMMA RaidsGrow ==
  ASSUME NEW b, Fed(b), NEW m, m = Len(fed), SwingsFit
  PROVE  /\ FedDay!Raids' = FedDay!Raids \cup {i \in {m} : IsRaid(m, b)}
         /\ IsRaid(m, b) => /\ RaidLevel = FedDay!RaidLevel(m)' /\ MssReference = FedDay!MssLevel(m)'
<1>1. /\ m \in Nat /\ FedDay!n = m /\ FedDay!n' = m + 1 /\ trend' = trend
      /\ fed \in Seq(BarRecord) /\ trend \in {"up", "down"}
  BY BarsStay DEF FedDay!n, Fed
<1>2. /\ FedDay!KnownAt(FedDay!PivotHighs, m)' = FedDay!PivotHighs
      /\ FedDay!KnownAt(FedDay!PivotLows, m)' = FedDay!PivotLows
      /\ FedDay!KnownAt(FedDay!PivotHighs, m) = FedDay!PivotHighs
      /\ FedDay!KnownAt(FedDay!PivotLows, m) = FedDay!PivotLows
  <2>1. m \in 0..m
    BY <1>1
  <2>2. QED
    BY <2>1, KnownStay
<1>3. /\ FedDay!PivotHighs # {} <=> latestHigh # Null
      /\ FedDay!PivotLows # {} <=> latestLow # Null
      /\ FedDay!PivotHighs # {} => latestHigh = FedDay!LastHigh(m)
      /\ FedDay!PivotLows # {} => latestLow = FedDay!LastLow(m)
  <2>1. /\ FedDay!PivotHighs # {} => latestHigh = FedDay!High(FedDay!Greatest(FedDay!PivotHighs))
        /\ FedDay!PivotLows # {} => latestLow = FedDay!Low(FedDay!Greatest(FedDay!PivotLows))
        /\ FedDay!PivotHighs = {} => latestHigh = Null
        /\ FedDay!PivotLows = {} => latestLow = Null
    BY DEF SwingsFit
  <2>2. /\ FedDay!LastHigh(m) = FedDay!High(FedDay!Greatest(FedDay!PivotHighs))
        /\ FedDay!LastLow(m) = FedDay!Low(FedDay!Greatest(FedDay!PivotLows))
    BY <1>2, Zenon DEF FedDay!LastHigh, FedDay!LastLow
  <2>3. /\ FedDay!PivotHighs \subseteq 2..m - 3 /\ FedDay!PivotLows \subseteq 2..m - 3
    BY <1>1, PivotsAre
  <2>4. \A i \in 2..m - 3 : FedDay!High(i) \in Int /\ FedDay!Low(i) \in Int
    <3>1. \A i \in 2..m - 3 : i \in 0..Len(fed) - 1
      BY <1>1
    <3>2. QED
      BY <3>1, <1>1, BarsAre
  <2>5. FedDay!PivotHighs # {} => FedDay!High(FedDay!Greatest(FedDay!PivotHighs)) \in Int
    <3>1. SUFFICES ASSUME FedDay!PivotHighs # {}
                   PROVE  FedDay!High(FedDay!Greatest(FedDay!PivotHighs)) \in Int
      OBVIOUS
    <3>2. PICK S \in SUBSET (0..m) : S = FedDay!PivotHighs
      BY <1>1, <2>3
    <3>3. PICK g \in S : g = FedDay!Greatest(S)
      BY <1>1, <3>1, <3>2, GreatestIs
    <3>4. FedDay!High(g) \in Int
      BY <2>3, <2>4, <3>2
    <3>5. QED
      BY <3>2, <3>3, <3>4, Zenon
  <2>6. FedDay!PivotLows # {} => FedDay!Low(FedDay!Greatest(FedDay!PivotLows)) \in Int
    <3>1. SUFFICES ASSUME FedDay!PivotLows # {}
                   PROVE  FedDay!Low(FedDay!Greatest(FedDay!PivotLows)) \in Int
      OBVIOUS
    <3>2. PICK S \in SUBSET (0..m) : S = FedDay!PivotLows
      BY <1>1, <2>3
    <3>3. PICK g \in S : g = FedDay!Greatest(S)
      BY <1>1, <3>1, <3>2, GreatestIs
    <3>4. FedDay!Low(g) \in Int
      BY <2>3, <2>4, <3>2
    <3>5. QED
      BY <3>2, <3>3, <3>4, Zenon
  <2>7. \A x \in Int : x # Null
    BY DayAssumption DEF DayAssumption, Prices
  <2>8. QED
    BY <2>1, <2>2, <2>5, <2>6, <2>7
<1>4. FedDay!PivotHighs # {} /\ FedDay!PivotLows # {} =>
        /\ FedDay!RaidLevel(m)' = RaidLevel /\ FedDay!MssLevel(m)' = MssReference
  <2>1. SUFFICES ASSUME FedDay!PivotHighs # {}, FedDay!PivotLows # {}
                 PROVE  FedDay!RaidLevel(m)' = RaidLevel /\ FedDay!MssLevel(m)' = MssReference
    OBVIOUS
  <2>2. FedDay!RaidLevel(m)' = FedDay!RaidLevel(m) /\ FedDay!MssLevel(m)' = FedDay!MssLevel(m)
    <3>1. m \in 0..m
      BY <1>1
    <3>2. QED
      BY <1>2, <2>1, <3>1, LevelsStay
  <2>3. FedDay!RaidLevel(m) = RaidLevel /\ FedDay!MssLevel(m) = MssReference
    BY <1>3, <2>1 DEF FedDay!RaidLevel, FedDay!MssLevel, RaidLevel, MssReference
  <2>4. QED
    BY <2>2, <2>3
<1>5. FedDay!Near(m)' = Near(b)
  BY NewBar
<1>6. m \in FedDay!Raids' <=> IsRaid(m, b)
  <2>1. m \in SessionStartIdx..(SessionEndIdx - 1) <=> InKillZone(m)
    BY <1>1, DayAssumption DEF DayAssumption, InKillZone
  <2>2. m < FedDay!n'
    BY <1>1
  <2>3. m \in FedDay!Raids' <=>
          /\ m \in SessionStartIdx..(SessionEndIdx - 1) /\ FedDay!PivotHighs # {} /\ FedDay!PivotLows # {}
          /\ FedDay!Past(FedDay!RaidLevel(m), FedDay!Near(m))'
    BY <1>2, <2>2 DEF FedDay!Raids
  <2>4. FedDay!PivotHighs # {} /\ FedDay!PivotLows # {} =>
          (FedDay!Past(FedDay!RaidLevel(m), FedDay!Near(m))' <=> Past(RaidLevel, Near(b)))
    BY <1>1, <1>4, <1>5 DEF FedDay!Past, Past
  <2>5. QED
    BY <1>3, <2>1, <2>3, <2>4 DEF IsRaid
<1>7. \A i : i \in FedDay!Raids' /\ i # m => i \in FedDay!Raids
  <2>1. SUFFICES ASSUME NEW i \in FedDay!Raids', i # m
                 PROVE  i \in FedDay!Raids
    OBVIOUS
  <2>2. /\ i \in SessionStartIdx..(SessionEndIdx - 1) /\ i < FedDay!n'
        /\ FedDay!KnownAt(FedDay!PivotHighs, i)' # {} /\ FedDay!KnownAt(FedDay!PivotLows, i)' # {}
        /\ FedDay!Past(FedDay!RaidLevel(i), FedDay!Near(i))'
    BY DEF FedDay!Raids
  <2>3. i < m /\ i \in 0..m /\ i \in 0..m - 1
    BY <1>1, <2>1, <2>2, DayAssumption DEF DayAssumption
  <2>4. /\ FedDay!KnownAt(FedDay!PivotHighs, i) # {} /\ FedDay!KnownAt(FedDay!PivotLows, i) # {}
    BY <2>2, <2>3, KnownStay
  <2>5. FedDay!RaidLevel(i)' = FedDay!RaidLevel(i) /\ FedDay!Near(i)' = FedDay!Near(i)
    BY <2>3, <2>4, LevelsStay, OldBar
  <2>6. FedDay!Past(FedDay!RaidLevel(i), FedDay!Near(i))
    BY <1>1, <2>2, <2>5 DEF FedDay!Past
  <2>7. QED
    BY <1>1, <2>2, <2>3, <2>4, <2>6 DEF FedDay!Raids
<1>8. \A i \in FedDay!Raids : i \in FedDay!Raids'
  BY RaidsStay
<1>9. IsRaid(m, b) => FedDay!PivotHighs # {} /\ FedDay!PivotLows # {}
  BY <1>3 DEF IsRaid
<1>10. QED
  BY <1>4, <1>6, <1>7, <1>8, <1>9

-----------------------------------------------------------------------------
(***************************************************************************)
(* Shifts and gaps.                                                        *)
(***************************************************************************)
LEMMA GapStays ==
  ASSUME NEW b, Fed(b), NEW m, m = Len(fed), NEW j \in 0..m - 1
  PROVE  /\ FedDay!HasGap(j)' <=> FedDay!HasGap(j)
         /\ FedDay!HasGap(j) =>
              /\ j >= 2
              /\ FedDay!Entry(j)' = FedDay!Entry(j) /\ FedDay!Entry(j) \in Int
              /\ FedDay!Stop(j)' = FedDay!Stop(j) /\ FedDay!Stop(j) \in Int
              /\ FedDay!RiskPips(j)' = FedDay!RiskPips(j) /\ FedDay!RiskPips(j) \in Int
              /\ FedDay!StopWideEnough(j)' <=> FedDay!StopWideEnough(j)
<1>1. /\ m \in Nat /\ trend' = trend /\ fed \in Seq(BarRecord) /\ trend \in {"up", "down"}
  BY BarsStay DEF Fed
<1>2. CASE j >= 2
  <2>1. j - 2 \in 0..Len(fed) - 1 /\ j \in 0..Len(fed) - 1
    BY <1>1, <1>2
  <2>2. /\ FedDay!Near(j)' = FedDay!Near(j) /\ FedDay!Far(j - 2)' = FedDay!Far(j - 2)
        /\ FedDay!Near(j - 2)' = FedDay!Near(j - 2)
        /\ FedDay!Near(j) \in Int /\ FedDay!Far(j - 2) \in Int /\ FedDay!Near(j - 2) \in Int
    BY <1>1, <2>1, OldBar, BarsAre
  <2>3. FedDay!HasGap(j)' <=> FedDay!HasGap(j)
    BY <1>1, <2>2 DEF FedDay!HasGap, FedDay!Past
  <2>4. FedDay!Entry(j)' = FedDay!Entry(j) /\ FedDay!Entry(j) \in Int
    BY <2>2 DEF FedDay!Entry, FedDay!Mid
  <2>5. FedDay!Stop(j)' = FedDay!Stop(j) /\ FedDay!Stop(j) \in Int
    BY <2>2 DEF FedDay!Stop
  <2>6. FedDay!RiskPips(j)' = FedDay!RiskPips(j) /\ FedDay!RiskPips(j) \in Int
    BY <1>1, <2>4, <2>5 DEF FedDay!RiskPips, FedDay!Pips
  <2>7. FedDay!StopWideEnough(j)' <=> FedDay!StopWideEnough(j)
    BY <2>6 DEF FedDay!StopWideEnough, FedDay!MinStopPips
  <2>8. QED
    BY <1>2, <2>3, <2>4, <2>5, <2>6, <2>7
<1>3. CASE ~(j >= 2)
  BY <1>3 DEF FedDay!HasGap
<1>4. QED
  BY <1>2, <1>3

\* The gap detector's three bars are the batch model's gap at the new bar.
LEMMA GapIs ==
  ASSUME NEW b, Fed(b), NEW m, m = Len(fed), NEW w, w = LastBars(m + 1, 3)'
  PROVE  /\ GapFound(w) <=> FedDay!HasGap(m)'
         /\ GapFound(w) =>
              /\ m >= 2 /\ w[1] = BarAt(m - 2)' /\ w[1].at = m - 2
              /\ Near(w[1]) = FedDay!Stop(m)' /\ FedDay!Stop(m)' \in Int
              /\ Mid(Near(w[3]), Far(w[1])) = FedDay!Entry(m)' /\ FedDay!Entry(m)' \in Int
<1>1. /\ m \in Nat /\ trend' = trend /\ fed \in Seq(BarRecord) /\ trend \in {"up", "down"}
  BY BarsStay DEF Fed
<1>2. w = [k \in 1..(m + 1) - First(m + 1, 3) |-> BarAt(First(m + 1, 3) + k - 1)']
  BY DEF LastBars, First
<1>3. CASE m < 2
  <2>1. PICK f : f = [k \in 1..(m + 1) - First(m + 1, 3) |-> BarAt(First(m + 1, 3) + k - 1)']
    OBVIOUS
  <2>2. PICK len \in Nat : len = (m + 1) - First(m + 1, 3) /\ len \in 1..2
    BY <1>1, <1>3, FirstIs
  <2>3. Len(w) # 3
    <3>1. w = [k \in 1..len |-> f[k]]
      BY <1>2, <2>1, <2>2
    <3>2. Len(w) = len
      BY <3>1, LengthIs, Zenon
    <3>3. QED
      BY <2>2, <3>2, LengthIs, Zenon
  <2>4. ~(m >= 2)
    BY <1>1, <1>3
  <2>5. QED
    BY <2>3, <2>4 DEF GapFound, FedDay!HasGap
<1>4. CASE ~(m < 2)
  <2>1. First(m + 1, 3) = m - 2 /\ (m + 1) - (m - 2) = 3
    BY <1>1, <1>4 DEF First
  <2>2. w = [k \in 1..3 |-> BarAt((m - 2) + k - 1)']
    BY <1>2, <2>1
  <2>3. (m - 2) + 1 - 1 = m - 2 /\ (m - 2) + 3 - 1 = m
    BY <1>1
  <2>4. Len(w) = 3 /\ w[1] = BarAt(m - 2)' /\ w[3] = BarAt(m)'
    BY <2>2, <2>3
  <2>5. /\ Near(w[1]) = FedDay!Near(m - 2)' /\ Far(w[1]) = FedDay!Far(m - 2)' /\ w[1].at = m - 2
        /\ Near(w[3]) = FedDay!Near(m)'
    BY <1>1, <2>4 DEF BarAt, Near, Far, FedDay!Near, FedDay!Far, FedDay!High, FedDay!Low
  <2>6. /\ FedDay!Near(m - 2)' \in Int /\ FedDay!Far(m - 2)' \in Int /\ FedDay!Near(m)' \in Int
    <3>1. m - 2 \in 0..Len(fed) - 1
      BY <1>1, <1>4
    <3>2. FedDay!Near(m - 2)' = FedDay!Near(m - 2) /\ FedDay!Far(m - 2)' = FedDay!Far(m - 2)
      BY <3>1, OldBar
    <3>3. FedDay!Near(m)' = Near(b) /\ Near(b) \in Int
      BY NewBar
    <3>4. QED
      BY <1>1, <3>1, <3>2, <3>3, BarsAre
  <2>7. GapFound(w) <=> FedDay!HasGap(m)'
    BY <1>1, <1>4, <2>4, <2>5 DEF GapFound, FedDay!HasGap, Past, FedDay!Past
  <2>8. Mid(Near(w[3]), Far(w[1])) = FedDay!Entry(m)' /\ FedDay!Entry(m)' \in Int
    BY <2>5, <2>6 DEF Mid, FedDay!Entry, FedDay!Mid
  <2>9. Near(w[1]) = FedDay!Stop(m)' /\ FedDay!Stop(m)' \in Int
    BY <2>5, <2>6 DEF FedDay!Stop
  <2>10. m >= 2
    BY <1>1, <1>4
  <2>11. QED
    BY <2>4, <2>5, <2>7, <2>8, <2>9, <2>10
<1>5. QED
  BY <1>3, <1>4

\* A watch: of the raid i, with the level it had.
WatchOf(i) == [raid_bar |-> i, level |-> FedDay!MssLevel(i)]

\* A raid gains a structure shift just when its watch confirms one.
LEMMA ShiftsGrow ==
  ASSUME NEW b, Fed(b), NEW m, m = Len(fed), NEW i \in FedDay!Raids
  PROVE  /\ FedDay!Shifts(i)' = FedDay!Shifts(i) \cup {j \in {m} : ConfirmsShift(WatchOf(i), m, b)}
         /\ FedDay!Shifts(i) \subseteq 0..m - 1
<1>1. /\ m \in Nat /\ trend' = trend /\ FedDay!n = m /\ FedDay!n' = m + 1
      /\ fed \in Seq(BarRecord) /\ trend \in {"up", "down"} /\ MssWindowBars \in Nat
  BY BarsStay, DayAssumption DEF Fed, FedDay!n, DayAssumption
<1>2. i \in 0..m - 1 /\ FedDay!MssLevel(i)' = FedDay!MssLevel(i)
  BY RaidsStay
<1>3. PICK level : level = FedDay!MssLevel(i)
  OBVIOUS
<1>4. /\ FedDay!Shifts(i) = {j \in (i + 1)..(i + MssWindowBars) : j < m /\ FedDay!Past(FedDay!Close(j), level)}
      /\ FedDay!Shifts(i)' = {j \in (i + 1)..(i + MssWindowBars) : j < m + 1 /\ FedDay!Past(FedDay!Close(j), level)'}
  BY <1>1, <1>2, <1>3 DEF FedDay!Shifts
<1>5. \A j \in 0..m - 1 : FedDay!Past(FedDay!Close(j), level)' <=> FedDay!Past(FedDay!Close(j), level)
  BY <1>1, OldBar DEF FedDay!Past
<1>6. FedDay!Past(FedDay!Close(m), level)' <=> Past(b.close, level)
  BY <1>1, NewBar DEF FedDay!Past, Past
<1>7. ConfirmsShift(WatchOf(i), m, b) <=>
        m \in (i + 1)..(i + MssWindowBars) /\ Past(b.close, level)
  <2>1. WatchOf(i).raid_bar = i /\ WatchOf(i).level = level
    BY <1>3 DEF WatchOf
  <2>2. QED
    BY <1>1, <1>2, <2>1 DEF ConfirmsShift, IsExpired
<1>8. \A j \in (i + 1)..(i + MssWindowBars) : (j < m <=> j \in 0..m - 1) /\ (j < m + 1 <=> j < m \/ j = m)
  BY <1>1, <1>2
<1>9. ASSUME NEW j
      PROVE  j \in FedDay!Shifts(i)' <=> j \in FedDay!Shifts(i) \/ (j = m /\ ConfirmsShift(WatchOf(i), m, b))
  <2>1. CASE j = m
    <3>1. ~(m < m) /\ m < m + 1
      BY <1>1
    <3>2. QED
      BY <1>4, <1>6, <1>7, <2>1, <3>1
  <2>2. CASE j # m
    BY <1>4, <1>5, <1>8, <2>2
  <2>3. QED
    BY <2>1, <2>2
<1>10. FedDay!Shifts(i) \subseteq 0..m - 1
  BY <1>4, <1>8
<1>11. QED
  BY <1>9, <1>10

\* The candidates after the bar: the old ones, and one per watch that confirmed.
LEMMA KeysGrow ==
  ASSUME NEW b, Fed(b), NEW m, m = Len(fed), SwingsFit
  PROVE  /\ \A k : k \in FedDay!Keys' <=>
              \/ k \in FedDay!Keys
              \/ \E i \in FedDay!Raids : k = <<i, m>> /\ ConfirmsShift(WatchOf(i), m, b)
         /\ \A k \in FedDay!Keys : /\ k \in FedDay!Raids \X (0..m - 1) /\ k = <<k[1], k[2]>>
                                   /\ k[1] \in 0..m - 1 /\ k[2] \in 0..m - 1
                                   /\ k[1] < k[2]
<1>1. m \in Nat /\ MssWindowBars \in Nat /\ FedDay!n' = m + 1
  BY BarsStay, DayAssumption DEF DayAssumption
<1>2. FedDay!Raids' = FedDay!Raids \cup {i \in {m} : IsRaid(m, b)}
  BY RaidsGrow
<1>3. \A i \in FedDay!Raids : i \in 0..m - 1
  BY RaidsStay
<1>4. \A i \in FedDay!Raids :
        /\ FedDay!Shifts(i)' = FedDay!Shifts(i) \cup {j \in {m} : ConfirmsShift(WatchOf(i), m, b)}
        /\ FedDay!Shifts(i) \subseteq 0..m - 1
  BY ShiftsGrow
<1>5. FedDay!Shifts(m)' = {}
  <2>1. \A j \in (m + 1)..(m + MssWindowBars) : ~(j < m + 1)
    BY <1>1
  <2>2. QED
    BY <1>1, <2>1 DEF FedDay!Shifts
<1>6. \A k : k \in FedDay!Keys <=> \E i \in FedDay!Raids : k \in {i} \X FedDay!Shifts(i)
  BY DEF FedDay!Keys
<1>7. \A k : k \in FedDay!Keys' <=> \E i \in FedDay!Raids' : k \in {i} \X FedDay!Shifts(i)'
  BY DEF FedDay!Keys
<1>8. \A k : k \in FedDay!Keys' <=>
              \/ k \in FedDay!Keys
              \/ \E i \in FedDay!Raids : k = <<i, m>> /\ ConfirmsShift(WatchOf(i), m, b)
  <2>1. \A k : k \in FedDay!Keys' <=> \E i \in FedDay!Raids : k \in {i} \X FedDay!Shifts(i)'
    BY <1>2, <1>5, <1>7
  <2>2. \A i \in FedDay!Raids : \A k :
          k \in {i} \X FedDay!Shifts(i)' <=>
            k \in {i} \X FedDay!Shifts(i) \/ (k = <<i, m>> /\ ConfirmsShift(WatchOf(i), m, b))
    BY <1>4
  <2>3. QED
    BY <1>6, <2>1, <2>2
<1>9. ASSUME NEW k \in FedDay!Keys
      PROVE  /\ k \in FedDay!Raids \X (0..m - 1) /\ k = <<k[1], k[2]>>
             /\ k[1] \in 0..m - 1 /\ k[2] \in 0..m - 1
             /\ k[1] < k[2]
  <2>0. PICK i \in FedDay!Raids : k \in {i} \X FedDay!Shifts(i)
    BY <1>6
  <2>1. PICK j \in FedDay!Shifts(i) : k = <<i, j>>
    BY <2>0
  <2>2. j \in 0..m - 1 /\ i \in 0..m - 1
    BY <1>3, <1>4, <2>1
  <2>3. i < j
    <3>1. j \in (i + 1)..(i + MssWindowBars)
      BY <2>1 DEF FedDay!Shifts
    <3>2. QED
      BY <1>1, <2>2, <3>1
  <2>4. QED
    BY <2>1, <2>2, <2>3
<1>10. QED
  BY <1>8, <1>9

-----------------------------------------------------------------------------
(***************************************************************************)
(* Targets: the first of the extreme bars, in the window of an attempt and *)
(* in the day's bars.                                                      *)
(***************************************************************************)
\* Six numbers have a greatest and a least.
LEMMA SixHaveEnds ==
  ASSUME NEW f \in [1..6 -> Int]
  PROVE  /\ \E k \in 1..6 : \A o \in 1..6 : f[o] <= f[k]
         /\ \E k \in 1..6 : \A o \in 1..6 : f[o] >= f[k]
<1>1. \A i \in 1..6 : f[i] \in Int
  OBVIOUS
<1>2. ASSUME NEW n \in 1..5, \E k \in 1..n : \A o \in 1..n : f[o] <= f[k]
      PROVE  \E k \in 1..n + 1 : \A o \in 1..n + 1 : f[o] <= f[k]
  <2>1. PICK k \in 1..n : \A o \in 1..n : f[o] <= f[k]
    BY <1>2
  <2>2. k \in 1..n + 1 /\ n + 1 \in 1..n + 1 /\ k \in 1..6 /\ n + 1 \in 1..6
        /\ \A o \in 1..n + 1 : o \in 1..n \/ o = n + 1
    OBVIOUS
  <2>3. CASE f[n + 1] <= f[k]
    BY <2>1, <2>2, <2>3
  <2>4. CASE ~(f[n + 1] <= f[k])
    <3>1. f[k] <= f[n + 1] /\ f[n + 1] <= f[n + 1]
      BY <1>1, <2>2, <2>4
    <3>2. \A o \in 1..n : f[o] <= f[n + 1]
      <4>1. \A o \in 1..n : o \in 1..6
        OBVIOUS
      <4>2. QED
        BY <1>1, <2>1, <2>2, <3>1, <4>1
    <3>3. QED
      BY <2>2, <3>1, <3>2
  <2>5. QED
    BY <2>3, <2>4
<1>3. ASSUME NEW n \in 1..5, \E k \in 1..n : \A o \in 1..n : f[o] >= f[k]
      PROVE  \E k \in 1..n + 1 : \A o \in 1..n + 1 : f[o] >= f[k]
  <2>1. PICK k \in 1..n : \A o \in 1..n : f[o] >= f[k]
    BY <1>3
  <2>2. k \in 1..n + 1 /\ n + 1 \in 1..n + 1 /\ k \in 1..6 /\ n + 1 \in 1..6
        /\ \A o \in 1..n + 1 : o \in 1..n \/ o = n + 1
    OBVIOUS
  <2>3. CASE f[n + 1] >= f[k]
    BY <2>1, <2>2, <2>3
  <2>4. CASE ~(f[n + 1] >= f[k])
    <3>1. f[k] >= f[n + 1] /\ f[n + 1] >= f[n + 1]
      BY <1>1, <2>2, <2>4
    <3>2. \A o \in 1..n : f[o] >= f[n + 1]
      <4>1. \A o \in 1..n : o \in 1..6
        OBVIOUS
      <4>2. QED
        BY <1>1, <2>1, <2>2, <3>1, <4>1
    <3>3. QED
      BY <2>2, <3>1, <3>2
  <2>5. QED
    BY <2>3, <2>4
<1>4. /\ \E k \in 1..1 : \A o \in 1..1 : f[o] <= f[k]
      /\ \E k \in 1..1 : \A o \in 1..1 : f[o] >= f[k]
  <2>1. f[1] <= f[1] /\ f[1] >= f[1] /\ 1 \in 1..1 /\ \A o \in 1..1 : o = 1
    BY <1>1
  <2>2. QED
    BY <2>1
<1>5. /\ \E k \in 1..2 : \A o \in 1..2 : f[o] <= f[k]
      /\ \E k \in 1..2 : \A o \in 1..2 : f[o] >= f[k]
  BY <1>2, <1>3, <1>4
<1>6. /\ \E k \in 1..3 : \A o \in 1..3 : f[o] <= f[k]
      /\ \E k \in 1..3 : \A o \in 1..3 : f[o] >= f[k]
  BY <1>2, <1>3, <1>5
<1>7. /\ \E k \in 1..4 : \A o \in 1..4 : f[o] <= f[k]
      /\ \E k \in 1..4 : \A o \in 1..4 : f[o] >= f[k]
  BY <1>2, <1>3, <1>6
<1>8. /\ \E k \in 1..5 : \A o \in 1..5 : f[o] <= f[k]
      /\ \E k \in 1..5 : \A o \in 1..5 : f[o] >= f[k]
  BY <1>2, <1>3, <1>7
<1>9. QED
  BY <1>2, <1>3, <1>8

\* The first of the extreme ones of six, and no other.
IsFirstEnd(f, k) ==
  /\ \A o \in 1..6 : ~Past(f[o], f[k])
  /\ \A o \in 1..(k - 1) : Past(f[k], f[o])

\* Of six numbers exactly one is the first of the extreme ones.
LEMMA FirstEndExists ==
  ASSUME NEW f \in [1..6 -> Int], trend \in {"up", "down"}
  PROVE  \E k \in 1..6 :
           /\ IsFirstEnd(f, k)
           /\ \A o \in 1..6 : (\A x \in 1..6 : ~Past(f[x], f[o])) => k <= o
           /\ \A o \in 1..6 : IsFirstEnd(f, o) => o = k
<1> DEFINE S == {k \in 1..6 : \A o \in 1..6 : ~Past(f[o], f[k])}
<1>1. \A i \in 1..6 : f[i] \in Int
  OBVIOUS
<1>2. S # {} /\ S \in SUBSET Nat
  <2>1. CASE trend = "up"
    <3>1. PICK k \in 1..6 : \A o \in 1..6 : f[o] <= f[k]
      BY SixHaveEnds
    <3>2. \A o \in 1..6 : ~Past(f[o], f[k])
      BY <1>1, <2>1, <3>1 DEF Past
    <3>3. QED
      BY <3>2
  <2>2. CASE trend = "down"
    <3>1. PICK k \in 1..6 : \A o \in 1..6 : f[o] >= f[k]
      BY SixHaveEnds
    <3>2. \A o \in 1..6 : ~Past(f[o], f[k])
      BY <1>1, <2>2, <3>1 DEF Past
    <3>3. QED
      BY <3>2
  <2>3. QED
    BY <2>1, <2>2
<1>3. PICK k \in S : \A o \in S : k <= o
  BY <1>2, LeastIs
<1>4. k \in 1..6 /\ \A o \in 1..6 : ~Past(f[o], f[k])
  OBVIOUS
<1>5. ASSUME NEW o \in 1..(k - 1)
      PROVE  Past(f[k], f[o])
  <2>1. o \in 1..6 /\ ~(k <= o)
    BY <1>4
  <2>2. o \notin S
    BY <1>3, <2>1
  <2>3. PICK x \in 1..6 : Past(f[x], f[o])
    BY <2>1, <2>2
  <2>4. ~Past(f[x], f[k])
    BY <1>4
  <2>5. f[x] \in Int /\ f[o] \in Int /\ f[k] \in Int
    BY <1>1, <1>4, <2>1
  <2>6. QED
    BY <2>3, <2>4, <2>5 DEF Past
<1>6. ASSUME NEW o \in 1..6, IsFirstEnd(f, o)
      PROVE  o = k
  <2>1. o \in S
    BY <1>6 DEF IsFirstEnd
  <2>2. k <= o
    BY <1>3, <2>1
  <2>3. CASE k = o
    BY <2>3
  <2>4. CASE k # o
    <3>1. k \in 1..(o - 1)
      BY <1>4, <2>2, <2>4
    <3>2. Past(f[o], f[k])
      BY <1>6, <3>1 DEF IsFirstEnd
    <3>3. QED
      BY <1>4, <3>2
  <2>5. QED
    BY <2>3, <2>4
<1>7. IsFirstEnd(f, k)
  BY <1>4, <1>5 DEF IsFirstEnd
<1>8. \A o \in 1..6 : (\A x \in 1..6 : ~Past(f[x], f[o])) => k <= o
  BY <1>3
<1>9. QED
  BY <1>4, <1>6, <1>7, <1>8

\* The target of an attempt that has seen the six bars before p.
LEMMA TargetIs ==
  ASSUME fed \in Seq(BarRecord), trend \in {"up", "down"}, NEW m, m = Len(fed), NEW p \in 6..m,
         NEW a, a.recent = LastBars(p, 6)
  PROVE  /\ TargetOf(a) = FedDay!Target(p) /\ FedDay!Target(p) \in Int
         /\ FedDay!ExtremeBar(p) \in p - 6..p - 1
<1>1. m \in Nat /\ p \in Nat /\ p >= 6
  OBVIOUS
<1>2. PICK r : r = a.recent
  OBVIOUS
<1>3. r = [k \in 1..6 |-> BarAt((p - 6) + k - 1)]
  <2>1. First(p, 6) = p - 6 /\ p - (p - 6) = 6
    BY <1>1, FirstIs
  <2>2. LastBars(p, 6) = [k \in 1..p - First(p, 6) |-> BarAt(First(p, 6) + k - 1)]
    BY DEF LastBars, First
  <2>3. QED
    BY <1>2, <2>1, <2>2
<1>4. PICK f : f = [k \in 1..6 |-> Far(r[k])]
  OBVIOUS
<1>5. \A k \in 1..6 : (p - 7) + k \in 0..Len(fed) - 1 /\ (p - 7) + k \in p - 6..p - 1 /\ (p - 6) + k - 1 = (p - 7) + k
  BY <1>1
<1>6. \A i \in 0..Len(fed) - 1 :
        /\ Far(BarAt(i)) = FedDay!Far(i) /\ FedDay!Far(i) \in Int
        /\ BarAt(i).high = FedDay!High(i) /\ BarAt(i).low = FedDay!Low(i)
        /\ FedDay!High(i) \in Int /\ FedDay!Low(i) \in Int
  BY BarsAre DEF BarAt, Far
<1>7. \A k \in 1..6 : /\ r[k] = BarAt((p - 7) + k)
                      /\ f[k] = FedDay!Far((p - 7) + k) /\ f[k] \in Int
                      /\ r[k].high = FedDay!High((p - 7) + k) /\ r[k].low = FedDay!Low((p - 7) + k)
  BY <1>3, <1>4, <1>5, <1>6
<1>8. f \in [1..6 -> Int] /\ DOMAIN r = 1..6
  BY <1>3, <1>4, <1>7
<1>9. PICK k \in 1..6 :
        /\ IsFirstEnd(f, k)
        /\ \A o \in 1..6 : (\A x \in 1..6 : ~Past(f[x], f[o])) => k <= o
        /\ \A o \in 1..6 : IsFirstEnd(f, o) => o = k
  BY <1>8, FirstEndExists
<1>10. ExtremeBar(r) = r[k]
  <2>1. \A o \in 1..6 : IsFirstEnd(f, o) <=>
           /\ \A x \in DOMAIN r : ~Past(Far(r[x]), Far(r[o]))
           /\ \A x \in 1..(o - 1) : Past(Far(r[o]), Far(r[x]))
    <3>1. \A o \in 1..6 : \A x \in 1..(o - 1) : x \in 1..6
      OBVIOUS
    <3>2. QED
      BY <1>4, <1>8, <3>1 DEF IsFirstEnd
  <2>2. ExtremeBar(r) = r[CHOOSE o \in 1..6 : IsFirstEnd(f, o)]
    <3>1. (CHOOSE o \in 1..6 : IsFirstEnd(f, o)) =
            (CHOOSE o \in 1..6 : /\ \A x \in DOMAIN r : ~Past(Far(r[x]), Far(r[o]))
                                 /\ \A x \in 1..(o - 1) : Past(Far(r[o]), Far(r[x])))
      BY <2>1
    <3>2. QED
      BY <1>8, <3>1, Zenon DEF ExtremeBar
  <2>3. (CHOOSE o \in 1..6 : IsFirstEnd(f, o)) = k
    BY <1>9
  <2>4. QED
    BY <2>2, <2>3
<1>11. FedDay!ExtremeBar(p) = (p - 7) + k
  <2>1. PICK S : S = {x \in p - 6..p - 1 : \A o \in p - 6..p - 1 : ~FedDay!Past(FedDay!Far(o), FedDay!Far(x))}
    OBVIOUS
  <2>2. \A x \in p - 6..p - 1 : \E o \in 1..6 : x = (p - 7) + o
    <3>1. ASSUME NEW x \in p - 6..p - 1
          PROVE  \E o \in 1..6 : x = (p - 7) + o
      <4>1. x - (p - 7) \in 1..6 /\ x = (p - 7) + (x - (p - 7))
        BY <1>1
      <4>2. QED
        BY <4>1
    <3>2. QED
      BY <3>1
  <2>3. (p - 7) + k \in S
    <3>1. \A o \in 1..6 : ~Past(f[o], f[k])
      BY <1>9 DEF IsFirstEnd
    <3>2. ASSUME NEW x \in p - 6..p - 1
          PROVE  ~FedDay!Past(FedDay!Far(x), FedDay!Far((p - 7) + k))
      <4>1. PICK o \in 1..6 : x = (p - 7) + o
        BY <2>2
      <4>2. f[o] = FedDay!Far(x) /\ f[k] = FedDay!Far((p - 7) + k)
        BY <1>7, <4>1
      <4>3. QED
        BY <3>1, <4>2 DEF Past, FedDay!Past
    <3>3. QED
      BY <1>5, <2>1, <3>2
  <2>4. \A x \in S : (p - 7) + k <= x
    <3>1. ASSUME NEW x \in S
          PROVE  (p - 7) + k <= x
      <4>1. x \in p - 6..p - 1 /\ \A o \in p - 6..p - 1 : ~FedDay!Past(FedDay!Far(o), FedDay!Far(x))
        BY <2>1
      <4>2. PICK o \in 1..6 : x = (p - 7) + o
        BY <2>2, <4>1
      <4>3. \A y \in 1..6 : ~Past(f[y], f[o])
        <5>1. \A y \in 1..6 : f[y] = FedDay!Far((p - 7) + y) /\ (p - 7) + y \in p - 6..p - 1
          BY <1>5, <1>7
        <5>2. f[o] = FedDay!Far(x)
          BY <1>7, <4>2
        <5>3. QED
          BY <4>1, <5>1, <5>2 DEF Past, FedDay!Past
      <4>4. k <= o
        BY <1>9, <4>3
      <4>5. QED
        BY <1>1, <4>2, <4>4
    <3>2. QED
      BY <3>1
  <2>5. S \in SUBSET Int
    BY <1>1, <2>1
  <2>6. FedDay!Least(S) = (p - 7) + k
    BY <2>3, <2>4, <2>5, LeastOf
  <2>7. QED
    BY <2>1, <2>6 DEF FedDay!ExtremeBar, FedDay!Lookback
<1>12. FedDay!Target(p) = Mid(r[k].high, r[k].low)
  BY <1>7, <1>11 DEF FedDay!Target, FedDay!Mid, Mid
<1>13. TargetOf(a) = Mid(r[k].high, r[k].low)
  BY <1>2, <1>10, Zenon DEF TargetOf
<1>14. Mid(r[k].high, r[k].low) \in Int
  <2>1. r[k].high \in Int /\ r[k].low \in Int
    BY <1>5, <1>6, <1>7
  <2>2. QED
    BY <2>1 DEF Mid
<1>15. FedDay!ExtremeBar(p) \in p - 6..p - 1
  BY <1>5, <1>11
<1>16. QED
  BY <1>12, <1>13, <1>14, <1>15

\* The target of a fill at an old bar stays what it was.
LEMMA TargetStays ==
  ASSUME NEW b, Fed(b), NEW m, m = Len(fed), NEW p \in 6..m
  PROVE  FedDay!Target(p)' = FedDay!Target(p)
<1>1. m \in Nat /\ trend' = trend /\ fed \in Seq(BarRecord) /\ trend \in {"up", "down"}
  BY BarsStay DEF Fed
<1>2. PICK x \in p - 6..p - 1 : x = FedDay!ExtremeBar(p)
  <2>1. PICK a : a.recent = LastBars(p, 6)
    <3>1. [recent |-> LastBars(p, 6)].recent = LastBars(p, 6)
      OBVIOUS
    <3>2. QED
      BY <3>1
  <2>2. QED
    BY <1>1, <2>1, TargetIs
<1>3. \A i \in p - 6..p - 1 : i \in 0..Len(fed) - 1
  BY <1>1
<1>4. \A i \in p - 6..p - 1 :
        /\ FedDay!Far(i)' = FedDay!Far(i)
        /\ FedDay!High(i)' = FedDay!High(i) /\ FedDay!Low(i)' = FedDay!Low(i)
  BY <1>3, OldBar
<1>5. PICK S : S = {i \in p - 6..p - 1 : \A o \in p - 6..p - 1 : ~FedDay!Past(FedDay!Far(o), FedDay!Far(i))}
  OBVIOUS
<1>6. {i \in p - 6..p - 1 : \A o \in p - 6..p - 1 : ~FedDay!Past(FedDay!Far(o), FedDay!Far(i))'} = S
  BY <1>1, <1>4, <1>5 DEF FedDay!Past
<1>7. FedDay!ExtremeBar(p) = FedDay!Least(S)
  BY <1>5 DEF FedDay!ExtremeBar, FedDay!Lookback
<1>8. FedDay!ExtremeBar(p)' = FedDay!Least(S)
  <2>1. {i \in (p - FedDay!Lookback)..(p - 1) :
            \A o \in (p - FedDay!Lookback)..(p - 1) : ~FedDay!Past(FedDay!Far(o), FedDay!Far(i))'} = S
    BY <1>6 DEF FedDay!Lookback
  <2>2. QED
    BY <2>1, Zenon DEF FedDay!ExtremeBar, FedDay!Least
<1>9. FedDay!ExtremeBar(p)' = x
  BY <1>2, <1>7, <1>8
<1>10. /\ FedDay!Target(p)' = FedDay!Mid(FedDay!High(x)', FedDay!Low(x)')
       /\ FedDay!Target(p) = FedDay!Mid(FedDay!High(x), FedDay!Low(x))
  <2>1. FedDay!Target(p) = FedDay!Mid(FedDay!High(x), FedDay!Low(x))
    BY <1>2 DEF FedDay!Target
  <2>2. FedDay!Target(p)' = FedDay!Mid(FedDay!High(x)', FedDay!Low(x)')
    BY <1>9, Zenon DEF FedDay!Target, FedDay!High, FedDay!Low, FedDay!Mid
  <2>3. QED
    BY <2>1, <2>2
<1>11. QED
  BY <1>4, <1>10

-----------------------------------------------------------------------------
(***************************************************************************)
(* Attempts.  What is said of the bars so far holds again of the bars with *)
(* the new one: such a fact is proved once, as a formula, and primed.      *)
(***************************************************************************)
\* The first touch and its target.
FillFacts ==
  \A j : \A p \in FedDay!Touches(j) :
    FedDay!Touches(j) \subseteq Int /\ (\A y \in FedDay!Touches(j) : p <= y) =>
      /\ FedDay!FillBar(j) = p
      /\ FedDay!Target(FedDay!FillBar(j)) = FedDay!Target(p)

\* The fill bar is the first touch, and the target is taken there.
LEMMA FillFactsHold == FillFacts
<1>1. ASSUME NEW j, NEW p \in FedDay!Touches(j), FedDay!Touches(j) \subseteq Int,
             \A y \in FedDay!Touches(j) : p <= y
      PROVE  FedDay!FillBar(j) = p
  BY <1>1, LeastOf DEF FedDay!FillBar
<1>2. QED
  BY <1>1 DEF FillFacts

\* The bars that end a trade filled at p with the target g.
ExitFacts ==
  \A j, p, g : p = FedDay!FillBar(j) /\ g = FedDay!Target(FedDay!FillBar(j)) =>
    FedDay!Exits(j) = {q \in p..(FedDay!n - 1) : \/ ~FedDay!Past(FedDay!Near(q), FedDay!Stop(j))
                                                 \/ ~FedDay!Past(g, FedDay!Far(q))}

\* What the exits are, given the place and the target of the fill.
LEMMA ExitFactsHold == ExitFacts
BY DEF ExitFacts, FedDay!Exits, FedDay!StopHit, FedDay!TargetHit

\* The first of them decides.
OutcomeFacts ==
  \A j, g : \A q \in FedDay!Exits(j) :
    /\ FedDay!Exits(j) \subseteq Int
    /\ \A y \in FedDay!Exits(j) : q <= y
    /\ g = FedDay!Target(FedDay!FillBar(j))
    => /\ FedDay!ExitBar(j) = q
       /\ FedDay!Past(FedDay!Near(q), FedDay!Stop(j)) =>
            FedDay!Outcome(j) = "win" /\ FedDay!ExitPrice(j) = g
       /\ ~FedDay!Past(FedDay!Near(q), FedDay!Stop(j)) =>
            FedDay!Outcome(j) = "loss" /\ FedDay!ExitPrice(j) = FedDay!Stop(j)

\* What the outcome is, given the first exit.
LEMMA OutcomeFactsHold == OutcomeFacts
<1>1. ASSUME NEW j, NEW g, NEW q \in FedDay!Exits(j), FedDay!Exits(j) \subseteq Int,
             \A y \in FedDay!Exits(j) : q <= y, g = FedDay!Target(FedDay!FillBar(j))
      PROVE  /\ FedDay!ExitBar(j) = q
             /\ FedDay!Past(FedDay!Near(q), FedDay!Stop(j)) =>
                  FedDay!Outcome(j) = "win" /\ FedDay!ExitPrice(j) = g
             /\ ~FedDay!Past(FedDay!Near(q), FedDay!Stop(j)) =>
                  FedDay!Outcome(j) = "loss" /\ FedDay!ExitPrice(j) = FedDay!Stop(j)
  <2>1. FedDay!Least(FedDay!Exits(j)) = q /\ FedDay!Exits(j) # {}
    BY <1>1, LeastOf
  <2>2. FedDay!ExitBar(j) = q
    BY <2>1 DEF FedDay!ExitBar
  <2>3. FedDay!Outcome(j) = IF FedDay!StopHit(j, q) THEN "loss" ELSE "win"
    BY <2>1, Zenon DEF FedDay!Outcome
  <2>4. FedDay!Outcome(j) = "win" => FedDay!ExitPrice(j) = g
    BY <1>1 DEF FedDay!ExitPrice
  <2>5. FedDay!Outcome(j) = "loss" => FedDay!ExitPrice(j) = FedDay!Stop(j)
    BY DEF FedDay!ExitPrice
  <2>6. QED
    BY <2>2, <2>3, <2>4, <2>5 DEF FedDay!StopHit
<1>2. QED
  BY <1>1 DEF OutcomeFacts

\* The three are true of every state, so of the next one too.
LEMMA FactsHoldNext == FillFacts' /\ ExitFacts' /\ OutcomeFacts'
BY FillFactsHold, ExitFactsHold, OutcomeFactsHold, PTL

\* The touches of an attempt, and the new bar among them when it touches.
LEMMA TouchesGrow ==
  ASSUME NEW b, Fed(b), NEW m, m = Len(fed), NEW j \in 0..m - 1, FedDay!HasGap(j)
  PROVE  /\ FedDay!Touches(j)' = FedDay!Touches(j) \cup {p \in {m} : ~Past(Near(b), FedDay!Entry(j))}
         /\ FedDay!Touches(j) \subseteq (j + 1)..(m - 1)
<1>1. m \in Nat /\ FedDay!n = m /\ FedDay!n' = m + 1 /\ trend' = trend
  BY BarsStay DEF FedDay!n, Fed
<1>2. PICK e : e = FedDay!Entry(j) /\ FedDay!Entry(j)' = e
  BY GapStays
<1>3. FedDay!Touches(j) = {p \in (j + 1)..(m - 1) : ~FedDay!Past(FedDay!Near(p), e)}
  BY <1>1, <1>2 DEF FedDay!Touches
<1>4. FedDay!Touches(j)' = {p \in (j + 1)..m : ~FedDay!Past(FedDay!Near(p), e)'}
  <2>1. FedDay!Touches(j)' = {p \in (j + 1)..(m + 1 - 1) : ~FedDay!Past(FedDay!Near(p), e)'}
    BY <1>1, <1>2 DEF FedDay!Touches, FedDay!Past
  <2>2. m + 1 - 1 = m
    BY <1>1
  <2>3. QED
    BY <2>1, <2>2
<1>5. \A p \in (j + 1)..(m - 1) : p \in 0..Len(fed) - 1
  BY <1>1
<1>6. \A p \in (j + 1)..(m - 1) : FedDay!Past(FedDay!Near(p), e)' <=> FedDay!Past(FedDay!Near(p), e)
  BY <1>1, <1>5, OldBar DEF FedDay!Past
<1>7. FedDay!Past(FedDay!Near(m), e)' <=> Past(Near(b), e)
  BY <1>1, NewBar DEF FedDay!Past, Past
<1>8. (j + 1)..m = (j + 1)..(m - 1) \cup {m}
  BY <1>1
<1>9. QED
  BY <1>2, <1>3, <1>4, <1>6, <1>7, <1>8

\* A first touch stays the first, with its target.
LEMMA FillStays ==
  ASSUME NEW b, Fed(b), NEW m, m = Len(fed), NEW j \in 0..m - 1, FedDay!HasGap(j),
         FedDay!Touches(j) # {}
  PROVE  /\ FedDay!FillBar(j) \in (j + 1)..(m - 1)
         /\ FedDay!Touches(j)' # {} /\ FedDay!FillBar(j)' = FedDay!FillBar(j)
         /\ FedDay!FillBar(j) >= 6 =>
              /\ FedDay!Target(FedDay!FillBar(j))' = FedDay!Target(FedDay!FillBar(j))
              /\ FedDay!Target(FedDay!FillBar(j)) \in Int
         /\ FedDay!Fills(j)' <=> FedDay!Fills(j)
<1>1. m \in Nat /\ trend' = trend /\ fed \in Seq(BarRecord) /\ trend \in {"up", "down"}
  BY BarsStay DEF Fed
<1>2. /\ FedDay!Touches(j)' = FedDay!Touches(j) \cup {p \in {m} : ~Past(Near(b), FedDay!Entry(j))}
      /\ FedDay!Touches(j) \subseteq (j + 1)..(m - 1)
  BY TouchesGrow
<1>3. FedDay!Touches(j) \in SUBSET Nat
  <2>1. (j + 1)..(m - 1) \subseteq Nat
    BY <1>1
  <2>2. QED
    BY <1>2, <2>1
<1>4. PICK p \in FedDay!Touches(j) : \A y \in FedDay!Touches(j) : p <= y
  BY <1>3, LeastIs
<1>5. p \in (j + 1)..(m - 1)
  BY <1>2
<1>6. FedDay!FillBar(j) = p /\ FedDay!Target(FedDay!FillBar(j)) = FedDay!Target(p)
  BY <1>3, <1>4, FillFactsHold DEF FillFacts
<1>7. FedDay!FillBar(j)' = p /\ FedDay!Target(FedDay!FillBar(j))' = FedDay!Target(p)'
  <2>1. PICK T : T = FedDay!Touches(j)'
    OBVIOUS
  <2>2. p \in T /\ T \subseteq Int /\ \A y \in T : p <= y
    BY <1>1, <1>2, <1>3, <1>4, <1>5, <2>1
  <2>3. QED
    BY <2>1, <2>2, FactsHoldNext DEF FillFacts
<1>8. p >= 6 => FedDay!Target(p)' = FedDay!Target(p) /\ FedDay!Target(p) \in Int
  <2>1. SUFFICES ASSUME p >= 6
                 PROVE  FedDay!Target(p)' = FedDay!Target(p) /\ FedDay!Target(p) \in Int
    OBVIOUS
  <2>2. p \in 6..m
    BY <1>1, <1>5, <2>1
  <2>3. [recent |-> LastBars(p, 6)].recent = LastBars(p, 6)
    OBVIOUS
  <2>4. QED
    BY <1>1, <2>2, <2>3, TargetStays, TargetIs
<1>9. FedDay!Fills(j)' <=> FedDay!Fills(j)
  <2>1. /\ FedDay!HasGap(j)' <=> FedDay!HasGap(j)
        /\ FedDay!Entry(j)' = FedDay!Entry(j)
        /\ FedDay!StopWideEnough(j)' <=> FedDay!StopWideEnough(j)
    BY GapStays
  <2>2. FedDay!Touches(j)' # {}
    BY <1>2, <1>4
  <2>3. PICK g : g = FedDay!Target(FedDay!FillBar(j))
    OBVIOUS
  <2>4. PICK h : h = FedDay!Target(FedDay!FillBar(j))'
    OBVIOUS
  <2>5. FedDay!Fills(j) <=> FedDay!StopWideEnough(j) /\ p >= 6 /\ FedDay!Past(g, FedDay!Entry(j))
    BY <1>4, <1>6, <2>3 DEF FedDay!Fills, FedDay!Lookback
  <2>6. FedDay!Fills(j)' <=> FedDay!StopWideEnough(j)' /\ p >= 6 /\ FedDay!Past(h, FedDay!Entry(j))'
    BY <1>7, <2>1, <2>2, <2>4 DEF FedDay!Fills, FedDay!Lookback, FedDay!Past
  <2>7. p >= 6 => g = h
    BY <1>6, <1>7, <1>8, <2>3, <2>4
  <2>8. p >= 6 => (FedDay!Past(g, FedDay!Entry(j)) <=> FedDay!Past(h, FedDay!Entry(j))')
    BY <1>1, <2>1, <2>7 DEF FedDay!Past
  <2>9. QED
    BY <2>1, <2>5, <2>6, <2>8
<1>10. QED
  BY <1>2, <1>4, <1>5, <1>6, <1>7, <1>8, <1>9

\* The first touch fills the attempt or abandons it.
LEMMA FirstTouch ==
  ASSUME NEW b, Fed(b), NEW m, m = Len(fed), NEW j \in 0..m - 1, FedDay!HasGap(j),
         FedDay!StopWideEnough(j), FedDay!Touches(j) = {}, ~Past(Near(b), FedDay!Entry(j))
  PROVE  /\ FedDay!Touches(j)' # {} /\ FedDay!FillBar(j)' = m
         /\ FedDay!Fills(j)' <=> m >= 6 /\ Past(FedDay!Target(m), FedDay!Entry(j))
         /\ m >= 6 => /\ FedDay!Target(FedDay!FillBar(j))' = FedDay!Target(m)
                      /\ FedDay!Target(m) \in Int
<1>1. m \in Nat /\ trend' = trend /\ fed \in Seq(BarRecord) /\ trend \in {"up", "down"}
  BY BarsStay DEF Fed
<1>2. FedDay!Touches(j)' = {m}
  BY TouchesGrow
<1>3. FedDay!FillBar(j)' = m /\ FedDay!Target(FedDay!FillBar(j))' = FedDay!Target(m)'
  <2>1. PICK T : T = FedDay!Touches(j)'
    OBVIOUS
  <2>2. m \in T /\ T \subseteq Int /\ \A y \in T : m <= y
    BY <1>1, <1>2, <2>1
  <2>3. QED
    BY <2>1, <2>2, FactsHoldNext DEF FillFacts
<1>4. m >= 6 => FedDay!Target(m)' = FedDay!Target(m) /\ FedDay!Target(m) \in Int
  <2>1. SUFFICES ASSUME m >= 6
                 PROVE  FedDay!Target(m)' = FedDay!Target(m) /\ FedDay!Target(m) \in Int
    OBVIOUS
  <2>2. m \in 6..m
    BY <1>1, <2>1
  <2>3. [recent |-> LastBars(m, 6)].recent = LastBars(m, 6)
    OBVIOUS
  <2>4. QED
    BY <1>1, <2>2, <2>3, TargetStays, TargetIs
<1>5. FedDay!Fills(j)' <=> m >= 6 /\ Past(FedDay!Target(m), FedDay!Entry(j))
  <2>1. /\ FedDay!HasGap(j)' /\ FedDay!StopWideEnough(j)' /\ FedDay!Entry(j)' = FedDay!Entry(j)
    BY GapStays
  <2>2. PICK h : h = FedDay!Target(FedDay!FillBar(j))'
    OBVIOUS
  <2>3. FedDay!Fills(j)' <=> m >= 6 /\ FedDay!Past(h, FedDay!Entry(j))'
    BY <1>2, <1>3, <2>1, <2>2 DEF FedDay!Fills, FedDay!Lookback, FedDay!Past
  <2>4. m >= 6 => h = FedDay!Target(m)
    BY <1>3, <1>4, <2>2
  <2>5. FedDay!Past(h, FedDay!Entry(j))' <=> Past(h, FedDay!Entry(j))
    BY <1>1, <2>1 DEF FedDay!Past, Past
  <2>6. QED
    BY <2>3, <2>4, <2>5
<1>6. QED
  BY <1>2, <1>3, <1>4, <1>5

\* What the batch model knows of an attempt, by its phase.
IsPending(k) == FedDay!Touches(k[2]) = {}
IsAbandoned(k, p) ==
  FedDay!Touches(k[2]) # {} /\ ~FedDay!Fills(k[2]) /\ p = FedDay!FillBar(k[2])
IsFilled(k, p, g) ==
  /\ FedDay!Touches(k[2]) # {} /\ FedDay!Fills(k[2]) /\ p = FedDay!FillBar(k[2])
  /\ g = FedDay!Target(FedDay!FillBar(k[2]))
  /\ FedDay!Exits(k[2]) = {}
IsClosed(k, p, g, q, o, x) ==
  /\ FedDay!Touches(k[2]) # {} /\ FedDay!Fills(k[2]) /\ p = FedDay!FillBar(k[2])
  /\ g = FedDay!Target(FedDay!FillBar(k[2]))
  /\ FedDay!Exits(k[2]) # {} /\ q = FedDay!ExitBar(k[2])
  /\ o = FedDay!Outcome(k[2]) /\ x = FedDay!ExitPrice(k[2])

Shape(k, e, s, r, recent, status, goal, fill_bar, outcome, exit_price) ==
  [raid_bar |-> k[1], mss_bar |-> k[2], entry |-> e, stop |-> s, risk_pips |-> r,
   recent |-> recent, target |-> goal, fill_bar |-> fill_bar, status |-> status,
   outcome |-> outcome, exit_price |-> exit_price]

\* What was to be told of an attempt.
ToldOf(k) ==
  LET j == k[2]
  IN  (IF FedDay!Fills(j)
       THEN {Event("filled", FedDay!FillBar(j), FedDay!Target(FedDay!FillBar(j)))} ELSE {})
      \cup (IF FedDay!Fills(j) /\ FedDay!Exits(j) # {}
            THEN {Event(FedDay!Outcome(j), FedDay!ExitBar(j), FedDay!ExitPrice(j))} ELSE {})

PhasesFit(k, e, s, r, m) ==
  /\ IsPending(k) =>
       /\ AttemptOf(k) = Shape(k, e, s, r, LastBars(m, 6), "pending", Null, Null, Null, Null)
       /\ ToldOf(k) = {}
  /\ \A p : IsAbandoned(k, p) =>
       /\ AttemptOf(k) = Shape(k, e, s, r, LastBars(p, 6), "abandoned", Null, Null, Null, Null)
       /\ ToldOf(k) = {}
  /\ \A p, g : IsFilled(k, p, g) =>
       /\ AttemptOf(k) = Shape(k, e, s, r, LastBars(p, 6), "filled", g, p, Null, Null)
       /\ ToldOf(k) = {Event("filled", p, g)}
  /\ \A p, g, q, o, x : IsClosed(k, p, g, q, o, x) =>
       /\ AttemptOf(k) = Shape(k, e, s, r, LastBars(p, 6), "closed", g, p, o, x)
       /\ ToldOf(k) = {Event("filled", p, g), Event(o, q, x)}
PhaseFacts ==
  \A k, e, s, r, m :
    e = FedDay!Entry(k[2]) /\ s = FedDay!Stop(k[2]) /\ r = FedDay!RiskPips(k[2]) /\ m = Len(fed) =>
      PhasesFit(k, e, s, r, m)

\* The attempt of a key and what was told of it, phase by phase.
LEMMA PhaseFactsHold == PhaseFacts
<1>1. ASSUME NEW k, NEW e, NEW s, NEW r, NEW m,
             e = FedDay!Entry(k[2]), s = FedDay!Stop(k[2]), r = FedDay!RiskPips(k[2]), m = Len(fed)
      PROVE  PhasesFit(k, e, s, r, m)
  <2>1. ASSUME IsPending(k)
        PROVE  /\ AttemptOf(k) = Shape(k, e, s, r, LastBars(m, 6), "pending", Null, Null, Null, Null)
               /\ ToldOf(k) = {}
    <3>1. ~FedDay!Fills(k[2]) /\ FedDay!Touches(k[2]) = {}
      BY <2>1 DEF IsPending, FedDay!Fills
    <3>2. QED
      BY <1>1, <3>1 DEF AttemptOf, Shape, ToldOf, TargetLookbackBars
  <2>2. ASSUME NEW p, IsAbandoned(k, p)
        PROVE  /\ AttemptOf(k) = Shape(k, e, s, r, LastBars(p, 6), "abandoned", Null, Null, Null, Null)
               /\ ToldOf(k) = {}
    BY <1>1, <2>2 DEF AttemptOf, Shape, ToldOf, TargetLookbackBars, IsAbandoned
  <2>3. ASSUME NEW p, NEW g, IsFilled(k, p, g)
        PROVE  /\ AttemptOf(k) = Shape(k, e, s, r, LastBars(p, 6), "filled", g, p, Null, Null)
               /\ ToldOf(k) = {Event("filled", p, g)}
    BY <1>1, <2>3 DEF AttemptOf, Shape, ToldOf, TargetLookbackBars, IsFilled
  <2>4. ASSUME NEW p, NEW g, NEW q, NEW o, NEW x, IsClosed(k, p, g, q, o, x)
        PROVE  /\ AttemptOf(k) = Shape(k, e, s, r, LastBars(p, 6), "closed", g, p, o, x)
               /\ ToldOf(k) = {Event("filled", p, g), Event(o, q, x)}
    BY <1>1, <2>4 DEF AttemptOf, Shape, ToldOf, TargetLookbackBars, IsClosed
  <2>5. QED
    BY <2>1, <2>2, <2>3, <2>4 DEF PhasesFit
<1>2. QED
  BY <1>1 DEF PhaseFacts

\* The same of the next state.
LEMMA PhaseFactsHoldNext == PhaseFacts'
BY PhaseFactsHold, PTL

\* What the new bar makes of an attempt that is filled, at this bar or before.
LEMMA FilledGoesOn ==
  ASSUME NEW b, Fed(b), NEW m, m = Len(fed), NEW k, k[2] \in 0..m - 1, FedDay!HasGap(k[2]),
         NEW s \in Int, s = FedDay!Stop(k[2]), NEW p \in 0..m, NEW g \in Int,
         FedDay!Touches(k[2])' # {}, FedDay!Fills(k[2])', p = FedDay!FillBar(k[2])',
         g = FedDay!Target(FedDay!FillBar(k[2]))',
         \A q \in p..m - 1 : FedDay!Past(FedDay!Near(q), s) /\ FedDay!Past(g, FedDay!Far(q))
  PROVE  /\ ~Past(Near(b), s) => IsClosed(k, p, g, m, "loss", s)'
         /\ Past(Near(b), s) /\ ~Past(g, Far(b)) => IsClosed(k, p, g, m, "win", g)'
         /\ Past(Near(b), s) /\ Past(g, Far(b)) => IsFilled(k, p, g)'
<1>1. m \in Nat /\ FedDay!n' = m + 1 /\ trend' = trend
  BY BarsStay DEF FedDay!n, Fed
<1>2. PICK j \in 0..m - 1 : j = k[2]
  OBVIOUS
<1>3. FedDay!Stop(j)' = s
  BY <1>2, GapStays
<1>4. PICK X : X = FedDay!Exits(j)'
  OBVIOUS
<1>5. X = {q \in p..m : ~FedDay!Past(FedDay!Near(q), s)' \/ ~FedDay!Past(g, FedDay!Far(q))'}
  <2>1. X = {q \in p..(m + 1 - 1) : \/ ~FedDay!Past(FedDay!Near(q), FedDay!Stop(j))'
                                    \/ ~FedDay!Past(g, FedDay!Far(q))'}
    BY <1>1, <1>2, <1>4, FactsHoldNext DEF ExitFacts
  <2>2. m + 1 - 1 = m
    BY <1>1
  <2>3. \A q : FedDay!Past(FedDay!Near(q), FedDay!Stop(j))' <=> FedDay!Past(FedDay!Near(q), s)'
    BY <1>3 DEF FedDay!Past
  <2>4. QED
    BY <2>1, <2>2, <2>3
<1>6. \A q \in p..m - 1 : q \notin X
  <2>1. \A q \in p..m - 1 : q \in 0..Len(fed) - 1
    BY <1>1
  <2>2. \A q \in p..m - 1 : /\ FedDay!Past(FedDay!Near(q), s)'
                            /\ FedDay!Past(g, FedDay!Far(q))'
    BY <1>1, <2>1, OldBar DEF FedDay!Past
  <2>3. QED
    BY <1>5, <2>2
<1>7. /\ FedDay!Past(FedDay!Near(m), s)' <=> Past(Near(b), s)
      /\ FedDay!Past(g, FedDay!Far(m))' <=> Past(g, Far(b))
      /\ FedDay!Past(FedDay!Near(m), FedDay!Stop(j))' <=> Past(Near(b), s)
  BY <1>1, <1>3, NewBar DEF FedDay!Past, Past
<1>8. X = {q \in {m} : ~Past(Near(b), s) \/ ~Past(g, Far(b))}
  <2>1. \A q : q \in p..m <=> q \in p..m - 1 \/ q = m
    BY <1>1
  <2>2. QED
    BY <1>5, <1>6, <1>7, <2>1
<1>9. CASE X = {}
  <2>1. Past(Near(b), s) /\ Past(g, Far(b))
    BY <1>8, <1>9
  <2>2. QED
    BY <1>2, <1>4, <1>9, <2>1 DEF IsFilled
<1>10. CASE X # {}
  <2>1. m \in X /\ X \subseteq Int /\ \A y \in X : m <= y
    BY <1>1, <1>8, <1>10
  <2>2. /\ FedDay!ExitBar(j)' = m
        /\ Past(Near(b), s) => FedDay!Outcome(j)' = "win" /\ FedDay!ExitPrice(j)' = g
        /\ ~Past(Near(b), s) => FedDay!Outcome(j)' = "loss" /\ FedDay!ExitPrice(j)' = FedDay!Stop(j)'
    BY <1>2, <1>4, <1>7, <2>1, FactsHoldNext DEF OutcomeFacts
  <2>3. ~Past(Near(b), s) \/ ~Past(g, Far(b))
    BY <1>8, <1>10
  <2>4. QED
    BY <1>2, <1>3, <1>4, <1>10, <2>2, <2>3 DEF IsClosed
<1>11. QED
  BY <1>9, <1>10

\* The exits of a filled attempt so far.
LEMMA ExitsStay ==
  ASSUME NEW b, Fed(b), NEW m, m = Len(fed), NEW j \in 0..m - 1, FedDay!HasGap(j),
         FedDay!Touches(j) # {}, FedDay!Fills(j)
  PROVE  /\ FedDay!Exits(j) = {} => \A q \in FedDay!FillBar(j)..m - 1 :
              /\ FedDay!Past(FedDay!Near(q), FedDay!Stop(j))
              /\ FedDay!Past(FedDay!Target(FedDay!FillBar(j)), FedDay!Far(q))
         /\ FedDay!Exits(j) # {} =>
              /\ FedDay!Exits(j)' # {} /\ FedDay!ExitBar(j)' = FedDay!ExitBar(j)
              /\ FedDay!Outcome(j)' = FedDay!Outcome(j)
              /\ FedDay!ExitPrice(j)' = FedDay!ExitPrice(j)
              /\ FedDay!Outcome(j) \in {"win", "loss"}
<1>1. /\ m \in Nat /\ FedDay!n = m /\ FedDay!n' = m + 1 /\ trend' = trend
      /\ trend \in {"up", "down"}
  BY BarsStay DEF FedDay!n, Fed
<1>2. PICK s : s = FedDay!Stop(j) /\ FedDay!Stop(j)' = s
  BY GapStays
<1>3. PICK p \in (j + 1)..(m - 1) : p = FedDay!FillBar(j) /\ FedDay!FillBar(j)' = p
  BY FillStays
<1>4. PICK g : g = FedDay!Target(FedDay!FillBar(j)) /\ FedDay!Target(FedDay!FillBar(j))' = g
  <2>1. FedDay!FillBar(j) >= 6
    BY DEF FedDay!Fills, FedDay!Lookback
  <2>2. QED
    BY <2>1, FillStays
<1>5. FedDay!Exits(j) = {q \in p..(m - 1) : ~FedDay!Past(FedDay!Near(q), s) \/ ~FedDay!Past(g, FedDay!Far(q))}
  BY <1>1, <1>2, <1>3, <1>4, ExitFactsHold DEF ExitFacts
<1>6. FedDay!Exits(j)' = {q \in p..m : ~FedDay!Past(FedDay!Near(q), s)' \/ ~FedDay!Past(g, FedDay!Far(q))'}
  <2>1. FedDay!Exits(j)' = {q \in p..(m + 1 - 1) : \/ ~FedDay!Past(FedDay!Near(q), FedDay!Stop(j))'
                                                   \/ ~FedDay!Past(g, FedDay!Far(q))'}
    BY <1>1, <1>3, <1>4, FactsHoldNext DEF ExitFacts
  <2>2. m + 1 - 1 = m
    BY <1>1
  <2>3. \A q : FedDay!Past(FedDay!Near(q), FedDay!Stop(j))' <=> FedDay!Past(FedDay!Near(q), s)'
    BY <1>2 DEF FedDay!Past
  <2>4. QED
    BY <2>1, <2>2, <2>3
<1>7. \A q \in p..m - 1 :
        /\ FedDay!Past(FedDay!Near(q), s)' <=> FedDay!Past(FedDay!Near(q), s)
        /\ FedDay!Past(g, FedDay!Far(q))' <=> FedDay!Past(g, FedDay!Far(q))
  <2>1. \A q \in p..m - 1 : q \in 0..Len(fed) - 1
    BY <1>1
  <2>2. QED
    BY <1>1, <2>1, OldBar DEF FedDay!Past
<1>8. FedDay!Exits(j) = {} => \A q \in p..m - 1 :
        FedDay!Past(FedDay!Near(q), s) /\ FedDay!Past(g, FedDay!Far(q))
  BY <1>5
<1>9. ASSUME FedDay!Exits(j) # {}
      PROVE  /\ FedDay!Exits(j)' # {} /\ FedDay!ExitBar(j)' = FedDay!ExitBar(j)
             /\ FedDay!Outcome(j)' = FedDay!Outcome(j)
             /\ FedDay!ExitPrice(j)' = FedDay!ExitPrice(j)
             /\ FedDay!Outcome(j) \in {"win", "loss"}
  <2>1. FedDay!Exits(j) \in SUBSET Nat
    <3>1. p..m - 1 \subseteq Nat
      BY <1>1
    <3>2. QED
      BY <1>5, <3>1
  <2>2. PICK q \in FedDay!Exits(j) : \A y \in FedDay!Exits(j) : q <= y
    BY <1>9, <2>1, LeastIs
  <2>3. q \in p..m - 1
    BY <1>5, <2>2
  <2>4. /\ FedDay!ExitBar(j) = q
        /\ FedDay!Past(FedDay!Near(q), s) => FedDay!Outcome(j) = "win" /\ FedDay!ExitPrice(j) = g
        /\ ~FedDay!Past(FedDay!Near(q), s) => FedDay!Outcome(j) = "loss" /\ FedDay!ExitPrice(j) = s
    BY <1>2, <1>4, <2>1, <2>2, OutcomeFactsHold DEF OutcomeFacts
  <2>5. PICK X : X = FedDay!Exits(j)'
    OBVIOUS
  <2>6. q \in X /\ X \subseteq Int /\ \A y \in X : q <= y
    <3>1. q \in X
      <4>1. q \in p..m
        BY <1>1, <2>3
      <4>2. QED
        BY <1>5, <1>6, <1>7, <2>2, <2>3, <2>5, <4>1
    <3>2. X \subseteq Int
      BY <1>1, <1>6, <2>5
    <3>3. ASSUME NEW y \in X
          PROVE  q <= y
      <4>1. y \in p..m
        BY <1>6, <2>5
      <4>2. CASE y = m
        BY <1>1, <2>3, <4>2
      <4>3. CASE y # m
        <5>1. y \in p..m - 1
          BY <1>1, <4>1, <4>3
        <5>2. y \in FedDay!Exits(j)
          BY <1>5, <1>6, <1>7, <2>5, <3>3, <5>1
        <5>3. QED
          BY <2>2, <5>2
      <4>4. QED
        BY <4>2, <4>3
    <3>4. QED
      BY <3>1, <3>2, <3>3
  <2>7. /\ FedDay!ExitBar(j)' = q
        /\ FedDay!Past(FedDay!Near(q), s)' => FedDay!Outcome(j)' = "win" /\ FedDay!ExitPrice(j)' = g
        /\ ~FedDay!Past(FedDay!Near(q), s)' => FedDay!Outcome(j)' = "loss" /\ FedDay!ExitPrice(j)' = s
    <3>1. FedDay!Past(FedDay!Near(q), FedDay!Stop(j))' <=> FedDay!Past(FedDay!Near(q), s)'
      BY <1>2 DEF FedDay!Past
    <3>2. QED
      BY <1>2, <1>4, <2>5, <2>6, <3>1, FactsHoldNext DEF OutcomeFacts
  <2>8. QED
    BY <1>7, <2>3, <2>4, <2>5, <2>6, <2>7
<1>10. QED
  BY <1>2, <1>3, <1>4, <1>8, <1>9

\* A filled attempt is closed by the bar, at its stop or at its target, or goes on.
LEMMA CheckCloseIs ==
  ASSUME NEW b, NEW k, NEW e, NEW s, NEW r, NEW rec, NEW p, NEW g
  PROVE  LET a == Shape(k, e, s, r, rec, "filled", g, p, Null, Null)
         IN  /\ ~Past(Near(b), s) =>
                  CheckClose(a, b) = Shape(k, e, s, r, rec, "closed", g, p, "loss", s)
             /\ Past(Near(b), s) /\ ~Past(g, Far(b)) =>
                  CheckClose(a, b) = Shape(k, e, s, r, rec, "closed", g, p, "win", g)
             /\ Past(Near(b), s) /\ Past(g, Far(b)) => CheckClose(a, b) = a
BY DEF Shape, CheckClose

\* The bar takes every attempt where the batch model has it, and tells what it logs.
LEMMA AttemptStep ==
  ASSUME NEW b, Fed(b), NEW m, m = Len(fed), NEW k, k[2] \in 0..m - 1, FedDay!HasGap(k[2]),
         FedDay!StopWideEnough(k[2])
  PROVE  /\ OnBar(AttemptOf(k), m, b) = AttemptOf(k)'
         /\ ToldOf(k)' \subseteq ToldOf(k) \cup AttemptEvents(AttemptOf(k), AttemptOf(k)', m)
<1>1. /\ m \in Nat /\ Len(fed)' = m + 1 /\ trend' = trend
      /\ fed \in Seq(BarRecord) /\ trend \in {"up", "down"}
  BY BarsStay DEF Fed
<1>2. PICK j \in 0..m - 1 : j = k[2]
  OBVIOUS
<1>3. PICK e \in Int, s \in Int, r \in Int :
        /\ e = FedDay!Entry(j) /\ FedDay!Entry(j)' = e
        /\ s = FedDay!Stop(j) /\ FedDay!Stop(j)' = s
        /\ r = FedDay!RiskPips(j) /\ FedDay!RiskPips(j)' = r
  BY <1>2, GapStays
<1>4. PhasesFit(k, e, s, r, m)
  BY <1>2, <1>3, PhaseFactsHold DEF PhaseFacts
<1>5. PhasesFit(k, e, s, r, m + 1)'
  BY <1>1, <1>2, <1>3, PhaseFactsHoldNext DEF PhaseFacts
<1>6. /\ IsPending(k)' =>
           /\ AttemptOf(k)' = Shape(k, e, s, r, LastBars(m + 1, 6)', "pending", Null, Null, Null, Null)
           /\ ToldOf(k)' = {}
      /\ \A p : IsAbandoned(k, p)' =>
           /\ AttemptOf(k)' = Shape(k, e, s, r, LastBars(p, 6)', "abandoned", Null, Null, Null, Null)
           /\ ToldOf(k)' = {}
      /\ \A p, g : IsFilled(k, p, g)' =>
           /\ AttemptOf(k)' = Shape(k, e, s, r, LastBars(p, 6)', "filled", g, p, Null, Null)
           /\ ToldOf(k)' = {Event("filled", p, g)}
      /\ \A p, g, q, o, x : IsClosed(k, p, g, q, o, x)' =>
           /\ AttemptOf(k)' = Shape(k, e, s, r, LastBars(p, 6)', "closed", g, p, o, x)
           /\ ToldOf(k)' = {Event("filled", p, g), Event(o, q, x)}
  BY <1>5, Zenon DEF PhasesFit, Shape, Event
<1>7. \A p \in 0..m : LastBars(p, 6)' = LastBars(p, 6)
  BY LastBarsStay
<1>8. CASE IsPending(k)
  <2>1. PICK rec : rec = LastBars(m, 6)
    OBVIOUS
  <2>2. PICK a : a = Shape(k, e, s, r, rec, "pending", Null, Null, Null, Null)
    OBVIOUS
  <2>3. AttemptOf(k) = a /\ ToldOf(k) = {}
    BY <1>4, <1>8, <2>1, <2>2 DEF PhasesFit
  <2>4. a.status = "pending" /\ a.entry = e /\ a.recent = rec /\ a.stop = s
    BY <2>2 DEF Shape
  <2>5. FedDay!Touches(j) = {}
    BY <1>2, <1>8 DEF IsPending
  <2>6. CASE ~Touched(a, b)
    <3>1. FedDay!Touches(j)' = {}
      BY <1>2, <1>3, <2>4, <2>5, <2>6, TouchesGrow DEF Touched
    <3>2. IsPending(k)'
      BY <1>2, <3>1 DEF IsPending
    <3>3. Rolling(rec, [at |-> m, high |-> b.high, low |-> b.low], 6) = LastBars(m + 1, 6)'
      BY <2>1, WindowGrows
    <3>4. OnBar(a, m, b) = [a EXCEPT !.recent = Rolling(@, [at |-> m, high |-> b.high, low |-> b.low], 6)]
      BY <2>4, <2>6 DEF OnBar, TargetLookbackBars
    <3>5. OnBar(a, m, b) = Shape(k, e, s, r, LastBars(m + 1, 6)', "pending", Null, Null, Null, Null)
      BY <2>2, <3>3, <3>4 DEF Shape
    <3>6. QED
      BY <1>6, <2>3, <3>2, <3>5
  <2>7. CASE Touched(a, b)
    <3>1. ~Past(Near(b), e)
      BY <2>4, <2>7 DEF Touched
    <3>2. OnBar(a, m, b) = OnTouch(a, m, b)
      BY <2>4, <2>7 DEF OnBar
    <3>3. /\ FedDay!Touches(j)' # {} /\ FedDay!FillBar(j)' = m
          /\ FedDay!Fills(j)' <=> m >= 6 /\ Past(FedDay!Target(m), e)
          /\ m >= 6 => /\ FedDay!Target(FedDay!FillBar(j))' = FedDay!Target(m)
                       /\ FedDay!Target(m) \in Int
      BY <1>2, <1>3, <2>5, <3>1, FirstTouch
    <3>4. /\ Len(rec) < 6 <=> m < 6
          /\ m >= 6 => TargetOf(a) = FedDay!Target(m)
      <4>1. Len(rec) = m - First(m, 6) /\ First(m, 6) \in Nat
        BY <1>1, <2>1, LastBarsAre
      <4>3. Len(rec) < 6 <=> m < 6
        BY <1>1, <4>1 DEF First
      <4>4. m >= 6 => TargetOf(a) = FedDay!Target(m)
        <5>1. SUFFICES ASSUME m >= 6
                       PROVE  TargetOf(a) = FedDay!Target(m)
          OBVIOUS
        <5>2. m \in 6..m
          BY <1>1, <5>1
        <5>3. a.recent = LastBars(m, 6)
          BY <2>1, <2>4
        <5>4. QED
          BY <1>1, <5>2, <5>3, TargetIs
      <4>5. QED
        BY <4>3, <4>4
    <3>5. CASE m < 6 \/ ~Past(FedDay!Target(m), e)
      <4>1. ~FedDay!Fills(j)'
        BY <1>1, <3>3, <3>5
      <4>2. IsAbandoned(k, m)'
        BY <1>2, <3>3, <4>1 DEF IsAbandoned
      <4>3. OnTouch(a, m, b) = [a EXCEPT !.status = "abandoned"]
        BY <1>1, <2>4, <3>4, <3>5 DEF OnTouch, TargetLookbackBars
      <4>4. OnTouch(a, m, b) = Shape(k, e, s, r, rec, "abandoned", Null, Null, Null, Null)
        BY <2>2, <4>3 DEF Shape
      <4>5. LastBars(m, 6)' = rec
        BY <1>1, <1>7, <2>1
      <4>6. QED
        BY <1>6, <2>3, <3>2, <4>2, <4>4, <4>5
    <3>6. CASE m >= 6 /\ Past(FedDay!Target(m), e)
      <4>1. PICK g \in Int : g = FedDay!Target(m)
        BY <3>3, <3>6
      <4>2. PICK f : f = Shape(k, e, s, r, rec, "filled", g, m, Null, Null)
        OBVIOUS
      <4>3. OnTouch(a, m, b) = CheckClose(f, b)
        <5>1. ~(Len(a.recent) < TargetLookbackBars) /\ Past(TargetOf(a), a.entry)
          BY <1>1, <2>4, <3>4, <3>6 DEF TargetLookbackBars
        <5>2. OnTouch(a, m, b) =
                CheckClose([a EXCEPT !.status = "filled", !.target = TargetOf(a), !.fill_bar = m], b)
          BY <5>1, Zenon DEF OnTouch
        <5>3. [a EXCEPT !.status = "filled", !.target = g, !.fill_bar = m] = f
          <6>1. PICK a1 : a1 = [a EXCEPT !.status = "filled"]
            OBVIOUS
          <6>2. PICK a2 : a2 = [a1 EXCEPT !.target = g]
            OBVIOUS
          <6>3. a1 = Shape(k, e, s, r, rec, "filled", Null, Null, Null, Null)
            BY <2>2, <6>1 DEF Shape
          <6>4. a2 = Shape(k, e, s, r, rec, "filled", g, Null, Null, Null)
            BY <6>2, <6>3 DEF Shape
          <6>5. [a2 EXCEPT !.fill_bar = m] = f
            BY <4>2, <6>4 DEF Shape
          <6>6. QED
            BY <6>1, <6>2, <6>5
        <5>4. TargetOf(a) = g
          BY <3>4, <3>6, <4>1
        <5>5. QED
          BY <5>2, <5>3, <5>4, Zenon
      <4>4. /\ ~Past(Near(b), s) => IsClosed(k, m, g, m, "loss", s)'
            /\ Past(Near(b), s) /\ ~Past(g, Far(b)) => IsClosed(k, m, g, m, "win", g)'
            /\ Past(Near(b), s) /\ Past(g, Far(b)) => IsFilled(k, m, g)'
        <5>1. FedDay!Fills(j)' /\ m \in 0..m
          BY <1>1, <3>3, <3>6
        <5>2. g = FedDay!Target(FedDay!FillBar(j))' /\ m = FedDay!FillBar(j)' /\ FedDay!Touches(j)' # {}
          BY <3>3, <3>6, <4>1
        <5>3. \A q \in m..m - 1 : FALSE
          BY <1>1
        <5>4. QED
          BY <1>2, <1>3, <5>1, <5>2, <5>3, FilledGoesOn
      <4>5. LastBars(m, 6)' = rec
        BY <1>1, <1>7, <2>1
      <4>6. CASE ~Past(Near(b), s)
        <5>1. OnBar(a, m, b) = Shape(k, e, s, r, rec, "closed", g, m, "loss", s)
          BY <3>2, <4>2, <4>3, <4>6, CheckCloseIs
        <5>2. /\ AttemptOf(k)' = Shape(k, e, s, r, rec, "closed", g, m, "loss", s)
              /\ ToldOf(k)' = {Event("filled", m, g), Event("loss", m, s)}
          BY <1>6, <4>4, <4>5, <4>6
        <5>3. AttemptEvents(a, AttemptOf(k)', m) = {Event("filled", m, g), Event("loss", m, s)}
          BY <2>4, <5>2 DEF AttemptEvents, Shape
        <5>4. QED
          BY <2>3, <5>1, <5>2, <5>3
      <4>7. CASE Past(Near(b), s) /\ ~Past(g, Far(b))
        <5>1. OnBar(a, m, b) = Shape(k, e, s, r, rec, "closed", g, m, "win", g)
          BY <3>2, <4>2, <4>3, <4>7, CheckCloseIs
        <5>2. /\ AttemptOf(k)' = Shape(k, e, s, r, rec, "closed", g, m, "win", g)
              /\ ToldOf(k)' = {Event("filled", m, g), Event("win", m, g)}
          BY <1>6, <4>4, <4>5, <4>7
        <5>3. AttemptEvents(a, AttemptOf(k)', m) = {Event("filled", m, g), Event("win", m, g)}
          BY <2>4, <5>2 DEF AttemptEvents, Shape
        <5>4. QED
          BY <2>3, <5>1, <5>2, <5>3
      <4>8. CASE Past(Near(b), s) /\ Past(g, Far(b))
        <5>1. OnBar(a, m, b) = f
          BY <3>2, <4>2, <4>3, <4>8, CheckCloseIs
        <5>2. /\ AttemptOf(k)' = f
              /\ ToldOf(k)' = {Event("filled", m, g)}
          BY <1>6, <4>2, <4>4, <4>5, <4>8
        <5>3. AttemptEvents(a, AttemptOf(k)', m) = {Event("filled", m, g)}
          BY <2>4, <4>2, <5>2 DEF AttemptEvents, Shape
        <5>4. QED
          BY <2>3, <5>1, <5>2, <5>3
      <4>9. QED
        BY <4>6, <4>7, <4>8
    <3>7. QED
      BY <1>1, <3>5, <3>6
  <2>8. QED
    BY <2>6, <2>7
<1>9. CASE ~IsPending(k)
  <2>1. FedDay!Touches(j) # {}
    BY <1>2, <1>9 DEF IsPending
  <2>2. PICK p \in (j + 1)..(m - 1) :
          /\ p = FedDay!FillBar(j) /\ FedDay!FillBar(j)' = p /\ FedDay!Touches(j)' # {}
          /\ FedDay!Fills(j)' <=> FedDay!Fills(j)
    BY <1>2, <2>1, FillStays
  <2>3. PICK rec : rec = LastBars(p, 6) /\ LastBars(p, 6)' = rec
    <3>1. p \in 0..m
      BY <1>1
    <3>2. QED
      BY <1>7, <3>1
  <2>4. CASE ~FedDay!Fills(j)
    <3>1. IsAbandoned(k, p) /\ IsAbandoned(k, p)'
      BY <1>2, <2>1, <2>2, <2>4 DEF IsAbandoned
    <3>2. /\ AttemptOf(k) = Shape(k, e, s, r, rec, "abandoned", Null, Null, Null, Null)
          /\ AttemptOf(k)' = Shape(k, e, s, r, rec, "abandoned", Null, Null, Null, Null)
          /\ ToldOf(k)' = {}
      BY <1>4, <1>6, <2>3, <3>1 DEF PhasesFit
    <3>3. AttemptOf(k).status = "abandoned"
      BY <3>2 DEF Shape
    <3>4. OnBar(AttemptOf(k), m, b) = AttemptOf(k)
      BY <3>3 DEF OnBar
    <3>5. QED
      BY <3>2, <3>4
  <2>5. CASE FedDay!Fills(j)
    <3>1. PICK g \in Int : g = FedDay!Target(FedDay!FillBar(j)) /\ g = FedDay!Target(FedDay!FillBar(j))'
      <4>1. FedDay!FillBar(j) >= 6
        BY <2>5 DEF FedDay!Fills, FedDay!Lookback
      <4>2. QED
        BY <1>2, <2>1, <4>1, FillStays
    <3>2. CASE FedDay!Exits(j) = {}
      <4>1. PICK a : a = Shape(k, e, s, r, rec, "filled", g, p, Null, Null)
        OBVIOUS
      <4>2. AttemptOf(k) = a /\ ToldOf(k) = {Event("filled", p, g)}
        <5>1. IsFilled(k, p, g)
          BY <1>2, <2>1, <2>2, <2>5, <3>1, <3>2 DEF IsFilled
        <5>2. QED
          BY <1>4, <2>3, <4>1, <5>1 DEF PhasesFit
      <4>3. a.status = "filled"
        BY <4>1 DEF Shape
      <4>4. OnBar(a, m, b) = CheckClose(a, b)
        BY <4>3 DEF OnBar
      <4>5. /\ ~Past(Near(b), s) => IsClosed(k, p, g, m, "loss", s)'
            /\ Past(Near(b), s) /\ ~Past(g, Far(b)) => IsClosed(k, p, g, m, "win", g)'
            /\ Past(Near(b), s) /\ Past(g, Far(b)) => IsFilled(k, p, g)'
        <5>1. p \in 0..m
          BY <1>1
        <5>2. \A q \in p..m - 1 : FedDay!Past(FedDay!Near(q), s) /\ FedDay!Past(g, FedDay!Far(q))
          BY <1>2, <1>3, <2>1, <2>2, <2>5, <3>1, <3>2, ExitsStay
        <5>3. QED
          BY <1>2, <1>3, <2>2, <2>5, <3>1, <5>1, <5>2, FilledGoesOn
      <4>6. CASE ~Past(Near(b), s)
        <5>1. OnBar(a, m, b) = Shape(k, e, s, r, rec, "closed", g, p, "loss", s)
          BY <4>1, <4>4, <4>6, CheckCloseIs
        <5>2. /\ AttemptOf(k)' = Shape(k, e, s, r, rec, "closed", g, p, "loss", s)
              /\ ToldOf(k)' = {Event("filled", p, g), Event("loss", m, s)}
          BY <1>6, <2>3, <4>5, <4>6
        <5>3. AttemptEvents(a, AttemptOf(k)', m) = {Event("loss", m, s)}
          BY <4>3, <5>2 DEF AttemptEvents, Shape
        <5>4. QED
          BY <4>2, <5>1, <5>2, <5>3
      <4>7. CASE Past(Near(b), s) /\ ~Past(g, Far(b))
        <5>1. OnBar(a, m, b) = Shape(k, e, s, r, rec, "closed", g, p, "win", g)
          BY <4>1, <4>4, <4>7, CheckCloseIs
        <5>2. /\ AttemptOf(k)' = Shape(k, e, s, r, rec, "closed", g, p, "win", g)
              /\ ToldOf(k)' = {Event("filled", p, g), Event("win", m, g)}
          BY <1>6, <2>3, <4>5, <4>7
        <5>3. AttemptEvents(a, AttemptOf(k)', m) = {Event("win", m, g)}
          BY <4>3, <5>2 DEF AttemptEvents, Shape
        <5>4. QED
          BY <4>2, <5>1, <5>2, <5>3
      <4>8. CASE Past(Near(b), s) /\ Past(g, Far(b))
        <5>1. OnBar(a, m, b) = a
          BY <4>1, <4>4, <4>8, CheckCloseIs
        <5>2. AttemptOf(k)' = a /\ ToldOf(k)' = {Event("filled", p, g)}
          BY <1>6, <2>3, <4>1, <4>5, <4>8
        <5>3. QED
          BY <4>2, <5>1, <5>2
      <4>9. QED
        BY <4>6, <4>7, <4>8
    <3>3. CASE FedDay!Exits(j) # {}
      <4>1. PICK q, o, x :
              /\ q = FedDay!ExitBar(j) /\ o = FedDay!Outcome(j) /\ x = FedDay!ExitPrice(j)
              /\ q = FedDay!ExitBar(j)' /\ o = FedDay!Outcome(j)' /\ x = FedDay!ExitPrice(j)'
              /\ FedDay!Exits(j)' # {}
        BY <1>2, <2>1, <2>5, <3>3, ExitsStay
      <4>2. IsClosed(k, p, g, q, o, x) /\ IsClosed(k, p, g, q, o, x)'
        BY <1>2, <2>1, <2>2, <2>5, <3>1, <3>3, <4>1 DEF IsClosed
      <4>3. /\ AttemptOf(k) = Shape(k, e, s, r, rec, "closed", g, p, o, x)
            /\ AttemptOf(k)' = Shape(k, e, s, r, rec, "closed", g, p, o, x)
            /\ ToldOf(k)' = ToldOf(k)
        <5>1. /\ AttemptOf(k) = Shape(k, e, s, r, rec, "closed", g, p, o, x)
              /\ ToldOf(k) = {Event("filled", p, g), Event(o, q, x)}
          BY <1>4, <2>3, <4>2 DEF PhasesFit
        <5>2. /\ AttemptOf(k)' = Shape(k, e, s, r, rec, "closed", g, p, o, x)
              /\ ToldOf(k)' = {Event("filled", p, g), Event(o, q, x)}
          BY <1>6, <2>3, <4>2
        <5>3. QED
          BY <5>1, <5>2
      <4>4. AttemptOf(k).status = "closed"
        BY <4>3 DEF Shape
      <4>5. OnBar(AttemptOf(k), m, b) = AttemptOf(k)
        BY <4>4 DEF OnBar
      <4>6. QED
        BY <4>3, <4>5
    <3>4. QED
      BY <3>2, <3>3
  <2>6. QED
    BY <2>4, <2>5
<1>10. QED
  BY <1>8, <1>9

\* A gap at the new bar makes the attempt that the batch model has there.
LEMMA NewAttemptIs ==
  ASSUME NEW b, Fed(b), NEW m, m = Len(fed), NEW i, NEW c, c.raid_bar = i,
         NEW w, w = LastBars(m + 1, 3)', NEW seed, seed = LastBars(m + 1, 6)', GapFound(w),
         NEW a, a = NewAttempt(c, m, w, seed)
  PROVE  /\ FedDay!HasGap(m)'
         /\ a.entry = FedDay!Entry(m)' /\ a.risk_pips = FedDay!RiskPips(m)'
         /\ IsKept(a) <=> FedDay!StopWideEnough(m)'
         /\ IsKept(a) => a = AttemptOf(<<i, m>>)'
         /\ ToldOf(<<i, m>>)' = {}
<1>1. /\ m \in Nat /\ Len(fed)' = m + 1 /\ trend' = trend /\ FedDay!n' = m + 1
      /\ trend \in {"up", "down"}
  BY BarsStay DEF Fed, FedDay!n
<1>2. /\ m >= 2 /\ w[1] = BarAt(m - 2)' /\ w[1].at = m - 2 /\ FedDay!HasGap(m)'
      /\ Near(w[1]) = FedDay!Stop(m)' /\ FedDay!Stop(m)' \in Int
      /\ Mid(Near(w[3]), Far(w[1])) = FedDay!Entry(m)' /\ FedDay!Entry(m)' \in Int
  BY GapIs
<1>3. PICK frame : frame = CHOOSE x \in {seed[k] : k \in DOMAIN seed} : x.at = w[1].at
  OBVIOUS
<1>4. frame = w[1]
  <2>1. PICK f \in Nat : f = First(m + 1, 6) /\ f <= m - 2
    <3>1. First(m + 1, 6) \in Nat /\ First(m + 1, 6) <= m - 2
      BY <1>1, <1>2 DEF First
    <3>2. QED
      BY <3>1
  <2>2. seed = [k \in 1..(m + 1) - f |-> BarAt(f + k - 1)']
    BY <2>1 DEF LastBars, First
  <2>3. \A k \in DOMAIN seed : seed[k] = BarAt(f + k - 1)' /\ seed[k].at = f + k - 1
    BY <2>2 DEF BarAt
  <2>4. PICK k \in DOMAIN seed : f + k - 1 = m - 2
    <3>1. (m - 1) - f \in 1..(m + 1) - f /\ f + ((m - 1) - f) - 1 = m - 2
      BY <1>1, <2>1
    <3>2. QED
      BY <2>2, <3>1
  <2>5. seed[k] = w[1]
    BY <1>2, <2>3, <2>4
  <2>6. \A o \in DOMAIN seed : seed[o].at = m - 2 => seed[o] = w[1]
    BY <1>2, <2>3
  <2>7. PICK S : S = {seed[o] : o \in DOMAIN seed}
    OBVIOUS
  <2>8. w[1] \in S /\ \A x \in S : x.at = w[1].at => x = w[1]
    BY <1>2, <2>5, <2>6, <2>7
  <2>9. QED
    BY <1>3, <2>7, <2>8
<1>5. PICK e \in Int, s \in Int : e = FedDay!Entry(m)' /\ s = FedDay!Stop(m)'
  BY <1>2
<1>6. PICK r \in Int : r = RiskPips(IF trend = "up" THEN e - s ELSE s - e)
  BY <1>5 DEF RiskPips
<1>7. r = FedDay!RiskPips(m)'
  BY <1>1, <1>5, <1>6 DEF RiskPips, FedDay!RiskPips, FedDay!Pips
<1>8. a = [raid_bar |-> i, mss_bar |-> m, entry |-> e, stop |-> s,
           risk_pips |-> r, recent |-> seed, target |-> Null, fill_bar |-> Null,
           status |-> IF r < 5 THEN "rejected_min_stop" ELSE "pending",
           outcome |-> Null, exit_price |-> Null]
  <2>1. Mid(Near(w[3]), Far(w[1])) = e /\ Near(frame) = s
    BY <1>2, <1>4, <1>5, Zenon
  <2>2. a = [raid_bar |-> c.raid_bar, mss_bar |-> m, entry |-> e, stop |-> s,
             risk_pips |-> r, recent |-> seed, target |-> Null, fill_bar |-> Null,
             status |-> IF r < MinStopPips THEN "rejected_min_stop" ELSE "pending",
             outcome |-> Null, exit_price |-> Null]
    BY <1>3, <1>6, <2>1 DEF NewAttempt
  <2>3. QED
    BY <2>2 DEF MinStopPips
<1>9. FedDay!StopWideEnough(m)' <=> ~(r < 5)
  BY <1>7 DEF FedDay!StopWideEnough, FedDay!MinStopPips
<1>10. IsKept(a) <=> ~(r < 5)
  BY <1>8 DEF IsKept
<1>11. PICK k : k = <<i, m>> /\ k[1] = i /\ k[2] = m
  <2>1. <<i, m>>[1] = i /\ <<i, m>>[2] = m
    OBVIOUS
  <2>2. QED
    BY <2>1
<1>12. IsPending(k)'
  <2>1. \A p \in (m + 1)..(m + 1 - 1) : FALSE
    BY <1>1
  <2>2. FedDay!Touches(m)' = {}
    BY <1>1, <2>1 DEF FedDay!Touches
  <2>3. QED
    BY <1>11, <2>2 DEF IsPending
<1>13. /\ AttemptOf(k)' = Shape(k, e, s, r, seed, "pending", Null, Null, Null, Null)
       /\ ToldOf(k)' = {}
  <2>1. PhasesFit(k, e, s, r, m + 1)'
    BY <1>1, <1>5, <1>7, <1>11, PhaseFactsHoldNext DEF PhaseFacts
  <2>2. IsPending(k)' =>
           /\ AttemptOf(k)' = Shape(k, e, s, r, LastBars(m + 1, 6)', "pending", Null, Null, Null, Null)
           /\ ToldOf(k)' = {}
    BY <2>1, Zenon DEF PhasesFit, Shape
  <2>3. QED
    BY <1>12, <2>2
<1>14. ~(r < 5) => a = AttemptOf(k)'
  BY <1>8, <1>11, <1>13 DEF Shape
<1>15. a.entry = e /\ a.risk_pips = r
  BY <1>8
<1>16. QED
  BY <1>2, <1>5, <1>7, <1>9, <1>10, <1>11, <1>13, <1>14, <1>15

-----------------------------------------------------------------------------
(***************************************************************************)
(* A bar.                                                                  *)
(***************************************************************************)
\* The gaps with a stop wide enough, and those at the new bar.
LEMMA GapsGrow ==
  ASSUME NEW b, Fed(b), NEW m, m = Len(fed), SwingsFit
  PROVE  /\ \A k : k \in Gaps' <=>
              \/ k \in Gaps
              \/ /\ \E i \in FedDay!Raids : k = <<i, m>> /\ ConfirmsShift(WatchOf(i), m, b)
                 /\ FedDay!HasGap(m)' /\ FedDay!StopWideEnough(m)'
         /\ \A k \in Gaps : /\ k \in FedDay!Keys /\ k[2] \in 0..m - 1
                            /\ FedDay!HasGap(k[2]) /\ FedDay!StopWideEnough(k[2])
<1>1. /\ \A k : k \in Gaps <=> k \in FedDay!Keys /\ FedDay!HasGap(k[2]) /\ FedDay!StopWideEnough(k[2])
      /\ \A k : k \in Gaps' <=> k \in FedDay!Keys' /\ FedDay!HasGap(k[2])' /\ FedDay!StopWideEnough(k[2])'
  BY DEF Gaps
<1>2. /\ \A k : k \in FedDay!Keys' <=>
              \/ k \in FedDay!Keys
              \/ \E i \in FedDay!Raids : k = <<i, m>> /\ ConfirmsShift(WatchOf(i), m, b)
      /\ \A k \in FedDay!Keys : k[2] \in 0..m - 1
  BY KeysGrow
<1>3. ASSUME NEW k \in FedDay!Keys
      PROVE  k \in Gaps' <=> k \in Gaps
  <2>1. PICK j \in 0..m - 1 : j = k[2]
    BY <1>2
  <2>2. /\ FedDay!HasGap(j)' <=> FedDay!HasGap(j)
        /\ FedDay!HasGap(j) => (FedDay!StopWideEnough(j)' <=> FedDay!StopWideEnough(j))
    BY GapStays
  <2>3. k \in FedDay!Keys'
    BY <1>2
  <2>4. QED
    BY <1>1, <2>1, <2>2, <2>3
<1>4. ASSUME NEW i \in FedDay!Raids, NEW k, k = <<i, m>>, ConfirmsShift(WatchOf(i), m, b)
      PROVE  k \in Gaps' <=> FedDay!HasGap(m)' /\ FedDay!StopWideEnough(m)'
  <2>1. k \in FedDay!Keys'
    BY <1>2, <1>4
  <2>2. k[2] = m
    BY <1>4
  <2>3. QED
    BY <1>1, <2>1, <2>2
<1>5. ASSUME NEW i, NEW k \in FedDay!Keys
      PROVE  k # <<i, m>>
  <2>1. m \in Nat /\ k[2] \in 0..m - 1
    BY <1>2, BarsStay
  <2>2. QED
    BY <2>1
<1>6. QED
  <2>1. ASSUME NEW k
        PROVE  k \in Gaps' <=>
                 \/ k \in Gaps
                 \/ /\ \E i \in FedDay!Raids : k = <<i, m>> /\ ConfirmsShift(WatchOf(i), m, b)
                    /\ FedDay!HasGap(m)' /\ FedDay!StopWideEnough(m)'
    <3>1. CASE k \in FedDay!Keys
      BY <1>3, <1>5, <3>1
    <3>2. CASE k \notin FedDay!Keys
      <4>1. k \notin Gaps
        BY <1>1, <3>2
      <4>2. CASE \E i \in FedDay!Raids : k = <<i, m>> /\ ConfirmsShift(WatchOf(i), m, b)
        BY <1>4, <4>1, <4>2
      <4>3. CASE ~\E i \in FedDay!Raids : k = <<i, m>> /\ ConfirmsShift(WatchOf(i), m, b)
        BY <1>1, <1>2, <3>2, <4>1, <4>3
      <4>4. QED
        BY <4>2, <4>3
    <3>3. QED
      BY <3>1, <3>2
  <2>2. QED
    BY <1>1, <1>2, <2>1

\* How the parts of the invariant are put together, and what was told.
PartFacts ==
  /\ \A m : m = Len(fed) /\ swingWindow = LastBars(m, 5) /\ gapWindow = LastBars(m, 3)
            /\ recentBars = LastBars(m, 6) => WindowsFit
  /\ candidates = {WatchOf(i) : i \in FedDay!Raids} <=> CandidatesFit
  /\ (\A k \in Gaps : ToldOf(k) \subseteq emitted) <=> AttemptsTold

\* The invariant's parts with the window sizes spelled out and the told events by attempt.
LEMMA PartFactsHold == PartFacts
<1>1. \A m : m = Len(fed) /\ swingWindow = LastBars(m, 5) /\ gapWindow = LastBars(m, 3)
             /\ recentBars = LastBars(m, 6) => WindowsFit
  <2>1. 2 * SwingN + 1 = 5 /\ TargetLookbackBars = 6
    BY DEF SwingN, TargetLookbackBars
  <2>2. QED
    BY <2>1 DEF WindowsFit
<1>2. candidates = {WatchOf(i) : i \in FedDay!Raids} <=> CandidatesFit
  BY DEF CandidatesFit, WatchOf
<1>3. (\A k \in Gaps : ToldOf(k) \subseteq emitted) <=> AttemptsTold
  <2>1. ASSUME NEW k
        PROVE  ToldOf(k) \subseteq emitted <=>
                 (FedDay!Fills(k[2]) =>
                    /\ Event("filled", FedDay!FillBar(k[2]), FedDay!Target(FedDay!FillBar(k[2]))) \in emitted
                    /\ FedDay!Exits(k[2]) # {} =>
                         Event(FedDay!Outcome(k[2]), FedDay!ExitBar(k[2]), FedDay!ExitPrice(k[2])) \in emitted)
    BY DEF ToldOf
  <2>2. QED
    BY <2>1 DEF AttemptsTold
<1>4. QED
  BY <1>1, <1>2, <1>3 DEF PartFacts

\* The same of the next state.
LEMMA PartFactsHoldNext == PartFacts'
BY PartFactsHold, PTL

\* What on_new_bar leaves, in the terms of the windows after the bar.
LEMMA OnNewBarIs ==
  ASSUME NEW b, Fed(b), NEW m, m = Len(fed), WindowsFit, OnNewBar(m, b),
         NEW w, w = LastBars(m + 1, 5)', NEW gw, gw = LastBars(m + 1, 3)',
         NEW rw, rw = LastBars(m + 1, 6)', NEW spawned, spawned = Spawned(m, b, gw, rw)
  PROVE  /\ swingWindow' = w /\ gapWindow' = gw /\ recentBars' = rw
         /\ attempts' = {OnBar(a, m, b) : a \in attempts} \cup {a \in spawned : IsKept(a)}
         /\ candidates' = IF IsRaid(m, b) THEN candidates \cup {[raid_bar |-> m, level |-> MssReference]}
                          ELSE candidates
         /\ latestHigh' = Fold(latestHigh, Confirmed(w), "swing_high")
         /\ latestLow' = Fold(latestLow, Confirmed(w), "swing_low")
         /\ emitted \subseteq emitted' /\ Confirmed(w) \subseteq emitted'
         /\ WatchEvents(m, b, spawned) \subseteq emitted'
         /\ \A a \in attempts : AttemptEvents(a, OnBar(a, m, b), m) \subseteq emitted'
         /\ IsRaid(m, b) => Event("raid", m, RaidLevel) \in emitted'
<1>1. 2 * SwingN + 1 = 5 /\ TargetLookbackBars = 6 /\ m \in Nat
  BY BarsStay DEF SwingN, TargetLookbackBars
<1>2. PICK bar : bar = [at |-> m, high |-> b.high, low |-> b.low]
  OBVIOUS
<1>3. swingWindow = LastBars(m, 5) /\ gapWindow = LastBars(m, 3) /\ recentBars = LastBars(m, 6)
  BY <1>1 DEF WindowsFit
<1>4. /\ Rolling(LastBars(m, 5), bar, 5) = w /\ Rolling(LastBars(m, 3), bar, 3) = gw
      /\ Tail6(Append(LastBars(m, 6), bar)) = rw
  <2>1. 5 \in Nat /\ 3 \in Nat /\ 6 \in Nat /\ 0 < 5 /\ 0 < 3 /\ 0 < 6
    OBVIOUS
  <2>2. QED
    BY <1>2, <2>1, WindowGrows
<1>5. swingWindow' = w /\ gapWindow' = gw /\ recentBars' = rw
  BY <1>1, <1>2, <1>3, <1>4, Zenon DEF OnNewBar
<1>6. /\ attempts' = {OnBar(a, m, b) : a \in attempts} \cup {a \in spawned : IsKept(a)}
      /\ candidates' = IF IsRaid(m, b) THEN candidates \cup {[raid_bar |-> m, level |-> MssReference]}
                       ELSE candidates
      /\ latestHigh' = Fold(latestHigh, Confirmed(w), "swing_high")
      /\ latestLow' = Fold(latestLow, Confirmed(w), "swing_low")
      /\ emitted' = emitted \cup Confirmed(w) \cup WatchEvents(m, b, spawned)
           \cup (UNION {AttemptEvents(a, OnBar(a, m, b), m) : a \in attempts})
           \cup (IF IsRaid(m, b) THEN {Event("raid", m, RaidLevel)} ELSE {})
  BY <1>5, Zenon DEF OnNewBar
<1>7. \A a \in attempts : AttemptEvents(a, OnBar(a, m, b), m) \subseteq emitted'
  BY <1>6
<1>8. QED
  BY <1>5, <1>6, <1>7

\* A bar leaves the windows, swings and watches what the batch model makes of the bars.
LEMMA BarKeepsDetectors ==
  ASSUME NEW b, Fed(b), NEW m, m = Len(fed), InDay, OnNewBar(m, b)
  PROVE  WindowsFit' /\ SwingsFit' /\ CandidatesFit' /\ SwingsTold'
<1>1. m \in Nat /\ Len(fed)' = m + 1 /\ fed \in Seq(BarRecord) /\ trend \in {"up", "down"}
  BY BarsStay DEF Fed
<1>2. WindowsFit /\ SwingsFit /\ CandidatesFit /\ SwingsTold
  BY DEF InDay
<1>3. PICK w, gw, rw, spawned :
        /\ w = LastBars(m + 1, 5)' /\ gw = LastBars(m + 1, 3)' /\ rw = LastBars(m + 1, 6)'
        /\ spawned = Spawned(m, b, gw, rw)
  OBVIOUS
<1>4. /\ swingWindow' = w /\ gapWindow' = gw /\ recentBars' = rw
      /\ candidates' = IF IsRaid(m, b) THEN candidates \cup {[raid_bar |-> m, level |-> MssReference]}
                       ELSE candidates
      /\ latestHigh' = Fold(latestHigh, Confirmed(w), "swing_high")
      /\ latestLow' = Fold(latestLow, Confirmed(w), "swing_low")
      /\ emitted \subseteq emitted' /\ Confirmed(w) \subseteq emitted'
      /\ IsRaid(m, b) => Event("raid", m, RaidLevel) \in emitted'
  BY <1>2, <1>3, OnNewBarIs
<1>5. WindowsFit'
  BY <1>1, <1>3, <1>4, PartFactsHoldNext DEF PartFacts
<1>6. SwingsFit'
  BY <1>2, <1>3, <1>4, SwingsStep DEF SwingsFit
<1>7. /\ FedDay!Raids' = FedDay!Raids \cup {i \in {m} : IsRaid(m, b)}
      /\ IsRaid(m, b) => /\ RaidLevel = FedDay!RaidLevel(m)' /\ MssReference = FedDay!MssLevel(m)'
  BY <1>2, RaidsGrow
<1>8. \A i \in FedDay!Raids :
        /\ FedDay!RaidLevel(i)' = FedDay!RaidLevel(i) /\ FedDay!MssLevel(i)' = FedDay!MssLevel(i)
        /\ i \in 0..m - 1
  BY RaidsStay
<1>9. CandidatesFit'
  <2>1. candidates = {WatchOf(i) : i \in FedDay!Raids}
    BY <1>2, PartFactsHold DEF PartFacts
  <2>2. \A i \in FedDay!Raids : WatchOf(i)' = WatchOf(i)
    BY <1>8 DEF WatchOf
  <2>3. IsRaid(m, b) => WatchOf(m)' = [raid_bar |-> m, level |-> MssReference]
    BY <1>7 DEF WatchOf
  <2>4. candidates' = {WatchOf(i)' : i \in FedDay!Raids'}
    <3>1. CASE IsRaid(m, b)
      <4>1. FedDay!Raids' = FedDay!Raids \cup {m}
        BY <1>7, <3>1
      <4>2. {WatchOf(i)' : i \in FedDay!Raids'} = {WatchOf(i) : i \in FedDay!Raids} \cup {WatchOf(m)'}
        BY <2>2, <4>1
      <4>3. QED
        BY <1>4, <2>1, <2>3, <3>1, <4>2
    <3>2. CASE ~IsRaid(m, b)
      <4>1. FedDay!Raids' = FedDay!Raids
        BY <1>7, <3>2
      <4>2. {WatchOf(i)' : i \in FedDay!Raids'} = {WatchOf(i) : i \in FedDay!Raids}
        BY <2>2, <4>1
      <4>3. QED
        BY <1>4, <2>1, <3>2, <4>2
    <3>3. QED
      BY <3>1, <3>2
  <2>5. QED
    BY <2>4, PartFactsHoldNext DEF PartFacts
<1>10. SwingsTold'
  <2>1. /\ FedDay!PivotHighs \subseteq 0..m - 1 /\ FedDay!PivotLows \subseteq 0..m - 1
    <3>1. 2..m - 3 \subseteq 0..m - 1
      BY <1>1
    <3>2. QED
      BY <1>1, <3>1, PivotsAre
  <2>2. \A k \in 0..m - 1 : FedDay!High(k)' = FedDay!High(k) /\ FedDay!Low(k)' = FedDay!Low(k)
    BY OldBar
  <2>3. /\ \A k \in FedDay!PivotHighs' :
              k \in FedDay!PivotHighs \/ Event("swing_high", k, FedDay!High(k)') \in Confirmed(w)
        /\ \A k \in FedDay!PivotLows' :
              k \in FedDay!PivotLows \/ Event("swing_low", k, FedDay!Low(k)') \in Confirmed(w)
    BY <1>2, <1>3, SwingsStep
  <2>4. \A k \in FedDay!PivotHighs' : Event("swing_high", k, FedDay!High(k)') \in emitted'
    BY <1>2, <1>4, <2>1, <2>2, <2>3 DEF SwingsTold
  <2>5. \A k \in FedDay!PivotLows' : Event("swing_low", k, FedDay!Low(k)') \in emitted'
    BY <1>2, <1>4, <2>1, <2>2, <2>3 DEF SwingsTold
  <2>6. \A i \in FedDay!Raids' : Event("raid", i, FedDay!RaidLevel(i)') \in emitted'
    <3>1. ASSUME NEW i \in FedDay!Raids'
          PROVE  Event("raid", i, FedDay!RaidLevel(i)') \in emitted'
      <4>1. CASE i \in FedDay!Raids
        <5>1. Event("raid", i, FedDay!RaidLevel(i)) \in emitted
          BY <1>2, <4>1 DEF SwingsTold
        <5>2. QED
          BY <1>4, <1>8, <4>1, <5>1
      <4>2. CASE i \notin FedDay!Raids
        <5>1. i = m /\ IsRaid(m, b)
          BY <1>7, <4>2
        <5>2. QED
          BY <1>4, <1>7, <5>1
      <4>3. QED
        BY <4>1, <4>2
    <3>2. QED
      BY <3>1
  <2>7. QED
    BY <2>4, <2>5, <2>6 DEF SwingsTold, Event
<1>11. QED
  BY <1>5, <1>6, <1>9, <1>10

\* A bar leaves the attempts, and what was told of them, what the batch model makes of the bars.
LEMMA BarKeepsAttempts ==
  ASSUME NEW b, Fed(b), NEW m, m = Len(fed), InDay, OnNewBar(m, b)
  PROVE  AttemptsFit' /\ GapsTold' /\ AttemptsTold'
<1>1. m \in Nat /\ Len(fed)' = m + 1 /\ fed \in Seq(BarRecord) /\ trend \in {"up", "down"}
  BY BarsStay DEF Fed
<1>2. WindowsFit /\ SwingsFit /\ CandidatesFit /\ AttemptsFit /\ GapsTold /\ AttemptsTold
  BY DEF InDay
<1>3. PICK w, gw, rw, spawned :
        /\ w = LastBars(m + 1, 5)' /\ gw = LastBars(m + 1, 3)' /\ rw = LastBars(m + 1, 6)'
        /\ spawned = Spawned(m, b, gw, rw)
  OBVIOUS
<1>4. /\ attempts' = {OnBar(a, m, b) : a \in attempts} \cup {a \in spawned : IsKept(a)}
      /\ emitted \subseteq emitted'
      /\ WatchEvents(m, b, spawned) \subseteq emitted'
      /\ \A a \in attempts : AttemptEvents(a, OnBar(a, m, b), m) \subseteq emitted'
  BY <1>2, <1>3, OnNewBarIs
<1>5. PICK new : new = {i \in FedDay!Raids : ConfirmsShift(WatchOf(i), m, b)}
  OBVIOUS
<1>6. Shifting(m, b) = {WatchOf(i) : i \in new}
  <2>1. candidates = {WatchOf(i) : i \in FedDay!Raids}
    BY <1>2, PartFactsHold DEF PartFacts
  <2>2. QED
    BY <1>5, <2>1 DEF Shifting
<1>7. /\ \A k : k \in Gaps' <=>
            \/ k \in Gaps
            \/ (\E i \in new : k = <<i, m>>) /\ FedDay!HasGap(m)' /\ FedDay!StopWideEnough(m)'
      /\ \A k \in Gaps : /\ k \in FedDay!Keys /\ k[2] \in 0..m - 1
                         /\ FedDay!HasGap(k[2]) /\ FedDay!StopWideEnough(k[2])
  BY <1>2, <1>5, GapsGrow
<1>8. \A k \in Gaps : /\ OnBar(AttemptOf(k), m, b) = AttemptOf(k)'
                      /\ ToldOf(k)' \subseteq ToldOf(k) \cup AttemptEvents(AttemptOf(k), AttemptOf(k)', m)
  BY <1>7, AttemptStep
<1>9. GapFound(gw) <=> FedDay!HasGap(m)'
  BY <1>3, GapIs
<1>10. spawned = IF FedDay!HasGap(m)' THEN {NewAttempt(WatchOf(i), m, gw, rw) : i \in new} ELSE {}
  <2>1. {NewAttempt(c, m, gw, rw) : c \in Shifting(m, b)} = {NewAttempt(WatchOf(i), m, gw, rw) : i \in new}
    BY <1>6
  <2>2. spawned = IF GapFound(gw) THEN {NewAttempt(c, m, gw, rw) : c \in Shifting(m, b)} ELSE {}
    BY <1>3 DEF Spawned
  <2>3. QED
    BY <1>9, <2>1, <2>2
<1>11. ASSUME FedDay!HasGap(m)', NEW i \in new
       PROVE  /\ NewAttempt(WatchOf(i), m, gw, rw).entry = FedDay!Entry(m)'
              /\ NewAttempt(WatchOf(i), m, gw, rw).risk_pips = FedDay!RiskPips(m)'
              /\ IsKept(NewAttempt(WatchOf(i), m, gw, rw)) <=> FedDay!StopWideEnough(m)'
              /\ IsKept(NewAttempt(WatchOf(i), m, gw, rw)) =>
                   NewAttempt(WatchOf(i), m, gw, rw) = AttemptOf(<<i, m>>)'
              /\ ToldOf(<<i, m>>)' = {}
  <2>1. WatchOf(i).raid_bar = i
    BY DEF WatchOf
  <2>2. QED
    BY <1>3, <1>9, <1>11, <2>1, NewAttemptIs
<1>12. attempts' = {AttemptOf(k)' : k \in Gaps'}
  <2>1. attempts = {AttemptOf(k) : k \in Gaps}
    BY <1>2 DEF AttemptsFit
  <2>2. {OnBar(a, m, b) : a \in attempts} = {AttemptOf(k)' : k \in Gaps}
    BY <1>8, <2>1
  <2>3. CASE FedDay!HasGap(m)' /\ FedDay!StopWideEnough(m)'
    <3>1. {a \in spawned : IsKept(a)} = {AttemptOf(<<i, m>>)' : i \in new}
      BY <1>10, <1>11, <2>3
    <3>2. Gaps' = Gaps \cup {<<i, m>> : i \in new}
      BY <1>7, <2>3
    <3>3. QED
      BY <1>4, <2>2, <3>1, <3>2
  <2>4. CASE ~(FedDay!HasGap(m)' /\ FedDay!StopWideEnough(m)')
    <3>1. {a \in spawned : IsKept(a)} = {}
      BY <1>10, <1>11, <2>4
    <3>2. Gaps' = Gaps
      BY <1>7, <2>4
    <3>3. QED
      BY <1>4, <2>2, <3>1, <3>2
  <2>5. QED
    BY <2>3, <2>4
<1>13. AttemptsFit'
  BY <1>12 DEF AttemptsFit
<1>14. AttemptsTold'
  <2>1. \A k \in Gaps : ToldOf(k) \subseteq emitted
    BY <1>2, PartFactsHold DEF PartFacts
  <2>2. ASSUME NEW k \in Gaps'
        PROVE  ToldOf(k)' \subseteq emitted'
    <3>1. CASE k \in Gaps
      <4>1. AttemptOf(k) \in attempts
        BY <1>2, <3>1 DEF AttemptsFit
      <4>2. AttemptEvents(AttemptOf(k), AttemptOf(k)', m) \subseteq emitted'
        BY <1>4, <1>8, <3>1, <4>1
      <4>3. QED
        BY <1>4, <1>8, <2>1, <3>1, <4>2
    <3>2. CASE k \notin Gaps
      BY <1>7, <1>11, <3>2
    <3>3. QED
      BY <3>1, <3>2
  <2>3. QED
    BY <2>2, PartFactsHoldNext DEF PartFacts
<1>15. ASSUME NEW k \in FedDay!Keys'
       PROVE  /\ Event("mss", k[2], FedDay!MssLevel(k[1])') \in emitted'
              /\ FedDay!HasGap(k[2])' =>
                   /\ Event("fvg", k[2], FedDay!Entry(k[2])') \in emitted'
                   /\ IF FedDay!StopWideEnough(k[2])'
                      THEN Event("ready", k[2], FedDay!Entry(k[2])') \in emitted'
                      ELSE Event("rejected", k[2], FedDay!RiskPips(k[2])') \in emitted'
  <2>1. /\ k \in FedDay!Keys \/ \E i \in new : k = <<i, m>>
        /\ k \in FedDay!Keys => k[1] \in FedDay!Raids /\ k[2] \in 0..m - 1
    BY <1>2, <1>5, KeysGrow
  <2>2. CASE k \in FedDay!Keys
    <3>1. PICK i \in FedDay!Raids, j \in 0..m - 1 : i = k[1] /\ j = k[2]
      BY <2>1, <2>2
    <3>2. FedDay!MssLevel(i)' = FedDay!MssLevel(i)
      BY RaidsStay
    <3>3. /\ FedDay!HasGap(j)' <=> FedDay!HasGap(j)
          /\ FedDay!HasGap(j) =>
              /\ FedDay!Entry(j)' = FedDay!Entry(j)
              /\ FedDay!RiskPips(j)' = FedDay!RiskPips(j)
              /\ FedDay!StopWideEnough(j)' <=> FedDay!StopWideEnough(j)
      BY GapStays
    <3>4. /\ Event("mss", j, FedDay!MssLevel(i)) \in emitted
          /\ FedDay!HasGap(j) =>
               /\ Event("fvg", j, FedDay!Entry(j)) \in emitted
               /\ IF FedDay!StopWideEnough(j) THEN Event("ready", j, FedDay!Entry(j)) \in emitted
                  ELSE Event("rejected", j, FedDay!RiskPips(j)) \in emitted
      BY <1>2, <2>2, <3>1 DEF GapsTold
    <3>5. QED
      BY <1>4, <3>1, <3>2, <3>3, <3>4
  <2>3. CASE \E i \in new : k = <<i, m>>
    <3>1. PICK i \in new : k = <<i, m>>
      BY <2>3
    <3>2. k[1] = i /\ k[2] = m /\ i \in FedDay!Raids /\ WatchOf(i) \in Shifting(m, b)
      BY <1>5, <1>6, <3>1
    <3>3. WatchOf(i).level = FedDay!MssLevel(i) /\ FedDay!MssLevel(i)' = FedDay!MssLevel(i)
      BY <3>2, RaidsStay DEF WatchOf
    <3>4. /\ Event("mss", m, WatchOf(i).level) \in WatchEvents(m, b, spawned)
          /\ \A a \in spawned :
               /\ Event("fvg", m, a.entry) \in WatchEvents(m, b, spawned)
               /\ IsKept(a) => Event("ready", m, a.entry) \in WatchEvents(m, b, spawned)
               /\ ~IsKept(a) => Event("rejected", m, a.risk_pips) \in WatchEvents(m, b, spawned)
      BY <3>2 DEF WatchEvents
    <3>5. FedDay!HasGap(m)' => NewAttempt(WatchOf(i), m, gw, rw) \in spawned
      BY <1>10
    <3>6. FedDay!HasGap(m)' =>
            /\ Event("fvg", m, FedDay!Entry(m)') \in emitted'
            /\ IF FedDay!StopWideEnough(m)' THEN Event("ready", m, FedDay!Entry(m)') \in emitted'
               ELSE Event("rejected", m, FedDay!RiskPips(m)') \in emitted'
      BY <1>4, <1>11, <3>4, <3>5
    <3>7. QED
      BY <1>4, <3>2, <3>3, <3>4, <3>6
  <2>4. QED
    BY <2>1, <2>2, <2>3
<1>16. GapsTold'
  BY <1>15 DEF GapsTold, Event
<1>17. QED
  BY <1>13, <1>14, <1>16

-----------------------------------------------------------------------------
(***************************************************************************)
(* The day's end.                                                          *)
(***************************************************************************)
LEMMA KeysAre ==
  ASSUME fed \in Seq(BarRecord), NEW k \in FedDay!Keys
  PROVE  /\ k = <<k[1], k[2]>> /\ k[1] \in FedDay!Raids
         /\ k[1] \in Nat /\ k[2] \in Nat /\ k[2] \in 0..Len(fed) - 1
<1>1. PICK i \in FedDay!Raids : k \in {i} \X FedDay!Shifts(i)
  BY DEF FedDay!Keys
<1>2. PICK j \in FedDay!Shifts(i) : k = <<i, j>>
  BY <1>1
<1>3. Len(fed) \in Nat /\ FedDay!n = Len(fed) /\ SessionStartIdx \in Nat /\ MssWindowBars \in Nat
      /\ SessionEndIdx \in Int
  BY DayAssumption DEF FedDay!n, DayAssumption
<1>4. i \in Nat
  <2>1. i \in SessionStartIdx..(SessionEndIdx - 1)
    BY DEF FedDay!Raids
  <2>2. QED
    BY <1>3, <2>1
<1>5. j \in 0..Len(fed) - 1
  <2>1. j \in (i + 1)..(i + MssWindowBars) /\ j < Len(fed)
    BY <1>2, <1>3 DEF FedDay!Shifts
  <2>2. QED
    BY <1>3, <1>4, <2>1
<1>6. QED
  BY <1>2, <1>4, <1>5

\* What an attempt of the state says: its key, and what its phase comes with.
LEMMA AttemptSays ==
  ASSUME NEW k
  PROVE  /\ AttemptOf(k).raid_bar = k[1] /\ AttemptOf(k).mss_bar = k[2]
         /\ AttemptOf(k).entry = FedDay!Entry(k[2])
         /\ AttemptOf(k).status \in {"filled", "closed"} <=> FedDay!Fills(k[2])
         /\ FedDay!Fills(k[2]) =>
              /\ AttemptOf(k).fill_bar = FedDay!FillBar(k[2]) /\ FedDay!Touches(k[2]) # {}
              /\ AttemptOf(k).status = "filled" <=> FedDay!Exits(k[2]) = {}
<1>1. FedDay!Fills(k[2]) => FedDay!Touches(k[2]) # {}
  BY DEF FedDay!Fills
<1>2. QED
  BY <1>1 DEF AttemptOf

\* The order manager hears of a gap when it is found, and its fill comes at a later bar.
LEMMA ReadyBeforeFill == DayTypeOK /\ InDay => OrderPrecedesFill
<1>1. SUFFICES ASSUME DayTypeOK, InDay, NEW a \in FilledAttempts
               PROVE  \E e \in emitted : e.type = "ready" /\ e.price = a.entry /\ e.at < a.fill_bar
  BY DEF OrderPrecedesFill
<1>2. AttemptsFit /\ GapsTold /\ fed \in Seq(BarRecord)
  BY <1>1 DEF InDay, DayTypeOK
<1>3. PICK k \in Gaps : a = AttemptOf(k)
  BY <1>2 DEF FilledAttempts, AttemptsFit
<1>4. /\ k \in FedDay!Keys /\ FedDay!HasGap(k[2]) /\ FedDay!StopWideEnough(k[2])
      /\ a.status \in {"filled", "closed"}
  BY <1>3 DEF Gaps, FilledAttempts
<1>5. PICK j \in Nat : j = k[2]
  BY <1>2, <1>4, KeysAre
<1>6. a.entry = FedDay!Entry(j) /\ a.fill_bar = FedDay!FillBar(j) /\ FedDay!Touches(j) # {}
  BY <1>3, <1>4, <1>5, AttemptSays
<1>7. Event("ready", j, FedDay!Entry(j)) \in emitted
  BY <1>2, <1>4, <1>5 DEF GapsTold
<1>8. FedDay!FillBar(j) \in Int /\ j < FedDay!FillBar(j)
  <2>1. FedDay!Touches(j) \in SUBSET Nat /\ \A p \in FedDay!Touches(j) : j + 1 <= p
    <3>1. \A p \in (j + 1)..(FedDay!n - 1) : p \in Nat /\ j + 1 <= p
      BY <1>2 DEF FedDay!n
    <3>2. QED
      BY <3>1 DEF FedDay!Touches
  <2>2. PICK p \in FedDay!Touches(j) : p = FedDay!FillBar(j)
    BY <1>6, <2>1, LeastIs DEF FedDay!FillBar
  <2>3. p \in Nat /\ j + 1 <= p
    BY <2>1
  <2>4. QED
    BY <2>2, <2>3
<1>9. QED
  BY <1>6, <1>7, <1>8 DEF Event

\* The same of the next state.
LEMMA ReadyBeforeFillNext == DayTypeOK' /\ InDay' => OrderPrecedesFill'
BY ReadyBeforeFill, PTL

\* Of some keys one comes first, and no other does.
LEMMA FirstKey ==
  ASSUME NEW K, K # {}, \A k \in K : k = <<k[1], k[2]>> /\ k[1] \in Nat /\ k[2] \in Nat
  PROVE  /\ FedDay!FirstOf(K) \in K
         /\ \A o \in K : FedDay!Precedes(FedDay!FirstOf(K), o)
         /\ \A k \in K : (\A o \in K : FedDay!Precedes(k, o)) => k = FedDay!FirstOf(K)
<1>1. PICK I : I = {k[1] : k \in K}
  OBVIOUS
<1>2. PICK i \in I : \A y \in I : i <= y
  <2>1. I \in SUBSET Nat /\ I # {}
    BY <1>1
  <2>2. QED
    BY <2>1, LeastIs
<1>3. PICK J : J = {k[2] : k \in {x \in K : x[1] = i}}
  OBVIOUS
<1>4. PICK j \in J : \A y \in J : j <= y
  <2>1. J \in SUBSET Nat /\ J # {}
    BY <1>1, <1>2, <1>3
  <2>2. QED
    BY <2>1, LeastIs
<1>5. PICK k \in K : k[1] = i /\ k[2] = j
  BY <1>3, <1>4
<1>6. ASSUME NEW o \in K
      PROVE  FedDay!Precedes(k, o)
  <2>1. o[1] \in I /\ o[1] \in Nat /\ o[2] \in Nat /\ k[1] \in Nat /\ k[2] \in Nat
    BY <1>1
  <2>2. i <= o[1]
    BY <1>2, <2>1
  <2>3. CASE o[1] = i
    <3>1. o[2] \in J
      BY <1>3, <2>3
    <3>2. QED
      BY <1>4, <1>5, <2>1, <2>3, <3>1 DEF FedDay!Precedes
  <2>4. CASE o[1] # i
    BY <1>5, <2>1, <2>2, <2>4 DEF FedDay!Precedes
  <2>5. QED
    BY <2>3, <2>4
<1>7. /\ FedDay!FirstOf(K) \in K
      /\ \A o \in K : FedDay!Precedes(FedDay!FirstOf(K), o)
  BY <1>6 DEF FedDay!FirstOf
<1>8. ASSUME NEW x \in K, NEW y \in K, FedDay!Precedes(x, y), FedDay!Precedes(y, x)
      PROVE  x = y
  <2>1. x[1] \in Nat /\ x[2] \in Nat /\ y[1] \in Nat /\ y[2] \in Nat
    OBVIOUS
  <2>2. x[1] = y[1] /\ x[2] = y[2]
    BY <1>8, <2>1 DEF FedDay!Precedes
  <2>3. x = <<x[1], x[2]>> /\ y = <<y[1], y[2]>>
    OBVIOUS
  <2>4. QED
    BY <2>2, <2>3
<1>9. QED
  BY <1>7, <1>8

\* The winner is the attempt of the batch model's key.
LEMMA WinnerIs ==
  ASSUME DayTypeOK, InDay
  PROVE  /\ FilledAttempts = {} <=> FedDay!FilledIn(FedDay!Keys) = {}
         /\ FilledAttempts # {} =>
              \E k \in Gaps :
                /\ k = FedDay!FirstOf(FedDay!FilledIn(FedDay!Keys)) /\ FedDay!Fills(k[2])
                /\ Winner = AttemptOf(k) /\ Winner \in FilledAttempts
<1>1. AttemptsFit /\ fed \in Seq(BarRecord)
  BY DEF InDay, DayTypeOK
<1>2. PICK K : K = FedDay!FilledIn(FedDay!Keys)
  OBVIOUS
<1>3. K = {k \in FedDay!Keys : FedDay!Fills(k[2])}
  BY <1>2 DEF FedDay!FilledIn
<1>4. K = {k \in Gaps : FedDay!Fills(k[2])}
  BY <1>3 DEF Gaps, FedDay!Fills
<1>5. FilledAttempts = {AttemptOf(k) : k \in K}
  <2>1. attempts = {AttemptOf(k) : k \in Gaps}
    BY <1>1 DEF AttemptsFit
  <2>2. \A k : AttemptOf(k).status \in {"filled", "closed"} <=> FedDay!Fills(k[2])
    BY AttemptSays
  <2>3. QED
    BY <1>4, <2>1, <2>2 DEF FilledAttempts
<1>6. ASSUME FilledAttempts # {}
      PROVE  \E k \in Gaps :
               /\ k = FedDay!FirstOf(FedDay!FilledIn(FedDay!Keys)) /\ FedDay!Fills(k[2])
               /\ Winner = AttemptOf(k) /\ Winner \in FilledAttempts
  <2>1. K # {} /\ \A k \in K : k = <<k[1], k[2]>> /\ k[1] \in Nat /\ k[2] \in Nat
    BY <1>1, <1>3, <1>5, <1>6, KeysAre
  <2>2. PICK k \in K :
          /\ k = FedDay!FirstOf(K) /\ \A o \in K : FedDay!Precedes(k, o)
          /\ \A x \in K : (\A o \in K : FedDay!Precedes(x, o)) => x = k
    BY <2>1, FirstKey
  <2>3. \A x, o : KeyLess(AttemptOf(x), AttemptOf(o)) <=> FedDay!Precedes(x, o)
    BY AttemptSays DEF KeyLess, FedDay!Precedes
  <2>4. AttemptOf(k) \in FilledAttempts /\ \A o \in FilledAttempts : KeyLess(AttemptOf(k), o)
    BY <1>5, <2>2, <2>3
  <2>5. Winner \in FilledAttempts /\ \A o \in FilledAttempts : KeyLess(Winner, o)
    BY <2>4 DEF Winner
  <2>6. PICK x \in K : Winner = AttemptOf(x)
    BY <1>5, <2>5
  <2>7. \A o \in K : FedDay!Precedes(x, o)
    BY <1>5, <2>3, <2>5, <2>6
  <2>8. x = k
    BY <2>2, <2>7
  <2>9. QED
    BY <1>2, <1>4, <2>2, <2>5, <2>6, <2>8
<1>7. QED
  BY <1>2, <1>5, <1>6

\* The numbers of a trade.
LEMMA TradeNumbers ==
  ASSUME fed \in Seq(BarRecord), trend \in {"up", "down"}, NEW j \in 0..Len(fed) - 1, FedDay!Fills(j)
  PROVE  /\ FedDay!Entry(j) \in Int /\ FedDay!Stop(j) \in Int /\ FedDay!RiskPips(j) \in Int
         /\ FedDay!Target(FedDay!FillBar(j)) \in Int
         /\ FedDay!Outcome(j) \in Outcomes /\ FedDay!ExitPrice(j) \in Int
<1>1. Len(fed) \in Nat /\ FedDay!n = Len(fed) /\ j >= 2
  BY DEF FedDay!n, FedDay!Fills, FedDay!HasGap
<1>2. /\ FedDay!Near(j) \in Int /\ FedDay!Far(j - 2) \in Int /\ FedDay!Near(j - 2) \in Int
  <2>1. j - 2 \in 0..Len(fed) - 1
    BY <1>1
  <2>2. QED
    BY <2>1, BarsAre
<1>3. FedDay!Entry(j) \in Int /\ FedDay!Stop(j) \in Int
  BY <1>2 DEF FedDay!Entry, FedDay!Mid, FedDay!Stop
<1>4. FedDay!RiskPips(j) \in Int
  BY <1>3 DEF FedDay!RiskPips, FedDay!Pips
<1>5. FedDay!FillBar(j) \in 6..Len(fed)
  <2>1. FedDay!Touches(j) \in SUBSET Nat /\ \A p \in FedDay!Touches(j) : p <= Len(fed)
    <3>1. \A p \in (j + 1)..(FedDay!n - 1) : p \in Nat /\ p <= Len(fed)
      BY <1>1
    <3>2. QED
      BY <3>1 DEF FedDay!Touches
  <2>2. FedDay!Touches(j) # {} /\ FedDay!FillBar(j) >= 6
    BY DEF FedDay!Fills, FedDay!Lookback
  <2>3. PICK p \in FedDay!Touches(j) : p = FedDay!FillBar(j)
    BY <2>1, <2>2, LeastIs DEF FedDay!FillBar
  <2>4. p \in Nat /\ p <= Len(fed) /\ p >= 6
    BY <2>1, <2>2, <2>3
  <2>5. QED
    BY <1>1, <2>3, <2>4
<1>6. FedDay!Target(FedDay!FillBar(j)) \in Int
  <2>1. PICK p \in 6..Len(fed) : p = FedDay!FillBar(j)
    BY <1>5
  <2>2. [recent |-> LastBars(p, 6)].recent = LastBars(p, 6)
    OBVIOUS
  <2>3. FedDay!Target(p) \in Int
    BY <2>2, TargetIs
  <2>4. QED
    BY <2>1, <2>3
<1>7. FedDay!Outcome(j) \in Outcomes
  BY DEF FedDay!Outcome, Outcomes
<1>8. FedDay!ExitPrice(j) \in Int
  <2>1. FedDay!Close(Len(fed) - 1) \in Int
    <3>1. Len(fed) - 1 \in 0..Len(fed) - 1
      BY <1>1
    <3>2. QED
      BY <3>1, BarsAre
  <2>2. /\ FedDay!Outcome(j) = "scratch" => FedDay!ExitPrice(j) = FedDay!Close(Len(fed) - 1)
        /\ FedDay!Outcome(j) = "loss" => FedDay!ExitPrice(j) = FedDay!Stop(j)
        /\ FedDay!Outcome(j) = "win" => FedDay!ExitPrice(j) = FedDay!Target(FedDay!FillBar(j))
    BY <1>1 DEF FedDay!ExitPrice
  <2>3. QED
    BY <1>3, <1>6, <1>7, <2>1, <2>2 DEF Outcomes
<1>9. QED
  BY <1>3, <1>4, <1>6, <1>7, <1>8

\* finalize() returns the trade of the batch model, and tells how it ended.
LEMMA FinalTrade ==
  ASSUME DayTypeOK, InDay, NEW w, w = CloseAsScratch(Winner, fed[Len(fed)].close)
  PROVE  /\ FilledAttempts = {} => FedDay!DayTrade = NoTrade
         /\ FilledAttempts # {} =>
              /\ TradeOf(w) = FedDay!DayTrade /\ TradeOf(w) \in TradeRecord
              /\ w.status = "closed" /\ w.entry = Winner.entry /\ w.fill_bar = Winner.fill_bar
              /\ \A k : k = FedDay!FirstOf(FedDay!FilledIn(FedDay!Keys)) =>
                   /\ Event("filled", FedDay!FillBar(k[2]), FedDay!Target(FedDay!FillBar(k[2]))) \in emitted
                   /\ Event(FedDay!Outcome(k[2]), FedDay!ExitBar(k[2]), FedDay!ExitPrice(k[2]))
                        \in emitted \cup AttemptEvents(Winner, w, Len(fed) - 1)
<1>1. /\ AttemptsTold /\ fed \in Seq(BarRecord) /\ trend \in {"up", "down"}
      /\ Len(fed) \in Nat /\ FedDay!n = Len(fed)
  BY DEF InDay, DayTypeOK, FedDay!n
<1>2. PICK K : K = FedDay!FilledIn(FedDay!Keys)
  OBVIOUS
<1>3. FedDay!DayTrade =
        IF K = {} THEN NoTrade
        ELSE [direction |-> FedDay!Direction, entry |-> FedDay!Entry(FedDay!FirstOf(K)[2]),
              stop |-> FedDay!Stop(FedDay!FirstOf(K)[2]),
              target |-> FedDay!Target(FedDay!FillBar(FedDay!FirstOf(K)[2])),
              risk_pips |-> FedDay!RiskPips(FedDay!FirstOf(K)[2]),
              outcome |-> FedDay!Outcome(FedDay!FirstOf(K)[2]),
              exit_price |-> FedDay!ExitPrice(FedDay!FirstOf(K)[2])]
  BY <1>2, Zenon DEF FedDay!DayTrade
<1>4. FilledAttempts = {} <=> K = {}
  BY <1>2, WinnerIs
<1>5. ASSUME FilledAttempts # {}
      PROVE  /\ TradeOf(w) = FedDay!DayTrade /\ TradeOf(w) \in TradeRecord
             /\ w.status = "closed" /\ w.entry = Winner.entry /\ w.fill_bar = Winner.fill_bar
             /\ \A k : k = FedDay!FirstOf(FedDay!FilledIn(FedDay!Keys)) =>
                  /\ Event("filled", FedDay!FillBar(k[2]), FedDay!Target(FedDay!FillBar(k[2]))) \in emitted
                  /\ Event(FedDay!Outcome(k[2]), FedDay!ExitBar(k[2]), FedDay!ExitPrice(k[2]))
                       \in emitted \cup AttemptEvents(Winner, w, Len(fed) - 1)
  <2>1. PICK k \in Gaps : k = FedDay!FirstOf(K) /\ FedDay!Fills(k[2]) /\ Winner = AttemptOf(k)
    BY <1>2, <1>5, WinnerIs
  <2>2. PICK j \in 0..Len(fed) - 1 : j = k[2]
    BY <1>1, KeysAre DEF Gaps
  <2>3. PICK e \in Int, s \in Int, r \in Int, g \in Int, o \in Outcomes, x \in Int :
          /\ e = FedDay!Entry(j) /\ s = FedDay!Stop(j) /\ r = FedDay!RiskPips(j)
          /\ g = FedDay!Target(FedDay!FillBar(j))
          /\ o = FedDay!Outcome(j) /\ x = FedDay!ExitPrice(j)
    BY <1>1, <2>1, <2>2, TradeNumbers
  <2>4. PICK m : m = Len(fed)
    OBVIOUS
  <2>5. PhasesFit(k, e, s, r, m)
    BY <2>2, <2>3, <2>4, PhaseFactsHold DEF PhaseFacts
  <2>6. PICK p, q : p = FedDay!FillBar(j) /\ q = FedDay!ExitBar(j)
    OBVIOUS
  <2>7. FedDay!Touches(j) # {}
    BY <2>1, <2>2 DEF FedDay!Fills
  <2>8. PICK d : d = FedDay!Direction
    OBVIOUS
  <2>9. d = (IF trend = "up" THEN "long" ELSE "short") /\ d \in {"long", "short"}
    BY <2>8 DEF FedDay!Direction
  <2>10. PICK t : t = [direction |-> d, entry |-> e, stop |-> s, target |-> g, risk_pips |-> r,
                       outcome |-> o, exit_price |-> x]
    OBVIOUS
  <2>11. t = FedDay!DayTrade
    <3>1. K # {} /\ FedDay!FirstOf(K)[2] = j
      BY <1>4, <1>5, <2>1, <2>2
    <3>2. QED
      BY <1>3, <2>3, <2>8, <2>10, <3>1
  <2>12. t \in TradeRecord
    BY <2>9, <2>10 DEF TradeRecord, Prices
  <2>13. PICK rec : rec = LastBars(p, 6)
    OBVIOUS
  <2>14. Event("filled", p, g) \in emitted /\ (FedDay!Exits(j) # {} => Event(o, q, x) \in emitted)
    BY <1>1, <2>1, <2>2, <2>3, <2>6 DEF AttemptsTold
  <2>15. /\ w = Shape(k, e, s, r, rec, "closed", g, p, o, x) /\ w.entry = Winner.entry /\ w.fill_bar = Winner.fill_bar
         /\ Event(o, q, x) \in emitted \cup AttemptEvents(Winner, w, Len(fed) - 1)
    <3>1. CASE FedDay!Exits(j) # {}
      <4>1. IsClosed(k, p, g, q, o, x)
        BY <2>1, <2>2, <2>3, <2>6, <2>7, <3>1 DEF IsClosed
      <4>2. Winner = Shape(k, e, s, r, rec, "closed", g, p, o, x)
        BY <2>1, <2>5, <2>13, <4>1 DEF PhasesFit
      <4>3. Winner.status # "filled"
        BY <4>2 DEF Shape
      <4>4. w = Winner
        BY <4>3 DEF CloseAsScratch
      <4>5. QED
        BY <2>14, <3>1, <4>2, <4>4
    <3>2. CASE FedDay!Exits(j) = {}
      <4>1. IsFilled(k, p, g)
        BY <2>1, <2>2, <2>3, <2>6, <2>7, <3>2 DEF IsFilled
      <4>2. Winner = Shape(k, e, s, r, rec, "filled", g, p, Null, Null)
        BY <2>1, <2>5, <2>13, <4>1 DEF PhasesFit
      <4>3. PICK c : c = fed[Len(fed)].close
        OBVIOUS
      <4>4. o = "scratch" /\ x = c /\ q = Len(fed) - 1
        <5>1. o = "scratch"
          BY <2>3, <3>2 DEF FedDay!Outcome
        <5>2. x = FedDay!Close(Len(fed) - 1)
          BY <1>1, <2>3, <5>1 DEF FedDay!ExitPrice
        <5>3. Len(fed) - 1 + 1 = Len(fed)
          BY <1>1
        <5>4. x = c
          BY <4>3, <5>2, <5>3 DEF FedDay!Close
        <5>5. q = Len(fed) - 1
          BY <1>1, <2>6, <3>2 DEF FedDay!ExitBar
        <5>6. QED
          BY <5>1, <5>4, <5>5
      <4>5. Winner.status = "filled" /\ Winner.entry = e /\ Winner.fill_bar = p
        BY <4>2 DEF Shape
      <4>6. w = [Winner EXCEPT !.status = "closed", !.outcome = "scratch", !.exit_price = c]
        BY <4>3, <4>5 DEF CloseAsScratch
      <4>7. w = Shape(k, e, s, r, rec, "closed", g, p, o, x)
        <5>1. PICK a1 : a1 = [Winner EXCEPT !.status = "closed"]
          OBVIOUS
        <5>2. PICK a2 : a2 = [a1 EXCEPT !.outcome = "scratch"]
          OBVIOUS
        <5>3. a1 = Shape(k, e, s, r, rec, "closed", g, p, Null, Null)
          BY <4>2, <5>1 DEF Shape
        <5>4. a2 = Shape(k, e, s, r, rec, "closed", g, p, "scratch", Null)
          BY <5>2, <5>3 DEF Shape
        <5>5. [a2 EXCEPT !.exit_price = c] = Shape(k, e, s, r, rec, "closed", g, p, o, x)
          BY <4>4, <5>4 DEF Shape
        <5>6. QED
          BY <4>6, <5>1, <5>2, <5>5
      <4>8. w.entry = e /\ w.fill_bar = p /\ w.status = "closed" /\ w.outcome = o /\ w.exit_price = x
        BY <4>7 DEF Shape
      <4>9. Event(o, q, x) \in AttemptEvents(Winner, w, Len(fed) - 1)
        BY <4>4, <4>5, <4>8 DEF AttemptEvents
      <4>10. QED
        BY <4>5, <4>7, <4>8, <4>9
    <3>3. QED
      BY <3>1, <3>2
  <2>16. TradeOf(w) = t
    BY <2>9, <2>10, <2>15 DEF TradeOf, Shape
  <2>17. w.status = "closed"
    BY <2>15 DEF Shape
  <2>18. QED
    BY <1>2, <2>1, <2>2, <2>3, <2>6, <2>11, <2>12, <2>14, <2>15, <2>16, <2>17
<1>6. QED
  BY <1>3, <1>4, <1>5

-----------------------------------------------------------------------------
(***************************************************************************)
(* A step that brings no bar.                                              *)
(***************************************************************************)
\* Terms at a place that the state determines.
PlaceFacts ==
  /\ \A j, p : p = FedDay!FillBar(j) => FedDay!Target(FedDay!FillBar(j)) = FedDay!Target(p)
  /\ \A X, q : X = FedDay!Exits(q) => FedDay!Least(FedDay!Exits(q)) = FedDay!Least(X)
  /\ \A j, q : q = FedDay!Least(FedDay!Exits(j)) =>
       (FedDay!StopHit(j, FedDay!Least(FedDay!Exits(j))) <=> FedDay!StopHit(j, q))

\* They hold now and next.
LEMMA PlaceFactsHold == PlaceFacts /\ PlaceFacts'
<1>1. PlaceFacts
  BY DEF PlaceFacts
<1>2. QED
  BY <1>1, PTL

\* Without a new bar the batch model reads the same bars,
LEMMA SameBars ==
  ASSUME fed' = fed, trend' = trend
  PROVE  /\ FedDay!n' = FedDay!n /\ Len(fed)' = Len(fed)
         /\ \A i : /\ FedDay!High(i)' = FedDay!High(i) /\ FedDay!Low(i)' = FedDay!Low(i)
                   /\ FedDay!Close(i)' = FedDay!Close(i)
                   /\ FedDay!Far(i)' = FedDay!Far(i) /\ FedDay!Near(i)' = FedDay!Near(i)
                   /\ BarAt(i)' = BarAt(i)
         /\ \A p, size : LastBars(p, size)' = LastBars(p, size)
<1>1. /\ FedDay!n' = FedDay!n /\ Len(fed)' = Len(fed)
      /\ \A i : /\ FedDay!High(i)' = FedDay!High(i) /\ FedDay!Low(i)' = FedDay!Low(i)
                /\ FedDay!Close(i)' = FedDay!Close(i)
                /\ FedDay!Far(i)' = FedDay!Far(i) /\ FedDay!Near(i)' = FedDay!Near(i)
                /\ BarAt(i)' = BarAt(i)
  BY DEF FedDay!n, FedDay!High, FedDay!Low, FedDay!Close, FedDay!Far, FedDay!Near, BarAt
<1>2. \A p, size : LastBars(p, size)' = LastBars(p, size)
  <2>1. \A p, size : /\ LastBars(p, size) = [k \in 1..p - First(p, size) |-> BarAt(First(p, size) + k - 1)]
                     /\ LastBars(p, size)' = [k \in 1..p - First(p, size) |-> BarAt(First(p, size) + k - 1)']
    BY DEF LastBars, First
  <2>2. QED
    BY <1>1, <2>1
<1>3. QED
  BY <1>1, <1>2

\* has the same swings, raids and candidates,
LEMMA SameKeys ==
  ASSUME fed' = fed, trend' = trend
  PROVE  /\ FedDay!PivotHighs' = FedDay!PivotHighs /\ FedDay!PivotLows' = FedDay!PivotLows
         /\ \A i : FedDay!RaidLevel(i)' = FedDay!RaidLevel(i) /\ FedDay!MssLevel(i)' = FedDay!MssLevel(i)
         /\ FedDay!Raids' = FedDay!Raids /\ FedDay!Keys' = FedDay!Keys
<1>1. /\ FedDay!n' = FedDay!n
      /\ \A i : /\ FedDay!High(i)' = FedDay!High(i) /\ FedDay!Low(i)' = FedDay!Low(i)
                /\ FedDay!Close(i)' = FedDay!Close(i)
                /\ FedDay!Near(i)' = FedDay!Near(i)
  BY SameBars
<1>2. FedDay!PivotHighs' = FedDay!PivotHighs /\ FedDay!PivotLows' = FedDay!PivotLows
  BY <1>1 DEF FedDay!PivotHighs, FedDay!PivotLows, FedDay!Around
<1>3. \A i : /\ FedDay!KnownAt(FedDay!PivotHighs, i)' = FedDay!KnownAt(FedDay!PivotHighs, i)
             /\ FedDay!KnownAt(FedDay!PivotLows, i)' = FedDay!KnownAt(FedDay!PivotLows, i)
  BY <1>2 DEF FedDay!KnownAt
<1>4. ASSUME NEW i
      PROVE  FedDay!LastHigh(i)' = FedDay!LastHigh(i) /\ FedDay!LastLow(i)' = FedDay!LastLow(i)
  <2>1. PICK K, L : K = FedDay!KnownAt(FedDay!PivotHighs, i) /\ L = FedDay!KnownAt(FedDay!PivotLows, i)
    OBVIOUS
  <2>2. /\ FedDay!Greatest(FedDay!KnownAt(FedDay!PivotHighs, i))' = FedDay!Greatest(K)
        /\ FedDay!Greatest(FedDay!KnownAt(FedDay!PivotLows, i))' = FedDay!Greatest(L)
    BY <1>3, <2>1, Zenon DEF FedDay!Greatest
  <2>3. PICK g, h : g = FedDay!Greatest(K) /\ h = FedDay!Greatest(L)
    OBVIOUS
  <2>4. FedDay!LastHigh(i)' = FedDay!High(g)' /\ FedDay!LastLow(i)' = FedDay!Low(h)'
    BY <2>2, <2>3, Zenon DEF FedDay!LastHigh, FedDay!LastLow, FedDay!High, FedDay!Low
  <2>5. FedDay!LastHigh(i) = FedDay!High(g) /\ FedDay!LastLow(i) = FedDay!Low(h)
    BY <2>1, <2>3, Zenon DEF FedDay!LastHigh, FedDay!LastLow
  <2>6. QED
    BY <1>1, <2>4, <2>5
<1>5. \A i : FedDay!RaidLevel(i)' = FedDay!RaidLevel(i) /\ FedDay!MssLevel(i)' = FedDay!MssLevel(i)
  BY <1>4 DEF FedDay!RaidLevel, FedDay!MssLevel
<1>6. FedDay!Raids' = FedDay!Raids
  <2>1. \A i : FedDay!Past(FedDay!RaidLevel(i), FedDay!Near(i))' <=> FedDay!Past(FedDay!RaidLevel(i), FedDay!Near(i))
    BY <1>1, <1>5 DEF FedDay!Past
  <2>2. QED
    BY <1>1, <1>3, <2>1 DEF FedDay!Raids
<1>7. \A i : FedDay!Shifts(i)' = FedDay!Shifts(i)
  <2>1. \A i, j : FedDay!Past(FedDay!Close(j), FedDay!MssLevel(i))' <=> FedDay!Past(FedDay!Close(j), FedDay!MssLevel(i))
    BY <1>1, <1>5 DEF FedDay!Past
  <2>2. ASSUME NEW i
        PROVE  FedDay!Shifts(i)' = FedDay!Shifts(i)
    BY <1>1, <2>1 DEF FedDay!Shifts
  <2>3. QED
    BY <2>2
<1>8. FedDay!Keys' = FedDay!Keys
  <2>1. {{i} \X FedDay!Shifts(i)' : i \in FedDay!Raids'} = {{i} \X FedDay!Shifts(i) : i \in FedDay!Raids}
    BY <1>6, <1>7
  <2>2. QED
    BY <2>1 DEF FedDay!Keys
<1>9. QED
  BY <1>2, <1>5, <1>6, <1>8

\* and the same fills, exits and outcomes.
LEMMA SameTrades ==
  ASSUME fed' = fed, trend' = trend
  PROVE  /\ \A j : /\ FedDay!HasGap(j)' <=> FedDay!HasGap(j)
                   /\ FedDay!StopWideEnough(j)' <=> FedDay!StopWideEnough(j)
                   /\ FedDay!Entry(j)' = FedDay!Entry(j) /\ FedDay!Stop(j)' = FedDay!Stop(j)
                   /\ FedDay!RiskPips(j)' = FedDay!RiskPips(j)
                   /\ FedDay!Touches(j)' = FedDay!Touches(j) /\ FedDay!FillBar(j)' = FedDay!FillBar(j)
                   /\ FedDay!Target(FedDay!FillBar(j))' = FedDay!Target(FedDay!FillBar(j))
                   /\ FedDay!Fills(j)' <=> FedDay!Fills(j)
                   /\ FedDay!Exits(j)' = FedDay!Exits(j)
                   /\ FedDay!Outcome(j)' = FedDay!Outcome(j) /\ FedDay!ExitBar(j)' = FedDay!ExitBar(j)
                   /\ FedDay!ExitPrice(j)' = FedDay!ExitPrice(j)
         /\ FedDay!FilledIn(FedDay!Keys)' = FedDay!FilledIn(FedDay!Keys)
<1>1. /\ FedDay!n' = FedDay!n
      /\ \A i : /\ FedDay!High(i)' = FedDay!High(i) /\ FedDay!Low(i)' = FedDay!Low(i)
                /\ FedDay!Close(i)' = FedDay!Close(i)
                /\ FedDay!Far(i)' = FedDay!Far(i) /\ FedDay!Near(i)' = FedDay!Near(i)
  BY SameBars
<1>2. \A j : /\ FedDay!HasGap(j)' <=> FedDay!HasGap(j)
             /\ FedDay!Entry(j)' = FedDay!Entry(j) /\ FedDay!Stop(j)' = FedDay!Stop(j)
  BY <1>1 DEF FedDay!HasGap, FedDay!Past, FedDay!Entry, FedDay!Mid, FedDay!Stop
<1>3. \A j : FedDay!RiskPips(j)' = FedDay!RiskPips(j)
  BY <1>2 DEF FedDay!RiskPips, FedDay!Pips
<1>4. \A j : FedDay!StopWideEnough(j)' <=> FedDay!StopWideEnough(j)
  BY <1>3 DEF FedDay!StopWideEnough
<1>5. ASSUME NEW j
      PROVE  FedDay!Touches(j)' = FedDay!Touches(j)
  <2>1. \A p : FedDay!Past(FedDay!Near(p), FedDay!Entry(j))' <=> FedDay!Past(FedDay!Near(p), FedDay!Entry(j))
    BY <1>1, <1>2 DEF FedDay!Past
  <2>2. QED
    BY <1>1, <2>1 DEF FedDay!Touches
<1>6. \A j : FedDay!FillBar(j)' = FedDay!FillBar(j)
  BY <1>5, Zenon DEF FedDay!FillBar, FedDay!Least
<1>7. ASSUME NEW p
      PROVE  FedDay!Target(p)' = FedDay!Target(p)
  <2>1. PICK S : S = {m \in (p - FedDay!Lookback)..(p - 1) :
                        \A o \in (p - FedDay!Lookback)..(p - 1) : ~FedDay!Past(FedDay!Far(o), FedDay!Far(m))}
    OBVIOUS
  <2>2. \A o, m : FedDay!Past(FedDay!Far(o), FedDay!Far(m))' <=> FedDay!Past(FedDay!Far(o), FedDay!Far(m))
    BY <1>1 DEF FedDay!Past
  <2>3. {m \in (p - FedDay!Lookback)..(p - 1) :
           \A o \in (p - FedDay!Lookback)..(p - 1) : ~FedDay!Past(FedDay!Far(o), FedDay!Far(m))'} = S
    BY <2>1, <2>2
  <2>4. PICK x : x = FedDay!Least(S)
    OBVIOUS
  <2>5. FedDay!ExtremeBar(p)' = x
    BY <2>3, <2>4, Zenon DEF FedDay!ExtremeBar, FedDay!Least
  <2>6. FedDay!ExtremeBar(p) = x
    BY <2>1, <2>4, Zenon DEF FedDay!ExtremeBar
  <2>7. FedDay!Target(p)' = FedDay!Mid(FedDay!High(x)', FedDay!Low(x)')
    BY <2>5, Zenon DEF FedDay!Target, FedDay!High, FedDay!Low, FedDay!Mid
  <2>8. FedDay!Target(p) = FedDay!Mid(FedDay!High(x), FedDay!Low(x))
    BY <2>6, Zenon DEF FedDay!Target
  <2>9. QED
    BY <1>1, <2>7, <2>8
<1>8. ASSUME NEW j
      PROVE  FedDay!Target(FedDay!FillBar(j))' = FedDay!Target(FedDay!FillBar(j))
  <2>1. PICK p : p = FedDay!FillBar(j)
    OBVIOUS
  <2>2. FedDay!Target(FedDay!FillBar(j))' = FedDay!Target(p)'
    BY <1>6, <2>1, PlaceFactsHold DEF PlaceFacts
  <2>3. QED
    BY <1>7, <2>1, <2>2
<1>9. \A j : FedDay!Fills(j)' <=> FedDay!Fills(j)
  BY <1>2, <1>4, <1>5, <1>6, <1>8 DEF FedDay!Fills, FedDay!Past
<1>10. ASSUME NEW j
       PROVE  FedDay!Exits(j)' = FedDay!Exits(j)
  <2>1. \A q : /\ FedDay!StopHit(j, q)' <=> FedDay!StopHit(j, q)
               /\ FedDay!TargetHit(j, q)' <=> FedDay!TargetHit(j, q)
    BY <1>1, <1>2, <1>8 DEF FedDay!StopHit, FedDay!TargetHit, FedDay!Past
  <2>2. QED
    BY <1>1, <1>6, <2>1 DEF FedDay!Exits
<1>11. ASSUME NEW j
       PROVE  FedDay!Outcome(j)' = FedDay!Outcome(j) /\ FedDay!ExitBar(j)' = FedDay!ExitBar(j)
  <2>1. PICK q : q = FedDay!Least(FedDay!Exits(j))
    OBVIOUS
  <2>2. FedDay!Least(FedDay!Exits(j))' = q
    BY <1>10, <2>1, Zenon DEF FedDay!Least
  <2>3. FedDay!ExitBar(j)' = FedDay!ExitBar(j)
    BY <1>1, <1>10, <2>1, <2>2 DEF FedDay!ExitBar
  <2>4. /\ FedDay!StopHit(j, FedDay!Least(FedDay!Exits(j)))' <=> FedDay!StopHit(j, q)'
        /\ FedDay!StopHit(j, q)' <=> FedDay!StopHit(j, q)
    <3>1. FedDay!StopHit(j, FedDay!Least(FedDay!Exits(j)))' <=> FedDay!StopHit(j, q)'
      BY <2>2, PlaceFactsHold DEF PlaceFacts
    <3>2. FedDay!StopHit(j, q)' <=> FedDay!StopHit(j, q)
      BY <1>1, <1>2 DEF FedDay!StopHit, FedDay!Past
    <3>3. QED
      BY <3>1, <3>2
  <2>5. FedDay!Outcome(j)' = FedDay!Outcome(j)
    BY <1>10, <2>1, <2>4 DEF FedDay!Outcome
  <2>6. QED
    BY <2>3, <2>5
<1>12. \A j : FedDay!ExitPrice(j)' = FedDay!ExitPrice(j)
  <2>1. FedDay!Close(FedDay!n - 1)' = FedDay!Close(FedDay!n - 1)
    BY <1>1 DEF FedDay!Close
  <2>2. QED
    BY <1>2, <1>8, <1>11, <2>1 DEF FedDay!ExitPrice
<1>13. FedDay!FilledIn(FedDay!Keys)' = FedDay!FilledIn(FedDay!Keys)
  <2>1. FedDay!Keys' = FedDay!Keys
    BY SameKeys
  <2>2. QED
    BY <1>9, <2>1 DEF FedDay!FilledIn
<1>14. QED
  BY <1>2, <1>3, <1>4, <1>5, <1>6, <1>8, <1>9, <1>10, <1>11, <1>12, <1>13

\* The events of a day whose filled candidates are K, the first of them k.
SwingEvents ==
  {[type |-> "swing_high", at |-> i, price |-> FedDay!High(i)] : i \in FedDay!PivotHighs}
  \cup {[type |-> "swing_low", at |-> i, price |-> FedDay!Low(i)] : i \in FedDay!PivotLows}
RaidEvents(K, k) ==
  {[type |-> "raid", at |-> i, price |-> FedDay!RaidLevel(i)] :
     i \in {r \in FedDay!Raids : K = {} \/ r <= k[1]}}
KeysUpTo(K, k) == {o \in FedDay!Keys : K = {} \/ FedDay!Precedes(o, k)}
GapsUpTo(K, k) == {o \in KeysUpTo(K, k) : FedDay!HasGap(o[2])}
ShiftEvents(K, k) ==
  {[type |-> "mss", at |-> o[2], price |-> FedDay!MssLevel(o[1])] : o \in KeysUpTo(K, k)}
GapEvents(K, k) ==
  {[type |-> "fvg", at |-> o[2], price |-> FedDay!Entry(o[2])] : o \in GapsUpTo(K, k)}
RejectEvents(K, k) ==
  {[type |-> "rejected", at |-> o[2], price |-> FedDay!RiskPips(o[2])] :
     o \in {g \in GapsUpTo(K, k) : ~FedDay!StopWideEnough(g[2])}}
EndEvents(K, k) ==
  IF K = {} THEN {}
  ELSE {[type |-> "filled", at |-> FedDay!FillBar(k[2]), price |-> FedDay!Target(FedDay!FillBar(k[2]))],
        [type |-> FedDay!Outcome(k[2]), at |-> FedDay!ExitBar(k[2]), price |-> FedDay!ExitPrice(k[2])]}
EventsOf(K, k) ==
  SwingEvents \cup RaidEvents(K, k) \cup ShiftEvents(K, k) \cup GapEvents(K, k)
  \cup RejectEvents(K, k) \cup EndEvents(K, k)
EventsAre ==
  FedDay!DayEvents = EventsOf(FedDay!FilledIn(FedDay!Keys), FedDay!FirstOf(FedDay!FilledIn(FedDay!Keys)))

\* The day's events, one kind after the other.
LEMMA EventsAreHold == EventsAre
<1>1. PICK K : K = FedDay!FilledIn(FedDay!Keys)
  OBVIOUS
<1>2. PICK k : k = FedDay!FirstOf(K)
  OBVIOUS
<1>3. FedDay!DayEvents =
        SwingEvents \cup RaidEvents(K, k) \cup ShiftEvents(K, k) \cup GapEvents(K, k)
        \cup RejectEvents(K, k) \cup EndEvents(K, k)
  BY <1>1, <1>2, Zenon DEF FedDay!DayEvents, SwingEvents, RaidEvents, ShiftEvents, GapEvents, RejectEvents,
       EndEvents, KeysUpTo, GapsUpTo
<1>4. QED
  BY <1>1, <1>2, <1>3, Zenon DEF EventsAre, EventsOf

\* The event set is the same when neither the bars nor the trend change.
LEMMA SameEvents ==
  ASSUME fed' = fed, trend' = trend
  PROVE  FedDay!DayEvents' = FedDay!DayEvents
<1>1. PICK K : K = FedDay!FilledIn(FedDay!Keys)
  OBVIOUS
<1>2. PICK k : k = FedDay!FirstOf(K)
  OBVIOUS
<1>3. FedDay!FilledIn(FedDay!Keys)' = K
  BY <1>1, SameTrades
<1>4. FedDay!FirstOf(FedDay!FilledIn(FedDay!Keys))' = k
  BY <1>2, <1>3, Zenon DEF FedDay!FirstOf, FedDay!Precedes
<1>5. FedDay!DayEvents = EventsOf(K, k)
  BY <1>1, <1>2, EventsAreHold, Zenon DEF EventsAre
<1>6. EventsAre'
  BY EventsAreHold, PTL
<1>7. FedDay!DayEvents' = EventsOf(K, k)'
  BY <1>3, <1>4, <1>6, Zenon DEF EventsAre, EventsOf, RaidEvents, ShiftEvents, GapEvents, RejectEvents,
       EndEvents, KeysUpTo, GapsUpTo
<1>8. SwingEvents' = SwingEvents
  BY SameBars, SameKeys DEF SwingEvents
<1>9. RaidEvents(K, k)' = RaidEvents(K, k)
  BY SameKeys DEF RaidEvents
<1>10. KeysUpTo(K, k)' = KeysUpTo(K, k)
  BY SameKeys DEF KeysUpTo, FedDay!Precedes
<1>11. GapsUpTo(K, k)' = GapsUpTo(K, k)
  BY <1>10, SameTrades DEF GapsUpTo
<1>12. ShiftEvents(K, k)' = ShiftEvents(K, k)
  BY <1>10, SameKeys DEF ShiftEvents
<1>13. GapEvents(K, k)' = GapEvents(K, k)
  BY <1>11, SameTrades DEF GapEvents
<1>14. RejectEvents(K, k)' = RejectEvents(K, k)
  BY <1>11, SameTrades DEF RejectEvents
<1>15. EndEvents(K, k)' = EndEvents(K, k)
  BY SameTrades DEF EndEvents
<1>16. QED
  BY <1>5, <1>7, <1>8, <1>9, <1>12, <1>13, <1>14, <1>15 DEF EventsOf

\* Whoever heard all that was told, and how the first filled candidate ended, has every event.
LEMMA EventsTold ==
  ASSUME InDay, NEW E, emitted \subseteq E,
         FedDay!FilledIn(FedDay!Keys) # {} =>
           \A k : k = FedDay!FirstOf(FedDay!FilledIn(FedDay!Keys)) =>
             /\ Event("filled", FedDay!FillBar(k[2]), FedDay!Target(FedDay!FillBar(k[2]))) \in E
             /\ Event(FedDay!Outcome(k[2]), FedDay!ExitBar(k[2]), FedDay!ExitPrice(k[2])) \in E
  PROVE  FedDay!DayEvents \subseteq E
<1>1. SwingsTold /\ GapsTold
  BY DEF InDay
<1>2. PICK K : K = FedDay!FilledIn(FedDay!Keys)
  OBVIOUS
<1>3. PICK k : k = FedDay!FirstOf(K)
  OBVIOUS
<1>4. FedDay!DayEvents = EventsOf(K, k)
  BY <1>2, <1>3, EventsAreHold, Zenon DEF EventsAre
<1>5. SwingEvents \subseteq E /\ RaidEvents(K, k) \subseteq E
  BY <1>1 DEF SwingsTold, SwingEvents, RaidEvents, Event
<1>6. \A o \in FedDay!Keys : Event("mss", o[2], FedDay!MssLevel(o[1])) \in E
  BY <1>1 DEF GapsTold
<1>7. \A o \in FedDay!Keys : FedDay!HasGap(o[2]) =>
        /\ Event("fvg", o[2], FedDay!Entry(o[2])) \in E
        /\ ~FedDay!StopWideEnough(o[2]) => Event("rejected", o[2], FedDay!RiskPips(o[2])) \in E
  BY <1>1 DEF GapsTold
<1>8. KeysUpTo(K, k) \subseteq FedDay!Keys
  BY DEF KeysUpTo
<1>9. ShiftEvents(K, k) \subseteq E
  BY <1>6, <1>8 DEF ShiftEvents, Event
<1>10. \A o \in GapsUpTo(K, k) : o \in FedDay!Keys /\ FedDay!HasGap(o[2])
  BY <1>8 DEF GapsUpTo
<1>11. GapEvents(K, k) \subseteq E /\ RejectEvents(K, k) \subseteq E
  BY <1>7, <1>10 DEF GapEvents, RejectEvents, Event
<1>12. EndEvents(K, k) \subseteq E
  BY <1>2, <1>3 DEF EndEvents, Event
<1>13. QED
  BY <1>4, <1>5, <1>9, <1>11, <1>12 DEF EventsOf

\* What the detectors hold stays true of the bars when neither changes.
LEMMA SameDay ==
  ASSUME InDay, UNCHANGED <<trend, fed, swingWindow, latestHigh, latestLow, gapWindow, recentBars,
                            candidates, attempts, emitted>>
  PROVE  InDay'
<1>1. fed' = fed /\ trend' = trend
  OBVIOUS
<1>2. WindowsFit /\ SwingsFit /\ CandidatesFit /\ AttemptsFit /\ SwingsTold /\ GapsTold /\ AttemptsTold
  BY DEF InDay
<1>3. WindowsFit'
  <2>1. PICK m : m = Len(fed)
    OBVIOUS
  <2>2. Len(fed') = m /\ \A size : LastBars(m, size)' = LastBars(m, size)
    BY <1>1, <2>1, SameBars
  <2>3. \A size : LastBars(Len(fed), size)' = LastBars(m, size)
    BY <2>2, Zenon DEF LastBars, BarAt
  <2>4. QED
    BY <1>2, <2>1, <2>3 DEF WindowsFit
<1>4. SwingsFit'
  <2>1. PICK H, L : H = FedDay!PivotHighs /\ L = FedDay!PivotLows
    OBVIOUS
  <2>2. PICK g, h : g = FedDay!Greatest(H) /\ h = FedDay!Greatest(L)
    OBVIOUS
  <2>3. FedDay!PivotHighs' = H /\ FedDay!PivotLows' = L
    BY <1>1, <2>1, SameKeys
  <2>4. /\ FedDay!High(FedDay!Greatest(FedDay!PivotHighs))' = FedDay!High(g)'
        /\ FedDay!Low(FedDay!Greatest(FedDay!PivotLows))' = FedDay!Low(h)'
    BY <2>2, <2>3, Zenon DEF FedDay!Greatest, FedDay!High, FedDay!Low
  <2>5. /\ FedDay!High(FedDay!Greatest(FedDay!PivotHighs)) = FedDay!High(g)
        /\ FedDay!Low(FedDay!Greatest(FedDay!PivotLows)) = FedDay!Low(h)
    BY <2>1, <2>2, Zenon
  <2>6. FedDay!High(g)' = FedDay!High(g) /\ FedDay!Low(h)' = FedDay!Low(h)
    BY <1>1, SameBars
  <2>7. QED
    BY <1>2, <2>1, <2>3, <2>4, <2>5, <2>6 DEF SwingsFit
<1>5. CandidatesFit'
  BY <1>1, <1>2, SameKeys DEF CandidatesFit
<1>6. Gaps' = Gaps
  <2>1. FedDay!Keys' = FedDay!Keys
    BY <1>1, SameKeys
  <2>2. \A k : /\ FedDay!HasGap(k[2])' <=> FedDay!HasGap(k[2])
               /\ FedDay!StopWideEnough(k[2])' <=> FedDay!StopWideEnough(k[2])
    BY <1>1, SameTrades
  <2>3. QED
    BY <2>1, <2>2 DEF Gaps
<1>7. ASSUME NEW k
      PROVE  AttemptOf(k)' = AttemptOf(k)
  <2>1. PICK j : j = k[2]
    OBVIOUS
  <2>2. PICK e, s, r, m : e = FedDay!Entry(j) /\ s = FedDay!Stop(j) /\ r = FedDay!RiskPips(j) /\ m = Len(fed)
    OBVIOUS
  <2>3. e = FedDay!Entry(j)' /\ s = FedDay!Stop(j)' /\ r = FedDay!RiskPips(j)' /\ m = Len(fed)'
    BY <1>1, <2>2, SameTrades
  <2>4. PhasesFit(k, e, s, r, m)
    BY <2>1, <2>2, PhaseFactsHold DEF PhaseFacts
  <2>5. PhasesFit(k, e, s, r, m)'
    BY <2>1, <2>3, PhaseFactsHoldNext DEF PhaseFacts
  <2>6. \A p : LastBars(p, 6)' = LastBars(p, 6)
    BY <1>1, SameBars
  <2>7. PICK p, g, q, o, x : /\ p = FedDay!FillBar(j) /\ g = FedDay!Target(FedDay!FillBar(j))
                             /\ q = FedDay!ExitBar(j) /\ o = FedDay!Outcome(j) /\ x = FedDay!ExitPrice(j)
    OBVIOUS
  <2>8. /\ p = FedDay!FillBar(j)' /\ g = FedDay!Target(FedDay!FillBar(j))'
        /\ q = FedDay!ExitBar(j)' /\ o = FedDay!Outcome(j)' /\ x = FedDay!ExitPrice(j)'
    BY <1>1, <2>7, SameTrades
  <2>9. /\ FedDay!Touches(j)' = FedDay!Touches(j) /\ FedDay!Exits(j)' = FedDay!Exits(j)
        /\ FedDay!Fills(j)' <=> FedDay!Fills(j)
    BY <1>1, SameTrades
  <2>10. CASE FedDay!Touches(j) = {}
    <3>1. IsPending(k) /\ IsPending(k)'
      BY <2>1, <2>9, <2>10 DEF IsPending
    <3>2. QED
      BY <2>4, <2>5, <2>6, <3>1 DEF PhasesFit, Shape
  <2>11. CASE FedDay!Touches(j) # {} /\ ~FedDay!Fills(j)
    <3>1. IsAbandoned(k, p) /\ IsAbandoned(k, p)'
      BY <2>1, <2>7, <2>8, <2>9, <2>11 DEF IsAbandoned
    <3>2. QED
      BY <2>4, <2>5, <2>6, <3>1 DEF PhasesFit, Shape
  <2>12. CASE FedDay!Touches(j) # {} /\ FedDay!Fills(j) /\ FedDay!Exits(j) = {}
    <3>1. IsFilled(k, p, g) /\ IsFilled(k, p, g)'
      BY <2>1, <2>7, <2>8, <2>9, <2>12 DEF IsFilled
    <3>2. QED
      BY <2>4, <2>5, <2>6, <3>1 DEF PhasesFit, Shape
  <2>13. CASE FedDay!Touches(j) # {} /\ FedDay!Fills(j) /\ FedDay!Exits(j) # {}
    <3>1. IsClosed(k, p, g, q, o, x) /\ IsClosed(k, p, g, q, o, x)'
      BY <2>1, <2>7, <2>8, <2>9, <2>13 DEF IsClosed
    <3>2. QED
      BY <2>4, <2>5, <2>6, <3>1 DEF PhasesFit, Shape
  <2>14. QED
    BY <2>10, <2>11, <2>12, <2>13
<1>8. AttemptsFit'
  <2>1. {AttemptOf(k)' : k \in Gaps'} = {AttemptOf(k) : k \in Gaps}
    BY <1>6, <1>7
  <2>2. QED
    BY <1>2, <2>1 DEF AttemptsFit
<1>9. SwingsTold'
  BY <1>1, <1>2, SameBars, SameKeys DEF SwingsTold, Event
<1>10. GapsTold'
  <2>1. FedDay!Keys' = FedDay!Keys /\ \A i : FedDay!MssLevel(i)' = FedDay!MssLevel(i)
    BY <1>1, SameKeys
  <2>2. QED
    BY <1>1, <1>2, <2>1, SameTrades DEF GapsTold, Event
<1>11. AttemptsTold'
  BY <1>1, <1>2, <1>6, SameTrades DEF AttemptsTold, Event
<1>12. QED
  BY <1>3, <1>4, <1>5, <1>8, <1>9, <1>10, <1>11 DEF InDay

-----------------------------------------------------------------------------
(***************************************************************************)
(* The steps of the day.                                                   *)
(***************************************************************************)
\* Before the first bar there is nothing to hold and nothing to tell.
LEMMA DayInitInv == DayInit => DayInv
<1>1. SUFFICES ASSUME DayInit
               PROVE  DayInv
  OBVIOUS
<1>2. /\ trend \in {"up", "down"} /\ fed = <<>> /\ allBars = <<>> /\ Len(fed) = 0 /\ Len(allBars) = 0
      /\ fed \in Seq(BarRecord) /\ allBars \in Seq(BarRecord) /\ trade = Open
  BY <1>1 DEF DayInit
<1>3. DayTypeOK
  BY <1>2, DayAssumption DEF DayTypeOK
<1>4. FedDay!n = 0
  BY <1>2 DEF FedDay!n
<1>5. FedDay!PivotHighs = {} /\ FedDay!PivotLows = {}
  BY <1>4 DEF FedDay!PivotHighs, FedDay!PivotLows, FedDay!SwingN
<1>6. FedDay!Raids = {}
  BY <1>5 DEF FedDay!Raids, FedDay!KnownAt
<1>7. FedDay!Keys = {} /\ Gaps = {}
  BY <1>6 DEF FedDay!Keys, Gaps
<1>8. WindowsFit
  <2>1. \A size \in Nat : LastBars(0, size) = <<>>
    <3>1. ASSUME NEW size \in Nat
          PROVE  LastBars(0, size) = <<>>
      <4>1. (IF 0 < size THEN 0 ELSE 0 - size) = 0
        BY <3>1
      <4>2. LastBars(0, size) = [k \in 1..0 |-> BarAt(0 + k - 1)]
        BY <4>1 DEF LastBars
      <4>3. 1..0 = {}
        OBVIOUS
      <4>4. QED
        BY <4>2, <4>3
    <3>2. QED
      BY <3>1
  <2>2. QED
    BY <1>1, <1>2, <2>1 DEF WindowsFit, DayInit, SwingN, TargetLookbackBars
<1>9. SwingsFit /\ CandidatesFit /\ AttemptsFit
  BY <1>1, <1>5, <1>6, <1>7 DEF DayInit, SwingsFit, CandidatesFit, AttemptsFit
<1>10. SwingsTold /\ GapsTold /\ AttemptsTold
  BY <1>5, <1>6, <1>7 DEF SwingsTold, GapsTold, AttemptsTold
<1>11. InDay
  BY <1>8, <1>9, <1>10 DEF InDay
<1>12. QED
  BY <1>2, <1>3, <1>11, ReadyBeforeFill DEF DayInv, GoldenEventsJournaled

\* What a bar of the market is.
LEMMA MarketBars ==
  ASSUME DayTypeOK, NEW i \in Nat, i < DayBars, NEW b \in Market(trend, i)
  PROVE  b \in BarRecord
<1>1. i \in 0..DayBars - 1 /\ trend \in {"up", "down"}
  BY DayAssumption DEF DayTypeOK
<1>2. PICK t \in {"up", "down"} : t = trend
  BY <1>1
<1>3. Market(t, i) \subseteq BarRecord
  BY <1>1, DayAssumption
<1>4. QED
  BY <1>2, <1>3

\* A bar of the session.
LEMMA BarKeepsInv ==
  ASSUME DayInv, Bar
  PROVE  DayInv'
<1>1. DayTypeOK /\ trade = Open /\ InDay
  BY DEF DayInv, Bar
<1>2. PICK i : i = Len(allBars)
  OBVIOUS
<1>3. /\ i \in Nat /\ i < DayBars /\ i < ClosingIdx /\ i = Len(fed)
      /\ DayBars \in Nat /\ ClosingIdx \in 0..DayBars
      /\ fed \in Seq(BarRecord) /\ allBars \in Seq(BarRecord) /\ trend \in {"up", "down"}
  BY <1>1, <1>2, DayAssumption DEF Bar, IsSessionBar, DayTypeOK
<1>4. PICK b \in Market(trend, i) : allBars' = Append(allBars, b) /\ fed' = Append(fed, b) /\ OnNewBar(i, b)
  BY <1>2 DEF Bar
<1>5. b \in BarRecord
  BY <1>1, <1>3, MarketBars
<1>6. trend' = trend /\ trade' = trade
  BY DEF Bar
<1>7. Fed(b)
  BY <1>3, <1>4, <1>5, <1>6 DEF Fed
<1>8. DayTypeOK'
  BY <1>1, <1>2, <1>3, <1>4, <1>5, <1>6 DEF DayTypeOK
<1>9. InDay'
  <2>1. WindowsFit' /\ SwingsFit' /\ CandidatesFit' /\ SwingsTold'
    BY <1>1, <1>3, <1>4, <1>7, BarKeepsDetectors
  <2>2. AttemptsFit' /\ GapsTold' /\ AttemptsTold'
    BY <1>1, <1>3, <1>4, <1>7, BarKeepsAttempts
  <2>3. QED
    BY <2>1, <2>2 DEF InDay
<1>10. OrderPrecedesFill'
  BY <1>8, <1>9, ReadyBeforeFillNext
<1>11. GoldenEventsJournaled'
  BY <1>1, <1>6 DEF GoldenEventsJournaled
<1>12. QED
  BY <1>8, <1>9, <1>10, <1>11 DEF DayInv

\* The bar at 17:00 reaches no detector.
LEMMA ClosingBarKeepsInv ==
  ASSUME DayInv, ClosingBar
  PROVE  DayInv'
<1>1. DayTypeOK /\ trade = Open /\ InDay
  BY DEF DayInv, ClosingBar
<1>2. /\ UNCHANGED <<trend, fed, swingWindow, latestHigh, latestLow, gapWindow, recentBars,
                     candidates, attempts, emitted>>
      /\ trade' = trade
  BY DEF ClosingBar
<1>3. InDay'
  BY <1>1, <1>2, SameDay
<1>4. DayTypeOK'
  <2>1. PICK i : i = Len(allBars)
    OBVIOUS
  <2>2. /\ i \in Nat /\ i < DayBars /\ ~(i < ClosingIdx) /\ Len(fed) = ClosingIdx
        /\ DayBars \in Nat /\ ClosingIdx \in 0..DayBars /\ allBars \in Seq(BarRecord)
    BY <1>1, <2>1, DayAssumption DEF ClosingBar, IsSessionBar, DayTypeOK
  <2>3. PICK b \in Market(trend, i) : allBars' = Append(allBars, b)
    BY <2>1 DEF ClosingBar
  <2>4. b \in BarRecord
    BY <1>1, <2>2, MarketBars
  <2>5. allBars' \in Seq(BarRecord) /\ Len(allBars') = i + 1
    BY <2>1, <2>2, <2>3, <2>4
  <2>6. QED
    BY <1>1, <1>2, <2>2, <2>5 DEF DayTypeOK
<1>5. OrderPrecedesFill'
  BY <1>3, <1>4, ReadyBeforeFillNext
<1>6. GoldenEventsJournaled'
  BY <1>1, <1>2 DEF GoldenEventsJournaled
<1>7. QED
  BY <1>3, <1>4, <1>5, <1>6 DEF DayInv

\* The end of the day returns the trade of the batch model.
LEMMA FinalizeEnds ==
  ASSUME DayTypeOK, InDay, Finalize
  PROVE  trade' = FedDay!DayTrade /\ trade' \in TradeRecord \cup {NoTrade}
<1>1. PICK w : w = CloseAsScratch(Winner, fed[Len(fed)].close)
  OBVIOUS
<1>2. CASE FilledAttempts = {}
  <2>1. trade' = NoTrade
    BY <1>2 DEF Finalize
  <2>2. QED
    BY <1>1, <1>2, <2>1, FinalTrade
<1>3. CASE FilledAttempts # {}
  <2>1. trade' = TradeOf(w)
    BY <1>1, <1>3 DEF Finalize
  <2>2. QED
    BY <1>1, <1>3, <2>1, FinalTrade
<1>4. QED
  BY <1>2, <1>3

\* The end of the day tells what is left to tell, and leaves the order of ready and fill.
LEMMA FinalizeKeepsInv ==
  ASSUME DayInv, Finalize
  PROVE  DayInv'
<1>1. DayTypeOK /\ trade = Open /\ InDay /\ OrderPrecedesFill
  BY DEF DayInv, Finalize
<1>2. trade' \in TradeRecord \cup {NoTrade} /\ trade' # Open
  BY <1>1, FinalizeEnds, DayAssumption
<1>3. fed' = fed /\ trend' = trend /\ allBars' = allBars
  BY DEF Finalize
<1>4. DayTypeOK'
  BY <1>1, <1>2, <1>3 DEF DayTypeOK
<1>5. PICK w : w = CloseAsScratch(Winner, fed[Len(fed)].close)
  OBVIOUS
<1>6. PICK E : E = emitted'
  OBVIOUS
<1>7. PICK D : D = FedDay!DayEvents
  OBVIOUS
<1>8. D \subseteq E /\ OrderPrecedesFill'
  <2>1. CASE FilledAttempts = {}
    <3>1. attempts' = attempts /\ emitted' = emitted
      BY <2>1 DEF Finalize
    <3>2. FedDay!FilledIn(FedDay!Keys) = {}
      BY <1>1, <2>1, WinnerIs DEF InDay, DayTypeOK
    <3>3. D \subseteq E
      BY <1>1, <1>6, <1>7, <3>1, <3>2, EventsTold
    <3>4. OrderPrecedesFill'
      BY <1>1, <3>1 DEF OrderPrecedesFill, FilledAttempts
    <3>5. QED
      BY <3>3, <3>4
  <2>2. CASE FilledAttempts # {}
    <3>1. attempts' = (attempts \ {Winner}) \cup {w}
      BY <1>5, <2>2 DEF Finalize
    <3>2. E = emitted \cup AttemptEvents(Winner, w, Len(fed) - 1)
      BY <1>5, <1>6, <2>2 DEF Finalize
    <3>3. emitted \subseteq E
      BY <3>2
    <3>4. /\ w.status = "closed" /\ w.entry = Winner.entry /\ w.fill_bar = Winner.fill_bar
          /\ \A k : k = FedDay!FirstOf(FedDay!FilledIn(FedDay!Keys)) =>
               /\ Event("filled", FedDay!FillBar(k[2]), FedDay!Target(FedDay!FillBar(k[2]))) \in E
               /\ Event(FedDay!Outcome(k[2]), FedDay!ExitBar(k[2]), FedDay!ExitPrice(k[2])) \in E
      BY <1>1, <1>5, <2>2, <3>2, <3>3, FinalTrade
    <3>5. D \subseteq E
      BY <1>1, <1>7, <3>3, <3>4, EventsTold
    <3>6. Winner \in FilledAttempts
      BY <1>1, <2>2, WinnerIs DEF InDay, DayTypeOK
    <3>7. ASSUME NEW a \in FilledAttempts'
          PROVE  \E e \in E : e.type = "ready" /\ e.price = a.entry /\ e.at < a.fill_bar
      <4>1. PICK o \in FilledAttempts : o.entry = a.entry /\ o.fill_bar = a.fill_bar
        BY <3>1, <3>4, <3>6 DEF FilledAttempts
      <4>2. QED
        BY <1>1, <3>3, <4>1 DEF OrderPrecedesFill
    <3>8. OrderPrecedesFill'
      BY <1>6, <3>7 DEF OrderPrecedesFill
    <3>9. QED
      BY <3>5, <3>8
  <2>3. QED
    BY <2>1, <2>2
<1>9. GoldenEventsJournaled'
  BY <1>3, <1>6, <1>7, <1>8, SameEvents DEF GoldenEventsJournaled
<1>10. QED
  BY <1>2, <1>4, <1>8, <1>9 DEF DayInv

\* A step that changes nothing.
LEMMA NothingKeepsInv ==
  ASSUME DayInv, UNCHANGED dayVars
  PROVE  DayInv'
<1>1. /\ UNCHANGED <<trend, fed, swingWindow, latestHigh, latestLow, gapWindow, recentBars,
                     candidates, attempts, emitted>>
      /\ allBars' = allBars /\ trade' = trade
  BY DEF dayVars
<1>2. DayTypeOK'
  BY <1>1 DEF DayInv, DayTypeOK
<1>3. trade' = Open => InDay'
  BY <1>1, SameDay DEF DayInv
<1>4. GoldenEventsJournaled'
  BY <1>1, SameEvents DEF DayInv, GoldenEventsJournaled
<1>5. OrderPrecedesFill'
  BY <1>1 DEF DayInv, OrderPrecedesFill, FilledAttempts
<1>6. QED
  BY <1>2, <1>3, <1>4, <1>5 DEF DayInv

-----------------------------------------------------------------------------
(***************************************************************************)
(* The theorems.                                                           *)
(***************************************************************************)
\* Until the day ends, what the detectors hold and told is what the batch
\* model makes of the bars so far (the on_new_bar of each detector).
THEOREM DayInvHolds == DaySpec => []DayInv
<1>1. DayInit => DayInv
  BY DayInitInv
<1>2. DayInv /\ [DayNext]_dayVars => DayInv'
  BY BarKeepsInv, ClosingBarKeepsInv, FinalizeKeepsInv, NothingKeepsInv DEF DayNext
<1>3. QED
  BY <1>1, <1>2, PTL DEF DaySpec

\* The ready event of a candidate comes at a bar before the one that fills it
\* (trade_candidate_ready against TradeAttempt.on_new_bar), whatever the bars.
THEOREM OrderPrecedesFillHolds == DaySpec => []OrderPrecedesFill
BY DayInvHolds, PTL DEF DayInv

\* When the day ends, the sink has every event that the batch loop logs for
\* the same bars (extract_golden_master.py's log_event).
THEOREM GoldenEventsJournaledHolds == DaySpec => []GoldenEventsJournaled
BY DayInvHolds, PTL DEF DayInv

\* The streaming day implements the batch day: each step of it is a bar more,
\* the end of the day with the batch loop's trade, or nothing to the batch model.
THEOREM ImplementsGoldenMasterHolds == DaySpec => ImplementsGoldenMaster
<1>1. DayInit => FedDay!Init
  BY DEF DayInit, FedDay!Init, FedDay!Trends
<1>2. DayInv /\ [DayNext]_dayVars => [FedDay!Next]_FedDay!gmVars
  <2>1. SUFFICES ASSUME DayInv, [DayNext]_dayVars
                 PROVE  [FedDay!Next]_FedDay!gmVars
    OBVIOUS
  <2>2. CASE Bar
    <3>1. FedDay!n = Len(allBars) /\ Len(allBars) < DayBars
      BY <2>1, <2>2, DayAssumption DEF Bar, IsSessionBar, DayInv, DayTypeOK, FedDay!n
    <3>2. \E b \in Market(trend, Len(allBars)) : fed' = Append(fed, b)
      BY <2>2 DEF Bar
    <3>3. trade = Open /\ UNCHANGED <<trend, trade>>
      BY <2>2 DEF Bar
    <3>4. FedDay!NextBar
      BY <3>1, <3>2, <3>3 DEF FedDay!NextBar
    <3>5. QED
      BY <3>4 DEF FedDay!Next
  <2>3. CASE ClosingBar
    <3>1. UNCHANGED <<trend, fed, trade>>
      BY <2>3 DEF ClosingBar
    <3>2. QED
      BY <3>1 DEF FedDay!gmVars
  <2>4. CASE Finalize
    <3>1. DayTypeOK /\ InDay /\ trade = Open /\ Len(fed) > SessionEndIdx /\ fed' = fed /\ trend' = trend
      BY <2>1, <2>4 DEF Finalize, DayInv
    <3>2. trade' = FedDay!DayTrade
      BY <2>4, <3>1, FinalizeEnds
    <3>3. FedDay!EndDay
      BY <3>1, <3>2 DEF FedDay!EndDay, FedDay!n
    <3>4. QED
      BY <3>3 DEF FedDay!Next
  <2>5. CASE UNCHANGED dayVars
    BY <2>5 DEF dayVars, FedDay!gmVars
  <2>6. QED
    BY <2>1, <2>2, <2>3, <2>4, <2>5 DEF DayNext
<1>3. QED
  BY <1>1, <1>2, DayInvHolds, PTL DEF DaySpec, ImplementsGoldenMaster, FedDay!Spec

\* What no bar changes of an attempt.
Keeps(a, c) ==
  /\ c.raid_bar = a.raid_bar /\ c.mss_bar = a.mss_bar
  /\ c.entry = a.entry /\ c.stop = a.stop
  /\ a.target # Null => c.target = a.target

\* A pending attempt has no target yet.
LEMMA AttemptShapes ==
  ASSUME NEW k
  PROVE  \E e, s, r, rec, st, g, p, o, x :
           /\ AttemptOf(k) = Shape(k, e, s, r, rec, st, g, p, o, x)
           /\ st = "pending" => g = Null
<1>1. PICK e, s, r, m : /\ e = FedDay!Entry(k[2]) /\ s = FedDay!Stop(k[2])
                        /\ r = FedDay!RiskPips(k[2]) /\ m = Len(fed)
  OBVIOUS
<1>2. PhasesFit(k, e, s, r, m)
  BY <1>1, PhaseFactsHold DEF PhaseFacts
<1>3. PICK p, g, q, o, x :
        /\ p = FedDay!FillBar(k[2]) /\ g = FedDay!Target(FedDay!FillBar(k[2]))
        /\ q = FedDay!ExitBar(k[2]) /\ o = FedDay!Outcome(k[2]) /\ x = FedDay!ExitPrice(k[2])
  OBVIOUS
<1>4. IsPending(k) \/ IsAbandoned(k, p) \/ IsFilled(k, p, g) \/ IsClosed(k, p, g, q, o, x)
  BY <1>3 DEF IsPending, IsAbandoned, IsFilled, IsClosed
<1>5. CASE IsPending(k)
  <2>1. AttemptOf(k) = Shape(k, e, s, r, LastBars(m, 6), "pending", Null, Null, Null, Null)
    BY <1>2, <1>5 DEF PhasesFit
  <2>2. QED
    BY <2>1
<1>6. CASE IsAbandoned(k, p)
  <2>1. AttemptOf(k) = Shape(k, e, s, r, LastBars(p, 6), "abandoned", Null, Null, Null, Null)
    BY <1>2, <1>6 DEF PhasesFit
  <2>2. QED
    BY <2>1
<1>7. CASE IsFilled(k, p, g)
  <2>1. AttemptOf(k) = Shape(k, e, s, r, LastBars(p, 6), "filled", g, p, Null, Null)
    BY <1>2, <1>7 DEF PhasesFit
  <2>2. QED
    BY <2>1
<1>8. CASE IsClosed(k, p, g, q, o, x)
  <2>1. AttemptOf(k) = Shape(k, e, s, r, LastBars(p, 6), "closed", g, p, o, x)
    BY <1>2, <1>8 DEF PhasesFit
  <2>2. QED
    BY <2>1
<1>9. QED
  BY <1>4, <1>5, <1>6, <1>7, <1>8

\* The exit check touches the status, the outcome and the exit price only.
LEMMA CheckCloseKeeps ==
  ASSUME NEW a, NEW b, NEW k, NEW e, NEW s, NEW r, NEW rec, NEW st, NEW g, NEW p, NEW o, NEW x,
         a = Shape(k, e, s, r, rec, st, g, p, o, x)
  PROVE  \E st2, o2, x2 : CheckClose(a, b) = Shape(k, e, s, r, rec, st2, g, p, o2, x2)
<1>1. CASE ~Past(Near(b), a.stop)
  <2>1. CheckClose(a, b) = Shape(k, e, s, r, rec, "closed", g, p, "loss", a.stop)
    BY <1>1 DEF CheckClose, Shape
  <2>2. QED
    BY <2>1
<1>2. CASE Past(Near(b), a.stop) /\ ~Past(a.target, Far(b))
  <2>1. CheckClose(a, b) = Shape(k, e, s, r, rec, "closed", g, p, "win", a.target)
    BY <1>2 DEF CheckClose, Shape
  <2>2. QED
    BY <2>1
<1>3. CASE Past(Near(b), a.stop) /\ Past(a.target, Far(b))
  <2>1. CheckClose(a, b) = a
    BY <1>3 DEF CheckClose
  <2>2. QED
    BY <2>1
<1>4. QED
  BY <1>1, <1>2, <1>3

\* What a bar does to one attempt.
LEMMA OnBarKeeps ==
  ASSUME NEW a, NEW i, NEW b, NEW k, NEW e, NEW s, NEW r, NEW rec, NEW st, NEW g, NEW p, NEW o, NEW x,
         a = Shape(k, e, s, r, rec, st, g, p, o, x), st = "pending" => g = Null
  PROVE  Keeps(a, OnBar(a, i, b)) /\ (~IsActive(a) => OnBar(a, i, b) = a)
<1>1. a.status = st /\ a.target = g
  BY DEF Shape
<1>2. CASE st = "pending" /\ Touched(a, b)
  <2>1. OnBar(a, i, b) = OnTouch(a, i, b)
    BY <1>1, <1>2 DEF OnBar
  <2>2. PICK t : t = TargetOf(a)
    OBVIOUS
  <2>3. PICK f : f = [a EXCEPT !.status = "filled", !.target = t, !.fill_bar = i]
    OBVIOUS
  <2>4. f = Shape(k, e, s, r, rec, "filled", t, i, o, x)
    <3>1. PICK f1 : f1 = [a EXCEPT !.status = "filled"]
      OBVIOUS
    <3>2. PICK f2 : f2 = [f1 EXCEPT !.target = t]
      OBVIOUS
    <3>3. f1 = Shape(k, e, s, r, rec, "filled", g, p, o, x)
      BY <3>1 DEF Shape
    <3>4. f2 = Shape(k, e, s, r, rec, "filled", t, p, o, x)
      BY <3>2, <3>3 DEF Shape
    <3>5. [f2 EXCEPT !.fill_bar = i] = Shape(k, e, s, r, rec, "filled", t, i, o, x)
      BY <3>4 DEF Shape
    <3>6. QED
      BY <2>3, <3>1, <3>2, <3>5
  <2>5. PICK st2, o2, x2 : CheckClose(f, b) = Shape(k, e, s, r, rec, st2, t, i, o2, x2)
    BY <2>4, CheckCloseKeeps
  <2>6. PICK d : d = [a EXCEPT !.status = "abandoned"]
    OBVIOUS
  <2>7. d = Shape(k, e, s, r, rec, "abandoned", g, p, o, x)
    BY <2>6 DEF Shape
  <2>8. OnTouch(a, i, b) \in {d, CheckClose(f, b)}
    BY <2>2, <2>3, <2>6, Zenon DEF OnTouch
  <2>9. Keeps(a, d) /\ Keeps(a, CheckClose(f, b))
    BY <1>1, <1>2, <2>5, <2>7 DEF Keeps, Shape
  <2>10. QED
    BY <1>1, <1>2, <2>1, <2>8, <2>9 DEF IsActive
<1>3. CASE st = "pending" /\ ~Touched(a, b)
  <2>1. PICK u : u = Rolling(rec, [at |-> i, high |-> b.high, low |-> b.low], TargetLookbackBars)
    OBVIOUS
  <2>2. a.recent = rec
    BY DEF Shape
  <2>3. OnBar(a, i, b) = [a EXCEPT !.recent = u]
    BY <1>1, <1>3, <2>1, <2>2 DEF OnBar
  <2>4. OnBar(a, i, b) = Shape(k, e, s, r, u, st, g, p, o, x)
    BY <2>3 DEF Shape
  <2>5. QED
    BY <1>1, <1>3, <2>4 DEF Keeps, Shape, IsActive
<1>4. CASE st = "filled"
  <2>1. OnBar(a, i, b) = CheckClose(a, b)
    BY <1>1, <1>4 DEF OnBar
  <2>2. PICK st2, o2, x2 : CheckClose(a, b) = Shape(k, e, s, r, rec, st2, g, p, o2, x2)
    BY CheckCloseKeeps
  <2>3. QED
    BY <1>1, <1>4, <2>1, <2>2 DEF Keeps, Shape, IsActive
<1>5. CASE st \notin {"pending", "filled"}
  <2>1. OnBar(a, i, b) = a
    BY <1>1, <1>5 DEF OnBar
  <2>2. QED
    BY <2>1 DEF Keeps
<1>6. QED
  BY <1>2, <1>3, <1>4, <1>5

\* A decided attempt stays decided: no bar and no end of the day changes its entry,
\* its stop or a target it has, and an attempt that is over is left alone
\* (TradeAttempt.on_new_bar's first return, close_as_scratch()).
THEOREM AttemptsAreFinalHolds == DaySpec => AttemptsAreFinal
<1>1. DayInv /\ [DayNext]_dayVars =>
        [\A a \in attempts : \E b \in attempts' :
           /\ b.raid_bar = a.raid_bar /\ b.mss_bar = a.mss_bar
           /\ b.entry = a.entry /\ b.stop = a.stop
           /\ a.target # Null => b.target = a.target
           /\ ~IsActive(a) => b = a]_attempts
  <2>1. SUFFICES ASSUME DayInv, [DayNext]_dayVars, attempts' # attempts, NEW a \in attempts
                 PROVE  \E c \in attempts' : Keeps(a, c) /\ (~IsActive(a) => c = a)
    BY DEF Keeps
  <2>2. trade = Open /\ (Bar \/ Finalize)
    BY <2>1 DEF DayNext, dayVars, ClosingBar, Bar, Finalize
  <2>3. DayTypeOK /\ InDay /\ AttemptsFit
    BY <2>1, <2>2 DEF DayInv, InDay
  <2>4. PICK k \in Gaps : a = AttemptOf(k)
    BY <2>3 DEF AttemptsFit
  <2>5. PICK e, s, r, rec, st, g, p, o, x :
          a = Shape(k, e, s, r, rec, st, g, p, o, x) /\ (st = "pending" => g = Null)
    BY <2>4, AttemptShapes
  <2>6. CASE Bar
    <3>1. PICK i : i = Len(allBars)
      OBVIOUS
    <3>2. PICK b \in Market(trend, i) : OnNewBar(i, b)
      BY <2>6, <3>1 DEF Bar
    <3>3. OnBar(a, i, b) \in attempts'
      BY <2>1, <3>2 DEF OnNewBar
    <3>4. Keeps(a, OnBar(a, i, b)) /\ (~IsActive(a) => OnBar(a, i, b) = a)
      BY <2>5, OnBarKeeps
    <3>5. QED
      BY <3>3, <3>4
  <2>7. CASE Finalize
    <3>1. FilledAttempts # {}
      BY <2>1, <2>7 DEF Finalize
    <3>2. PICK c : c = fed[Len(fed)].close
      OBVIOUS
    <3>3. attempts' = (attempts \ {Winner}) \cup {CloseAsScratch(Winner, c)}
      BY <2>7, <3>1, <3>2 DEF Finalize
    <3>4. CASE a = Winner /\ st = "filled"
      <4>1. a.status = "filled" /\ IsActive(a)
        BY <2>5, <3>4 DEF Shape, IsActive
      <4>2. CloseAsScratch(a, c) = [a EXCEPT !.status = "closed", !.outcome = "scratch", !.exit_price = c]
        BY <4>1 DEF CloseAsScratch
      <4>3. Keeps(a, CloseAsScratch(a, c))
        <5>1. PICK a1 : a1 = [a EXCEPT !.status = "closed"]
          OBVIOUS
        <5>2. PICK a2 : a2 = [a1 EXCEPT !.outcome = "scratch"]
          OBVIOUS
        <5>3. a1 = Shape(k, e, s, r, rec, "closed", g, p, o, x)
          BY <2>5, <5>1 DEF Shape
        <5>4. a2 = Shape(k, e, s, r, rec, "closed", g, p, "scratch", x)
          BY <5>2, <5>3 DEF Shape
        <5>5. CloseAsScratch(a, c) = Shape(k, e, s, r, rec, "closed", g, p, "scratch", c)
          <6>1. [a2 EXCEPT !.exit_price = c] = Shape(k, e, s, r, rec, "closed", g, p, "scratch", c)
            BY <5>4 DEF Shape
          <6>2. QED
            BY <4>2, <5>1, <5>2, <6>1
        <5>6. QED
          BY <2>5, <5>5 DEF Keeps, Shape
      <4>4. QED
        BY <3>3, <3>4, <4>1, <4>3
    <3>5. CASE a = Winner /\ st # "filled"
      <4>1. a.status # "filled"
        BY <2>5, <3>5 DEF Shape
      <4>2. CloseAsScratch(a, c) = a
        BY <4>1 DEF CloseAsScratch
      <4>3. a \in attempts' /\ Keeps(a, a)
        BY <3>3, <3>5, <4>2 DEF Keeps
      <4>4. QED
        BY <4>3
    <3>6. CASE a # Winner
      <4>1. a \in attempts' /\ Keeps(a, a)
        BY <3>3, <3>6 DEF Keeps
      <4>2. QED
        BY <4>1
    <3>7. QED
      BY <3>4, <3>5, <3>6
  <2>8. QED
    BY <2>2, <2>6, <2>7
<1>2. QED
  BY <1>1, DayInvHolds, PTL DEF DaySpec, AttemptsAreFinal

=============================================================================
