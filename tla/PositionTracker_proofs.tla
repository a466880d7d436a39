------------------------ MODULE PositionTracker_proofs -------------------------
(***************************************************************************)
(* Proofs about PositionTracker, for any set of tickets, any volumes and   *)
(* any number of faults and crashes.  IndInv is inductive.                 *)
(***************************************************************************)
EXTENDS PositionTracker, TLAPS

LEMMA InitIndInv == Init => IndInv
<1> USE PositionTrackerAssumption DEF PositionTrackerAssumption
<1>1. Init => TypeOK
  BY DEF Init, TypeOK, Deals, OpenStatus, Calls
<1>2. Init => MemoryOfTracker /\ RowsOfPositions /\ WinnerUnrecorded
  BY DEF Init, MemoryOfTracker, RowsOfPositions, WinnerUnrecorded
<1>3. Init => LoopContext /\ OrphanContext /\ HalvingRemembered
  BY DEF Init, LoopContext, OrphanContext, HalvingRemembered
<1>4. Init => RowsAreTracked /\ ClosedRowIsClosed /\ EveryHalvingExcused
  BY DEF Init, RowsAreTracked, ClosedRowIsClosed, EveryHalvingExcused,
         OpenRows, OpenStatus
<1>5. QED
  BY <1>1, <1>2, <1>3, <1>4 DEF IndInv

\* A half that is neither nothing nor everything leaves a volume.
LEMMA HalvesInRange ==
  ASSUME NEW v \in Nat, NEW h \in Halves(v) \ {0, v}
  PROVE  v - h \in Nat /\ h \in Nat
BY DEF Halves

\* Every step keeps the inductive invariant: one step of the proof per action.
LEMMA NextIndInv == IndInv /\ [Next]_vars => IndInv'
<1> SUFFICES ASSUME IndInv, [Next]_vars PROVE IndInv'
  OBVIOUS
<1> USE PositionTrackerAssumption
    DEF PositionTrackerAssumption, IndInv, TypeOK, MemoryOfTracker,
        RowsOfPositions, WinnerUnrecorded, LoopContext, OrphanContext,
        HalvingRemembered, RowsAreTracked, ClosedRowIsClosed,
        EveryHalvingExcused, OpenRows, OpenStatus, Deals, Calls
<1>1. ASSUME NEW t \in Tickets, BrokerOpen(t)
      PROVE  IndInv'
  BY <1>1 DEF BrokerOpen, memoryVars, rowVars, threadVars, budgetVars, history
<1>2. ASSUME NEW t \in Tickets, BrokerClose(t)
      PROVE  IndInv'
  BY <1>2 DEF BrokerClose, memoryVars, rowVars, threadVars, budgetVars, history
<1>3. ASSUME NEW t \in Tickets, ClockTicks(t)
      PROVE  IndInv'
  BY <1>3 DEF ClockTicks, brokerVars, rowVars, memoryVars, threadVars, budgetVars, history
<1>4. ASSUME NEW t \in Tickets, HistoryCatchesUp(t)
      PROVE  IndInv'
  BY <1>4 DEF HistoryCatchesUp, rowVars, memoryVars, threadVars, budgetVars, history
<1>5. ASSUME NEW t \in Tickets, LeaveOpen(t)
      PROVE  IndInv'
  BY <1>5 DEF LeaveOpen, Visited, brokerVars, rowVars, memoryVars, budgetVars, history
<1>6. ASSUME NEW t \in Tickets, PartialClose(t)
      PROVE  IndInv'
  <2> USE DEF rowVars, memoryVars, budgetVars, history
  <2>1. t \in tracked /\ halvings[t] <= lost[t] + crashes
    BY <1>6 DEF PartialClose
  <2>2. CASE BrokerHalves(t)
    <3>1. volume' \in [Tickets -> Nat]
      BY <2>2, HalvesInRange DEF BrokerHalves
    <3>2. QED
      BY <1>6, <2>1, <2>2, <3>1 DEF PartialClose, BrokerHalves, Visited, Fault
  <2>3. CASE Visited(t) /\ UNCHANGED <<volume, deals, history>> /\ (UNCHANGED budgetVars \/ Fault)
    BY <1>6, <2>3 DEF PartialClose, Visited, Fault
  <2>4. QED
    BY <1>6, <2>2, <2>3 DEF PartialClose
<1>7. ASSUME NEW t \in Tickets, ReadHistory(t)
      PROVE  IndInv'
  BY <1>7 DEF ReadHistory, Visited, IsClosed, Fault, brokerVars, rowVars, memoryVars, budgetVars, history
<1>8. ASSUME NEW t \in Tickets, HealOrphan(t)
      PROVE  IndInv'
  <2> USE DEF rowVars, memoryVars, budgetVars, history
  <2>1. target' \in [Tickets -> {"live", "healed"}]
    BY <1>8 DEF HealOrphan
  <2>2. UNCHANGED crashes /\ faults' \in 0..MaxFaults
    BY <1>8 DEF HealOrphan, Fault
  <2>3. QED
    BY <1>8, <2>1, <2>2 DEF HealOrphan
<1>9. ASSUME Crash
      PROVE  IndInv'
  <2>1. /\ UNCHANGED <<position, volume, deals, target, row, profit, inserted,
                        clock, faults, halvings, lost>>
        /\ crashes' = crashes + 1 /\ crashes' \in 0..MaxCrashes
        /\ pc' = "down" /\ tracked' = {} /\ halved' = {} /\ winner' = None
        /\ present' = FALSE /\ seen' = {} /\ todo' = {} /\ cur' = None
        /\ found' = "none"
    BY <1>9 DEF Crash, brokerVars, rowVars, history
  <2>2. TypeOK'
    BY <2>1
  <2>3. HalvingRemembered' /\ EveryHalvingExcused'
    BY <2>1
  <2>4. QED
    BY <2>1, <2>2, <2>3
<1>10. ASSUME Restart
      PROVE  IndInv'
  <2> USE DEF brokerVars, rowVars, budgetVars, history
  <2>1. CASE LoadFromDb
    BY <1>10, <2>1 DEF Restart, LoadFromDb
  <2>2. CASE UNCHANGED <<present, tracked, halved>>
    BY <1>10, <2>2 DEF Restart
  <2>3. QED
    BY <1>10, <2>1, <2>2 DEF Restart
<1>11. ASSUME EnsureTracker
      PROVE  IndInv'
  BY <1>11 DEF EnsureTracker, LoadFromDb, brokerVars, rowVars, threadVars, budgetVars, history
<1>12. ASSUME HandOff
      PROVE  IndInv'
  BY <1>12 DEF HandOff, InsertOpenRow, UpdateFinalClose, brokerVars, budgetVars, history
<1>13. ASSUME Register
      PROVE  IndInv'
  BY <1>13 DEF Register, brokerVars, rowVars, budgetVars, history
<1>14. ASSUME HandOffLost
      PROVE  IndInv'
  BY <1>14 DEF HandOffLost, brokerVars, rowVars, threadVars, budgetVars, history
<1>15. ASSUME ReadPositions
      PROVE  IndInv'
  BY <1>15 DEF ReadPositions, OpenPositions, Fault, brokerVars, rowVars, memoryVars, budgetVars, history
<1>16. ASSUME RecordPartialClose
      PROVE  IndInv'
  BY <1>16 DEF RecordPartialClose, UpdatePartialClose, Visited, Fault, brokerVars, budgetVars, history
<1>17. ASSUME RecordFinalClose
      PROVE  IndInv'
  BY <1>17 DEF RecordFinalClose, UpdateFinalClose, Visited, Fault, brokerVars, budgetVars, history
<1>18. ASSUME SkipOrphanCheck
      PROVE  IndInv'
  BY <1>18 DEF SkipOrphanCheck, EndCheckPositions, brokerVars, rowVars, memoryVars, budgetVars, history
<1>19. ASSUME BeginOrphanCheck
      PROVE  IndInv'
  BY <1>19 DEF BeginOrphanCheck, EndCheckPositions, brokerVars, rowVars, memoryVars, budgetVars, history
<1>20. ASSUME FindOrphans
      PROVE  IndInv'
  BY <1>20 DEF FindOrphans, OpenPositions, Fault, brokerVars, rowVars, memoryVars, budgetVars, history
<1>21. ASSUME RecordOrphan
      PROVE  IndInv'
  BY <1>21 DEF RecordOrphan, BridgeDirections, RowDirections, Examined, Fault, brokerVars, memoryVars, budgetVars, history
<1>22. ASSUME EndCheckOrphans
      PROVE  IndInv'
  BY <1>22 DEF EndCheckOrphans, Fault, brokerVars, rowVars, budgetVars, history
<1>23. CASE UNCHANGED vars
  BY <1>23 DEF vars, brokerVars, rowVars, memoryVars, threadVars, budgetVars, history
<1>24. QED
  BY <1>1, <1>2, <1>3, <1>4, <1>5, <1>6, <1>7, <1>8, <1>9, <1>10, <1>11, <1>12, <1>13, <1>14, <1>15, <1>16, <1>17, <1>18, <1>19, <1>20, <1>21, <1>22, <1>23
     DEF Next, Environment, DayEnd, Poll, CatchUp

\* The inductive invariant holds, for any tickets, volumes, faults and crashes.
THEOREM IndInvHolds == Spec => []IndInv
<1>1. IndInv /\ [Next]_vars => IndInv'
  BY NextIndInv
<1>2. QED
  BY <1>1, InitIndInv, PTL DEF Spec

\* The variables keep their types, for any tickets, faults and crashes.
THEOREM TypeCorrect == Spec => []TypeOK
<1>1. IndInv => TypeOK
  BY DEF IndInv
<1>2. QED
  BY <1>1, IndInvHolds, PTL

\* The tracker watches exactly the trades that the database holds open
\* (load_from_db, register_new_position, _handle_vanished).
THEOREM RowsAreTrackedHolds == Spec => []RowsAreTracked
<1>1. IndInv => RowsAreTracked
  BY DEF IndInv
<1>2. QED
  BY <1>1, IndInvHolds, PTL

\* No row is closed while its position is open (update_trade_final_close).
THEOREM ClosedRowIsClosedHolds == Spec => []ClosedRowIsClosed
<1>1. IndInv => ClosedRowIsClosed
  BY DEF IndInv
<1>2. QED
  BY <1>1, IndInvHolds, PTL

\* Each further halving of a position is paid for by a reply that was lost or
\* by a crash (_do_partial_close and its partial_closed flag).
THEOREM EveryHalvingExcusedHolds == Spec => []EveryHalvingExcused
<1>1. IndInv => EveryHalvingExcused
  BY DEF IndInv
<1>2. QED
  BY <1>1, IndInvHolds, PTL

\* A position has one row at most (write_trade, write_orphan_trade).
THEOREM OneRowPerPositionHolds == Spec => []OneRowPerPosition
<1>1. ASSUME RowsOfPositions, NEW t \in Tickets PROVE inserted[t] <= 1
  <2>1. inserted[t] = 0 \/ inserted[t] = 1
    BY <1>1 DEF RowsOfPositions
  <2>2. QED
    BY <2>1
<1>2. IndInv => RowsOfPositions
  BY DEF IndInv
<1>3. IndInv => OneRowPerPosition
  BY <1>1, <1>2 DEF OneRowPerPosition
<1>4. QED
  BY <1>3, IndInvHolds, PTL

-----------------------------------------------------------------------------
(* The take-profit of a recorded position *)

\* Only a heal changes a target, and it looks at positions without a row.
LEMMA StepKeepsTarget ==
  ASSUME IndInv, [Next]_vars, NEW t \in OpenRows
  PROVE  target'[t] = target[t]
<1>1. ASSUME NEW u \in Tickets, HealOrphan(u)
      PROVE  target'[t] = target[t]
  <2>1. u # t
    BY <1>1 DEF HealOrphan, IndInv, OrphanContext, OpenRows
  <2>2. QED
    BY <1>1, <2>1 DEF HealOrphan, IndInv, TypeOK, OpenRows
<1>2. CASE UNCHANGED target
  BY <1>2
<1>3. QED
  BY <1>1, <1>2
     DEF Next, Environment, DayEnd, Poll, CatchUp, BrokerOpen, BrokerClose,
         ClockTicks, HistoryCatchesUp, Crash, Restart, EnsureTracker, HandOff,
         HandOffLost, Register, ReadPositions, LeaveOpen, PartialClose,
         ReadHistory, RecordPartialClose, RecordFinalClose, SkipOrphanCheck,
         BeginOrphanCheck, EndCheckPositions, FindOrphans, RecordOrphan,
         EndCheckOrphans, brokerVars, vars

\* The orphan check never touches the take-profit of a recorded position.
THEOREM KnownTargetKeptHolds == Spec => KnownTargetKept
<1>1. IndInv /\ [Next]_vars => [\A t \in OpenRows : target'[t] = target[t]]_vars
  BY StepKeepsTarget
<1>2. QED
  BY <1>1, IndInvHolds, PTL DEF Spec, KnownTargetKept
=============================================================================
