-------------------------- MODULE Provisioning_proofs --------------------------
(***************************************************************************)
(* Proofs about Provisioning, for any accounts, machines, capacity and     *)
(* number of requests and faults.                                          *)
(***************************************************************************)
EXTENDS Provisioning, FiniteSetTheorems, TLAPS

LEMMA InitIndInv == Init => IndInv
<1> SUFFICES ASSUME Init PROVE IndInv
  OBVIOUS
<1> USE ProvisioningAssumption DEF ProvisioningAssumption, Init, NoRow, NoJob
<1>1. /\ row \in [Creds -> Rows]
      /\ \A c \in Creds : row[c].status \notin Claimed
  BY DEF Rows, Statuses, Claimed
<1>2. /\ job \in [Machines -> Jobs \cup {NoJob}]
      /\ \A m \in Machines : pc[m] \in Busy <=> job[m] \in Jobs
  BY DEF Jobs, Busy
<1>3. /\ installed \in [Machines -> SUBSET Creds]
      /\ asked \in 0..MaxRequests /\ faults \in 0..MaxFaults
  OBVIOUS
<1>6. TypeOK
  BY <1>1, <1>2, <1>3 DEF TypeOK
<1>4. RequestsWereAllowed /\ JobsAreClaimed /\ HoldingIsLabelled
  BY DEF RequestsWereAllowed, JobsAreClaimed, HoldingIsLabelled, Busy, Holding, Claimed
<1>5. ReportIsTrue /\ TerminalsAccountedFor /\ ActiveIsServed
  BY DEF ReportIsTrue, TerminalsAccountedFor, ActiveIsServed
<1>7. QED
  BY <1>4, <1>5, <1>6 DEF IndInv

\* Each field of a row that an endpoint writes keeps its type.
LEMMA RowKeepsType ==
  ASSUME NEW r \in Rows, NEW s \in Statuses, NEW m \in Machines \cup {NoMachine}
  PROVE  /\ [r EXCEPT !.status = s] \in Rows
         /\ [r EXCEPT !.status = s, !.machine = m] \in Rows
         /\ [r EXCEPT !.status = s, !.machine = m, !.labelled = TRUE] \in Rows
  BY DEF Rows

-----------------------------------------------------------------------------
(* Taking a row: what both claims of a poller share *)

\* A claim of a row that nobody holds keeps the invariant; the terminal of a
\* teardown's account runs here, or the account becomes foreign.
LEMMA ClaimKeepsIndInv ==
  ASSUME IndInv, NEW m \in Machines, NEW c \in Creds, pc[m] \notin Busy,
         NEW kind \in {"provision", "decommission"}, NEW next \in {"idle", "second"},
         Claim(m, c, kind, next),
         \/ row[c].status = "pending" /\ UNCHANGED foreign
         \/ /\ row[c].status = "decommissioning"
            /\ foreign' = IF Hosts(c) \subseteq {m} THEN foreign ELSE foreign \cup {c},
         UNCHANGED <<requests, registered, installed, asked, overtaken, leftover>>
  PROVE  IndInv'
<1> USE DEF IndInv, TypeOK, Claim, ClaimedRow, Goto, Busy, Claimed
<1>1. row' \in [Creds -> Rows]
  BY RowKeepsType DEF Statuses, ClaimedStatus
<1>2. TypeOK'
  BY <1>1, ProvisioningAssumption
     DEF ProvisioningAssumption, Jobs, NoJob, Fault, Rows, ClaimedStatus
<1>3. RequestsWereAllowed' /\ JobsAreClaimed'
  BY DEF RequestsWereAllowed, JobsAreClaimed, Rows, Jobs, NoJob, StillClaimed, ClaimedStatus
<1>4. HoldingIsLabelled' /\ ReportIsTrue'
  BY DEF HoldingIsLabelled, ReportIsTrue, Holding, Rows, Jobs, NoJob, ClaimedStatus
<1>5. TerminalsAccountedFor' /\ ActiveIsServed'
  BY DEF TerminalsAccountedFor, ActiveIsServed, Hosts, Rows, ClaimedStatus
<1>6. QED
  BY <1>2, <1>3, <1>4, <1>5

LEMMA NoClaimKeepsIndInv ==
  ASSUME IndInv, NEW m \in Machines, pc[m] \notin Busy, NEW next \in {"idle", "second"},
         NoClaim(m, next), UNCHANGED faults \/ Fault,
         UNCHANGED <<requests, registered, installed, asked, overtaken, foreign, leftover>>
  PROVE  IndInv'
<1> USE DEF IndInv, TypeOK, NoClaim, Goto, Busy
<1>1. TypeOK'
  BY ProvisioningAssumption DEF ProvisioningAssumption, Jobs, NoJob, Fault
<1>2. QED
  BY <1>1 DEF RequestsWereAllowed, JobsAreClaimed, HoldingIsLabelled, ReportIsTrue,
     TerminalsAccountedFor, ActiveIsServed, StillClaimed

-----------------------------------------------------------------------------
(* Every step keeps the inductive invariant: one step of the proof per action *)

LEMMA NextIndInv == IndInv /\ [Next]_vars => IndInv'
<1> SUFFICES ASSUME IndInv, [Next]_vars PROVE IndInv'
  OBVIOUS
<1> USE ProvisioningAssumption
    DEF ProvisioningAssumption, IndInv, TypeOK, Busy, Claimed, Jobs, NoJob,
        StillClaimed, ClaimedStatus, budgetVars, historyVars, pollerVars
<1>1. ASSUME NEW m \in Machines, Register(m)
      PROVE  IndInv'
  <2> USE <1>1 DEF Register
  <2>1. TypeOK'
    BY DEF Rows
  <2>2. RequestsWereAllowed' /\ JobsAreClaimed' /\ HoldingIsLabelled'
    BY DEF RequestsWereAllowed, JobsAreClaimed, HoldingIsLabelled, Holding, Rows
  <2>3. ReportIsTrue' /\ TerminalsAccountedFor' /\ ActiveIsServed'
    BY DEF ReportIsTrue, TerminalsAccountedFor, ActiveIsServed, JobsAreClaimed
  <2>4. QED
    BY <2>1, <2>2, <2>3
<1>2. ASSUME NEW c \in Creds, Create(c)
      PROVE  IndInv'
  <2> USE <1>2 DEF Create
  <2>1. row' \in [Creds -> Rows]
    BY DEF Rows, NoRow, Statuses
  <2>2. TypeOK'
    BY <2>1 DEF Rows
  <2>3. RequestsWereAllowed' /\ JobsAreClaimed' /\ HoldingIsLabelled'
    BY DEF RequestsWereAllowed, JobsAreClaimed, HoldingIsLabelled, Holding, Rows, NoRow
  <2>4. ReportIsTrue' /\ TerminalsAccountedFor' /\ ActiveIsServed'
    BY DEF ReportIsTrue, TerminalsAccountedFor, ActiveIsServed, JobsAreClaimed, NoRow
  <2>5. QED
    BY <2>2, <2>3, <2>4
<1>3. ASSUME NEW c \in Creds, ReadForRetry(c)
      PROVE  IndInv'
  <2> USE <1>3 DEF ReadForRetry, Ask, Retryable
  <2>1. TypeOK'
    BY DEF Rows
  <2>2. RequestsWereAllowed' /\ JobsAreClaimed' /\ HoldingIsLabelled'
    BY DEF RequestsWereAllowed, JobsAreClaimed, HoldingIsLabelled, Holding, Rows
  <2>3. ReportIsTrue' /\ TerminalsAccountedFor' /\ ActiveIsServed'
    BY DEF ReportIsTrue, TerminalsAccountedFor, ActiveIsServed, JobsAreClaimed
  <2>4. QED
    BY <2>1, <2>2, <2>3
<1>4. ASSUME NEW c \in Creds, ReadForRemove(c)
      PROVE  IndInv'
  <2> USE <1>4 DEF ReadForRemove, Ask, Removable
  <2>1. TypeOK'
    BY DEF Rows
  <2>2. RequestsWereAllowed' /\ JobsAreClaimed' /\ HoldingIsLabelled'
    BY DEF RequestsWereAllowed, JobsAreClaimed, HoldingIsLabelled, Holding, Rows
  <2>3. ReportIsTrue' /\ TerminalsAccountedFor' /\ ActiveIsServed'
    BY DEF ReportIsTrue, TerminalsAccountedFor, ActiveIsServed, JobsAreClaimed
  <2>4. QED
    BY <2>1, <2>2, <2>3
<1>5. ASSUME NEW r \in requests, RetryProvisioning(r)
      PROVE  IndInv'
  <2> USE <1>5 DEF RetryProvisioning, Write
  <2>1. r.cred \in Creds /\ row[r.cred] \in Rows
    OBVIOUS
  <2>2. row' \in [Creds -> Rows]
    BY <2>1, RowKeepsType DEF Statuses
  <2>3. TypeOK'
    BY <2>2 DEF Rows
  <2>4. RequestsWereAllowed' /\ JobsAreClaimed' /\ HoldingIsLabelled'
    BY DEF Retryable, RequestsWereAllowed, JobsAreClaimed, HoldingIsLabelled,
           Holding, Rows
  <2>5. ReportIsTrue' /\ TerminalsAccountedFor' /\ ActiveIsServed'
    BY DEF ReportIsTrue, TerminalsAccountedFor, ActiveIsServed, JobsAreClaimed,
           Retryable, RequestsWereAllowed, HoldingIsLabelled, Holding, Rows
  <2>6. QED
    BY <2>3, <2>4, <2>5
<1>6. ASSUME NEW r \in requests, RemoveCredential(r)
      PROVE  IndInv'
  <2> USE <1>6 DEF RemoveCredential, Write
  <2>1. r.cred \in Creds /\ row[r.cred] \in Rows
    OBVIOUS
  <2>2. /\ [row[r.cred] EXCEPT !.status = "removed"] \in Rows
        /\ [row[r.cred] EXCEPT !.status = "decommissioning"] \in Rows
    BY <2>1, RowKeepsType DEF Statuses
  <2>3. row' \in [Creds -> Rows]
    BY <2>1, <2>2
  <2>4. \A c \in Creds : row'[c].status \in Claimed /\ c \notin overtaken'
                         => row'[c].machine \in Machines
    BY <2>1 DEF Rows
  <2>5. overtaken' \subseteq Creds /\ requests' \subseteq requests
    BY <2>1
  <2>6. TypeOK'
    BY <2>3, <2>4, <2>5
  <2>7. RequestsWereAllowed' /\ JobsAreClaimed' /\ HoldingIsLabelled'
    <3>1. RequestsWereAllowed'
      BY DEF RequestsWereAllowed
    <3>2. JobsAreClaimed'
      BY DEF Removable, RequestsWereAllowed, JobsAreClaimed, Rows
    <3>3. HoldingIsLabelled'
      BY <2>1 DEF HoldingIsLabelled, Holding, Rows
    <3>4. QED
      BY <3>1, <3>2, <3>3
  <2>8. ReportIsTrue' /\ TerminalsAccountedFor' /\ ActiveIsServed'
    BY DEF ReportIsTrue, TerminalsAccountedFor, ActiveIsServed, JobsAreClaimed,
           Removable, RequestsWereAllowed, HoldingIsLabelled, Holding, Rows
  <2>9. QED
    BY <2>6, <2>7, <2>8
<1>7. ASSUME NEW m \in Machines, PollProvisioning(m)
      PROVE  IndInv'
  <2>1. \A c \in Lowest(Queued) : c \in Creds /\ row[c].status = "pending"
    BY DEF Lowest, Queued, WithStatus
  <2>2. CASE \E c \in Lowest(Queued) : Claim(m, c, "provision", "second")
    BY <1>7, <2>1, <2>2, ClaimKeepsIndInv DEF PollProvisioning
  <2>3. CASE NoClaim(m, "second") /\ (UNCHANGED faults \/ Fault)
    BY <1>7, <2>3, NoClaimKeepsIndInv DEF PollProvisioning
  <2>4. QED
    BY <1>7, <2>2, <2>3 DEF PollProvisioning
<1>8. ASSUME NEW m \in Machines, PollDecommission(m)
      PROVE  IndInv'
  <2>1. \A c \in Lowest(ToTearDown(m)) : c \in Creds /\ row[c].status = "decommissioning"
    BY DEF Lowest, ToTearDown, WithStatus
  <2>2. CASE \E c \in Lowest(ToTearDown(m)) :
               /\ Claim(m, c, "decommission", "idle")
               /\ foreign' = IF Hosts(c) \subseteq {m} THEN foreign ELSE foreign \cup {c}
    BY <1>8, <2>1, <2>2, ClaimKeepsIndInv DEF PollDecommission
  <2>3. CASE NoClaim(m, "idle") /\ (UNCHANGED faults \/ Fault) /\ UNCHANGED foreign
    BY <1>8, <2>3, NoClaimKeepsIndInv DEF PollDecommission
  <2>4. QED
    BY <1>8, <2>2, <2>3 DEF PollDecommission
<1>9. ASSUME NEW m \in Machines, ProvisionAccount(m)
      PROVE  IndInv'
  <2> USE <1>9 DEF ProvisionAccount, Working, Kept, Goto
  <2>1. TypeOK'
    BY DEF Rows
  <2>2. RequestsWereAllowed' /\ JobsAreClaimed' /\ HoldingIsLabelled'
    BY DEF RequestsWereAllowed, JobsAreClaimed, HoldingIsLabelled, Holding, Rows
  <2>3. ReportIsTrue' /\ TerminalsAccountedFor' /\ ActiveIsServed'
    BY DEF ReportIsTrue, TerminalsAccountedFor, ActiveIsServed, JobsAreClaimed
  <2>4. QED
    BY <2>1, <2>2, <2>3
<1>10. ASSUME NEW m \in Machines, ProvisionFails(m)
      PROVE  IndInv'
  <2> USE <1>10 DEF ProvisionFails, Working, Kept, Removed, AfterFailure, Failed, Goto, Fault
  <2>1. /\ job' \in [Machines -> Jobs \cup {NoJob}]
        /\ \A x \in Machines : pc'[x] \in Busy <=> job'[x] \in Jobs
    OBVIOUS
  <2>2. /\ installed' \in [Machines -> SUBSET Creds]
        /\ faults' \in 0..MaxFaults
    OBVIOUS
  <2>3. /\ pc' \in [Machines -> {"idle", "second"} \cup Busy]
        /\ leftover' \subseteq Creds /\ abandoned' \subseteq Creds
    <3>1. pc' \in [Machines -> {"idle", "second"} \cup Busy]
      OBVIOUS
    <3>2. leftover' \subseteq Creds /\ abandoned' \subseteq Creds
      OBVIOUS
    <3>3. QED
      BY <3>1, <3>2
  <2>4. TypeOK'
    BY <2>1, <2>2, <2>3
  <2>5. RequestsWereAllowed' /\ JobsAreClaimed' /\ HoldingIsLabelled'
    BY DEF RequestsWereAllowed, JobsAreClaimed, HoldingIsLabelled, Holding, Rows
  <2>6. ReportIsTrue' /\ TerminalsAccountedFor' /\ ActiveIsServed'
    <3>1. CASE installed' = AfterFailure(m) /\ UNCHANGED <<faults, leftover>>
      BY <3>1 DEF ReportIsTrue, TerminalsAccountedFor, ActiveIsServed, JobsAreClaimed
    <3>2. CASE Fault /\ installed' = Kept(m) /\ leftover' = leftover \cup {job[m].cred}
      BY <3>2 DEF ReportIsTrue, TerminalsAccountedFor, ActiveIsServed, JobsAreClaimed
    <3>3. QED
      BY <3>1, <3>2
  <2>7. QED
    BY <2>4, <2>5, <2>6
<1>11. ASSUME NEW m \in Machines, DecommissionAccount(m)
      PROVE  IndInv'
  <2> USE <1>11 DEF DecommissionAccount, Working, Removed, Goto, Fault
  <2>1. /\ job' \in [Machines -> Jobs \cup {NoJob}]
        /\ \A x \in Machines : pc'[x] \in Busy <=> job'[x] \in Jobs
    OBVIOUS
  <2>2. /\ installed' \in [Machines -> SUBSET Creds]
        /\ faults' \in 0..MaxFaults
    OBVIOUS
  <2>3. /\ pc' \in [Machines -> {"idle", "second"} \cup Busy]
        /\ leftover' \subseteq Creds /\ abandoned' \subseteq Creds
    <3>1. pc' \in [Machines -> {"idle", "second"} \cup Busy]
      OBVIOUS
    <3>2. leftover' \subseteq Creds /\ abandoned' \subseteq Creds
      OBVIOUS
    <3>3. QED
      BY <3>1, <3>2
  <2>4. TypeOK'
    BY <2>1, <2>2, <2>3
  <2>5. RequestsWereAllowed' /\ JobsAreClaimed' /\ HoldingIsLabelled'
    BY DEF RequestsWereAllowed, JobsAreClaimed, HoldingIsLabelled, Holding, Rows
  <2>6. ReportIsTrue' /\ TerminalsAccountedFor' /\ ActiveIsServed'
    <3>1. CASE installed' = Removed(m) /\ UNCHANGED <<faults, leftover>>
      BY <3>1 DEF ReportIsTrue, TerminalsAccountedFor, ActiveIsServed, JobsAreClaimed
    <3>2. CASE Fault /\ leftover' = leftover \cup {job[m].cred} /\ UNCHANGED installed
      BY <3>2 DEF ReportIsTrue, TerminalsAccountedFor, ActiveIsServed, JobsAreClaimed
    <3>3. QED
      BY <3>1, <3>2
  <2>7. QED
    BY <2>4, <2>5, <2>6
<1>12. ASSUME NEW m \in Machines, DecommissionFails(m)
      PROVE  IndInv'
  <2> USE <1>12 DEF DecommissionFails, Working, Removed, Goto
  <2>1. TypeOK'
    BY DEF Rows
  <2>2. RequestsWereAllowed' /\ JobsAreClaimed' /\ HoldingIsLabelled'
    BY DEF RequestsWereAllowed, JobsAreClaimed, HoldingIsLabelled, Holding, Rows
  <2>3. ReportIsTrue' /\ TerminalsAccountedFor' /\ ActiveIsServed'
    BY DEF ReportIsTrue, TerminalsAccountedFor, ActiveIsServed, JobsAreClaimed
  <2>4. QED
    BY <2>1, <2>2, <2>3
<1>13. ASSUME NEW m \in Machines, Report(m)
      PROVE  IndInv'
  <2> USE <1>13 DEF Report, Goto, Rest, Fault
  <2>1. /\ job' \in [Machines -> Jobs \cup {NoJob}]
        /\ \A x \in Machines : pc'[x] \in Busy <=> job'[x] \in Jobs
    OBVIOUS
  <2>2. /\ installed' \in [Machines -> SUBSET Creds]
        /\ faults' \in 0..MaxFaults
    OBVIOUS
  <2>3. /\ pc' \in [Machines -> {"idle", "second"} \cup Busy]
        /\ leftover' \subseteq Creds /\ abandoned' \subseteq Creds
    <3>1. pc' \in [Machines -> {"idle", "second"} \cup Busy]
      OBVIOUS
    <3>2. job[m] \in Jobs /\ job[m].cred \in Creds
      OBVIOUS
    <3>3. leftover' = leftover /\ abandoned' \subseteq abandoned \cup {job[m].cred}
      OBVIOUS
    <3>4. QED
      BY <3>1, <3>2, <3>3
  <2>4. TypeOK'
    BY <2>1, <2>2, <2>3
  <2>5. RequestsWereAllowed' /\ JobsAreClaimed' /\ HoldingIsLabelled'
    BY DEF RequestsWereAllowed, JobsAreClaimed, HoldingIsLabelled, Holding, Rows
  <2>6. ReportIsTrue' /\ TerminalsAccountedFor' /\ ActiveIsServed'
    BY DEF ReportIsTrue, TerminalsAccountedFor, ActiveIsServed, JobsAreClaimed
  <2>7. QED
    BY <2>4, <2>5, <2>6
<1>14. ASSUME NEW m \in Machines, CompleteProvisioning(m)
      PROVE  IndInv'
  <2> USE <1>14 DEF CompleteProvisioning, Commit, Rest
  <2>1. row' \in [Creds -> Rows]
    BY RowKeepsType DEF Statuses
  <2>2. TypeOK'
    BY <2>1 DEF Rows
  <2>3. RequestsWereAllowed' /\ JobsAreClaimed' /\ HoldingIsLabelled'
    BY DEF RequestsWereAllowed, JobsAreClaimed, HoldingIsLabelled, Holding, Rows
  <2>4. ReportIsTrue' /\ TerminalsAccountedFor' /\ ActiveIsServed'
    BY DEF ReportIsTrue, TerminalsAccountedFor, ActiveIsServed, JobsAreClaimed
  <2>5. QED
    BY <2>2, <2>3, <2>4
<1>15. ASSUME NEW m \in Machines, FailProvisioning(m)
      PROVE  IndInv'
  <2> USE <1>15 DEF FailProvisioning, Commit, Rest
  <2>1. row' \in [Creds -> Rows]
    BY RowKeepsType DEF Statuses
  <2>2. TypeOK'
    BY <2>1 DEF Rows
  <2>3. RequestsWereAllowed' /\ JobsAreClaimed' /\ HoldingIsLabelled'
    BY DEF RequestsWereAllowed, JobsAreClaimed, HoldingIsLabelled, Holding, Rows
  <2>4. ReportIsTrue' /\ TerminalsAccountedFor' /\ ActiveIsServed'
    BY DEF ReportIsTrue, TerminalsAccountedFor, ActiveIsServed, JobsAreClaimed
  <2>5. QED
    BY <2>2, <2>3, <2>4
<1>16. ASSUME NEW m \in Machines, CompleteDecommission(m)
      PROVE  IndInv'
  <2> USE <1>16 DEF CompleteDecommission, Commit, Rest
  <2>1. row' \in [Creds -> Rows]
    BY RowKeepsType DEF Statuses
  <2>2. TypeOK'
    BY <2>1 DEF Rows
  <2>3. RequestsWereAllowed' /\ JobsAreClaimed' /\ HoldingIsLabelled'
    BY DEF RequestsWereAllowed, JobsAreClaimed, HoldingIsLabelled, Holding, Rows
  <2>4. ReportIsTrue' /\ TerminalsAccountedFor' /\ ActiveIsServed'
    BY DEF ReportIsTrue, TerminalsAccountedFor, ActiveIsServed, JobsAreClaimed
  <2>5. QED
    BY <2>2, <2>3, <2>4
<1>17. ASSUME NEW m \in Machines, FailDecommission(m)
      PROVE  IndInv'
  <2> USE <1>17 DEF FailDecommission, Commit, Rest
  <2>1. row' \in [Creds -> Rows]
    BY RowKeepsType DEF Statuses
  <2>2. TypeOK'
    BY <2>1 DEF Rows
  <2>3. RequestsWereAllowed' /\ JobsAreClaimed' /\ HoldingIsLabelled'
    BY DEF RequestsWereAllowed, JobsAreClaimed, HoldingIsLabelled, Holding, Rows
  <2>4. ReportIsTrue' /\ TerminalsAccountedFor' /\ ActiveIsServed'
    BY DEF ReportIsTrue, TerminalsAccountedFor, ActiveIsServed, JobsAreClaimed
  <2>5. QED
    BY <2>2, <2>3, <2>4
<1>18. ASSUME NEW m \in Machines, Crash(m)
      PROVE  IndInv'
  <2> USE <1>18 DEF Crash, Fault, Rest, Working, Kept, Removed
  <2>1. /\ job' \in [Machines -> Jobs \cup {NoJob}]
        /\ \A x \in Machines : pc'[x] \in Busy <=> job'[x] \in Jobs
    OBVIOUS
  <2>2. /\ installed' \in [Machines -> SUBSET Creds]
        /\ faults' \in 0..MaxFaults
    OBVIOUS
  <2>3. /\ pc' \in [Machines -> {"idle", "second"} \cup Busy]
        /\ leftover' \subseteq Creds /\ abandoned' \subseteq Creds
    <3>1. pc' \in [Machines -> {"idle", "second"} \cup Busy]
      OBVIOUS
    <3>2. leftover' \subseteq Creds /\ abandoned' \subseteq Creds
      OBVIOUS
    <3>3. QED
      BY <3>1, <3>2
  <2>4. TypeOK'
    BY <2>1, <2>2, <2>3
  <2>5. RequestsWereAllowed' /\ JobsAreClaimed' /\ HoldingIsLabelled'
    BY DEF RequestsWereAllowed, JobsAreClaimed, HoldingIsLabelled, Holding, Rows
  <2>6. ReportIsTrue' /\ TerminalsAccountedFor' /\ ActiveIsServed'
    BY DEF ReportIsTrue, TerminalsAccountedFor, ActiveIsServed, JobsAreClaimed
  <2>7. QED
    BY <2>4, <2>5, <2>6
<1>19. CASE UNCHANGED vars
  BY <1>19 DEF vars, RequestsWereAllowed, JobsAreClaimed, HoldingIsLabelled, ReportIsTrue,
     TerminalsAccountedFor, ActiveIsServed
<1>20. QED
  BY <1>1, <1>2, <1>3, <1>4, <1>5, <1>6, <1>7, <1>8, <1>9, <1>10, <1>11,
     <1>12, <1>13, <1>14, <1>15, <1>16, <1>17, <1>18, <1>19
     DEF Next, Poller

\* The inductive invariant: rows, jobs and machines agree in every state of the
\* claim, work and report protocol.
THEOREM IndInvHolds == Spec => []IndInv
<1>1. IndInv /\ [Next]_vars => IndInv'
  BY NextIndInv
<1>2. QED
  BY <1>1, InitIndInv, PTL DEF Spec

\* The variables keep their types, for any accounts, machines and bounds.
THEOREM TypeCorrect == Spec => []TypeOK
<1>1. IndInv => TypeOK
  BY DEF IndInv
<1>2. QED
  BY <1>1, IndInvHolds, PTL

\* A terminal runs only where its account's row says it may
\* (claim, complete, fail and remove endpoints with the poller).
THEOREM TerminalsAccountedForHolds == Spec => []TerminalsAccountedFor
<1>1. IndInv => TerminalsAccountedFor
  BY DEF IndInv
<1>2. QED
  BY <1>1, IndInvHolds, PTL

\* An account shown as active has its terminal on the machine of its row.
THEOREM ActiveIsServedHolds == Spec => []ActiveIsServed
<1>1. IndInv => ActiveIsServed
  BY DEF IndInv
<1>2. QED
  BY <1>1, IndInvHolds, PTL

-----------------------------------------------------------------------------
(* No machine is given more than it has room for *)

\* A step adds an account to those a machine serves only by the claim of a
\* machine that is not at capacity; reports move a row on in place.
LEMMA ServedGrowsWithRoom ==
  ASSUME IndInv, [Next]_vars, NEW x \in Machines
  PROVE  \/ Served(x)' \subseteq Served(x)
         \/ /\ ~AtCapacity(x)
            /\ \E c \in Creds : Served(x)' \subseteq InFlight(x) \cup {c}
<1> USE DEF IndInv, TypeOK, Served
<1>1. CASE UNCHANGED <<row, overtaken>>
  BY <1>1
<1>2. ASSUME NEW d \in Creds, Create(d)
      PROVE  Served(x)' \subseteq Served(x)
  BY <1>2 DEF Create, NoRow, historyVars
<1>3. ASSUME NEW r \in requests, RetryProvisioning(r)
      PROVE  Served(x)' \subseteq Served(x)
  BY <1>3 DEF RetryProvisioning, Write
<1>4. ASSUME NEW r \in requests, RemoveCredential(r)
      PROVE  Served(x)' \subseteq Served(x)
  <2>1. \A c \in Creds : row'[c] = row[c] \/ row'[c].status \notin {"in_progress", "active"}
    BY <1>4 DEF RemoveCredential, Write, Rows
  <2>2. overtaken \subseteq overtaken'
    BY <1>4 DEF RemoveCredential, Write, Rows
  <2>3. QED
    BY <2>1, <2>2
<1>5. ASSUME NEW m \in Machines, PollProvisioning(m)
      PROVE  \/ Served(x)' \subseteq Served(x)
             \/ /\ ~AtCapacity(x)
                /\ \E c \in Creds : Served(x)' \subseteq InFlight(x) \cup {c}
  <2>1. CASE NoClaim(m, "second")
    BY <1>5, <2>1 DEF PollProvisioning, NoClaim
  <2>2. ASSUME NEW c \in Lowest(Queued), Claim(m, c, "provision", "second"), ~AtCapacity(m)
        PROVE  \/ Served(x)' \subseteq Served(x)
               \/ /\ ~AtCapacity(x)
                  /\ \E d \in Creds : Served(x)' \subseteq InFlight(x) \cup {d}
    <3>1. c \in Creds /\ UNCHANGED overtaken
      BY <1>5 DEF PollProvisioning, Lowest, Queued, WithStatus
    <3>2. row' = [row EXCEPT ![c] = ClaimedRow(c, m, "in_progress")]
      BY <2>2 DEF Claim, ClaimedStatus
    <3>3. CASE x = m
      BY <2>2, <3>1, <3>2, <3>3 DEF InFlight
    <3>4. CASE x # m
      BY <3>1, <3>2, <3>4 DEF ClaimedRow, Rows
    <3>5. QED
      BY <3>3, <3>4
  <2>3. QED
    BY <1>5, <2>1, <2>2 DEF PollProvisioning
<1>6. ASSUME NEW m \in Machines, PollDecommission(m)
      PROVE  Served(x)' \subseteq Served(x)
  <2>1. \A c \in Creds : row'[c] = row[c] \/ row'[c].status \notin {"in_progress", "active"}
    <3>1. CASE UNCHANGED row
      BY <3>1
    <3>2. ASSUME NEW c \in Creds, Claim(m, c, "decommission", "idle")
          PROVE  \A d \in Creds : row'[d] = row[d] \/ row'[d].status = "removing"
      BY <3>2 DEF Claim, ClaimedRow, ClaimedStatus, Rows
    <3>3. QED
      BY <1>6, <3>1, <3>2 DEF PollDecommission, NoClaim, Lowest, ToTearDown, WithStatus
  <2>2. overtaken \subseteq overtaken'
    BY <1>6 DEF PollDecommission
  <2>3. QED
    BY <2>1, <2>2
<1>7. ASSUME NEW m \in Machines, CompleteProvisioning(m)
      PROVE  Served(x)' \subseteq Served(x)
  BY <1>7 DEF CompleteProvisioning, Commit, StillClaimed, ClaimedStatus
<1>8. ASSUME NEW m \in Machines, FailProvisioning(m)
      PROVE  Served(x)' \subseteq Served(x)
  BY <1>8 DEF FailProvisioning, Commit
<1>9. ASSUME NEW m \in Machines, CompleteDecommission(m)
      PROVE  Served(x)' \subseteq Served(x)
  BY <1>9 DEF CompleteDecommission, Commit
<1>10. ASSUME NEW m \in Machines, FailDecommission(m)
       PROVE  Served(x)' \subseteq Served(x)
  BY <1>10 DEF FailDecommission, Commit
<1>11. CASE UNCHANGED vars
  BY <1>11 DEF vars, historyVars
<1>12. QED
  BY <1>1, <1>2, <1>3, <1>4, <1>5, <1>6, <1>7, <1>8, <1>9, <1>10, <1>11
     DEF Next, Poller, Register, ReadForRetry, ReadForRemove, Ask, ProvisionAccount,
         ProvisionFails, DecommissionAccount, DecommissionFails, Report, Crash, historyVars

LEMMA CapacityPreserved ==
  ASSUME IndInv, CapacityKept, [Next]_vars
  PROVE  CapacityKept'
<1> SUFFICES ASSUME NEW x \in Machines PROVE Cardinality(Served(x)') <= MaxAccounts
  BY DEF CapacityKept
<1>1. /\ IsFiniteSet(Served(x)) /\ IsFiniteSet(InFlight(x))
      /\ IsFiniteSet(Served(x)') /\ MaxAccounts \in Nat
  BY ProvisioningAssumption, FS_Subset DEF ProvisioningAssumption, Served, InFlight
<1>2. CASE Served(x)' \subseteq Served(x)
  <2>1. Cardinality(Served(x)') <= Cardinality(Served(x))
    BY <1>1, <1>2, FS_Subset
  <2>2. Cardinality(Served(x)) <= MaxAccounts
    BY DEF CapacityKept
  <2>3. QED
    BY <1>1, <2>1, <2>2, FS_CardinalityType
<1>3. ASSUME ~AtCapacity(x), NEW c \in Creds, Served(x)' \subseteq InFlight(x) \cup {c}
      PROVE  Cardinality(Served(x)') <= MaxAccounts
  <2>1. /\ IsFiniteSet(InFlight(x) \cup {c})
        /\ Cardinality(InFlight(x) \cup {c}) <= Cardinality(InFlight(x)) + 1
    <3>1. Cardinality(InFlight(x)) \in Nat
      BY <1>1, FS_CardinalityType
    <3>2. /\ IsFiniteSet(InFlight(x) \cup {c})
          /\ Cardinality(InFlight(x) \cup {c}) =
                IF c \in InFlight(x) THEN Cardinality(InFlight(x))
                                   ELSE Cardinality(InFlight(x)) + 1
      BY <1>1, FS_AddElement
    <3>3. QED
      BY <3>1, <3>2
  <2>2. Cardinality(Served(x)') <= Cardinality(InFlight(x) \cup {c})
    BY <1>3, <2>1, FS_Subset
  <2>3. Cardinality(InFlight(x)) < MaxAccounts
    BY <1>1, <1>3, FS_CardinalityType DEF AtCapacity
  <2>4. QED
    BY <1>1, <2>1, <2>2, <2>3, FS_CardinalityType
<1>4. QED
  BY <1>2, <1>3, ServedGrowsWithRoom

\* max_accounts of a machine is never exceeded (the claim's count of its rows).
THEOREM CapacityKeptHolds == Spec => []CapacityKept
<1>1. Init => CapacityKept
  <2> SUFFICES ASSUME Init, NEW m \in Machines
               PROVE  Cardinality(Served(m)) <= MaxAccounts
    BY DEF CapacityKept
  <2>1. Served(m) = {}
    BY DEF Init, Served, NoRow
  <2>2. QED
    BY <2>1, FS_EmptySet, ProvisioningAssumption DEF ProvisioningAssumption
<1>2. IndInv /\ CapacityKept /\ [Next]_vars => CapacityKept'
  BY CapacityPreserved
<1>3. QED
  BY <1>1, <1>2, IndInvHolds, PTL DEF Spec

-----------------------------------------------------------------------------
(* A removed account stays removed *)

\* Only a row in another status is created, retried or reported on, unless the
\* write overtakes a change; a removal requests at most another teardown.
LEMMA RemovedStaysRemoved ==
  ASSUME IndInv, Next, NEW c \in Creds \ overtaken', row[c].status = "removed"
  PROVE  row'[c].status \in {"removed", "decommissioning"}
<1> USE DEF IndInv, TypeOK
<1>1. CASE UNCHANGED row
  BY <1>1
<1>2. ASSUME NEW d \in Creds, Create(d)
      PROVE  row'[c] = row[c]
  BY <1>2 DEF Create, NoRow
<1>3. ASSUME NEW r \in requests, RetryProvisioning(r)
      PROVE  row'[c] = row[c]
  BY <1>3 DEF RetryProvisioning, Write, RequestsWereAllowed, Retryable
<1>4. ASSUME NEW r \in requests, RemoveCredential(r)
      PROVE  row'[c].status \in {"removed", "decommissioning"}
  BY <1>4 DEF RemoveCredential, Write, Rows
<1>5. ASSUME NEW m \in Machines, PollProvisioning(m) \/ PollDecommission(m)
      PROVE  row'[c] = row[c]
  BY <1>5 DEF PollProvisioning, PollDecommission, Claim, NoClaim, Lowest, Queued,
              ToTearDown, WithStatus
<1>6. ASSUME NEW m \in Machines, NEW call, NEW kind, NEW new, Commit(m, call, kind, new)
      PROVE  row'[c] = row[c]
  BY <1>6 DEF Commit, StillClaimed, ClaimedStatus
<1>7. QED
  BY <1>1, <1>2, <1>3, <1>4, <1>5, <1>6
     DEF Next, Poller, Register, ReadForRetry, ReadForRemove, Ask, ProvisionAccount,
         ProvisionFails, DecommissionAccount, DecommissionFails, Report, Crash,
         CompleteProvisioning, FailProvisioning, CompleteDecommission, FailDecommission

\* A removed account is never set up or served again (retry_provisioning, claims).
THEOREM RemovedIsFinalHolds == Spec => RemovedIsFinal
<1>1. IndInv /\ [Next]_vars
        => [\A c \in Creds \ overtaken' :
               row[c].status = "removed" => row'[c].status \in {"removed", "decommissioning"}]_vars
  BY RemovedStaysRemoved
<1>2. QED
  BY <1>1, IndInvHolds, PTL DEF Spec, RemovedIsFinal
=============================================================================
