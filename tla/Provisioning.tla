----------------------------- MODULE Provisioning -----------------------------
(***************************************************************************)
(* Self-service provisioning of MT5 terminals: a broker_credentials row's  *)
(* provisioning_status, the users' endpoints that queue and remove         *)
(* accounts (app/routers/broker_credentials.py), the machine-facing claim, *)
(* complete and fail endpoints (internal_provisioning.py and               *)
(* internal_decommission.py), and the poller of each Windows machine that  *)
(* installs and tears down terminals (bridge/scripts/provisioning_poller). *)
(*                                                                         *)
(* The claims lock the row they take.  Every other endpoint reads the row, *)
(* decides, and writes at its commit without a lock: reading and writing   *)
(* are separate steps here.                                                *)
(***************************************************************************)
EXTENDS Naturals, FiniteSets

CONSTANTS Creds,        \* credential ids, ordered: claims take the lowest
          Machines,     \* machines that may be registered
          NoMachine,    \* provisioning_machine_id is NULL
          MaxAccounts,  \* max_accounts of a machine
          MaxRequests,  \* bound: remove and retry requests of users
          MaxFaults     \* bound: failed or lost calls, incomplete cleanups, crashes

ASSUME ProvisioningAssumption ==
    /\ Creds \subseteq Nat /\ IsFiniteSet(Creds)
    /\ NoMachine \notin Machines
    /\ MaxAccounts \in Nat \ {0}
    /\ {MaxRequests, MaxFaults} \subseteq Nat

VARIABLES
    row,         \* broker_credentials
    requests,    \* users' requests that have read their row, not yet written
    registered,  \* the provisioning_machines
    pc, job,     \* what each machine's poller does next, and for which account
    installed,   \* accounts whose terminal and service run on each machine
    asked, faults,
    overtaken,   \* history: rows written over a change made since the read
    foreign,     \* history: torn down on another machine than they run on
    leftover,    \* history: cleanups that left something running
    abandoned    \* history: claimed by a poller that does not know it, or
                 \* that could not report

budgetVars  == <<asked, faults>>
historyVars == <<overtaken, foreign, leftover, abandoned>>
pollerVars  == <<pc, job>>
vars == <<row, requests, registered, pollerVars, installed, budgetVars, historyVars>>

NoRow == [status |-> "none", machine |-> NoMachine, labelled |-> FALSE]

Claimed  == {"in_progress", "removing"}
Statuses == Claimed \cup
    {"none", "not_requested", "pending", "active", "failed",
     "decommissioning", "removed", "decommission_failed"}

\* A finished job is reported by /complete or /fail; "completing" and "failing"
\* are those calls between their read and their commit.
Busy  == {"working", "succeeded", "failed", "completing", "failing"}
NoJob == [kind |-> "none", cred |-> 0]
Jobs  == [kind : {"provision", "decommission"}, cred : Creds]

Init ==
    /\ row = [c \in Creds |-> NoRow]
    /\ requests = {}
    /\ registered = {}
    /\ pc = [m \in Machines |-> "idle"] /\ job = [m \in Machines |-> NoJob]
    /\ installed = [m \in Machines |-> {}]
    /\ asked = 0 /\ faults = 0
    /\ overtaken = {} /\ foreign = {} /\ leftover = {} /\ abandoned = {}

Fault == faults < MaxFaults /\ faults' = faults + 1

Lowest(S) == {c \in S : \A d \in S : c <= d}

WithStatus(s) == {c \in Creds : row[c].status = s}

(***************************************************************************)
(* Operations and users.                                                   *)
(***************************************************************************)
Register(m) ==
    /\ registered' = registered \cup {m}
    /\ m \notin registered
    /\ UNCHANGED <<row, requests, pollerVars, installed, budgetVars, historyVars>>

Create(c) ==
    /\ row[c] = NoRow
    /\ row' = [row EXCEPT ![c].status =
                   IF registered = {} THEN "not_requested" ELSE "pending"]
    /\ UNCHANGED <<requests, registered, pollerVars, installed, budgetVars, historyVars>>

\* Mutant: a removed account can be retried.
RetryableRemoved == {"failed", "removed"}

\* The statuses from which a request is not refused with a 409.
Retryable == {"failed"}
Removable == Statuses \ {"none", "in_progress", "decommissioning", "removing"}

Ask(op, c) ==
    /\ asked < MaxRequests
    /\ asked' = asked + 1
    /\ requests' = requests \cup {[op |-> op, cred |-> c, seen |-> row[c]]}
    /\ UNCHANGED <<row, registered, pollerVars, installed, faults, historyVars>>

ReadForRetry(c)  == row[c].status \in Retryable /\ Ask("retry", c)
ReadForRemove(c) == row[c].status \in Removable /\ Ask("remove", c)

\* A write at commit time, decided on what was read.
Write(c, seen, new) ==
    /\ row' = [row EXCEPT ![c] = new]
    /\ overtaken' = IF row[c] = seen THEN overtaken ELSE overtaken \cup {c}

RetryProvisioning(r) ==
    /\ r.op = "retry"
    /\ Write(r.cred, r.seen, [row[r.cred] EXCEPT !.status = "pending", !.machine = NoMachine])
    /\ requests' = requests \ {r}
    /\ UNCHANGED <<registered, pollerVars, installed, budgetVars, foreign, leftover, abandoned>>

\* Without a label nothing was ever installed; with one, a machine must do it.
RemoveCredential(r) ==
    /\ r.op = "remove"
    /\ IF ~r.seen.labelled
       THEN Write(r.cred, r.seen, [row[r.cred] EXCEPT !.status = "removed"])
       ELSE IF registered # {}
            THEN Write(r.cred, r.seen, [row[r.cred] EXCEPT !.status = "decommissioning"])
            ELSE UNCHANGED <<row, overtaken>>
    /\ requests' = requests \ {r}
    /\ UNCHANGED <<registered, pollerVars, installed, budgetVars, foreign, leftover, abandoned>>

(***************************************************************************)
(* The poller's two claims of a cycle.                                     *)
(***************************************************************************)
\* Mutant: finished jobs are not counted.
InFlightUnfinished(m) == {c \in Creds : row[c].machine = m /\ row[c].status = "in_progress"}
InFlight(m) == {c \in Creds : row[c].machine = m /\ row[c].status \in {"in_progress", "active"}}

AtCapacity(m) == Cardinality(InFlight(m)) >= MaxAccounts

Queued == WithStatus("pending")

\* Mutant: the label is left to the completion.
ClaimedRowUnlabelled(c, m, status) == [row[c] EXCEPT !.status = status, !.machine = m]
ClaimedRow(c, m, status) ==
    [row[c] EXCEPT !.status = status, !.machine = m, !.labelled = TRUE]

ClaimedStatus(kind) == IF kind = "provision" THEN "in_progress" ELSE "removing"

Goto(m, where) == pc' = [pc EXCEPT ![m] = where] /\ UNCHANGED job

\* The row is taken; the poller gets its job unless the reply is lost.
Claim(m, c, kind, next) ==
    /\ row' = [row EXCEPT ![c] = ClaimedRow(c, m, ClaimedStatus(kind))]
    /\ \/ /\ pc' = [pc EXCEPT ![m] = "working"]
          /\ job' = [job EXCEPT ![m] = [kind |-> kind, cred |-> c]]
          /\ UNCHANGED <<faults, abandoned>>
       \/ Fault /\ Goto(m, next) /\ abandoned' = abandoned \cup {c}

NoClaim(m, next) == Goto(m, next) /\ UNCHANGED <<row, abandoned>>

PollProvisioning(m) ==
    /\ m \in registered /\ pc[m] = "idle"
    /\ \/ ~AtCapacity(m) /\ \E c \in Lowest(Queued) : Claim(m, c, "provision", "second")
       \/ (AtCapacity(m) \/ Queued = {}) /\ NoClaim(m, "second") /\ UNCHANGED faults
       \/ \* the call does not get through
          Fault /\ NoClaim(m, "second")
    /\ UNCHANGED <<requests, registered, installed, asked, overtaken, foreign, leftover>>

Hosts(c) == {m \in Machines : c \in installed[m]}

\* Any machine is given any account's teardown.
ToTearDown(m) == WithStatus("decommissioning")

PollDecommission(m) ==
    /\ pc[m] = "second"
    /\ \/ \E c \in Lowest(ToTearDown(m)) :
             /\ Claim(m, c, "decommission", "idle")
             /\ foreign' = IF Hosts(c) \subseteq {m} THEN foreign ELSE foreign \cup {c}
       \/ ToTearDown(m) = {} /\ NoClaim(m, "idle") /\ UNCHANGED <<faults, foreign>>
       \/ Fault /\ NoClaim(m, "idle") /\ UNCHANGED foreign
    /\ UNCHANGED <<requests, registered, installed, asked, overtaken, leftover>>

(***************************************************************************)
(* The work on the machine.                                                *)
(***************************************************************************)
Working(m, kind) == pc[m] = "working" /\ job[m].kind = kind

Rest(m) ==
    /\ pc' = [pc EXCEPT ![m] = "idle"]
    /\ job' = [job EXCEPT ![m] = NoJob]

\* Mutant: a failed attempt is reported as a success.
FailedDoneWell(m) == Goto(m, "succeeded")
\* Mutant: a failed attempt is logged and not reported.
FailedSilently(m) == Rest(m)
Failed(m) == Goto(m, "failed")

Removed(m) == [installed EXCEPT ![m] = @ \ {job[m].cred}]
Kept(m)    == [installed EXCEPT ![m] = @ \cup {job[m].cred}]

\* Mutant: the cleanup is left to the next attempt.
AfterFailureUncleaned(m) == Kept(m)
AfterFailure(m) == Removed(m)

ProvisionAccount(m) ==
    /\ Working(m, "provision")
    /\ installed' = Kept(m)
    /\ Goto(m, "succeeded")
    /\ UNCHANGED <<row, requests, registered, budgetVars, historyVars>>

\* Cleans up before it starts and again when it fails; the results of the
\* commands that clean up are ignored.
ProvisionFails(m) ==
    /\ Working(m, "provision")
    /\ Failed(m)
    /\ \/ installed' = AfterFailure(m) /\ UNCHANGED <<faults, leftover>>
       \/ Fault /\ installed' = Kept(m) /\ leftover' = leftover \cup {job[m].cred}
    /\ UNCHANGED <<row, requests, registered, asked, overtaken, foreign, abandoned>>

DecommissionAccount(m) ==
    /\ Working(m, "decommission")
    /\ \/ installed' = Removed(m) /\ UNCHANGED <<faults, leftover>>
       \/ Fault /\ leftover' = leftover \cup {job[m].cred} /\ UNCHANGED installed
    /\ Goto(m, "succeeded")
    /\ UNCHANGED <<row, requests, registered, asked, overtaken, foreign, abandoned>>

\* A command that cannot even be run raises, before or after the terminal is gone.
DecommissionFails(m) ==
    /\ Working(m, "decommission")
    /\ Goto(m, "failed")
    /\ installed' \in {installed, Removed(m)}
    /\ UNCHANGED <<row, requests, registered, budgetVars, historyVars>>

(***************************************************************************)
(* The poller's report: it is made once and never repeated.                *)
(***************************************************************************)
\* The check of _claimed_row_or_409 and _claimed_decommission_row_or_409.
StillClaimed(m, kind, c) == row[c].machine = m /\ row[c].status = ClaimedStatus(kind)

Report(m) ==
    /\ pc[m] \in {"succeeded", "failed"}
    /\ \/ /\ StillClaimed(m, job[m].kind, job[m].cred)
          /\ Goto(m, IF pc[m] = "succeeded" THEN "completing" ELSE "failing")
          /\ UNCHANGED <<faults, abandoned>>
       \/ /\ \/ ~StillClaimed(m, job[m].kind, job[m].cred) /\ UNCHANGED faults
             \/ Fault
          /\ Rest(m)
          /\ abandoned' = abandoned \cup {job[m].cred}
    /\ UNCHANGED <<row, requests, registered, installed, asked, overtaken, foreign, leftover>>

Commit(m, call, kind, new) ==
    /\ pc[m] = call /\ job[m].kind = kind
    /\ row' = [row EXCEPT ![job[m].cred] = new]
    /\ overtaken' = IF StillClaimed(m, kind, job[m].cred) THEN overtaken
                                                        ELSE overtaken \cup {job[m].cred}
    /\ Rest(m)
    /\ UNCHANGED <<requests, registered, installed, budgetVars, foreign, leftover, abandoned>>

CompleteProvisioning(m) ==
    Commit(m, "completing", "provision", [row[job[m].cred] EXCEPT !.status = "active"])

FailProvisioning(m) ==
    Commit(m, "failing", "provision", [row[job[m].cred] EXCEPT !.status = "failed"])

CompleteDecommission(m) ==
    Commit(m, "completing", "decommission",
           [row[job[m].cred] EXCEPT !.status = "removed", !.machine = NoMachine])

FailDecommission(m) ==
    Commit(m, "failing", "decommission", [row[job[m].cred] EXCEPT !.status = "decommission_failed"])

\* The process dies with its job; the restarted poller only claims new ones.
Crash(m) ==
    /\ Fault
    /\ pc[m] \in {"working", "succeeded", "failed"}
    /\ Rest(m)
    /\ abandoned' = abandoned \cup {job[m].cred}
    /\ installed' \in {installed} \cup (IF Working(m, "provision") THEN {Kept(m), Removed(m)} ELSE {})
                                \cup (IF Working(m, "decommission") THEN {Removed(m)} ELSE {})
    /\ UNCHANGED <<row, requests, registered, asked, overtaken, foreign, leftover>>

Poller(m) ==
    \/ PollProvisioning(m) \/ PollDecommission(m)
    \/ ProvisionAccount(m) \/ ProvisionFails(m)
    \/ DecommissionAccount(m) \/ DecommissionFails(m)
    \/ Report(m)
    \/ CompleteProvisioning(m) \/ FailProvisioning(m)
    \/ CompleteDecommission(m) \/ FailDecommission(m)

Next ==
    \/ \E m \in Machines : Register(m) \/ Poller(m) \/ Crash(m)
    \/ \E c \in Creds : Create(c) \/ ReadForRetry(c) \/ ReadForRemove(c)
    \/ \E r \in requests : RetryProvisioning(r) \/ RemoveCredential(r)

Spec == Init /\ [][Next]_vars

\* A poller loops forever and its service restarts it (run_forever, nssm).
FairSpec == Spec /\ \A m \in Machines : WF_vars(Poller(m))

(***************************************************************************)
(* Safety.                                                                 *)
(***************************************************************************)
Rows == [status : Statuses, machine : Machines \cup {NoMachine}, labelled : BOOLEAN]

\* Every variable has its type, and a job being worked on names its machine:
\* what the ownership check of the reports compares (_claimed_row_or_409).
TypeOK ==
    /\ row \in [Creds -> Rows]
    /\ requests \subseteq [op : {"retry", "remove"}, cred : Creds, seen : Rows]
    /\ registered \subseteq Machines
    /\ pc \in [Machines -> {"idle", "second"} \cup Busy]
    /\ job \in [Machines -> Jobs \cup {NoJob}]
    /\ \A m \in Machines : pc[m] \in Busy <=> job[m] \in Jobs
    /\ installed \in [Machines -> SUBSET Creds]
    /\ asked \in 0..MaxRequests /\ faults \in 0..MaxFaults
    /\ overtaken \subseteq Creds /\ foreign \subseteq Creds
    /\ leftover \subseteq Creds /\ abandoned \subseteq Creds
    /\ \A c \in Creds : row[c].status \in Claimed /\ c \notin overtaken => row[c].machine \in Machines

Served(m) == {c \in Creds \ overtaken :
                row[c].machine = m /\ row[c].status \in {"in_progress", "active"}}

\* The accounts a machine serves or is setting up never exceed max_accounts,
\* whatever claims, lost replies, retries and crashes come together.
CapacityKept == \A m \in Machines : Cardinality(Served(m)) <= MaxAccounts

\* A terminal runs only for an account whose row says that this machine is
\* setting it up, serves it or has it to tear down: a failed, a removed or a
\* requeued account has none left behind.  Not so for a row written over a
\* newer change, for a teardown given to another machine, and for a cleanup
\* whose commands failed unnoticed.
TerminalsAccountedFor ==
    \A m \in Machines : \A c \in installed[m] \ (overtaken \cup foreign \cup leftover) :
        /\ row[c].machine = m
        /\ row[c].status \in Claimed \cup {"active", "decommissioning", "decommission_failed"}

\* An account shown as active has its terminal on the machine of its row.
ActiveIsServed ==
    \A c \in Creds \ overtaken :
        row[c].status = "active" => \E m \in Machines : row[c].machine = m /\ c \in installed[m]

(***************************************************************************)
(* What no step may do.                                                    *)
(***************************************************************************)
\* A removed account is never set up or served again: it can at most be queued
\* for another teardown.
RemovedIsFinal ==
    [][\A c \in Creds \ overtaken' :
          row[c].status = "removed" => row'[c].status \in {"removed", "decommissioning"}]_vars

(***************************************************************************)
(* The inductive invariant behind the safety properties.                   *)
(***************************************************************************)
Holding == Claimed \cup {"active", "decommissioning", "decommission_failed"}

\* A request has read a status that its endpoint accepts (retry_provisioning,
\* remove_broker_credential).
RequestsWereAllowed ==
    \A r \in requests : r.seen.status \in IF r.op = "retry" THEN Retryable ELSE Removable

\* The poller that holds a job is the one its row names, so the ownership check
\* of its report succeeds (_claimed_row_or_409).
JobsAreClaimed ==
    \A m \in Machines : pc[m] \in Busy /\ job[m].cred \notin overtaken
        => StillClaimed(m, job[m].kind, job[m].cred)

\* remove_broker_credential()'s signal: whatever may hold a terminal has a label.
HoldingIsLabelled ==
    \A c \in Creds \ overtaken :
        row[c].status \in Holding \cup {"failed"} => row[c].labelled

\* What a poller reports is what it has done to its machine (_poll_provisioning,
\* _poll_decommission).
ReportIsTrue ==
    \A m \in Machines :
        /\ pc[m] \in {"succeeded", "completing"} =>
               /\ job[m].kind = "provision" => job[m].cred \in installed[m]
               /\ job[m].kind = "decommission" => job[m].cred \notin installed[m] \ leftover
        /\ pc[m] \in {"failed", "failing"} /\ job[m].kind = "provision"
               => job[m].cred \notin installed[m] \ leftover

\* What the claims, the reports and the work on the machines preserve together:
\* the invariant that Provisioning_proofs shows to be inductive.
IndInv ==
    /\ TypeOK
    /\ RequestsWereAllowed
    /\ JobsAreClaimed
    /\ HoldingIsLabelled
    /\ ReportIsTrue
    /\ TerminalsAccountedFor
    /\ ActiveIsServed

(***************************************************************************)
(* Liveness.                                                               *)
(***************************************************************************)
\* A claimed job is reported, unless its poller lost it: nothing else leaves a
\* row in_progress or removing for good.
JobIsReported ==
    \A c \in Creds : row[c].status \in Claimed ~> (row[c].status \notin Claimed \/ c \in abandoned)

\* A queued account does not wait forever for a machine that has room, first
\* attempt or retry.
QueuedJobIsTaken ==
    \A c \in Creds, m \in Machines :
        []<>(row[c].status = "pending" /\ m \in registered => AtCapacity(m))

\* A teardown that was asked for is taken up by some machine, also when every
\* machine is full.
RemovalIsTaken ==
    \A c \in Creds : row[c].status = "decommissioning" ~> row[c].status # "decommissioning"

\* Every job is taken up and reported, but for those the named causes excuse.
JobsAreServed == JobIsReported /\ QueuedJobIsTaken /\ RemovalIsTaken

(***************************************************************************)
(* What the repository says and the code does not keep.                    *)
(***************************************************************************)
\* remove_broker_credential() removes an account without a teardown only if
\* "nothing exists anywhere to tear down": once no poller works on a removed
\* account, no machine runs it.
RemovedIsTornDown ==
    \A c \in Creds :
        row[c].status = "removed" /\ (\A m \in Machines : pc[m] \notin Busy)
            => Hosts(c) = {}
=============================================================================
