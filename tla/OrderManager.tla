----------------------------- MODULE OrderManager -----------------------------
(***************************************************************************)
(* One OrderManager (shadow_runner/order_manager.py): the candidates of    *)
(* one trading day of one subscriber race for the day's single position.   *)
(* Every candidate gets a pending limit order at the broker; the first     *)
(* fill the manager detects wins and its siblings are cancelled.           *)
(*                                                                         *)
(* The manager talks to the broker through the bridge, one call at a time, *)
(* and the broker moves on between any two calls.  pc names the call the   *)
(* runner's thread makes next; a call's local results live in seen (the    *)
(* tickets of the get_positions() reply) and todo (the iterations left of  *)
(* the cancelling loop).  A candidate stands for its key (raid_bar,        *)
(* mss_bar), its order ticket and its position ticket, which MT5 and the   *)
(* code take to be the same number.                                        *)
(***************************************************************************)
EXTENDS Naturals

CONSTANTS Candidates,  \* the candidates the day may produce
          None,        \* no winner yet
          MaxFaults    \* bound: failed, lost or lagging bridge calls in a day

ASSUME OrderManagerAssumption ==
    /\ None \notin Candidates
    /\ MaxFaults \in Nat

VARIABLES
    order,       \* the broker's view of each candidate's order
    slot,        \* _pending: insertion rank of a tracked candidate, else 0
    inserted,    \* number of insertions into _pending so far
    winner,      \* _winner_ticket and _winner_position_ticket
    closedInfo,  \* _closed_info is set
    target,      \* a take-profit has been attached to the winner
    fresh,       \* candidates whose trade_candidate_ready is still to come
    pc,          \* the bridge call the thread makes next
    seen,        \* tickets in the last get_positions() reply
    todo,        \* orders the running loop still has to cancel
    faults,      \* bridge calls that failed or lagged so far
    missed       \* history: tickets let go while they were open positions

brokerVars  == <<order>>
managerVars == <<slot, inserted, winner, closedInfo, target>>
threadVars  == <<pc, seen, todo>>
vars == <<order, slot, inserted, winner, closedInfo, target, fresh,
          pc, seen, todo, faults, missed>>

OrderStates == {"none", "inflight", "pending", "position", "closed", "gone"}
Calls == {"idle", "pendingOrders", "cancel", "dup", "dupClose", "attach",
          "history", "dayEnd", "done"}

TypeOK ==
    /\ order \in [Candidates -> OrderStates]
    /\ slot \in [Candidates -> Nat]
    /\ inserted \in Nat
    /\ winner \in Candidates \cup {None}
    /\ closedInfo \in BOOLEAN
    /\ target \in BOOLEAN
    /\ fresh \subseteq Candidates
    /\ pc \in Calls
    /\ seen \subseteq Candidates
    /\ todo \subseteq Candidates
    /\ faults \in 0..MaxFaults
    /\ missed \subseteq Candidates

Init ==
    /\ order = [c \in Candidates |-> "none"]
    /\ slot = [c \in Candidates |-> 0]
    /\ inserted = 0
    /\ winner = None
    /\ closedInfo = FALSE
    /\ target = FALSE
    /\ fresh = Candidates
    /\ pc = "idle"
    /\ seen = {}
    /\ todo = {}
    /\ faults = 0
    /\ missed = {}

-----------------------------------------------------------------------------
(* Helpers *)

Tracked == {c \in Candidates : slot[c] # 0}

\* The tickets a get_positions() reply lists.
OpenPositions == {c \in Candidates : order[c] = "position"}

\* c is the first of S in the insertion order of the _pending dict.
IsFirst(c, S) == c \in S /\ \A d \in S : slot[c] <= slot[d]

\* _pending without the members of S.
Without(S) == [c \in Candidates |-> IF c \in S THEN 0 ELSE slot[c]]

\* A bridge call fails: a network or HTTP error, a timeout, a broker refusal
\* that the order's own state does not explain, or a stale history cache.
Fault == faults < MaxFaults /\ faults' = faults + 1

Moves(c, s) == order' = [order EXCEPT ![c] = s]

-----------------------------------------------------------------------------
(* The broker, the account's owner and the bridge's own worker thread *)

\* The market reaches the limit price.
BrokerFill(c) ==
    /\ order[c] = "pending"
    /\ Moves(c, "position")
    /\ UNCHANGED <<managerVars, threadVars, fresh, faults, missed>>

\* Stop-loss, take-profit, or a close by hand from the terminal or the API.
BrokerClose(c) ==
    /\ order[c] = "position"
    /\ Moves(c, "closed")
    /\ UNCHANGED <<managerVars, threadVars, fresh, faults, missed>>

\* The order is removed by hand or by the broker.
BrokerCancel(c) ==
    /\ order[c] = "pending"
    /\ Moves(c, "gone")
    /\ UNCHANGED <<managerVars, threadVars, fresh, faults, missed>>

\* A placement whose caller has given up: the client waits 10 s and the bridge
\* 15 s, but the queued call still runs on the bridge's single MT5 thread.
BrokerPlaceLate(c) ==
    /\ order[c] = "inflight"
    /\ Moves(c, "pending")
    /\ UNCHANGED <<managerVars, threadVars, fresh, faults, missed>>

-----------------------------------------------------------------------------
(* on_trade_candidate_ready *)

\* The race is decided, or the user or the model is paused: nothing is placed.
SkipCandidate(c) ==
    /\ pc = "idle"
    /\ c \in fresh
    /\ fresh' = fresh \ {c}
    /\ UNCHANGED <<brokerVars, managerVars, threadVars, faults, missed>>

PlaceCandidate(c) ==
    /\ pc = "idle"
    /\ c \in fresh
    /\ winner = None
    /\ fresh' = fresh \ {c}
    /\ Moves(c, "pending")
    /\ inserted' = inserted + 1
    /\ slot' = [slot EXCEPT ![c] = inserted + 1]
    /\ UNCHANGED <<winner, closedInfo, target, threadVars, faults, missed>>

\* place_pending_order() raises: the candidate is not tracked, whether or not
\* the request is still on its way to the broker.
PlaceFails(c) ==
    /\ pc = "idle"
    /\ c \in fresh
    /\ winner = None
    /\ Fault
    /\ fresh' = fresh \ {c}
    /\ order' \in {order, [order EXCEPT ![c] = "inflight"]}
    /\ UNCHANGED <<managerVars, threadVars, missed>>

-----------------------------------------------------------------------------
(* check_for_fills and _on_fill *)

\* Mutant: the fills are looked for once the day's candidates are all in.
ReadPositionsLate ==
    /\ fresh = {}
    /\ pc = "idle"
    /\ winner = None
    /\ Tracked # {}
    /\ seen' = OpenPositions
    /\ pc' = "pendingOrders"
    /\ UNCHANGED <<brokerVars, managerVars, fresh, todo, faults, missed>>

ReadPositions ==
    /\ pc = "idle"
    /\ winner = None
    /\ Tracked # {}
    /\ seen' = OpenPositions
    /\ pc' = "pendingOrders"
    /\ UNCHANGED <<brokerVars, managerVars, fresh, todo, faults, missed>>

\* Either of the two reads fails: try again at the next poll.
ReadFails ==
    /\ \/ pc = "idle" /\ winner = None /\ Tracked # {}
       \/ pc = "pendingOrders"
    /\ Fault
    /\ pc' = "idle"
    /\ seen' = {}
    /\ UNCHANGED <<brokerVars, managerVars, fresh, todo, missed>>

\* The tracked orders that the get_pending_orders() reply no longer lists.
NotPending == {c \in Tracked : order[c] # "pending"}

\* Those of them with a position in the earlier get_positions() reply.
Fills == NotPending \cap seen

\* No vanished order has a matching position: all of them are dropped.
DropVanished ==
    /\ pc = "pendingOrders"
    /\ Fills = {}
    /\ slot' = Without(NotPending)
    /\ missed' = missed \cup (NotPending \cap OpenPositions)
    /\ pc' = "idle"
    /\ seen' = {}
    /\ UNCHANGED <<brokerVars, inserted, winner, closedInfo, target, fresh,
                   todo, faults>>

\* A mutant: no sibling is cancelled.
SiblingsForgotten(w, dropped) == {}

\* The other orders still in _pending when w wins.
Siblings(w, dropped) == Tracked \ (dropped \cup {w})

\* The loop stops at the first fill w, having dropped the vanished orders
\* before it.
DetectFill ==
    /\ pc = "pendingOrders"
    /\ \E w \in Candidates :
        /\ IsFirst(w, Fills)
        /\ LET dropped == {c \in NotPending : slot[c] < slot[w]} IN
            /\ slot' = Without(dropped)
            /\ missed' = missed \cup (dropped \cap OpenPositions)
            /\ todo' = Siblings(w, dropped)
        /\ winner' = w
    /\ pc' = "cancel"
    /\ seen' = {}
    /\ UNCHANGED <<brokerVars, inserted, closedInfo, target, fresh, faults>>

\* The sibling is still pending and the broker removes it.
CancelSibling ==
    /\ pc = "cancel"
    /\ \E c \in Candidates :
        /\ IsFirst(c, todo)
        /\ order[c] = "pending"
        /\ Moves(c, "gone")
        /\ todo' = todo \ {c}
    /\ UNCHANGED <<managerVars, fresh, pc, seen, faults, missed>>

\* The cancel raises: the order is not pending any more, or the call fails,
\* possibly after the broker has removed the order.
CancelSiblingFails ==
    /\ pc = "cancel"
    /\ \E c \in Candidates :
        /\ IsFirst(c, todo)
        /\ \/ order[c] # "pending" /\ UNCHANGED <<order, faults>>
           \/ /\ order[c] = "pending"
              /\ Fault
              /\ order' \in {order, [order EXCEPT ![c] = "gone"]}
    /\ pc' = "dup"
    /\ UNCHANGED <<managerVars, fresh, seen, todo, missed>>

\* Mutant: every failed cancel is logged and left there, as before the fix of
\* the sibling race.
CheckDuplicateNever ==
    /\ pc = "dup"
    /\ \E c \in Candidates : IsFirst(c, todo) /\ todo' = todo \ {c}
    /\ pc' = "cancel"
    /\ UNCHANGED <<brokerVars, managerVars, fresh, seen, faults, missed>>

\* _handle_sibling_cancel_failure(): is the sibling a position by now?
CheckDuplicate ==
    /\ pc = "dup"
    /\ \E c \in Candidates :
        /\ IsFirst(c, todo)
        /\ \/ order[c] = "position" /\ pc' = "dupClose"
              /\ UNCHANGED <<todo, faults>>
           \/ order[c] # "position" /\ pc' = "cancel"
              /\ todo' = todo \ {c} /\ UNCHANGED faults
           \/ Fault /\ pc' = "cancel" /\ todo' = todo \ {c}
    /\ UNCHANGED <<brokerVars, managerVars, fresh, seen, missed>>

\* close_position() on the duplicate; a failure is journaled and left there.
CloseDuplicate ==
    /\ pc = "dupClose"
    /\ \E c \in Candidates :
        /\ IsFirst(c, todo)
        /\ \/ order[c] = "position" /\ Moves(c, "closed") /\ UNCHANGED faults
           \/ order[c] # "position" /\ UNCHANGED <<order, faults>>
           \/ Fault /\ UNCHANGED order
        /\ todo' = todo \ {c}
    /\ pc' = "cancel"
    /\ UNCHANGED <<managerVars, fresh, seen, missed>>

\* Mutant: _pending keeps the cancelled siblings.
FinishFillKeepsSiblings ==
    /\ pc = "cancel"
    /\ todo = {}
    /\ pc' = "attach"
    /\ UNCHANGED <<brokerVars, managerVars, fresh, seen, todo, faults, missed>>

\* _on_fill() ends: only the winner stays in _pending.
FinishFill ==
    /\ pc = "cancel"
    /\ todo = {}
    /\ slot' = Without(Tracked \ {winner})
    /\ pc' = "attach"
    /\ UNCHANGED <<brokerVars, inserted, winner, closedInfo, target, fresh,
                   seen, todo, faults, missed>>

-----------------------------------------------------------------------------
(* attach_target: called once, in the poll that detected the fill *)

AttachTarget ==
    /\ pc = "attach"
    /\ order[winner] = "position"
    /\ target' = TRUE
    /\ pc' = "idle"
    /\ UNCHANGED <<brokerVars, slot, inserted, winner, closedInfo, fresh,
                   seen, todo, faults, missed>>

\* No bars, too few bars, a refused modify, or a position already closed.
AttachFails ==
    /\ pc = "attach"
    /\ \/ order[winner] # "position" /\ UNCHANGED faults
       \/ Fault
    /\ pc' = "idle"
    /\ UNCHANGED <<brokerVars, managerVars, fresh, seen, todo, missed>>

-----------------------------------------------------------------------------
(* check_for_close *)

\* Mutants: the position is not looked up; only a winner with a target is
\* watched.
NoticeCloseUnchecked ==
    /\ pc = "idle"
    /\ winner # None
    /\ ~closedInfo
    /\ pc' = "history"
    /\ UNCHANGED <<brokerVars, managerVars, fresh, seen, todo, faults, missed>>

NoticeCloseOfTargeted ==
    /\ target
    /\ NoticeCloseUnchecked
    /\ order[winner] # "position"

NoticeClose ==
    /\ pc = "idle"
    /\ winner # None
    /\ ~closedInfo
    /\ order[winner] # "position"
    /\ pc' = "history"
    /\ UNCHANGED <<brokerVars, managerVars, fresh, seen, todo, faults, missed>>

RecordClose ==
    /\ pc = "history"
    /\ closedInfo' = TRUE
    /\ pc' = "idle"
    /\ UNCHANGED <<brokerVars, slot, inserted, winner, target, fresh,
                   seen, todo, faults, missed>>

\* The call fails, or the history cache does not list the close yet.
HistoryLags ==
    /\ pc = "history"
    /\ Fault
    /\ pc' = "idle"
    /\ UNCHANGED <<brokerVars, managerVars, fresh, seen, todo, missed>>

-----------------------------------------------------------------------------
(* cancel_all_at_day_end, from _finalize_day *)

BeginDayEnd ==
    /\ pc = "idle"
    /\ todo' = Tracked \ {winner}
    /\ fresh' = {}
    /\ pc' = "dayEnd"
    /\ UNCHANGED <<brokerVars, managerVars, seen, faults, missed>>

DayEndCancel ==
    /\ pc = "dayEnd"
    /\ \E c \in Candidates :
        /\ IsFirst(c, todo)
        /\ \/ /\ order[c] = "pending"
              /\ Moves(c, "gone")
              /\ UNCHANGED <<faults, missed>>
           \/ /\ order[c] # "pending"
              /\ missed' = missed \cup ({c} \cap OpenPositions)
              /\ UNCHANGED <<order, faults>>
           \/ /\ order[c] = "pending"
              /\ Fault
              /\ order' \in {order, [order EXCEPT ![c] = "gone"]}
              /\ UNCHANGED missed
        /\ todo' = todo \ {c}
    /\ UNCHANGED <<managerVars, fresh, pc, seen>>

EndDay ==
    /\ pc = "dayEnd"
    /\ todo = {}
    /\ slot' = Without(Candidates)
    /\ pc' = "done"
    /\ UNCHANGED <<brokerVars, inserted, winner, closedInfo, target, fresh,
                   seen, todo, faults, missed>>

-----------------------------------------------------------------------------

Broker ==
    \E c \in Candidates :
        \/ BrokerFill(c)
        \/ BrokerClose(c)
        \/ BrokerCancel(c)
        \/ BrokerPlaceLate(c)

OnTradeCandidateReady ==
    \E c \in Candidates :
        \/ SkipCandidate(c)
        \/ PlaceCandidate(c)
        \/ PlaceFails(c)

\* What the runner's thread does at every poll, and inside one.
Poll ==
    \/ ReadPositions \/ ReadFails \/ DropVanished \/ DetectFill
    \/ CancelSibling \/ CancelSiblingFails \/ CheckDuplicate
    \/ CloseDuplicate \/ FinishFill
    \/ AttachTarget \/ AttachFails
    \/ NoticeClose \/ RecordClose \/ HistoryLags
    \/ DayEndCancel \/ EndDay

Next == Broker \/ OnTradeCandidateReady \/ Poll \/ BeginDayEnd

Spec == Init /\ [][Next]_vars

(* The poll loop never stops (run_forever catches every exception), so the *)
(* thread always takes its next call.  Nothing is assumed of the broker,   *)
(* of the candidates or of the clock.                                      *)
FairSpec == Spec /\ WF_vars(Poll)

-----------------------------------------------------------------------------
(* Properties *)

\* What get_real_outcome() reports is true at the broker: the winner really
\* filled, and a close is only ever recorded once the position really closed.
OutcomeIsReal ==
    /\ winner # None => order[winner] \in {"position", "closed"}
    /\ closedInfo => winner # None /\ order[winner] = "closed"

\* While every bridge call succeeds, the manager never forgets an order that
\* can still fill: a pending order at the broker is always in _pending.
NoForgottenOrder ==
    faults = 0 => \A c \in Candidates : order[c] = "pending" => c \in Tracked

\* While every bridge call succeeds, an open position is the winner, or is
\* still tracked, or slipped through one of the two windows that missed
\* records: filled between the two reads of check_for_fills(), or filled
\* before cancel_all_at_day_end() reached it.
ExposureAccounted ==
    faults = 0 => OpenPositions \subseteq Tracked \cup {winner} \cup missed

\* attach_target() takes the first entry of _pending to be the winner's; once
\* the fill is handled and until the day ends, it is the only entry.
OnlyWinnerTracked ==
    (winner # None /\ pc \in {"attach", "idle", "history"})
        => Tracked = {winner}

\* No call of the manager ever cancels or closes the winner's own position,
\* whatever failed before: it is the broker that ends it.
WinnerLeftAlone ==
    [][(Poll /\ winner' # None) => order'[winner'] = order[winner']]_vars

\* A tracked order that has filled is dealt with at some later poll: it wins,
\* or is let go (closed as a duplicate, dropped, or left at the day's end).
FillIsSettled ==
    \A c \in Candidates :
        (c \in Tracked /\ order[c] = "position")
            ~> (winner = c \/ c \notin Tracked)

\* A close of the winner's position reaches _closed_info unless the day ends.
CloseIsRecorded ==
    \A c \in Candidates :
        (winner = c /\ order[c] = "closed")
            ~> (closedInfo \/ pc \in {"dayEnd", "done"})

\* check_for_fills() promises that "a missed cycle just gets caught on the next
\* poll": no poll lets go of a tracked order that is an open position.
FilledIsNotDropped ==
    [][Poll => \A c \in Tracked :
         (order[c] = "position" /\ pc = "pendingOrders") => slot'[c] # 0]_vars

\* The runner logs that the take-profit stays unset "until a future poll
\* retries this": an open winner gets its target, or closes, or the day ends.
TargetIsRetried ==
    \A c \in Candidates :
        (winner = c /\ ~target)
            ~> (target \/ order[c] = "closed" \/ pc \in {"dayEnd", "done"})

\* The race implements the abstract promise: nothing but the broker's orders,
\* the winner and the recorded close is visible to the rest of the program.
Outcome == INSTANCE RealOutcome WITH
             Candidates <- Candidates, None <- None,
             order <- order, winner <- winner, closedInfo <- closedInfo
ImplementsRealOutcome == Outcome!Spec

-----------------------------------------------------------------------------
(* The inductive invariant behind the safety properties *)

InFill == {"cancel", "dup", "dupClose"}

\* A tracked order has reached the broker; one still to come has not; the
\* ranks are those of a dict's insertion order.
PendingIsPlaced ==
    /\ \A c \in Tracked : slot[c] <= inserted
    /\ \A c, d \in Tracked : slot[c] = slot[d] => c = d
    /\ \A c \in Tracked :
         order[c] \in {"pending", "position", "closed", "gone"}
    /\ \A c \in fresh : order[c] = "none"

\* What each call knows of the winner and of the tickets it holds.
CallContext ==
    /\ pc = "pendingOrders" => winner = None
    /\ pc \in InFill => winner \in Tracked
    /\ pc \in InFill \cup {"attach", "history"} => winner # None
    /\ pc = "history" => order[winner] = "closed" /\ ~closedInfo
    /\ \A c \in seen : order[c] \in {"position", "closed"}
    /\ todo \subseteq Tracked \ {winner}
    /\ pc \notin InFill \cup {"dayEnd"} => todo = {}

\* A loop leaves a live order behind only by a fault or in a missed window.
HandledSiblings ==
    faults = 0 =>
        /\ \A c \in Candidates : order[c] # "inflight"
        /\ pc \in InFill => \A c \in Tracked \ (todo \cup {winner}) :
                                order[c] \in {"closed", "gone"}
        /\ pc \in {"dup", "dupClose"} => \A c \in Candidates :
                                IsFirst(c, todo) => order[c] # "pending"
        /\ pc = "dayEnd" => \A c \in Tracked \ (todo \cup {winner}) :
                                \/ order[c] \in {"closed", "gone"}
                                \/ order[c] = "position" /\ c \in missed

IndInv ==
    /\ TypeOK
    /\ OutcomeIsReal
    /\ PendingIsPlaced
    /\ CallContext
    /\ HandledSiblings
    /\ NoForgottenOrder
    /\ ExposureAccounted
    /\ OnlyWinnerTracked
=============================================================================
