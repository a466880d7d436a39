----------------------------- MODULE RealOutcome ------------------------------
(***************************************************************************)
(* What one day's order race promises to the rest of the program, without  *)
(* saying how: orders live their life at the broker, at most one candidate *)
(* is ever named the day's real trade, it is named only after its order    *)
(* filled, the choice is final, and its close is reported at most once and *)
(* only after it happened (OrderManager.get_real_outcome).                 *)
(***************************************************************************)
CONSTANTS Candidates, None

VARIABLES order, winner, closedInfo

vars == <<order, winner, closedInfo>>

\* The life of an order at the broker.
Successors(s) ==
    CASE s = "none"     -> {"inflight", "pending"}
      [] s = "inflight" -> {"pending"}
      [] s = "pending"  -> {"position", "gone"}
      [] s = "position" -> {"closed"}
      [] OTHER          -> {}

Init ==
    /\ order = [c \in Candidates |-> "none"]
    /\ winner = None
    /\ closedInfo = FALSE

OrderMoves(c) ==
    /\ \E s \in Successors(order[c]) : order' = [order EXCEPT ![c] = s]
    /\ UNCHANGED <<winner, closedInfo>>

NameWinner(c) ==
    /\ winner = None
    /\ order[c] \in {"position", "closed"}
    /\ winner' = c
    /\ UNCHANGED <<order, closedInfo>>

ReportClose(c) ==
    /\ winner = c
    /\ ~closedInfo
    /\ order[c] = "closed"
    /\ closedInfo' = TRUE
    /\ UNCHANGED <<order, winner>>

Next == \E c \in Candidates : OrderMoves(c) \/ NameWinner(c) \/ ReportClose(c)

Spec == Init /\ [][Next]_vars
=============================================================================
