-------------------------------- MODULE Bridge --------------------------------
(***************************************************************************)
(* The MT5 bridge of one account (bridge/app/main.py, mt5_client.py,       *)
(* config.py) and its HTTP client (shadow_runner/bridge_client.py).        *)
(*                                                                         *)
(* Every mt5 call runs on one worker thread, in the order in which the     *)
(* handlers submit them.  A handler waits 15 s for the result and a client *)
(* 10 s for the handler; neither takes the call back.  What the broker     *)
(* does between two mt5 calls of a handler interleaves with them.          *)
(*                                                                         *)
(* A caller is one model of the account, with its own magic number.        *)
(* Volumes are counted in halves of the opened volume.                     *)
(***************************************************************************)
EXTENDS Naturals, Sequences, FiniteSets

CONSTANTS
  Callers,      \* the models, each with its magic number
  Holder,       \* the model that has a position at the start
  Wants(_),     \* bound: the operations a model asks for
  MaxCalls,     \* bound: calls issued
  MaxTrouble,   \* bound: faults of the terminal, the broker and the process
  None          \* null

ASSUME BridgeAssumption ==
  /\ MaxCalls \in Nat /\ MaxTrouble \in Nat
  /\ Holder \in Callers
  /\ None \notin Nat /\ None \notin {"ok", "error"}

VARIABLES
  calls,        \* the calls issued: [by, op, ticket, state, sent, result, answer, view]
  arrived,      \* history: the calls in the order they reached the bridge
  queue,        \* _EXECUTOR's queue
  worker,       \* what the worker thread runs: [id, step, pos], or Resting
  stuck,        \* its mt5 call does not return
  process,      \* "up", "stopping" or "down"
  enabled,      \* config.orders_enabled of this process
  initialized,  \* _initialized
  terminal,     \* the terminal answers: terminal_info() is not None
  orders,       \* pending orders at the broker: [ticket, magic, sl]
  positions,    \* open positions: [ticket, magic, volume, sl, tp]
  deals,        \* closing deals: [ticket, reason, left]
  trouble       \* counter of the bound

server == <<process, enabled, initialized, terminal, stuck>>
broker == <<orders, positions, deals>>
vars == <<calls, arrived, queue, worker, server, broker, trouble>>

Ids == 1..MaxCalls
Resting == [id |-> 0, step |-> "rest", pos |-> None]
FullVolume == 2
StopLoss == "stop"
Target == "target"

(* The endpoints behind _require_orders_enabled, and the others.           *)
TradingOps == {"market", "pending", "positions", "orders", "modify", "partial",
               "close", "cancel"}
ReadOps == {"positions", "orders", "history", "query"}
TicketOps == {"modify", "partial", "close", "cancel", "history"}
Ops == TradingOps \cup ReadOps
ASSUME WantsAssumption == \A c \in Callers : Wants(c) \subseteq Ops
GatedByDoc(op) == op \in {"market", "close"}
Gated(op) == op \in TradingOps

Op(i) == calls[i].op
Waiting(i) == calls[i].answer = "none"
Ours(set, magic) == {x.ticket : x \in {y \in set : y.magic = magic}}
PositionOf(t) == {p \in positions : p.ticket = t}

----------------------------------------------------------------------------
Init ==
  /\ calls = <<>> /\ arrived = <<>> /\ queue = <<>> /\ worker = Resting
  /\ stuck = FALSE /\ process = "up" /\ enabled \in BOOLEAN
  /\ initialized = TRUE /\ terminal = TRUE
  /\ orders = {} /\ deals = {} /\ trouble = 0
  /\ positions = {[ticket |-> 0, magic |-> Holder, volume |-> FullVolume,
                    sl |-> StopLoss, tp |-> None]}

(* A method of BridgeClient: one request at a time per caller.  Tickets    *)
(* come from the caller's own earlier answers.                             *)
Tickets(c) == {t \in Ours(orders \cup positions, c) \cup {d.ticket : d \in deals} :
                 IF t = 0 THEN c = Holder ELSE calls[t].by = c}
Call(c, op, t) ==
  [by |-> c, op |-> op, ticket |-> t, state |-> "transit", sent |-> 0,
   result |-> None, answer |-> "none", view |-> {}]

Request(c) ==
  /\ Len(calls) < MaxCalls
  /\ \A i \in DOMAIN calls : calls[i].by = c => ~Waiting(i)
  /\ \E op \in Wants(c) : \E t \in IF op \in TicketOps THEN Tickets(c) ELSE {None} :
       calls' = Append(calls, Call(c, op, t))
  /\ UNCHANGED <<arrived, queue, worker, server, broker, trouble>>

(* The result waits for the caller, if it is still there.                  *)
Finished(cs, i, r) ==
  [cs EXCEPT ![i].state = "ended", ![i].result = IF cs[i].answer = "none" THEN r ELSE None]
Answered(i, a) == [calls EXCEPT ![i].answer = a, ![i].result = None]

(* The handler: 403 when trading is switched off, else _run() submits.     *)
Arrive(i) ==
  /\ calls[i].state = "transit" /\ process = "up"
  /\ arrived' = Append(arrived, i)
  /\ IF Gated(Op(i)) /\ ~enabled
     THEN calls' = Finished(calls, i, "error") /\ UNCHANGED queue
     ELSE calls' = [calls EXCEPT ![i].state = "queued"] /\ queue' = Append(queue, i)
  /\ UNCHANGED <<worker, server, broker, trouble>>

(* Nobody listens on the port.                                             *)
Refuse(i) ==
  /\ calls[i].state = "transit" /\ process # "up"
  /\ calls' = Finished(calls, i, "error")
  /\ UNCHANGED <<arrived, queue, worker, server, broker, trouble>>

(* future.result(timeout=15) raises, and the call stays where it is.       *)
HandlerTimeout(i) ==
  /\ Waiting(i) /\ calls[i].state \in {"queued", "running"}
  /\ calls' = Answered(i, "error")
  /\ UNCHANGED <<arrived, queue, worker, server, broker, trouble>>

Respond(i) ==
  /\ Waiting(i) /\ calls[i].result # None
  /\ calls' = Answered(i, calls[i].result)
  /\ UNCHANGED <<arrived, queue, worker, server, broker, trouble>>

(* requests' timeout of 10 s.                                              *)
GiveUp(i) ==
  /\ Waiting(i)
  /\ calls' = Answered(i, "gave_up")
  /\ UNCHANGED <<arrived, queue, worker, server, broker, trouble>>

----------------------------------------------------------------------------
(* The worker thread.  A _do_ function begins with _ensure_connected() and *)
(* its look at the account, which is one step here; order_send() and the   *)
(* look after it are further steps.                                        *)

Running(step) == ~stuck /\ worker.step = step
IdleInitialized == process # "down" /\ worker = Resting /\ queue # <<>> /\ initialized
Idle == process # "down" /\ worker = Resting /\ queue # <<>>

(* Calls leave the queue at its front.                                     *)
FrontLast == Len(queue)
Front == 1
NextCall == queue[Front]
RestKept == queue
Rest == [k \in 1..(Len(queue) - 1) |-> queue[IF k < Front THEN k ELSE k + 1]]

(* _ensure_connected(): nothing to do, or initialize() once more.          *)
Connect == terminal' = TRUE /\ initialized' = TRUE
Connected == initialized /\ terminal
ReconnectFails ==
  /\ Idle /\ ~Connected
  /\ initialized' = FALSE
  /\ queue' = Rest /\ calls' = Finished(calls, NextCall, "error")
  /\ UNCHANGED <<arrived, worker, process, enabled, terminal, stuck, broker, trouble>>

(* What a read answers: tickets with the caller's magic number, or whether *)
(* the history of a ticket has a closing deal.                             *)
HasClosingDeal(t) == \E d \in deals : d.ticket = t
View(call) ==
  CASE call.op = "positions" -> Ours(positions, call.by)
    [] call.op = "orders" -> Ours(orders, call.by)
    [] call.op = "history" -> IF HasClosingDeal(call.ticket) THEN {call.ticket} ELSE {}
    [] OTHER -> {}
Read ==
  /\ Idle /\ Op(NextCall) \in ReadOps
  /\ Connect
  /\ queue' = Rest
  /\ calls' = [Finished(calls, NextCall, "ok") EXCEPT
                 ![NextCall].sent = 1, ![NextCall].view = View(calls[NextCall])]
  /\ UNCHANGED <<arrived, worker, process, enabled, stuck, broker, trouble>>

(* The look before the order: positions_get(ticket) and the tick.          *)
NeedsPosition(op) == op \in {"modify", "partial", "close"}
PartialAllowedWhole(pos) == 1 <= pos.volume
PartialAllowed(pos) == 1 < pos.volume
Permitted(call, found) ==
  NeedsPosition(call.op) =>
    found # {} /\ (call.op = "partial" => \A pos \in found : PartialAllowed(pos))
Look ==
  /\ Idle /\ Op(NextCall) \notin ReadOps
  /\ Connect
  /\ queue' = Rest
  /\ LET i == NextCall
         found == PositionOf(calls[i].ticket)
     IN  IF Permitted(calls[i], found)
         THEN /\ worker' = [id |-> i, step |-> "send",
                            pos |-> IF found = {} THEN None ELSE CHOOSE p \in found : TRUE]
              /\ calls' = [calls EXCEPT ![i].state = "running"]
         ELSE calls' = Finished(calls, i, "error") /\ UNCHANGED worker
  /\ UNCHANGED <<arrived, process, enabled, stuck, broker, trouble>>

----------------------------------------------------------------------------
(* order_send().  The request is built from the call and from the position *)
(* that was looked up; the broker carries it out or refuses it.            *)

PendingRequest(i) == [ticket |-> i, magic |-> calls[i].by, sl |-> StopLoss]
MarketRequest(i) ==
  [ticket |-> i, magic |-> calls[i].by, volume |-> FullVolume, sl |-> StopLoss, tp |-> Target]
ModifyRequestBare(pos) == [sl |-> None, tp |-> Target]
ModifyRequest(pos) == [sl |-> pos.sl, tp |-> Target]
CloseRequest(pos) == [volume |-> pos.volume, reason |-> "close"]
PartialRequest(pos) == [volume |-> 1, reason |-> "partial"]

DealFor(t, req) ==
  LET p == CHOOSE q \in PositionOf(t) : TRUE
      left == IF req.volume >= p.volume THEN 0 ELSE p.volume - req.volume
  IN  /\ PositionOf(t) # {}
      /\ deals' = deals \cup {[ticket |-> t, reason |-> req.reason, left |-> left]}
      /\ positions' = (positions \ {p})
                      \cup IF left = 0 THEN {} ELSE {[p EXCEPT !.volume = left]}
      /\ UNCHANGED orders

Execute(i) ==
  LET op == Op(i)
      t == calls[i].ticket
      pos == worker.pos
  IN  CASE op = "pending" ->
             orders' = orders \cup {PendingRequest(i)} /\ UNCHANGED <<positions, deals>>
        [] op = "market" ->
             positions' = positions \cup {MarketRequest(i)} /\ UNCHANGED <<orders, deals>>
        [] op = "cancel" ->
             /\ t \in {o.ticket : o \in orders}
             /\ orders' = {o \in orders : o.ticket # t} /\ UNCHANGED <<positions, deals>>
        [] op = "modify" ->
             LET req == ModifyRequest(pos)
             IN  /\ PositionOf(t) # {}
                 /\ positions' = (positions \ PositionOf(t))
                      \cup {[p EXCEPT !.sl = req.sl, !.tp = req.tp] : p \in PositionOf(t)}
                 /\ UNCHANGED <<orders, deals>>
        [] op = "close" -> DealFor(t, CloseRequest(pos))
        [] op = "partial" -> DealFor(t, PartialRequest(pos))

(* TRADE_RETCODE_DONE.  A market order looks its position up once more.    *)
Send ==
  /\ Running("send") /\ terminal
  /\ Execute(worker.id)
  /\ LET sent == [calls EXCEPT ![worker.id].sent = @ + 1]
     IN  IF Op(worker.id) = "market"
         THEN calls' = sent /\ worker' = [worker EXCEPT !.step = "lookup"]
         ELSE calls' = Finished(sent, worker.id, "ok") /\ worker' = Resting
  /\ UNCHANGED <<arrived, queue, server, trouble>>

(* positions_get(ticket) after the fill; without a position the response   *)
(* is marked as an estimate, and the call succeeds all the same.           *)
Lookup ==
  /\ Running("lookup")
  /\ calls' = Finished([calls EXCEPT ![worker.id].view =
                          {p.ticket : p \in {q \in PositionOf(worker.id) : terminal}}],
                       worker.id, "ok")
  /\ worker' = Resting
  /\ UNCHANGED <<arrived, queue, server, broker, trouble>>

(* Another retcode, or no result: nothing was done.                        *)
SendRefused ==
  /\ Running("send")
  /\ calls' = Finished(calls, worker.id, "error") /\ worker' = Resting
  /\ UNCHANGED <<arrived, queue, server, broker, trouble>>

(* The broker did it, and the result is lost or has another retcode        *)
(* (a partly filled order): the same MT5Error.                             *)
SendUnsure ==
  /\ Running("send") /\ terminal /\ trouble < MaxTrouble
  /\ Execute(worker.id)
  /\ calls' = Finished([calls EXCEPT ![worker.id].sent = @ + 1], worker.id, "error")
  /\ worker' = Resting /\ trouble' = trouble + 1
  /\ UNCHANGED <<arrived, queue, server>>

----------------------------------------------------------------------------
(* The broker, the terminal and the process.                               *)

Fill ==
  /\ \E o \in orders :
       /\ orders' = orders \ {o}
       /\ positions' = positions \cup
            {[ticket |-> o.ticket, magic |-> o.magic, volume |-> FullVolume, sl |-> o.sl, tp |-> None]}
  /\ UNCHANGED <<calls, arrived, queue, worker, server, deals, trouble>>

StopOrTargetHit ==
  /\ \E p \in positions :
       /\ positions' = positions \ {p}
       /\ deals' = deals \cup {[ticket |-> p.ticket, reason |-> "broker", left |-> 0]}
  /\ UNCHANGED <<calls, arrived, queue, worker, server, orders, trouble>>

TerminalGone ==
  /\ terminal /\ trouble < MaxTrouble
  /\ terminal' = FALSE /\ trouble' = trouble + 1
  /\ UNCHANGED <<calls, arrived, queue, worker, process, enabled, initialized, stuck, broker>>

(* An mt5 call that does not return.                                       *)
Hang ==
  /\ ~stuck /\ trouble < MaxTrouble
  /\ \/ worker # Resting /\ UNCHANGED <<calls, queue, worker>>
     \/ /\ Idle
        /\ worker' = [id |-> NextCall, step |-> "look", pos |-> None]
        /\ queue' = Rest /\ calls' = [calls EXCEPT ![NextCall].state = "running"]
  /\ stuck' = TRUE /\ trouble' = trouble + 1
  /\ UNCHANGED <<arrived, process, enabled, initialized, terminal, broker>>

(* The process ends and the calls it held end with it: handlers and queue  *)
(* are gone, the clients see a broken connection.                          *)
Held == {i \in DOMAIN calls : calls[i].state \in {"queued", "running"}}
Crash ==
  /\ process # "down" /\ trouble < MaxTrouble
  /\ process' = "down" /\ trouble' = trouble + 1
  /\ calls' = [i \in DOMAIN calls |-> IF i \in Held THEN Finished(calls, i, "error")[i] ELSE calls[i]]
  /\ queue' = <<>> /\ worker' = Resting /\ stuck' = FALSE /\ initialized' = FALSE
  /\ UNCHANGED <<arrived, enabled, terminal, broker>>

(* An orderly stop accepts no more calls; shutdown() is queued behind the  *)
(* calls that are there.                                                   *)
Stop ==
  /\ process = "up" /\ trouble < MaxTrouble
  /\ process' = "stopping" /\ trouble' = trouble + 1
  /\ UNCHANGED <<calls, arrived, queue, worker, enabled, initialized, terminal, stuck, broker>>
Shutdown ==
  /\ process = "stopping" /\ queue = <<>> /\ worker = Resting
  /\ process' = "down" /\ initialized' = FALSE
  /\ UNCHANGED <<calls, arrived, queue, worker, enabled, terminal, stuck, broker, trouble>>

(* startup(): config.json is read again, and the one connection is made.   *)
(* If that fails the process exits and the service manager tries again.    *)
Startup ==
  /\ process = "down"
  /\ process' = "up" /\ enabled' \in BOOLEAN
  /\ initialized' = TRUE /\ terminal' = TRUE
  /\ UNCHANGED <<calls, arrived, queue, worker, stuck, broker, trouble>>

WorkerStep == ReconnectFails \/ Read \/ Look \/ Send \/ Lookup \/ SendRefused

Next ==
  \/ \E c \in Callers : Request(c)
  \/ \E i \in DOMAIN calls :
       Arrive(i) \/ Refuse(i) \/ HandlerTimeout(i) \/ Respond(i) \/ GiveUp(i)
  \/ WorkerStep \/ SendUnsure
  \/ Fill \/ StopOrTargetHit \/ TerminalGone \/ Hang \/ Crash \/ Stop \/ Shutdown \/ Startup

(* The worker thread takes calls as long as there are any.                 *)
Fairness == WF_vars(WorkerStep)

Spec == Init /\ [][Next]_vars
FairSpec == Spec /\ Fairness

----------------------------------------------------------------------------
(* Properties.                                                             *)

CallRecord ==
  [by: Callers, op: Ops, ticket: Nat \cup {None},
   state: {"transit", "queued", "running", "ended"}, sent: Nat,
   result: {None, "ok", "error"}, answer: {"none", "ok", "error", "gave_up"},
   view: SUBSET Nat]
OrderRecord == [ticket: Nat, magic: Callers, sl: {StopLoss, None}]
PositionRecord ==
  [ticket: Nat, magic: Callers, volume: Nat, sl: {StopLoss, None}, tp: {Target, None}]

TypeOK ==
  /\ calls \in Seq(CallRecord) /\ Len(calls) <= MaxCalls
  /\ arrived \in Seq(DOMAIN calls) /\ queue \in Seq(DOMAIN calls)
  /\ worker \in [id: {0} \cup DOMAIN calls, step: {"rest", "look", "send", "lookup"},
                  pos: PositionRecord \cup {None}]
  /\ stuck \in BOOLEAN /\ enabled \in BOOLEAN /\ initialized \in BOOLEAN /\ terminal \in BOOLEAN
  /\ process \in {"up", "stopping", "down"} /\ trouble \in 0..MaxTrouble
  /\ orders \subseteq OrderRecord /\ positions \subseteq PositionRecord
  /\ deals \subseteq [ticket: Nat, reason: {"close", "partial", "broker"}, left: Nat]

(* How a call stands, as its caller is entitled to see it.                 *)
Effect(i) ==
  IF i \notin DOMAIN calls THEN "idle"
  ELSE LET s == calls[i].sent
       IN  CASE s = 0 /\ calls[i].state # "ended" -> "open"
             [] s = 0 /\ calls[i].state = "ended" -> "never"
             [] s = 1 -> "done"
             [] OTHER -> "repeated"
Promise == INSTANCE RemoteCall
  WITH effect <- [i \in Ids |-> Effect(i)],
       answer <- [i \in Ids |-> IF i \in DOMAIN calls THEN calls[i].answer ELSE "none"]

(* The bridge keeps the promise of a remote call through timeouts,         *)
(* reconnects, hangs, crashes and orderly stops: no call is carried out    *)
(* twice, none is answered with success before it was carried out, and     *)
(* none comes back from a process that ended.                              *)
ImplementsRemoteCall == Promise!Spec

(* A list of pending orders settles the past: an order that its caller     *)
(* placed before, whose request reached the bridge before the list's, is   *)
(* in the list if it is still pending, even when the placing call had been *)
(* given up.  It rests on the one worker and the order of its queue.       *)
Pending == {o.ticket : o \in orders}
At(i) == CHOOSE k \in DOMAIN arrived : arrived[k] = i
ListShowsOrders ==
  \A r, p \in DOMAIN calls :
    /\ Op(r) = "orders" /\ calls[r].sent = 1
    /\ calls[p].by = calls[r].by /\ p < r
    /\ p \in Pending /\ At(p) < At(r)
    => p \in calls[r].view

(* A position has the stop its order was placed with, from the fill through*)
(* partial closes and the setting of the target: modify_position() sends   *)
(* the stop it read back with the new target.                              *)
StopIsKept ==
  /\ \A o \in orders : o.sl = StopLoss
  /\ \A p \in positions : p.sl = StopLoss

(* A position goes only by its stop, its target or a full close: partial   *)
(* closes, repeated after timeouts, never close it (the volume is compared *)
(* on the worker thread, with the volume of that moment).                  *)
PartialNeverCloses == \A d \in deals : d.left = 0 => d.reason # "partial"

(* The kill switch: a process whose orders_enabled is off sends the broker *)
(* nothing, whatever an earlier process had accepted.                      *)
KillSwitchHolds ==
  [][\A i \in DOMAIN calls :
       calls'[i].sent # calls[i].sent /\ Op(i) \in TradingOps => enabled]_vars

(* A call that was accepted is carried out or ends with its process, unless*)
(* the worker hangs.                                                       *)
Stands(i, state) == i \in DOMAIN calls /\ calls[i].state = state
AcceptedIsWorkedOff ==
  \A i \in Ids : Stands(i, "queued") ~> (stuck \/ Stands(i, "ended"))

----------------------------------------------------------------------------
(* The inductive invariant behind these properties, part by part.          *)

(* A call's state says where it is: in the queue, on the worker, nowhere.  *)
(* A process that is down holds no call.                                   *)
CallsAreHeld ==
  /\ \A i \in DOMAIN calls :
       /\ calls[i].state = "queued" <=> \E k \in DOMAIN queue : queue[k] = i
       /\ calls[i].state = "running" <=> worker.id = i
  /\ worker.id = 0 <=> worker = Resting
  /\ worker.step = "rest" <=> worker = Resting
  /\ process = "down" => queue = <<>> /\ worker = Resting

(* What reached the broker, and what the caller is told of it.             *)
SentOnce ==
  \A i \in DOMAIN calls :
    /\ calls[i].sent \in {0, 1}
    /\ calls[i].state \in {"transit", "queued"} => calls[i].sent = 0
    /\ worker.id = i => calls[i].sent = IF worker.step = "lookup" THEN 1 ELSE 0
    /\ "ok" \in {calls[i].result, calls[i].answer} => calls[i].sent = 1

(* The worker and the queue only hold what the switch allows.              *)
HeldIsAllowed ==
  \A i \in DOMAIN calls :
    calls[i].state \in {"queued", "running"} /\ Gated(Op(i)) => enabled

(* The call that is about to be sent, and the position it was built from.  *)
LookedUp ==
  /\ worker.step = "send" =>
       /\ Op(worker.id) \notin ReadOps
       /\ NeedsPosition(Op(worker.id)) =>
            worker.pos \in PositionRecord /\ worker.pos.sl = StopLoss
       /\ Op(worker.id) = "partial" =>
            \A p \in PositionOf(calls[worker.id].ticket) : p.volume > 1
  /\ worker.step = "lookup" => Op(worker.id) = "market"

(* A call arrives once; what is queued, runs or was sent has arrived, and  *)
(* the queue is in the order of arrival.                                   *)
ArrivedOnce ==
  /\ \A j, k \in DOMAIN arrived : arrived[j] = arrived[k] => j = k
  /\ \A k \in DOMAIN arrived : calls[arrived[k]].state # "transit"
  /\ \A i \in DOMAIN calls :
       calls[i].state \in {"queued", "running"} \/ calls[i].sent = 1
         => \E k \in DOMAIN arrived : arrived[k] = i
  /\ \A m, n \in DOMAIN queue : \A j, k \in DOMAIN arrived :
       m < n /\ arrived[j] = queue[m] /\ arrived[k] = queue[n] => j < k

(* The worker takes the calls in the order of arrival.                     *)
WorkedInOrder ==
  \A j, k \in DOMAIN arrived :
    j < k /\ (calls[arrived[k]].state = "running" \/ calls[arrived[k]].sent = 1)
      => calls[arrived[j]].state = "ended"

(* A pending order is that of a call that was sent; a list has those that  *)
(* arrived before it.                                                      *)
OrdersOfCalls ==
  /\ \A o \in orders :
       /\ o.ticket \in DOMAIN calls
       /\ calls[o.ticket].sent = 1 /\ calls[o.ticket].by = o.magic
  /\ \A j, k \in DOMAIN arrived :
       LET p == arrived[j]  r == arrived[k]
       IN  j < k /\ Op(r) = "orders" /\ calls[r].sent = 1
             /\ calls[p].by = calls[r].by /\ p \in Pending => p \in calls[r].view

IndInv ==
  /\ TypeOK
  /\ CallsAreHeld
  /\ SentOnce
  /\ HeldIsAllowed
  /\ LookedUp
  /\ ArrivedOnce
  /\ WorkedInOrder
  /\ OrdersOfCalls
  /\ StopIsKept
  /\ PartialNeverCloses

(* What the docstring of GET /history/position says: is_closed is false if *)
(* the position is still open.                                             *)
HistoryFollowsPosition ==
  \A r \in DOMAIN calls :
    Op(r) = "history" /\ calls[r].view # {} => PositionOf(calls[r].ticket) = {}
=============================================================================
